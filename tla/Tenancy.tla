------------------------------- MODULE Tenancy --------------------------------
(***************************************************************************)
(* Clients and mandates of many firms in two tables.  A request is served  *)
(* under the scope current_scope made of it and in a transaction of its    *)
(* own, which begins with the read of the user's row; created_at is the    *)
(* time it began.  Both repositories commit what they insert.              *)
(*                                                                         *)
(* A row's id is the number of the request that made it.  Client names are *)
(* numbers, in their order; how a name may be given, with blanks around    *)
(* it, is what Strip undoes.  A search term is the set of the names it is  *)
(* part of.  Kind, purpose and dates are kept as they are given and left   *)
(* out.  current_scope grants a client's user no mandate.                  *)
(*                                                                         *)
(* IsClientOfAnyone is IsClient with a plausible slip in it, for the       *)
(* checks to show that the property notices; no action uses it.            *)
(***************************************************************************)
EXTENDS Naturals, FiniteSets

CONSTANTS
    Firms,
    Scopes,         \* who may ask: a firm, a role
    GivenNames, Strip,
    Terms,          \* search terms; Absent is no term
    Ids,            \* what is given for an id, 0 one that is malformed or nobody's
    Details,        \* the dates and the valuer a mandate is asked with
    Staff,          \* the users there are, of any firm
    FirstClients,   \* the clients from before
    ListLimit, SearchLimit,
    Slots,          \* bound: requests in progress at a time
    MaxClock,       \* bound: requests, the ones that made FirstClients included
    Absent

(* A client from before has the number of the request that made it, and a  *)
(* name its firm gave no other.                                            *)
ASSUME FirstClientsAssumption ==
    /\ IsFiniteSet(DOMAIN FirstClients)
    /\ DOMAIN FirstClients = 1 .. Cardinality(DOMAIN FirstClients)
    /\ \A c \in DOMAIN FirstClients : FirstClients[c].name \in Nat
    /\ \A c, d \in DOMAIN FirstClients :
          FirstClients[c].firm = FirstClients[d].firm /\ FirstClients[c].name = FirstClients[d].name
             => c = d
ASSUME StripAssumption == \A name \in GivenNames : Strip[name] \in Nat
ASSUME LimitsAssumption == ListLimit \in Nat /\ SearchLimit \in Nat
ASSUME StaffAssumption == 0 \notin Staff

VARIABLES
    clients,        \* id -> firm, name
    mandates,       \* id -> firm, client, valuer, at
    desk,           \* per slot, the request being served, or Absent
    clock           \* requests begun so far

tenancyVars == <<clients, mandates, desk, clock>>

TenancyInit ==
    /\ clients = FirstClients
    /\ mandates = << >>
    /\ desk = [s \in Slots |-> Absent]
    /\ clock = Cardinality(DOMAIN FirstClients)

-------------------------------------------------------------------------------
DeskRequests ==
    [by : Scopes, does : {"create client"}, name : GivenNames]
    \union [by : Scopes, does : {"list clients"}, term : Terms]
    \union [by : Scopes, does : {"create mandate"}, client : Ids, with : Details]
    \union [by : Scopes, does : {"get mandate"}, on : Ids]
    \union [by : Scopes, does : {"list mandates"}]

(* What a slot holds: the request being served, when it began, how far it  *)
(* is, and its answer; to the one who asks, how far it is does not show.   *)
Served == [request : DeskRequests, at : Nat, step : {"begun", "found", "answered"},
           code : Nat \union {Absent}, rows : SUBSET Nat]
Seen == [request : DeskRequests, at : Nat, code : Nat \union {Absent}, rows : SUBSET Nat]

ASSUME AbsentAssumption == Absent \notin Nat \union Served \union Seen

Begin(s, request) ==
    /\ desk[s] = Absent /\ clock < MaxClock
    /\ clock' = clock + 1
    /\ desk' = [desk EXCEPT ![s] = [request |-> request, at |-> clock', step |-> "begun",
                                    code |-> Absent, rows |-> {}]]
    /\ UNCHANGED <<clients, mandates>>

Is(s, does, step) ==
    desk[s] # Absent /\ desk[s].request.does = does /\ desk[s].step = step

Answer(s, code, rows) ==
    /\ desk' = [desk EXCEPT ![s] = [@ EXCEPT !.step = "answered", !.code = code, !.rows = rows]]
    /\ UNCHANGED clock

Added(table, id, row) ==
    [x \in DOMAIN table \union {id} |-> IF x = id THEN row ELSE table[x]]

Scope(s) == desk[s].request.by
MayEdit(s) == Scope(s).role \in {"partner", "valuer", "analyst"}

-------------------------------------------------------------------------------
(***************************************************************************)
(* clientRepository: each query is through the scope's firm, and the       *)
(* unique constraint is on firm and name.                                  *)
(***************************************************************************)
ClientsOf(firm) == {c \in DOMAIN clients : clients[c].firm = firm}

IsClientOfAnyone(s, id) == id \in DOMAIN clients
IsClient(s, id) == id \in ClientsOf(Scope(s).firm)

Taken(s, name) == \E c \in ClientsOf(Scope(s).firm) : clients[c].name = name

CreateClient(s) ==
    LET new == [firm |-> Scope(s).firm, name |-> Strip[desk[s].request.name]] IN
    /\ Is(s, "create client", "begun")
    /\ \/ ~MayEdit(s) /\ Answer(s, 403, {}) /\ UNCHANGED clients
       \/ MayEdit(s) /\ Taken(s, new.name) /\ Answer(s, 500, {}) /\ UNCHANGED clients
       \/ /\ MayEdit(s) /\ ~Taken(s, new.name) /\ Answer(s, 201, {desk[s].at})
          /\ clients' = Added(clients, desk[s].at, new)
    /\ UNCHANGED mandates

(* The first rows in the order of their names.                             *)
FirstByName(rows, limit) ==
    {x \in rows : Cardinality({y \in rows : clients[y].name < clients[x].name}) < limit}

AllClients(s) == FirstByName(ClientsOf(Scope(s).firm), ListLimit)

SearchClients(s, term) ==
    FirstByName({c \in ClientsOf(Scope(s).firm) : clients[c].name \in term}, SearchLimit)

ListClients(s) ==
    LET term == desk[s].request.term IN
    /\ Is(s, "list clients", "begun")
    /\ \/ term = Absent /\ Answer(s, 200, AllClients(s))
       \/ term # Absent /\ Answer(s, 200, SearchClients(s, term))
    /\ UNCHANGED <<clients, mandates>>

-------------------------------------------------------------------------------
(***************************************************************************)
(* A mandate is created in two queries: its client is looked up through    *)
(* the scope, then the row is written.  The dates and the valuer's id are  *)
(* read in between, and a valuer who is no user fails the foreign key.     *)
(***************************************************************************)
FindClient(s) ==
    LET request == desk[s].request IN
    /\ Is(s, "create mandate", "begun")
    /\ \/ ~MayEdit(s) /\ Answer(s, 403, {})
       \/ MayEdit(s) /\ ~IsClient(s, request.client) /\ Answer(s, 404, {})
       \/ /\ MayEdit(s) /\ IsClient(s, request.client)
          /\ \/ request.with.dates = "other" /\ Answer(s, 422, {})
             \/ request.with.dates = "iso" /\ request.with.valuer = 0 /\ Answer(s, 404, {})
             \/ /\ request.with.dates = "iso" /\ request.with.valuer # 0
                /\ desk' = [desk EXCEPT ![s].step = "found"]
                /\ UNCHANGED clock
    /\ UNCHANGED <<clients, mandates>>

InsertMandate(s) ==
    LET request == desk[s].request
        new == [firm |-> Scope(s).firm, client |-> request.client,
                valuer |-> request.with.valuer, at |-> desk[s].at]
    IN
    /\ Is(s, "create mandate", "found")
    /\ \/ /\ request.with.valuer \notin Staff \union {Absent}
          /\ Answer(s, 500, {}) /\ UNCHANGED mandates
       \/ /\ request.with.valuer \in Staff \union {Absent}
          /\ Answer(s, 201, {desk[s].at})
          /\ mandates' = Added(mandates, desk[s].at, new)
    /\ UNCHANGED clients

(* _visible: the scope's firm, and of its mandates a client's user is      *)
(* shown the ones granted to it.                                           *)
Granted == {}
Visible(s) ==
    {m \in DOMAIN mandates :
        /\ mandates[m].firm = Scope(s).firm
        /\ Scope(s).role = "client" => m \in Granted}

GetMandate(s) ==
    LET m == desk[s].request.on IN
    /\ Is(s, "get mandate", "begun")
    /\ \/ m \in Visible(s) /\ Answer(s, 200, {m})
       \/ m \notin Visible(s) /\ Answer(s, 404, {})
    /\ UNCHANGED <<clients, mandates>>

Newest(rows, limit) ==
    {x \in rows : Cardinality({y \in rows : mandates[y].at > mandates[x].at}) < limit}

ListMandates(s) ==
    /\ Is(s, "list mandates", "begun")
    /\ Answer(s, 200, Newest(Visible(s), ListLimit))
    /\ UNCHANGED <<clients, mandates>>

CloseDesk(s) ==
    /\ desk[s] # Absent /\ desk[s].step = "answered"
    /\ desk' = [desk EXCEPT ![s] = Absent]
    /\ UNCHANGED <<clients, mandates, clock>>

TenancyNext ==
    \E s \in Slots :
        \/ \E request \in DeskRequests : Begin(s, request)
        \/ CreateClient(s) \/ ListClients(s) \/ FindClient(s) \/ InsertMandate(s)
        \/ GetMandate(s) \/ ListMandates(s) \/ CloseDesk(s)

TenancySpec == TenancyInit /\ [][TenancyNext]_tenancyVars

-------------------------------------------------------------------------------
(***************************************************************************)
(* What the service is to one firm.                                        *)
(***************************************************************************)
MandatesOf(firm) == {m \in DOMAIN mandates : mandates[m].firm = firm}

ClientNames(firm) == [c \in ClientsOf(firm) |-> clients[c].name]
MandateRows(firm) ==
    [m \in MandatesOf(firm) |->
        [client |-> mandates[m].client, valuer |-> mandates[m].valuer, at |-> mandates[m].at]]

SeenBy(firm, served) ==
    IF served # Absent /\ served.request.by.firm = firm
    THEN [request |-> served.request, at |-> served.at, code |-> served.code,
          rows |-> served.rows]
    ELSE Absent
DeskOf(firm) == [s \in Slots |-> SeenBy(firm, desk[s])]

Alone(firm) == INSTANCE Office WITH
    Requests <- {r \in DeskRequests : r.by.firm = firm},
    Users <- Staff,
    clients <- ClientNames(firm),
    mandates <- MandateRows(firm),
    desk <- DeskOf(firm)

(***************************************************************************)
(* "Firm A cannot reach firm B's data by any route": each firm is answered *)
(* as if it had the service to itself.  Whatever the others do meanwhile,  *)
(* nothing of theirs is read, found by its id, instructed, in the way of a *)
(* name, or takes a place on a list.                                       *)
(***************************************************************************)
EachFirmAlone ==
    /\ \A firm \in Firms : Alone(firm)!OfficeInit
    /\ [][\A firm \in Firms : [Alone(firm)!OfficeNext]_(Alone(firm)!officeVars)]_tenancyVars
===============================================================================
