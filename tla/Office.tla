-------------------------------- MODULE Office --------------------------------
(***************************************************************************)
(* A firm that has the clients' and mandates' service to itself: what it   *)
(* is answered, in one step per request, from the clients and mandates it  *)
(* opened.  It may have clients from before.  Time passes; nothing else    *)
(* happens here that is not its own.                                       *)
(***************************************************************************)
EXTENDS Naturals, FiniteSets

CONSTANTS
    Slots, Requests,
    Strip,          \* a client's name as it is kept, for each as it is given
    Users,          \* whom a mandate may name as its valuer
    ListLimit, SearchLimit,
    Absent

VARIABLES
    clients,        \* id -> name
    mandates,       \* id -> client, valuer, when it was opened
    desk,           \* per slot, the request being answered, or Absent
    clock

officeVars == <<clients, mandates, desk, clock>>

Pending(s, does) ==
    desk[s] # Absent /\ desk[s].code = Absent /\ desk[s].request.does = does

Answer(s, code, rows) ==
    /\ desk' = [desk EXCEPT ![s] = [@ EXCEPT !.code = code, !.rows = rows]]
    /\ UNCHANGED clock

MayEdit(s) == desk[s].request.by.role \in {"partner", "valuer", "analyst"}

(* The first rows of a set, whole or up to a limit.                        *)
IsFirst(listed, rows, limit, before) ==
    /\ listed \subseteq rows
    /\ Cardinality(listed) <= limit
    /\ listed = rows \/ Cardinality(listed) = limit
    /\ listed \X (rows \ listed) \subseteq before

Added(table, id, row) ==
    [x \in DOMAIN table \union {id} |-> IF x = id THEN row ELSE table[x]]

Begin(s, request) ==
    /\ desk[s] = Absent
    /\ clock' = clock + 1
    /\ desk' = [desk EXCEPT ![s] = [request |-> request, at |-> clock', code |-> Absent,
                                    rows |-> {}]]
    /\ UNCHANGED <<clients, mandates>>

CreateClient(s) ==
    LET id == desk[s].at
        name == Strip[desk[s].request.name]
        taken == \E c \in DOMAIN clients : clients[c] = name
    IN
    /\ Pending(s, "create client")
    /\ \/ ~MayEdit(s) /\ Answer(s, 403, {}) /\ UNCHANGED clients
       \/ MayEdit(s) /\ taken /\ Answer(s, 500, {}) /\ UNCHANGED clients
       \/ /\ MayEdit(s) /\ ~taken /\ Answer(s, 201, {id})
          /\ clients' = Added(clients, id, name)
    /\ UNCHANGED mandates

CreateMandate(s) ==
    LET id == desk[s].at
        request == desk[s].request
        new == [client |-> request.client, valuer |-> request.with.valuer, at |-> desk[s].at]
        isClient == request.client \in DOMAIN clients
        fits == request.with.dates = "iso" /\ request.with.valuer \in Users \union {Absent}
    IN
    /\ Pending(s, "create mandate")
    /\ \/ ~MayEdit(s) /\ Answer(s, 403, {}) /\ UNCHANGED mandates
       \/ MayEdit(s) /\ ~isClient /\ Answer(s, 404, {}) /\ UNCHANGED mandates
       \/ /\ MayEdit(s) /\ isClient /\ ~fits
          /\ \E code \in {404, 422, 500} : Answer(s, code, {})
          /\ UNCHANGED mandates
       \/ /\ MayEdit(s) /\ isClient /\ fits /\ Answer(s, 201, {id})
          /\ mandates' = Added(mandates, id, new)
    /\ UNCHANGED clients

(* A client's own user is shown no mandate: none was granted to it.        *)
Shown(s) == IF desk[s].request.by.role = "client" THEN {} ELSE DOMAIN mandates

GetMandate(s) ==
    LET m == desk[s].request.on IN
    /\ Pending(s, "get mandate")
    /\ IF m \in Shown(s) THEN Answer(s, 200, {m}) ELSE Answer(s, 404, {})
    /\ UNCHANGED <<clients, mandates>>

ListMandates(s) ==
    LET newer == {p \in Shown(s) \X Shown(s) : mandates[p[1]].at > mandates[p[2]].at} IN
    /\ Pending(s, "list mandates")
    /\ \E listed \in SUBSET Shown(s) :
         IsFirst(listed, Shown(s), ListLimit, newer) /\ Answer(s, 200, listed)
    /\ UNCHANGED <<clients, mandates>>

ListClients(s) ==
    LET term == desk[s].request.term
        matching == {c \in DOMAIN clients : term = Absent \/ clients[c] \in term}
        byName == {p \in matching \X matching : clients[p[1]] < clients[p[2]]}
    IN
    /\ Pending(s, "list clients")
    /\ \E listed \in SUBSET matching :
         /\ IsFirst(listed, matching, IF term = Absent THEN ListLimit ELSE SearchLimit, byName)
         /\ Answer(s, 200, listed)
    /\ UNCHANGED <<clients, mandates>>

Close(s) ==
    /\ desk[s] # Absent /\ desk[s].code # Absent
    /\ desk' = [desk EXCEPT ![s] = Absent]
    /\ UNCHANGED <<clients, mandates, clock>>

Tick == clock' = clock + 1 /\ UNCHANGED <<clients, mandates, desk>>

OfficeNext ==
    \/ Tick
    \/ \E s \in Slots :
        \/ \E request \in Requests : Begin(s, request)
        \/ CreateClient(s) \/ CreateMandate(s) \/ GetMandate(s) \/ ListMandates(s)
        \/ ListClients(s) \/ Close(s)

OfficeInit ==
    /\ mandates = [m \in {} |-> Absent]
    /\ desk = [s \in Slots |-> Absent]

OfficeSpec == OfficeInit /\ [][OfficeNext]_officeVars
===============================================================================
