----------------------------- MODULE TenancyProofs -----------------------------
(***************************************************************************)
(* Each firm is answered as if it had the service to itself, whatever the  *)
(* firms, scopes, names, ids and limits are, however many requests are     *)
(* served at a time: Tenancy implements Office, once for every firm.       *)
(***************************************************************************)
EXTENDS Tenancy, ArithmeticProofs

-------------------------------------------------------------------------------
(***************************************************************************)
(* The inductive invariant.  Ids are the numbers of requests that began,   *)
(* and the id of a request still served is no row's yet; a firm's names    *)
(* are distinct; a mandate about to be written has been found to be asked  *)
(* by an editor, for a client of the firm.                                 *)
(***************************************************************************)
DeskIsTyped == clock \in Nat /\ desk \in [Slots -> Served \union {Absent}]

RowsAreNumbered ==
    /\ DOMAIN clients \subseteq 1 .. clock
    /\ DOMAIN mandates \subseteq 1 .. clock
    /\ \A m \in DOMAIN mandates : mandates[m].at = m

NamesAreDistinct ==
    /\ \A c \in DOMAIN clients : clients[c].name \in Nat
    /\ \A c, d \in DOMAIN clients :
          clients[c].firm = clients[d].firm /\ clients[c].name = clients[d].name => c = d

ServedInTime(s) ==
    /\ desk[s].at \in 1 .. clock
    /\ desk[s].code = Absent <=> desk[s].step # "answered"
    /\ desk[s].step # "answered" => desk[s].at \notin DOMAIN clients \union DOMAIN mandates

FoundIsClient(s) ==
    desk[s].step = "found" =>
        /\ desk[s].request.does = "create mandate"
        /\ MayEdit(s)
        /\ IsClient(s, desk[s].request.client)
        /\ desk[s].request.with.dates = "iso"

TenancyInv ==
    /\ DeskIsTyped
    /\ RowsAreNumbered
    /\ NamesAreDistinct
    /\ \A s \in Slots : desk[s] # Absent => ServedInTime(s) /\ FoundIsClient(s)
    /\ \A s, t \in Slots :
          desk[s] # Absent /\ desk[t] # Absent /\ desk[s].at = desk[t].at => s = t

(* It holds at first.                                                      *)
LEMMA TenancyInvAtFirst == TenancyInit => TenancyInv
<1> SUFFICES ASSUME TenancyInit PROVE TenancyInv
  OBVIOUS
<1>1. clock \in Nat
  BY FirstClientsAssumption, FS_CardinalityType DEF TenancyInit
<1>2. DeskIsTyped
  BY <1>1 DEF TenancyInit, DeskIsTyped
<1>3. RowsAreNumbered
  <2>1. DOMAIN clients \subseteq 1 .. clock
    BY FirstClientsAssumption DEF TenancyInit
  <2>2. DOMAIN mandates = {}
    BY DEF TenancyInit
  <2> QED BY <2>1, <2>2 DEF RowsAreNumbered
<1>4. NamesAreDistinct
  BY FirstClientsAssumption DEF TenancyInit, NamesAreDistinct
<1>5. \A s \in Slots : desk[s] = Absent
  BY DEF TenancyInit
<1> QED BY <1>2, <1>3, <1>4, <1>5 DEF TenancyInv

-------------------------------------------------------------------------------
(***************************************************************************)
(* The steps of a request.  A served request has a request of the desk,    *)
(* and answering it changes its step, its code and its rows.               *)
(***************************************************************************)
LEMMA ServedIsTyped ==
    ASSUME DeskIsTyped, NEW s \in Slots, desk[s] # Absent
    PROVE  /\ desk[s] \in Served /\ desk[s].request \in DeskRequests /\ desk[s].at \in Nat
           /\ desk[s].code \in Nat \union {Absent} /\ desk[s].rows \in SUBSET Nat
<1>1. desk[s] \in Served
  BY DEF DeskIsTyped
<1> QED BY <1>1 DEF Served

(* An answer leaves the other slots alone.                                 *)
LEMMA AnswerIsServed ==
    ASSUME DeskIsTyped, NEW s \in Slots, desk[s] # Absent,
           NEW code \in Nat, NEW rows \in SUBSET Nat, Answer(s, code, rows)
    PROVE  /\ DeskIsTyped'
           /\ clock' = clock
           /\ \A t \in Slots : t # s => desk'[t] = desk[t]
           /\ desk'[s] # Absent
           /\ desk'[s].request = desk[s].request /\ desk'[s].at = desk[s].at
           /\ desk'[s].step = "answered" /\ desk'[s].code = code /\ desk'[s].rows = rows
<1> DEFINE e == [desk[s] EXCEPT !.step = "answered", !.code = code, !.rows = rows]
<1>1. clock' = clock /\ desk' = [desk EXCEPT ![s] = e]
  BY DEF Answer
<1>2. desk[s] \in Served
  BY ServedIsTyped
<1>3. e \in Served /\ e.request = desk[s].request /\ e.at = desk[s].at
      /\ e.step = "answered" /\ e.code = code /\ e.rows = rows
  BY <1>2 DEF Served
<1>4. e # Absent
  BY <1>3, AbsentAssumption
<1> HIDE DEF e
<1> QED BY <1>1, <1>3, <1>4 DEF DeskIsTyped

(* A step of one slot, which may add rows under the id it was given and    *)
(* none else, leaves the other slots' requests as they were.               *)
LEMMA OtherSlots ==
    ASSUME TenancyInv, NEW s \in Slots, DeskIsTyped', clock <= clock',
           \A t \in Slots : t # s => desk'[t] = desk[t],
           \A c \in DOMAIN clients : c \in DOMAIN clients' /\ clients'[c] = clients[c],
           \A x \in (DOMAIN clients \union DOMAIN mandates)' :
               x \in DOMAIN clients \union DOMAIN mandates \/ (desk[s] # Absent /\ x = desk[s].at),
           \/ desk'[s] = Absent
           \/ desk[s] # Absent /\ desk'[s].at = desk[s].at
           \/ desk'[s].at = clock + 1,
           RowsAreNumbered', NamesAreDistinct',
           desk'[s] # Absent => ServedInTime(s)' /\ FoundIsClient(s)'
    PROVE  TenancyInv'
<1>1. clock \in Nat /\ clock' \in Nat
  BY DEF TenancyInv, DeskIsTyped
<1>2. ASSUME NEW t \in Slots, t # s, desk'[t] # Absent
      PROVE  ServedInTime(t)' /\ FoundIsClient(t)'
  <2>1. desk'[t] = desk[t] /\ desk[t] # Absent
    BY <1>2
  <2>2. ServedInTime(t) /\ FoundIsClient(t)
    BY <2>1 DEF TenancyInv
  <2>3. desk[s] # Absent => desk[s].at # desk[t].at
    BY <1>2, <2>1 DEF TenancyInv
  <2>4. ServedInTime(t)'
    <3>1. desk'[t].at \in 1 .. clock'
      BY <1>1, <2>1, <2>2 DEF ServedInTime
    <3>2. desk'[t].code = Absent <=> desk'[t].step # "answered"
      BY <2>1, <2>2 DEF ServedInTime
    <3>3. desk'[t].step # "answered" =>
              desk'[t].at \notin (DOMAIN clients \union DOMAIN mandates)'
      BY <2>1, <2>2, <2>3 DEF ServedInTime
    <3> QED BY <3>1, <3>2, <3>3 DEF ServedInTime
  <2>5. FoundIsClient(t)'
    BY <2>1, <2>2 DEF FoundIsClient, MayEdit, Scope, IsClient, ClientsOf
  <2> QED BY <2>4, <2>5
<1>3. ASSUME NEW t \in Slots, NEW u \in Slots, desk'[t] # Absent, desk'[u] # Absent,
             desk'[t].at = desk'[u].at
      PROVE  t = u
  <2>1. \A v \in Slots : desk[v] # Absent => desk[v].at \in 1 .. clock
    BY DEF TenancyInv, ServedInTime
  <2>2. \A v, w \in Slots :
            desk[v] # Absent /\ desk[w] # Absent /\ desk[v].at = desk[w].at => v = w
    BY DEF TenancyInv
  <2>3. CASE t # s /\ u # s
    BY <1>3, <2>2, <2>3
  <2>4. CASE t = s /\ u # s
    <3>1. desk[u] # Absent /\ desk'[s].at = desk[u].at /\ desk[u].at # clock + 1
      BY <1>1, <1>3, <2>1, <2>4
    <3> QED BY <1>3, <2>2, <2>4, <3>1
  <2>5. CASE t # s /\ u = s
    <3>1. desk[t] # Absent /\ desk'[s].at = desk[t].at /\ desk[t].at # clock + 1
      BY <1>1, <1>3, <2>1, <2>5
    <3> QED BY <1>3, <2>2, <2>5, <3>1
  <2> QED BY <2>3, <2>4, <2>5
<1> QED BY <1>2, <1>3 DEF TenancyInv

(* A request answered without a row of its own.                            *)
LEMMA AnsweredInvKept ==
    ASSUME TenancyInv, NEW s \in Slots, desk[s] # Absent, NEW code \in Nat,
           NEW rows \in SUBSET Nat, Answer(s, code, rows), UNCHANGED <<clients, mandates>>
    PROVE  TenancyInv'
<1>1. DeskIsTyped /\ RowsAreNumbered /\ NamesAreDistinct /\ ServedInTime(s)
  BY DEF TenancyInv
<1>2. /\ DeskIsTyped' /\ clock' = clock
      /\ \A t \in Slots : t # s => desk'[t] = desk[t]
      /\ desk'[s] # Absent /\ desk'[s].at = desk[s].at
      /\ desk'[s].step = "answered" /\ desk'[s].code = code
  BY <1>1, AnswerIsServed
<1>3. RowsAreNumbered' /\ NamesAreDistinct'
  BY <1>1, <1>2 DEF RowsAreNumbered, NamesAreDistinct
<1>4. ServedInTime(s)' /\ FoundIsClient(s)'
  BY <1>1, <1>2, AbsentAssumption DEF ServedInTime, FoundIsClient
<1>5. clock <= clock'
  BY <1>1, <1>2 DEF DeskIsTyped
<1> QED BY <1>2, <1>3, <1>4, <1>5, OtherSlots

-------------------------------------------------------------------------------
(***************************************************************************)
(* Every action keeps the invariant.                                       *)
(***************************************************************************)
Answered(s) ==
    desk[s] # Absent /\ \E code \in Nat, rows \in SUBSET Nat : Answer(s, code, rows)

LEMMA RowsAreNats ==
    ASSUME TenancyInv
    PROVE  clock \in Nat /\ DOMAIN clients \subseteq Nat /\ DOMAIN mandates \subseteq Nat
  BY DEF TenancyInv, DeskIsTyped, RowsAreNumbered

(* A request that begins gets a number no row has.                         *)
LEMMA BeginKeeps ==
    ASSUME TenancyInv, NEW s \in Slots, NEW request \in DeskRequests, Begin(s, request)
    PROVE  TenancyInv'
<1> DEFINE e == [request |-> request, at |-> clock + 1, step |-> "begun", code |-> Absent,
                 rows |-> {}]
<1>1. /\ DeskIsTyped /\ RowsAreNumbered /\ NamesAreDistinct /\ clock \in Nat
      /\ desk[s] = Absent
  BY DEF TenancyInv, DeskIsTyped, Begin
<1>2. clock' = clock + 1 /\ desk' = [desk EXCEPT ![s] = e] /\ UNCHANGED <<clients, mandates>>
  BY DEF Begin
<1>3. e \in Served /\ e # Absent /\ e.at = clock + 1 /\ e.step = "begun" /\ e.code = Absent
  <2>1. e \in Served
    BY <1>1 DEF Served
  <2> QED BY <2>1, AbsentAssumption
<1> HIDE DEF e
<1>4. /\ DeskIsTyped' /\ desk'[s] = e /\ clock <= clock' /\ clock' \in Nat
      /\ \A t \in Slots : t # s => desk'[t] = desk[t]
  BY <1>1, <1>2, <1>3 DEF DeskIsTyped
<1>5. RowsAreNumbered' /\ NamesAreDistinct'
  BY <1>1, <1>2 DEF RowsAreNumbered, NamesAreDistinct
<1>6. ServedInTime(s)' /\ FoundIsClient(s)'
  <2>1. clock + 1 \notin DOMAIN clients \union DOMAIN mandates
    BY <1>1 DEF RowsAreNumbered
  <2>2. FoundIsClient(s)'
    BY <1>3, <1>4 DEF FoundIsClient
  <2>3. desk'[s].at \in 1 .. clock'
    BY <1>1, <1>2, <1>3, <1>4
  <2>4. desk'[s].at \notin (DOMAIN clients \union DOMAIN mandates)'
    BY <1>2, <1>3, <1>4, <2>1
  <2>5. desk'[s].code = Absent /\ desk'[s].step # "answered"
    BY <1>3, <1>4
  <2> QED BY <2>2, <2>3, <2>4, <2>5 DEF ServedInTime
<1>7. desk'[s].at = clock + 1
  BY <1>3, <1>4
<1> QED BY <1>2, <1>4, <1>5, <1>6, <1>7, OtherSlots

(* The requests that only read answer with rows of the tables.             *)
LEMMA ListClientsAnswers ==
    ASSUME TenancyInv, NEW s \in Slots, ListClients(s)
    PROVE  Answered(s) /\ UNCHANGED <<clients, mandates>>
<1>1. DOMAIN clients \subseteq Nat
  BY RowsAreNats
<1>2. AllClients(s) \in SUBSET Nat /\ \A term : SearchClients(s, term) \in SUBSET Nat
  BY <1>1 DEF AllClients, SearchClients, FirstByName, ClientsOf
<1>3. 200 \in Nat
  OBVIOUS
<1>4. \/ Answer(s, 200, AllClients(s))
      \/ Answer(s, 200, SearchClients(s, desk[s].request.term))
  BY DEF ListClients
<1> QED BY <1>2, <1>3, <1>4 DEF ListClients, Is, Answered

LEMMA GetMandateAnswers ==
    ASSUME TenancyInv, NEW s \in Slots, GetMandate(s)
    PROVE  Answered(s) /\ UNCHANGED <<clients, mandates>>
<1> DEFINE m == desk[s].request.on
<1>1. m \in Visible(s) => {m} \in SUBSET Nat
  BY RowsAreNats DEF Visible
<1>2. 200 \in Nat /\ 404 \in Nat /\ {} \in SUBSET Nat
  OBVIOUS
<1>3. \/ m \in Visible(s) /\ Answer(s, 200, {m})
      \/ Answer(s, 404, {})
  BY DEF GetMandate
<1> HIDE DEF m
<1> QED BY <1>1, <1>2, <1>3 DEF GetMandate, Is, Answered

LEMMA ListMandatesAnswers ==
    ASSUME TenancyInv, NEW s \in Slots, ListMandates(s)
    PROVE  Answered(s) /\ UNCHANGED <<clients, mandates>>
<1>1. Newest(Visible(s), ListLimit) \in SUBSET Nat
  BY RowsAreNats DEF Visible, Newest
<1>2. 200 \in Nat /\ Answer(s, 200, Newest(Visible(s), ListLimit))
  BY DEF ListMandates
<1> QED BY <1>1, <1>2 DEF ListMandates, Is, Answered

LEMMA AnsweredKeeps ==
    ASSUME TenancyInv, NEW s \in Slots, Answered(s), UNCHANGED <<clients, mandates>>
    PROVE  TenancyInv'
<1>1. PICK code \in Nat, rows \in SUBSET Nat : Answer(s, code, rows)
  BY DEF Answered
<1> QED BY <1>1, AnsweredInvKept DEF Answered

(* What is found of the client of a mandate to be is what the query asked. *)
LEMMA FindClientKeeps ==
    ASSUME TenancyInv, NEW s \in Slots, FindClient(s)
    PROVE  TenancyInv'
<1>1. UNCHANGED <<clients, mandates>> /\ desk[s] # Absent /\ desk[s].step = "begun"
      /\ desk[s].request.does = "create mandate"
  BY DEF FindClient, Is
<1>2. CASE \E code \in {403, 404, 422} : Answer(s, code, {})
  <2>1. PICK code \in {403, 404, 422} : Answer(s, code, {})
    BY <1>2
  <2>2. code \in Nat /\ {} \in SUBSET Nat
    OBVIOUS
  <2>3. Answered(s)
    BY <1>1, <2>1, <2>2 DEF Answered
  <2> QED BY <1>1, <2>3, AnsweredKeeps
<1>3. CASE /\ MayEdit(s) /\ IsClient(s, desk[s].request.client)
           /\ desk[s].request.with.dates = "iso"
           /\ desk' = [desk EXCEPT ![s].step = "found"] /\ UNCHANGED clock
  <2> DEFINE e == [desk[s] EXCEPT !.step = "found"]
  <2>1. /\ DeskIsTyped /\ RowsAreNumbered /\ NamesAreDistinct /\ ServedInTime(s)
        /\ clock \in Nat
    BY <1>1 DEF TenancyInv, DeskIsTyped
  <2>2. desk[s] \in Served
    BY <1>1, <2>1, ServedIsTyped
  <2>3. e \in Served /\ e.request = desk[s].request /\ e.at = desk[s].at
        /\ e.step = "found" /\ e.code = desk[s].code
    BY <2>2 DEF Served
  <2>4. e # Absent /\ desk' = [desk EXCEPT ![s] = e]
    BY <1>3, <2>3, AbsentAssumption
  <2> HIDE DEF e
  <2>5. DeskIsTyped' /\ desk'[s] = e /\ \A t \in Slots : t # s => desk'[t] = desk[t]
    BY <1>3, <2>1, <2>3, <2>4 DEF DeskIsTyped
  <2>6. RowsAreNumbered' /\ NamesAreDistinct' /\ clock <= clock'
    <3>1. clients' = clients /\ mandates' = mandates /\ clock' = clock
      BY <1>1, <1>3
    <3>2. RowsAreNumbered'
      BY <2>1, <3>1 DEF RowsAreNumbered
    <3>3. NamesAreDistinct'
      BY <2>1, <3>1 DEF NamesAreDistinct
    <3> QED BY <2>1, <3>1, <3>2, <3>3
  <2>7. ServedInTime(s)'
    BY <1>1, <1>3, <2>1, <2>3, <2>5 DEF ServedInTime
  <2>8. FoundIsClient(s)'
    BY <1>1, <1>3, <2>3, <2>5 DEF FoundIsClient, MayEdit, Scope, IsClient, ClientsOf
  <2>9. desk'[s].at = desk[s].at
    BY <2>3, <2>5
  <2> QED BY <1>1, <2>5, <2>6, <2>7, <2>8, <2>9, OtherSlots
<1> QED BY <1>2, <1>3 DEF FindClient

(* A client is created under a name its firm has not given.                *)
LEMMA CreateClientKeeps ==
    ASSUME TenancyInv, NEW s \in Slots, CreateClient(s)
    PROVE  TenancyInv'
<1> DEFINE name == Strip[desk[s].request.name]
           new == [firm |-> Scope(s).firm, name |-> name]
           at == desk[s].at
<1>1. /\ UNCHANGED mandates /\ desk[s] # Absent /\ desk[s].step = "begun"
      /\ desk[s].request.does = "create client"
  BY DEF CreateClient, Is
<1>2. CASE UNCHANGED clients /\ \E code \in {403, 500} : Answer(s, code, {})
  <2>1. PICK code \in {403, 500} : Answer(s, code, {})
    BY <1>2
  <2>2. code \in Nat /\ {} \in SUBSET Nat
    OBVIOUS
  <2>3. Answered(s)
    BY <1>1, <2>1, <2>2 DEF Answered
  <2> QED BY <1>1, <1>2, <2>3, AnsweredKeeps
<1>3. CASE /\ ~Taken(s, name) /\ Answer(s, 201, {at})
           /\ clients' = Added(clients, at, new)
  <2>1. /\ DeskIsTyped /\ RowsAreNumbered /\ NamesAreDistinct /\ ServedInTime(s)
        /\ clock \in Nat
    BY <1>1 DEF TenancyInv, DeskIsTyped
  <2>2. name \in Nat
    <3>1. desk[s].request \in DeskRequests
      BY <1>1, <2>1, ServedIsTyped
    <3>2. desk[s].request.name \in GivenNames
      BY <1>1, <3>1 DEF DeskRequests
    <3> QED BY <3>2, StripAssumption
  <2>3. at \in 1 .. clock /\ at \notin DOMAIN clients
    BY <1>1, <2>1 DEF ServedInTime
  <2>4. new.firm = Scope(s).firm /\ new.name = name
    OBVIOUS
  <2>5. \A c \in DOMAIN clients : clients[c].firm = new.firm => clients[c].name # new.name
    BY <1>3, <2>4 DEF Taken, ClientsOf
  <2> DEFINE rows == {at}
             code == 201
  <2>6. rows \in SUBSET Nat /\ code \in Nat /\ Answer(s, code, rows)
    BY <1>3, <2>3
  <2> HIDE DEF rows, code, new, name
  <2>7. /\ DeskIsTyped' /\ clock' = clock
        /\ \A t \in Slots : t # s => desk'[t] = desk[t]
        /\ desk'[s] # Absent /\ desk'[s].at = at
        /\ desk'[s].step = "answered" /\ desk'[s].code = code
    BY <1>1, <2>1, <2>6, AnswerIsServed
  <2>8. /\ DOMAIN clients' = DOMAIN clients \union {at} /\ clients'[at] = new
        /\ \A x \in DOMAIN clients : clients'[x] = clients[x]
    <3>1. /\ DOMAIN Added(clients, at, new) = DOMAIN clients \union {at}
          /\ Added(clients, at, new)[at] = new
          /\ \A x \in DOMAIN clients : x # at => Added(clients, at, new)[x] = clients[x]
      BY DEF Added
    <3>2. \A x \in DOMAIN clients : x # at
      BY <2>3
    <3> QED BY <1>3, <3>1, <3>2
  <2>9. RowsAreNumbered'
    BY <1>1, <2>1, <2>3, <2>7, <2>8 DEF RowsAreNumbered
  <2>10. NamesAreDistinct'
    <3>1. \A c \in DOMAIN clients' : clients'[c].name \in Nat
      BY <2>1, <2>2, <2>4, <2>8 DEF NamesAreDistinct
    <3>2. ASSUME NEW c \in DOMAIN clients', NEW d \in DOMAIN clients',
                 clients'[c].firm = clients'[d].firm, clients'[c].name = clients'[d].name
          PROVE  c = d
      BY <2>1, <2>5, <2>8, <3>2 DEF NamesAreDistinct
    <3> QED BY <3>1, <3>2 DEF NamesAreDistinct
  <2>11. ServedInTime(s)' /\ FoundIsClient(s)'
    <3>1. FoundIsClient(s)'
      BY <2>7 DEF FoundIsClient
    <3> QED BY <2>3, <2>6, <2>7, <3>1, AbsentAssumption DEF ServedInTime
  <2>12. clock <= clock'
    BY <2>1, <2>7
  <2> QED BY <1>1, <2>7, <2>8, <2>9, <2>10, <2>11, <2>12, OtherSlots
<1>4. \/ ~MayEdit(s) /\ Answer(s, 403, {}) /\ UNCHANGED clients
      \/ Taken(s, new.name) /\ Answer(s, 500, {}) /\ UNCHANGED clients
      \/ ~Taken(s, new.name) /\ Answer(s, 201, {at}) /\ clients' = Added(clients, at, new)
  BY DEF CreateClient
<1>5. new.name = name
  OBVIOUS
<1> HIDE DEF new, name, at
<1> QED BY <1>2, <1>3, <1>4, <1>5

(* A mandate's row is numbered by the request that wrote it.               *)
LEMMA InsertMandateKeeps ==
    ASSUME TenancyInv, NEW s \in Slots, InsertMandate(s)
    PROVE  TenancyInv'
<1> DEFINE at == desk[s].at
           new == [firm |-> Scope(s).firm, client |-> desk[s].request.client,
                   valuer |-> desk[s].request.with.valuer, at |-> at]
<1>1. UNCHANGED clients /\ desk[s] # Absent /\ desk[s].step = "found"
  BY DEF InsertMandate, Is
<1>2. CASE UNCHANGED mandates /\ Answer(s, 500, {})
  <2>1. Answered(s)
    <3>1. 500 \in Nat /\ {} \in SUBSET Nat
      OBVIOUS
    <3> QED BY <1>1, <1>2, <3>1 DEF Answered
  <2> QED BY <1>1, <1>2, <2>1, AnsweredKeeps
<1>3. CASE Answer(s, 201, {at}) /\ mandates' = Added(mandates, at, new)
  <2>1. /\ DeskIsTyped /\ RowsAreNumbered /\ NamesAreDistinct /\ ServedInTime(s)
        /\ clock \in Nat
    BY <1>1 DEF TenancyInv, DeskIsTyped
  <2>3. at \in 1 .. clock /\ at \notin DOMAIN mandates
    BY <1>1, <2>1 DEF ServedInTime
  <2>4. new.at = at
    OBVIOUS
  <2> DEFINE rows == {at}
             code == 201
  <2>6. rows \in SUBSET Nat /\ code \in Nat /\ Answer(s, code, rows)
    BY <1>3, <2>3
  <2> HIDE DEF rows, code, new
  <2>7. /\ DeskIsTyped' /\ clock' = clock
        /\ \A t \in Slots : t # s => desk'[t] = desk[t]
        /\ desk'[s] # Absent /\ desk'[s].at = at
        /\ desk'[s].step = "answered" /\ desk'[s].code = code
    BY <1>1, <2>1, <2>6, AnswerIsServed
  <2>8. /\ DOMAIN mandates' = DOMAIN mandates \union {at} /\ mandates'[at] = new
        /\ \A x \in DOMAIN mandates : mandates'[x] = mandates[x]
    <3>1. /\ DOMAIN Added(mandates, at, new) = DOMAIN mandates \union {at}
          /\ Added(mandates, at, new)[at] = new
          /\ \A x \in DOMAIN mandates : x # at => Added(mandates, at, new)[x] = mandates[x]
      BY DEF Added
    <3>2. \A x \in DOMAIN mandates : x # at
      BY <2>3
    <3> QED BY <1>3, <3>1, <3>2
  <2>9. RowsAreNumbered'
    BY <1>1, <2>1, <2>3, <2>4, <2>7, <2>8 DEF RowsAreNumbered
  <2>10. NamesAreDistinct'
    BY <1>1, <2>1 DEF NamesAreDistinct
  <2>11. ServedInTime(s)' /\ FoundIsClient(s)'
    <3>1. FoundIsClient(s)'
      BY <2>7 DEF FoundIsClient
    <3> QED BY <2>3, <2>6, <2>7, <3>1, AbsentAssumption DEF ServedInTime
  <2>12. clock <= clock'
    BY <2>1, <2>7
  <2> QED BY <1>1, <2>7, <2>8, <2>9, <2>10, <2>11, <2>12, OtherSlots
<1>4. \/ UNCHANGED mandates /\ Answer(s, 500, {})
      \/ Answer(s, 201, {at}) /\ mandates' = Added(mandates, at, new)
  BY DEF InsertMandate
<1> QED BY <1>2, <1>3, <1>4

LEMMA CloseDeskKeeps ==
    ASSUME TenancyInv, NEW s \in Slots, CloseDesk(s)
    PROVE  TenancyInv'
<1>1. /\ DeskIsTyped /\ RowsAreNumbered /\ NamesAreDistinct
      /\ clients' = clients /\ mandates' = mandates /\ clock' = clock
      /\ desk' = [desk EXCEPT ![s] = Absent]
  BY DEF TenancyInv, CloseDesk
<1>2. DeskIsTyped' /\ desk'[s] = Absent /\ \A t \in Slots : t # s => desk'[t] = desk[t]
  BY <1>1 DEF DeskIsTyped
<1>3. RowsAreNumbered'
  BY <1>1 DEF RowsAreNumbered
<1>4. NamesAreDistinct'
  BY <1>1 DEF NamesAreDistinct
<1>5. clock <= clock'
  BY <1>1 DEF DeskIsTyped
<1> QED BY <1>1, <1>2, <1>3, <1>4, <1>5, OtherSlots

(* So the invariant always holds.                                          *)
LEMMA TenancyInvIsKept == TenancyInv /\ [TenancyNext]_tenancyVars => TenancyInv'
<1> SUFFICES ASSUME TenancyInv, [TenancyNext]_tenancyVars PROVE TenancyInv'
  OBVIOUS
<1>1. ASSUME NEW s \in Slots, NEW request \in DeskRequests, Begin(s, request)
      PROVE  TenancyInv'
  BY <1>1, BeginKeeps
<1>2. ASSUME NEW s \in Slots, CreateClient(s) PROVE TenancyInv'
  BY <1>2, CreateClientKeeps
<1>3. ASSUME NEW s \in Slots, ListClients(s) PROVE TenancyInv'
  BY <1>3, ListClientsAnswers, AnsweredKeeps
<1>4. ASSUME NEW s \in Slots, FindClient(s) PROVE TenancyInv'
  BY <1>4, FindClientKeeps
<1>5. ASSUME NEW s \in Slots, InsertMandate(s) PROVE TenancyInv'
  BY <1>5, InsertMandateKeeps
<1>6. ASSUME NEW s \in Slots, GetMandate(s) PROVE TenancyInv'
  BY <1>6, GetMandateAnswers, AnsweredKeeps
<1>7. ASSUME NEW s \in Slots, ListMandates(s) PROVE TenancyInv'
  BY <1>7, ListMandatesAnswers, AnsweredKeeps
<1>8. ASSUME NEW s \in Slots, CloseDesk(s) PROVE TenancyInv'
  BY <1>8, CloseDeskKeeps
<1>9. CASE UNCHANGED tenancyVars
  <2>1. clients' = clients /\ mandates' = mandates /\ desk' = desk /\ clock' = clock
    BY <1>9 DEF tenancyVars
  <2> QED BY <2>1 DEF TenancyInv, DeskIsTyped, RowsAreNumbered, NamesAreDistinct,
                      ServedInTime, FoundIsClient, MayEdit, Scope, IsClient, ClientsOf
<1> QED BY <1>1, <1>2, <1>3, <1>4, <1>5, <1>6, <1>7, <1>8, <1>9 DEF TenancyNext

LEMMA TenancyInvHolds == TenancySpec => []TenancyInv
  BY TenancyInvAtFirst, TenancyInvIsKept, PTL DEF TenancySpec

-------------------------------------------------------------------------------
(***************************************************************************)
(* What a firm sees of the desk: its own requests, each as far as it is    *)
(* answered, and an empty slot where another firm's is served.             *)
(***************************************************************************)
IsOwn(firm, s) == desk[s] # Absent /\ Scope(s).firm = firm

(* A request of its own is seen as it is.                                  *)
LEMMA OwnIsSeen ==
    ASSUME DeskIsTyped, NEW firm, NEW s \in Slots, IsOwn(firm, s)
    PROVE  /\ DeskOf(firm)[s] = [request |-> desk[s].request, at |-> desk[s].at,
                                 code |-> desk[s].code, rows |-> desk[s].rows]
           /\ DeskOf(firm)[s] # Absent
           /\ DeskOf(firm)[s].request = desk[s].request
           /\ DeskOf(firm)[s].at = desk[s].at
           /\ DeskOf(firm)[s].code = desk[s].code
<1> DEFINE e == [request |-> desk[s].request, at |-> desk[s].at,
                 code |-> desk[s].code, rows |-> desk[s].rows]
<1>1. DeskOf(firm)[s] = e
  BY DEF DeskOf, SeenBy, IsOwn, Scope
<1>2. e \in Seen
  BY ServedIsTyped DEF Seen, IsOwn
<1>3. e # Absent
  BY <1>2, AbsentAssumption
<1> QED BY <1>1, <1>3

(* When one slot changes, one slot of what is seen does.                   *)
LEMMA SlotSeen ==
    ASSUME NEW firm, NEW s \in Slots, \A t \in Slots : t # s => desk'[t] = desk[t]
    PROVE  DeskOf(firm)' = [DeskOf(firm) EXCEPT ![s] = SeenBy(firm, desk'[s])]
<1>1. DeskOf(firm)' = [t \in Slots |-> SeenBy(firm, desk'[t])]
  BY DEF DeskOf
<1>2. \A t \in Slots : t # s => SeenBy(firm, desk'[t]) = DeskOf(firm)[t]
  BY DEF DeskOf
<1>3. DOMAIN DeskOf(firm) = Slots
  BY DEF DeskOf
<1>4. DeskOf(firm) = [t \in Slots |-> DeskOf(firm)[t]]
  BY DEF DeskOf
<1> QED BY <1>1, <1>2, <1>3, <1>4

(* A request of another firm is not seen, whatever becomes of it.          *)
LEMMA OthersUnseen ==
    ASSUME NEW firm, NEW s \in Slots, \A t \in Slots : t # s => desk'[t] = desk[t],
           desk[s] # Absent => Scope(s).firm # firm,
           desk'[s] # Absent => desk'[s].request.by.firm # firm
    PROVE  DeskOf(firm)' = DeskOf(firm)
<1>1. DeskOf(firm)' = [DeskOf(firm) EXCEPT ![s] = SeenBy(firm, desk'[s])]
  BY SlotSeen
<1>2. SeenBy(firm, desk'[s]) = Absent
  BY DEF SeenBy
<1>3. DeskOf(firm)[s] = Absent
  BY DEF DeskOf, SeenBy, Scope
<1>4. DeskOf(firm) = [t \in Slots |-> DeskOf(firm)[t]]
  BY DEF DeskOf
<1> QED BY <1>1, <1>2, <1>3, <1>4

(* An answer to a request of its own is seen as that answer.               *)
LEMMA OwnAnswer ==
    ASSUME DeskIsTyped, NEW firm, NEW s \in Slots, IsOwn(firm, s),
           NEW code \in Nat, NEW rows \in SUBSET Nat, Answer(s, code, rows)
    PROVE  Alone(firm)!Answer(s, code, rows)
<1>1. /\ clock' = clock
      /\ \A t \in Slots : t # s => desk'[t] = desk[t]
      /\ desk'[s] # Absent
      /\ desk'[s].request = desk[s].request /\ desk'[s].at = desk[s].at
      /\ desk'[s].code = code /\ desk'[s].rows = rows
  BY AnswerIsServed DEF IsOwn
<1>2. DeskOf(firm)' = [DeskOf(firm) EXCEPT ![s] = SeenBy(firm, desk'[s])]
  BY <1>1, SlotSeen
<1>3. SeenBy(firm, desk'[s]) = [request |-> desk[s].request, at |-> desk[s].at,
                                code |-> code, rows |-> rows]
  BY <1>1 DEF SeenBy, IsOwn, Scope
<1>4. DeskOf(firm)[s] = [request |-> desk[s].request, at |-> desk[s].at,
                         code |-> desk[s].code, rows |-> desk[s].rows]
  BY OwnIsSeen
<1>5. [DeskOf(firm)[s] EXCEPT !.code = code, !.rows = rows]
        = [request |-> desk[s].request, at |-> desk[s].at, code |-> code, rows |-> rows]
  <2> DEFINE r == DeskOf(firm)[s]
             e == [request |-> desk[s].request, at |-> desk[s].at, code |-> code, rows |-> rows]
  <2>1. r \in Seen
    BY <1>4, ServedIsTyped DEF Seen, IsOwn
  <2>2. e \in Seen
    BY ServedIsTyped DEF Seen, IsOwn
  <2>3. r.request = e.request /\ r.at = e.at /\ e.code = code /\ e.rows = rows
    BY <1>4
  <2> HIDE DEF r, e
  <2>4. [r EXCEPT !.code = code, !.rows = rows] = e
    BY <2>1, <2>2, <2>3 DEF Seen
  <2> QED BY <2>4 DEF r, e
<1>6. DeskOf(firm)' = [DeskOf(firm) EXCEPT ![s] =
                          [DeskOf(firm)[s] EXCEPT !.code = code, !.rows = rows]]
  BY <1>2, <1>3, <1>5
<1> QED BY <1>1, <1>6 DEF Alone!Answer

(* One not answered yet is pending, and may edit if it may.                *)
LEMMA OwnPending ==
    ASSUME TenancyInv, NEW firm, NEW s \in Slots, IsOwn(firm, s), desk[s].step # "answered"
    PROVE  /\ Alone(firm)!Pending(s, desk[s].request.does)
           /\ Alone(firm)!MayEdit(s) <=> MayEdit(s)
<1>1. DeskIsTyped /\ ServedInTime(s)
  BY DEF TenancyInv, IsOwn
<1>2. /\ DeskOf(firm)[s] # Absent
      /\ DeskOf(firm)[s].request = desk[s].request
      /\ DeskOf(firm)[s].code = desk[s].code
  BY <1>1, OwnIsSeen
<1>3. desk[s].code = Absent
  BY <1>1 DEF ServedInTime
<1> QED BY <1>2, <1>3 DEF Alone!Pending, Alone!MayEdit, MayEdit, Scope

(***************************************************************************)
(* What a firm sees of the tables: its own rows, and a row added when it   *)
(* is its own.                                                             *)
(***************************************************************************)
LEMMA OwnClientAdded ==
    ASSUME NEW firm, NEW id, id \notin DOMAIN clients, NEW row, clients' = Added(clients, id, row)
    PROVE  ClientNames(firm)' = IF row.firm = firm
                                THEN Alone(firm)!Added(ClientNames(firm), id, row.name)
                                ELSE ClientNames(firm)
<1>1. /\ DOMAIN clients' = DOMAIN clients \union {id} /\ clients'[id] = row
      /\ \A x \in DOMAIN clients : clients'[x] = clients[x]
  BY DEF Added
<1>2. ClientsOf(firm)' = IF row.firm = firm THEN ClientsOf(firm) \union {id} ELSE ClientsOf(firm)
  BY <1>1 DEF ClientsOf
<1>3. \A x \in ClientsOf(firm) : x # id /\ clients'[x].name = clients[x].name
  BY <1>1 DEF ClientsOf
<1>4. DOMAIN ClientNames(firm) = ClientsOf(firm)
      /\ \A x \in ClientsOf(firm) : ClientNames(firm)[x] = clients[x].name
  BY DEF ClientNames
<1>5. ClientNames(firm)' = [c \in ClientsOf(firm)' |-> clients'[c].name]
  BY DEF ClientNames
<1>6. ClientNames(firm) = [c \in ClientsOf(firm) |-> clients[c].name]
  BY DEF ClientNames
<1>7. CASE row.firm = firm
  <2>1. Alone(firm)!Added(ClientNames(firm), id, row.name)
          = [x \in ClientsOf(firm) \union {id} |->
                IF x = id THEN row.name ELSE ClientNames(firm)[x]]
    BY <1>4 DEF Alone!Added
  <2>2. ClientsOf(firm)' = ClientsOf(firm) \union {id}
    BY <1>2, <1>7
  <2>3. \A x \in ClientsOf(firm) \union {id} :
            clients'[x].name = IF x = id THEN row.name ELSE ClientNames(firm)[x]
    BY <1>1, <1>3, <1>4
  <2>4. ClientNames(firm)' = Alone(firm)!Added(ClientNames(firm), id, row.name)
    BY <1>5, <2>1, <2>2, <2>3
  <2> QED BY <1>7, <2>4
<1>8. CASE row.firm # firm
  BY <1>2, <1>3, <1>5, <1>6, <1>8
<1> QED BY <1>7, <1>8

(* The same of mandates.                                                   *)
LEMMA OwnMandateAdded ==
    ASSUME NEW firm, NEW id, id \notin DOMAIN mandates, NEW row,
           mandates' = Added(mandates, id, row)
    PROVE  MandateRows(firm)' =
               IF row.firm = firm
               THEN Alone(firm)!Added(MandateRows(firm), id,
                        [client |-> row.client, valuer |-> row.valuer, at |-> row.at])
               ELSE MandateRows(firm)
<1> DEFINE Row(m) == [client |-> m.client, valuer |-> m.valuer, at |-> m.at]
           New == [x \in MandatesOf(firm)' |-> Row(mandates'[x])]
           Old == [x \in MandatesOf(firm) |-> Row(mandates[x])]
<1>1. /\ DOMAIN mandates' = DOMAIN mandates \union {id} /\ mandates'[id] = row
      /\ \A x \in DOMAIN mandates : mandates'[x] = mandates[x]
  BY DEF Added
<1>2. MandatesOf(firm)' =
          IF row.firm = firm THEN MandatesOf(firm) \union {id} ELSE MandatesOf(firm)
  BY <1>1 DEF MandatesOf
<1>3. \A x \in MandatesOf(firm) : x # id /\ mandates'[x] = mandates[x]
  BY <1>1 DEF MandatesOf
<1>4. MandateRows(firm)' = New /\ MandateRows(firm) = Old
  BY DEF MandateRows
<1>5. DOMAIN Old = MandatesOf(firm) /\ \A x \in MandatesOf(firm) : Old[x] = Row(mandates[x])
  OBVIOUS
<1> HIDE DEF Row
<1>6. CASE row.firm = firm
  <2>1. Alone(firm)!Added(Old, id, Row(row))
          = [x \in MandatesOf(firm) \union {id} |-> IF x = id THEN Row(row) ELSE Old[x]]
    BY <1>5 DEF Alone!Added
  <2>2. MandatesOf(firm)' = MandatesOf(firm) \union {id}
    BY <1>2, <1>6
  <2>3. \A x \in MandatesOf(firm) \union {id} :
            Row(mandates'[x]) = IF x = id THEN Row(row) ELSE Old[x]
    BY <1>1, <1>3, <1>5
  <2>4. New = Alone(firm)!Added(Old, id, Row(row))
    BY <2>1, <2>2, <2>3
  <2> QED BY <1>4, <1>6, <2>4 DEF Row
<1>7. CASE row.firm # firm
  <2>1. MandatesOf(firm)' = MandatesOf(firm)
    BY <1>2, <1>7
  <2>2. New = Old
    BY <1>3, <2>1
  <2> QED BY <1>4, <1>7, <2>2
<1> QED BY <1>6, <1>7

(* Tables that do not change are seen not to.                              *)
LEMMA SameTables ==
    ASSUME NEW firm
    PROVE  /\ UNCHANGED clients => UNCHANGED ClientNames(firm)
           /\ UNCHANGED mandates => UNCHANGED MandateRows(firm)
  BY DEF ClientNames, ClientsOf, MandateRows, MandatesOf

-------------------------------------------------------------------------------
(***************************************************************************)
(* Every step of the service is, to a firm, a step of its office or none.  *)
(***************************************************************************)
OfficeStep(firm) == Alone(firm)!OfficeNext \/ UNCHANGED Alone(firm)!officeVars

(* A step that serves another firm and adds no row of this one.            *)
LEMMA OthersStep ==
    ASSUME TenancyInv, NEW firm, NEW s \in Slots, desk[s] # Absent, Scope(s).firm # firm,
           \A t \in Slots : t # s => desk'[t] = desk[t],
           desk'[s] # Absent => desk'[s].request = desk[s].request,
           UNCHANGED <<clock, ClientNames(firm), MandateRows(firm)>>
    PROVE  OfficeStep(firm)
<1>1. desk'[s] # Absent => desk'[s].request.by.firm # firm
  BY DEF Scope
<1>2. DeskOf(firm)' = DeskOf(firm)
  BY <1>1, OthersUnseen
<1> QED BY <1>2 DEF OfficeStep, Alone!officeVars

(* Another firm is answered.                                               *)
LEMMA OthersAnswered ==
    ASSUME TenancyInv, NEW firm, NEW s \in Slots, Answered(s), Scope(s).firm # firm,
           UNCHANGED <<ClientNames(firm), MandateRows(firm)>>
    PROVE  OfficeStep(firm)
<1>1. PICK code \in Nat, rows \in SUBSET Nat : Answer(s, code, rows)
  BY DEF Answered
<1>2. DeskIsTyped /\ desk[s] # Absent
  BY DEF TenancyInv, Answered
<1>3. /\ clock' = clock /\ \A t \in Slots : t # s => desk'[t] = desk[t]
      /\ desk'[s].request = desk[s].request
  BY <1>1, <1>2, AnswerIsServed
<1> QED BY <1>2, <1>3, OthersStep

(* A request begins: one of the firm's own, or one more tick of the clock. *)
LEMMA BeginIsAlone ==
    ASSUME TenancyInv, NEW firm, NEW s \in Slots, NEW request \in DeskRequests,
           Begin(s, request)
    PROVE  OfficeStep(firm)
<1> DEFINE e == [request |-> request, at |-> clock + 1, step |-> "begun", code |-> Absent,
                 rows |-> {}]
<1>1. /\ DeskIsTyped /\ clock \in Nat /\ desk[s] = Absent
      /\ clock' = clock + 1 /\ desk' = [desk EXCEPT ![s] = e]
      /\ UNCHANGED <<clients, mandates>>
  BY DEF TenancyInv, DeskIsTyped, Begin
<1>2. e # Absent
  <2>1. e \in Served
    BY <1>1 DEF Served
  <2> QED BY <2>1, AbsentAssumption
<1>3. e.request = request /\ e.at = clock + 1 /\ e.code = Absent /\ e.rows = {}
  OBVIOUS
<1> HIDE DEF e
<1>4. desk'[s] = e /\ \A t \in Slots : t # s => desk'[t] = desk[t]
  BY <1>1 DEF DeskIsTyped
<1>5. UNCHANGED <<ClientNames(firm), MandateRows(firm)>>
  BY <1>1, SameTables
<1>6. CASE request.by.firm = firm
  <2>1. DeskOf(firm)' = [DeskOf(firm) EXCEPT ![s] = SeenBy(firm, e)]
    BY <1>4, SlotSeen
  <2>2. SeenBy(firm, e) = [request |-> request, at |-> clock + 1, code |-> Absent, rows |-> {}]
    BY <1>2, <1>3, <1>6 DEF SeenBy
  <2>3. DeskOf(firm)[s] = Absent
    BY <1>1 DEF DeskOf, SeenBy
  <2>4. Alone(firm)!Begin(s, request)
    BY <1>1, <1>5, <2>1, <2>2, <2>3 DEF Alone!Begin
  <2> QED BY <1>6, <2>4 DEF OfficeStep, Alone!OfficeNext
<1>7. CASE request.by.firm # firm
  <2>1. DeskOf(firm)' = DeskOf(firm)
    BY <1>1, <1>3, <1>4, <1>7, OthersUnseen
  <2>2. Alone(firm)!Tick
    BY <1>1, <1>5, <2>1 DEF Alone!Tick
  <2> QED BY <2>2 DEF OfficeStep, Alone!OfficeNext
<1> QED BY <1>6, <1>7

(* A client is created, or its name is refused, as its own firm would.     *)
LEMMA CreateClientIsAlone ==
    ASSUME TenancyInv, NEW firm, NEW s \in Slots, CreateClient(s)
    PROVE  OfficeStep(firm)
<1> DEFINE name == Strip[desk[s].request.name]
           new == [firm |-> Scope(s).firm, name |-> name]
           at == desk[s].at
<1>1. /\ UNCHANGED mandates /\ desk[s] # Absent /\ desk[s].step = "begun"
      /\ desk[s].request.does = "create client" /\ DeskIsTyped /\ ServedInTime(s)
  BY DEF CreateClient, Is, TenancyInv
<1>2. at \in Nat /\ at \notin DOMAIN clients
  BY <1>1, ServedIsTyped DEF ServedInTime
<1>3. \/ ~MayEdit(s) /\ Answer(s, 403, {}) /\ UNCHANGED clients
      \/ MayEdit(s) /\ Taken(s, name) /\ Answer(s, 500, {}) /\ UNCHANGED clients
      \/ /\ MayEdit(s) /\ ~Taken(s, name) /\ Answer(s, 201, {at})
         /\ clients' = Added(clients, at, new)
  <2>1. new.name = name
    OBVIOUS
  <2> QED BY <2>1 DEF CreateClient
<1>4. new.firm = Scope(s).firm /\ new.name = name
  OBVIOUS
<1>5. {} \in SUBSET Nat /\ {at} \in SUBSET Nat /\ 403 \in Nat /\ 500 \in Nat /\ 201 \in Nat
  BY <1>2
<1>6. UNCHANGED MandateRows(firm)
  BY <1>1, SameTables
<1> HIDE DEF name, new, at
<1>7. CASE Scope(s).firm # firm
  <2>1. Answered(s)
    BY <1>1, <1>3, <1>5 DEF Answered
  <2>2. UNCHANGED ClientNames(firm)
    BY <1>2, <1>3, <1>4, <1>7, OwnClientAdded, SameTables
  <2> QED BY <1>6, <1>7, <2>1, <2>2, OthersAnswered
<1>8. CASE Scope(s).firm = firm
  <2>1. IsOwn(firm, s)
    BY <1>1, <1>8 DEF IsOwn
  <2>2. /\ Alone(firm)!Pending(s, "create client")
        /\ Alone(firm)!MayEdit(s) <=> MayEdit(s)
        /\ DeskOf(firm)[s].at = at /\ DeskOf(firm)[s].request = desk[s].request
    BY <1>1, <2>1, OwnPending, OwnIsSeen DEF at
  <2>3. Taken(s, name) <=> \E c \in DOMAIN ClientNames(firm) : ClientNames(firm)[c] = name
    BY <1>8 DEF Taken, ClientNames
  <2>4. \A code \in Nat, rows \in SUBSET Nat :
            Answer(s, code, rows) => Alone(firm)!Answer(s, code, rows)
    BY <1>1, <2>1, OwnAnswer
  <2>5. \/ ~MayEdit(s) /\ Alone(firm)!Answer(s, 403, {}) /\ UNCHANGED ClientNames(firm)
        \/ MayEdit(s) /\ Taken(s, name) /\ Alone(firm)!Answer(s, 500, {})
           /\ UNCHANGED ClientNames(firm)
        \/ /\ MayEdit(s) /\ ~Taken(s, name) /\ Alone(firm)!Answer(s, 201, {at})
           /\ ClientNames(firm)' = Alone(firm)!Added(ClientNames(firm), at, name)
    BY <1>2, <1>3, <1>4, <1>5, <1>8, <2>4, OwnClientAdded, SameTables
  <2>6. Strip[DeskOf(firm)[s].request.name] = name
    BY <2>2 DEF name
  <2>7. Alone(firm)!CreateClient(s)
    <3>1. CASE ~MayEdit(s) /\ Alone(firm)!Answer(s, 403, {}) /\ UNCHANGED ClientNames(firm)
      BY <1>6, <2>2, <3>1 DEF Alone!CreateClient
    <3>2. CASE MayEdit(s) /\ Taken(s, name) /\ Alone(firm)!Answer(s, 500, {})
               /\ UNCHANGED ClientNames(firm)
      BY <1>6, <2>2, <2>3, <2>6, <3>2 DEF Alone!CreateClient
    <3>3. CASE /\ MayEdit(s) /\ ~Taken(s, name) /\ Alone(firm)!Answer(s, 201, {at})
               /\ ClientNames(firm)' = Alone(firm)!Added(ClientNames(firm), at, name)
      BY <1>6, <2>2, <2>3, <2>6, <3>3 DEF Alone!CreateClient
    <3> QED BY <2>5, <3>1, <3>2, <3>3
  <2> QED BY <2>7 DEF OfficeStep, Alone!OfficeNext
<1> QED BY <1>7, <1>8

(* A mandate is written, or refused, as the firm itself would: what was    *)
(* found of its client still holds.                                        *)
LEMMA FindClientIsAlone ==
    ASSUME TenancyInv, NEW firm, NEW s \in Slots, FindClient(s)
    PROVE  OfficeStep(firm)
<1> DEFINE request == desk[s].request
           valuer == desk[s].request.with.valuer
<1>1. /\ UNCHANGED <<clients, mandates>> /\ desk[s] # Absent /\ desk[s].step = "begun"
      /\ desk[s].request.does = "create mandate" /\ DeskIsTyped
  BY DEF FindClient, Is, TenancyInv
<1>2. UNCHANGED <<ClientNames(firm), MandateRows(firm)>>
  BY <1>1, SameTables
<1>3. \/ ~MayEdit(s) /\ Answer(s, 403, {})
      \/ MayEdit(s) /\ ~IsClient(s, request.client) /\ Answer(s, 404, {})
      \/ /\ MayEdit(s) /\ IsClient(s, request.client)
         /\ \/ request.with.dates # "iso" /\ Answer(s, 422, {})
            \/ valuer = 0 /\ Answer(s, 404, {})
      \/ desk' = [desk EXCEPT ![s].step = "found"] /\ clock' = clock
  BY DEF FindClient
<1>4. CASE desk' = [desk EXCEPT ![s].step = "found"] /\ clock' = clock
  <2> DEFINE e == [desk[s] EXCEPT !.step = "found"]
  <2>1. desk[s] \in Served
    BY <1>1, ServedIsTyped
  <2>2. e \in Served /\ e.request = desk[s].request /\ e.at = desk[s].at
        /\ e.code = desk[s].code /\ e.rows = desk[s].rows
    BY <2>1 DEF Served
  <2>3. e # Absent /\ desk' = [desk EXCEPT ![s] = e]
    BY <1>4, <2>2, AbsentAssumption
  <2> HIDE DEF e
  <2>4. desk'[s] = e /\ \A t \in Slots : t # s => desk'[t] = desk[t]
    BY <1>1, <2>3 DEF DeskIsTyped
  <2>5. SeenBy(firm, e) = SeenBy(firm, desk[s])
    BY <1>1, <2>2, <2>3 DEF SeenBy
  <2>6. DeskOf(firm)' = [DeskOf(firm) EXCEPT ![s] = SeenBy(firm, e)]
    BY <2>4, SlotSeen
  <2>7. DeskOf(firm)[s] = SeenBy(firm, desk[s]) /\ DeskOf(firm) = [t \in Slots |-> DeskOf(firm)[t]]
    BY DEF DeskOf
  <2>8. DeskOf(firm)' = DeskOf(firm)
    BY <2>5, <2>6, <2>7
  <2> QED BY <1>2, <1>4, <2>8 DEF OfficeStep, Alone!officeVars
<1>5. IsOwn(firm, s) =>
          /\ Alone(firm)!Pending(s, "create mandate")
          /\ Alone(firm)!MayEdit(s) <=> MayEdit(s)
          /\ DeskOf(firm)[s].request = request
          /\ \A c \in Nat, rows \in SUBSET Nat :
                Answer(s, c, rows) => Alone(firm)!Answer(s, c, rows)
  <2> SUFFICES ASSUME IsOwn(firm, s)
               PROVE  /\ Alone(firm)!Pending(s, "create mandate")
                      /\ Alone(firm)!MayEdit(s) <=> MayEdit(s)
                      /\ DeskOf(firm)[s].request = request
                      /\ \A c \in Nat, rows \in SUBSET Nat :
                            Answer(s, c, rows) => Alone(firm)!Answer(s, c, rows)
    OBVIOUS
  <2>1. \A c \in Nat, rows \in SUBSET Nat :
            Answer(s, c, rows) => Alone(firm)!Answer(s, c, rows)
    BY <1>1, OwnAnswer
  <2>2. DeskOf(firm)[s].request = request
    BY <1>1, OwnIsSeen
  <2>3. /\ Alone(firm)!Pending(s, desk[s].request.does)
        /\ Alone(firm)!MayEdit(s) <=> MayEdit(s)
    <3>1. desk[s].step # "answered"
      BY <1>1
    <3> QED BY <3>1, OwnPending
  <2> QED BY <1>1, <2>1, <2>2, <2>3
<1>6. ASSUME NEW refusal \in {403, 404, 422}, Answer(s, refusal, {}),
             \/ ~MayEdit(s) /\ refusal = 403
             \/ MayEdit(s) /\ ~IsClient(s, request.client) /\ refusal = 404
             \/ /\ MayEdit(s) /\ IsClient(s, request.client) /\ refusal # 403
                /\ request.with.dates # "iso" \/ valuer = 0
      PROVE  OfficeStep(firm)
  <2>1. refusal \in Nat /\ {} \in SUBSET Nat /\ Answer(s, refusal, {})
    BY <1>6
  <2>2. CASE Scope(s).firm # firm
    <3>1. Answered(s)
      BY <1>1, <2>1 DEF Answered
    <3> QED BY <1>2, <2>2, <3>1, OthersAnswered
  <2>3. CASE Scope(s).firm = firm
    <3>1. IsOwn(firm, s)
      BY <1>1, <2>3 DEF IsOwn
    <3>2. /\ Alone(firm)!Pending(s, "create mandate")
          /\ Alone(firm)!MayEdit(s) <=> MayEdit(s)
          /\ DeskOf(firm)[s].request = request
      BY <1>5, <3>1
    <3>3. Alone(firm)!Answer(s, refusal, {})
      <4>1. \A c \in Nat, rows \in SUBSET Nat :
                Answer(s, c, rows) => Alone(firm)!Answer(s, c, rows)
        BY <1>5, <3>1
      <4> QED BY <2>1, <4>1
    <3>4. IsClient(s, request.client) <=> request.client \in DOMAIN ClientNames(firm)
      BY <2>3 DEF IsClient, ClientNames
    <3>5. ~(request.with.dates = "iso" /\ request.with.valuer \in Staff \union {Absent})
          \/ ~MayEdit(s) \/ ~IsClient(s, request.client)
      BY <1>6, StaffAssumption, AbsentAssumption
    <3>6. /\ DeskOf(firm)[s].request.client = request.client
          /\ DeskOf(firm)[s].request.with = request.with
      BY <3>2
    <3>7. refusal \in {404, 422, 500} \/ ~MayEdit(s)
      BY <1>6
    <3> HIDE DEF request, valuer
    <3>8. Alone(firm)!CreateMandate(s)
      <4>1. CASE ~MayEdit(s)
        BY <1>2, <1>6, <3>2, <3>3, <4>1 DEF Alone!CreateMandate
      <4>2. CASE MayEdit(s) /\ ~IsClient(s, request.client)
        BY <1>2, <1>6, <3>2, <3>3, <3>4, <3>6, <4>2 DEF Alone!CreateMandate
      <4>3. CASE MayEdit(s) /\ IsClient(s, request.client)
        BY <1>2, <3>2, <3>3, <3>4, <3>5, <3>6, <3>7, <4>3 DEF Alone!CreateMandate
      <4> QED BY <4>1, <4>2, <4>3
    <3> QED BY <3>8 DEF OfficeStep, Alone!OfficeNext
  <2> QED BY <2>2, <2>3
<1>7. CASE \/ ~MayEdit(s) /\ Answer(s, 403, {})
           \/ MayEdit(s) /\ ~IsClient(s, request.client) /\ Answer(s, 404, {})
           \/ /\ MayEdit(s) /\ IsClient(s, request.client)
              /\ \/ request.with.dates # "iso" /\ Answer(s, 422, {})
                 \/ valuer = 0 /\ Answer(s, 404, {})
  <2> HIDE DEF request, valuer
  <2> QED BY <1>6, <1>7
<1> QED BY <1>3, <1>4, <1>7

(* The second query of a mandate decides it; the first was unseen.         *)
LEMMA InsertMandateIsAlone ==
    ASSUME TenancyInv, NEW firm, NEW s \in Slots, InsertMandate(s)
    PROVE  OfficeStep(firm)
<1> DEFINE at == desk[s].at
           client == desk[s].request.client
           valuer == desk[s].request.with.valuer
           new == [firm |-> Scope(s).firm, client |-> client, valuer |-> valuer, at |-> at]
           row == [client |-> client, valuer |-> valuer, at |-> at]
<1>1. /\ UNCHANGED clients /\ desk[s] # Absent /\ desk[s].step = "found"
      /\ desk[s].request.does = "create mandate"
      /\ DeskIsTyped /\ ServedInTime(s) /\ FoundIsClient(s)
  BY DEF InsertMandate, Is, TenancyInv
<1>2. at \in Nat /\ at \notin DOMAIN mandates
  BY <1>1, ServedIsTyped DEF ServedInTime
<1>3. MayEdit(s) /\ IsClient(s, client) /\ desk[s].request.with.dates = "iso"
  BY <1>1 DEF FoundIsClient
<1>4. \/ valuer \notin Staff \union {Absent} /\ Answer(s, 500, {}) /\ UNCHANGED mandates
      \/ /\ valuer \in Staff \union {Absent} /\ Answer(s, 201, {at})
         /\ mandates' = Added(mandates, at, new)
  BY DEF InsertMandate
<1>5. new.firm = Scope(s).firm
      /\ [client |-> new.client, valuer |-> new.valuer, at |-> new.at] = row
  OBVIOUS
<1>6. {} \in SUBSET Nat /\ {at} \in SUBSET Nat /\ 500 \in Nat /\ 201 \in Nat
  BY <1>2
<1>7. UNCHANGED ClientNames(firm)
  BY <1>1, SameTables
<1> HIDE DEF new
<1>8. CASE Scope(s).firm # firm
  <2>1. Answered(s)
    <3> HIDE DEF at
    <3> QED BY <1>1, <1>4, <1>6 DEF Answered
  <2>2. UNCHANGED MandateRows(firm)
    BY <1>2, <1>4, <1>5, <1>8, OwnMandateAdded, SameTables
  <2> QED BY <1>7, <1>8, <2>1, <2>2, OthersAnswered
<1>9. CASE Scope(s).firm = firm
  <2>1. IsOwn(firm, s)
    BY <1>1, <1>9 DEF IsOwn
  <2>2. /\ Alone(firm)!Pending(s, "create mandate")
        /\ Alone(firm)!MayEdit(s) <=> MayEdit(s)
        /\ DeskOf(firm)[s].at = at /\ DeskOf(firm)[s].request = desk[s].request
    BY <1>1, <2>1, OwnPending, OwnIsSeen
  <2>3. client \in DOMAIN ClientNames(firm)
    BY <1>3, <1>9 DEF IsClient, ClientNames
  <2>4. \A code \in Nat, rows \in SUBSET Nat :
            Answer(s, code, rows) => Alone(firm)!Answer(s, code, rows)
    BY <1>1, <2>1, OwnAnswer
  <2>5. /\ DeskOf(firm)[s].request.client = client
        /\ DeskOf(firm)[s].request.with.valuer = valuer
        /\ DeskOf(firm)[s].request.with.dates = "iso"
    BY <1>3, <2>2
  <2>6. CASE valuer \notin Staff \union {Absent} /\ Answer(s, 500, {}) /\ UNCHANGED mandates
    <3>1. Alone(firm)!Answer(s, 500, {}) /\ UNCHANGED MandateRows(firm)
      BY <1>6, <2>4, <2>6, SameTables
    <3> HIDE DEF at, client, valuer
    <3>2. Alone(firm)!CreateMandate(s)
      BY <1>3, <1>7, <2>2, <2>3, <2>5, <2>6, <3>1 DEF Alone!CreateMandate
    <3> QED BY <3>2 DEF OfficeStep, Alone!OfficeNext
  <2>7. CASE /\ valuer \in Staff \union {Absent} /\ Answer(s, 201, {at})
             /\ mandates' = Added(mandates, at, new)
    <3>1. Alone(firm)!Answer(s, 201, {at})
      <4> HIDE DEF at
      <4> QED BY <1>6, <2>4, <2>7
    <3>2. MandateRows(firm)' = Alone(firm)!Added(MandateRows(firm), at, row)
      BY <1>2, <1>5, <1>9, <2>7, OwnMandateAdded
    <3> HIDE DEF at, client, valuer
    <3>3. Alone(firm)!CreateMandate(s)
      BY <1>3, <1>7, <2>2, <2>3, <2>5, <2>7, <3>1, <3>2 DEF Alone!CreateMandate
    <3> QED BY <3>3 DEF OfficeStep, Alone!OfficeNext
  <2> QED BY <1>4, <2>6, <2>7
<1> QED BY <1>8, <1>9

(* The clients listed are the first of a firm's by name.                   *)
(* Office counts as Tenancy does.                                          *)
LEMMA SameCardinality == \A firm, S : Alone(firm)!Cardinality(S) = Cardinality(S)
  BY DEF Alone!Cardinality, Cardinality

LEMMA NamesAreFirst ==
    ASSUME TenancyInv, NEW firm, NEW rows \in SUBSET ClientsOf(firm), NEW limit \in Nat
    PROVE  Alone(firm)!IsFirst(FirstByName(rows, limit), rows, limit,
               {p \in rows \X rows : ClientNames(firm)[p[1]] < ClientNames(firm)[p[2]]})
<1> DEFINE key == [c \in DOMAIN clients |-> clients[c].name]
           listed == FirstByName(rows, limit)
           before == {p \in rows \X rows : ClientNames(firm)[p[1]] < ClientNames(firm)[p[2]]}
<1>1. IsFiniteSet(rows)
  <2>1. IsFiniteSet(1 .. clock)
    BY RowsAreNats, FS_Interval
  <2>2. rows \subseteq 1 .. clock
    BY DEF TenancyInv, RowsAreNumbered, ClientsOf
  <2> QED BY <2>1, <2>2, FS_Subset
<1>2. \A x \in rows : x \in DOMAIN clients /\ clients[x].firm = firm /\ key[x] = clients[x].name
  BY DEF ClientsOf
<1>3. Orders(key, rows)
  BY <1>2 DEF TenancyInv, NamesAreDistinct, Orders
<1>4. listed = Ahead(rows, key, limit)
  <2>1. \A x \in rows : {y \in rows : key[y] < key[x]}
                           = {y \in rows : clients[y].name < clients[x].name}
    BY <1>2
  <2> QED BY <2>1 DEF FirstByName, Ahead
<1>5. \A x \in rows : ClientNames(firm)[x] = key[x]
  BY <1>2 DEF ClientNames
<1> HIDE DEF key, listed
<1>6. /\ listed \subseteq rows /\ Cardinality(listed) <= limit
      /\ listed = rows \/ Cardinality(listed) = limit
      /\ \A x \in listed, y \in rows \ listed : key[x] < key[y]
  BY <1>1, <1>3, <1>4, FirstRows
<1>7. listed \X (rows \ listed) \subseteq before
  <2> SUFFICES ASSUME NEW x \in listed, NEW y \in rows \ listed PROVE <<x, y>> \in before
    OBVIOUS
  <2>1. x \in rows /\ y \in rows /\ ClientNames(firm)[x] < ClientNames(firm)[y]
    BY <1>5, <1>6
  <2> QED BY <2>1
<1> HIDE DEF before
<1>8. Alone(firm)!IsFirst(listed, rows, limit, before)
  BY <1>6, <1>7, SameCardinality DEF Alone!IsFirst
<1> QED BY <1>8 DEF listed, before

(* The mandates listed are the newest of those shown.                      *)
LEMMA MandatesAreFirst ==
    ASSUME TenancyInv, NEW firm, NEW rows \in SUBSET MandatesOf(firm), NEW limit \in Nat
    PROVE  Alone(firm)!IsFirst(Newest(rows, limit), rows, limit,
               {p \in rows \X rows :
                   MandateRows(firm)[p[1]].at > MandateRows(firm)[p[2]].at})
<1> DEFINE key == [m \in DOMAIN mandates |-> -mandates[m].at]
           listed == Newest(rows, limit)
           before == {p \in rows \X rows :
                         MandateRows(firm)[p[1]].at > MandateRows(firm)[p[2]].at}
<1>1. IsFiniteSet(rows) /\ rows \subseteq Nat
  <2>1. IsFiniteSet(1 .. clock) /\ clock \in Nat
    BY RowsAreNats, FS_Interval
  <2>2. rows \subseteq 1 .. clock
    BY DEF TenancyInv, RowsAreNumbered, MandatesOf
  <2>3. IsFiniteSet(rows)
    BY <2>1, <2>2, FS_Subset
  <2> QED BY <2>1, <2>2, <2>3
<1>2. \A x \in rows : /\ x \in DOMAIN mandates /\ x \in Nat
                      /\ mandates[x].at = x /\ key[x] = -x
  BY <1>1 DEF TenancyInv, RowsAreNumbered, MandatesOf
<1>3. Orders(key, rows)
  BY <1>2 DEF Orders
<1>4. listed = Ahead(rows, key, limit)
  <2>1. \A x \in rows : {y \in rows : key[y] < key[x]}
                           = {y \in rows : mandates[y].at > mandates[x].at}
    BY <1>2
  <2> QED BY <2>1 DEF Newest, Ahead
<1>5. \A x \in rows : MandateRows(firm)[x].at = x
  BY <1>2 DEF MandateRows
<1> HIDE DEF key, listed
<1>6. /\ listed \subseteq rows /\ Cardinality(listed) <= limit
      /\ listed = rows \/ Cardinality(listed) = limit
      /\ \A x \in listed, y \in rows \ listed : key[x] < key[y]
  BY <1>1, <1>3, <1>4, FirstRows
<1>7. listed \X (rows \ listed) \subseteq before
  <2> SUFFICES ASSUME NEW x \in listed, NEW y \in rows \ listed PROVE <<x, y>> \in before
    OBVIOUS
  <2>1. x \in rows /\ y \in rows /\ x > y
    BY <1>2, <1>6
  <2>2. MandateRows(firm)[x].at > MandateRows(firm)[y].at
    BY <1>5, <2>1
  <2> QED BY <2>1, <2>2
<1> HIDE DEF before
<1>8. Alone(firm)!IsFirst(listed, rows, limit, before)
  BY <1>6, <1>7, SameCardinality DEF Alone!IsFirst
<1> QED BY <1>8 DEF listed, before

(* The clients listed are the first of the firm's own.                     *)
LEMMA ListClientsIsAlone ==
    ASSUME TenancyInv, NEW firm, NEW s \in Slots, ListClients(s)
    PROVE  OfficeStep(firm)
<1> DEFINE term == desk[s].request.term
           matching == {c \in DOMAIN ClientNames(firm) :
                           term = Absent \/ ClientNames(firm)[c] \in term}
           limit == IF term = Absent THEN ListLimit ELSE SearchLimit
           listed == FirstByName(matching, limit)
           byName == {p \in matching \X matching :
                         ClientNames(firm)[p[1]] < ClientNames(firm)[p[2]]}
<1>1. Answered(s) /\ UNCHANGED <<clients, mandates>>
  BY ListClientsAnswers
<1>2. /\ DeskIsTyped /\ desk[s] # Absent /\ desk[s].step = "begun"
      /\ desk[s].request.does = "list clients"
  BY DEF ListClients, Is, TenancyInv
<1>3. UNCHANGED <<ClientNames(firm), MandateRows(firm)>>
  BY <1>1, SameTables
<1>4. CASE Scope(s).firm # firm
  BY <1>1, <1>3, <1>4, OthersAnswered
<1>5. CASE Scope(s).firm = firm
  <2>1. IsOwn(firm, s)
    BY <1>2, <1>5 DEF IsOwn
  <2>2. Alone(firm)!Pending(s, "list clients")
    <3>1. Alone(firm)!Pending(s, desk[s].request.does)
      <4>1. desk[s].step # "answered"
        BY <1>2
      <4> QED BY <2>1, <4>1, OwnPending
    <3> QED BY <1>2, <3>1
  <2>3. DeskOf(firm)[s].request.term = term
    BY <1>2, <2>1, OwnIsSeen
  <2>4. DOMAIN ClientNames(firm) = ClientsOf(firm)
        /\ \A c \in ClientsOf(firm) : ClientNames(firm)[c] = clients[c].name
    BY DEF ClientNames
  <2>5. Answer(s, 200, listed)
    <3>1. CASE term = Absent
      <4>1. matching = ClientsOf(Scope(s).firm) /\ limit = ListLimit
        BY <1>5, <2>4, <3>1
      <4>2. listed = AllClients(s)
        BY <4>1 DEF AllClients
      <4> HIDE DEF listed
      <4> QED BY <3>1, <4>2 DEF ListClients
    <3>2. CASE term # Absent
      <4>1. matching = {c \in ClientsOf(Scope(s).firm) : clients[c].name \in term}
            /\ limit = SearchLimit
        BY <1>5, <2>4, <3>2
      <4>2. listed = SearchClients(s, term)
        BY <4>1 DEF SearchClients
      <4> HIDE DEF listed
      <4> QED BY <3>2, <4>2 DEF ListClients
    <3> QED BY <3>1, <3>2
  <2>6. limit \in Nat /\ matching \in SUBSET ClientsOf(firm)
    BY <2>4, LimitsAssumption
  <2>7. listed \in SUBSET matching /\ listed \in SUBSET Nat
    <3>1. listed \in SUBSET matching
      BY DEF FirstByName
    <3>2. ClientsOf(firm) \subseteq Nat
      BY RowsAreNats DEF ClientsOf
    <3> QED BY <2>6, <3>1, <3>2
  <2>8. Alone(firm)!IsFirst(listed, matching, limit, byName)
    <3> HIDE DEF matching, limit
    <3> QED BY <2>6, NamesAreFirst
  <2> DEFINE ok == 200
  <2>9. ok \in Nat
    OBVIOUS
  <2>10. Alone(firm)!Answer(s, ok, listed)
    <3>1. Answer(s, ok, listed)
      BY <2>5
    <3> HIDE DEF ok, listed
    <3> QED BY <1>2, <2>1, <2>7, <2>9, <3>1, OwnAnswer
  <2>11. /\ matching = {c \in DOMAIN ClientNames(firm) :
                            DeskOf(firm)[s].request.term = Absent
                              \/ ClientNames(firm)[c] \in DeskOf(firm)[s].request.term}
         /\ limit = IF DeskOf(firm)[s].request.term = Absent THEN ListLimit ELSE SearchLimit
    BY <2>3
  <2> HIDE DEF listed, matching, limit, term
  <2>12. Alone(firm)!ListClients(s)
    BY <1>3, <2>2, <2>7, <2>8, <2>10, <2>11 DEF Alone!ListClients
  <2> QED BY <2>12 DEF OfficeStep, Alone!OfficeNext
<1> QED BY <1>4, <1>5

(* A firm's mandates are shown to its own, none of them to a client's user.*)
LEMMA OwnMandatesAreShown ==
    ASSUME DeskIsTyped, NEW firm, NEW s \in Slots, IsOwn(firm, s)
    PROVE  Visible(s) = Alone(firm)!Shown(s) /\ Visible(s) \in SUBSET MandatesOf(firm)
<1>1. DeskOf(firm)[s].request.by.role = Scope(s).role
  BY OwnIsSeen DEF Scope
<1>2. DOMAIN MandateRows(firm) = MandatesOf(firm)
  BY DEF MandateRows
<1>3. Scope(s).firm = firm
  BY DEF IsOwn
<1>4. CASE Scope(s).role = "client"
  BY <1>1, <1>4 DEF Visible, Granted, Alone!Shown
<1>5. CASE Scope(s).role # "client"
  BY <1>1, <1>2, <1>3, <1>5 DEF Visible, MandatesOf, Alone!Shown
<1> QED BY <1>4, <1>5

(* A mandate is got when it is the firm's own.                             *)
LEMMA GetMandateIsAlone ==
    ASSUME TenancyInv, NEW firm, NEW s \in Slots, GetMandate(s)
    PROVE  OfficeStep(firm)
<1> DEFINE m == desk[s].request.on
<1>1. Answered(s) /\ UNCHANGED <<clients, mandates>>
  BY GetMandateAnswers
<1>2. /\ DeskIsTyped /\ desk[s] # Absent /\ desk[s].step = "begun"
      /\ desk[s].request.does = "get mandate"
  BY DEF GetMandate, Is, TenancyInv
<1>3. UNCHANGED <<ClientNames(firm), MandateRows(firm)>>
  BY <1>1, SameTables
<1>4. CASE Scope(s).firm # firm
  BY <1>1, <1>3, <1>4, OthersAnswered
<1>5. CASE Scope(s).firm = firm
  <2>1. IsOwn(firm, s)
    BY <1>2, <1>5 DEF IsOwn
  <2>2. Alone(firm)!Pending(s, "get mandate")
    <3>1. Alone(firm)!Pending(s, desk[s].request.does)
      <4>1. desk[s].step # "answered"
        BY <1>2
      <4> QED BY <2>1, <4>1, OwnPending
    <3> QED BY <1>2, <3>1
  <2>3. DeskOf(firm)[s].request.on = m
    BY <1>2, <2>1, OwnIsSeen
  <2>4. Visible(s) = Alone(firm)!Shown(s)
    BY <1>2, <2>1, OwnMandatesAreShown
  <2>5. \A code \in Nat, rows \in SUBSET Nat :
            Answer(s, code, rows) => Alone(firm)!Answer(s, code, rows)
    BY <1>2, <2>1, OwnAnswer
  <2>6. m \in Visible(s) => {m} \in SUBSET Nat
    BY RowsAreNats DEF Visible
  <2>7. {} \in SUBSET Nat /\ 200 \in Nat /\ 404 \in Nat
    OBVIOUS
  <2>8. (m \in Visible(s) /\ Answer(s, 200, {m})) \/ (m \notin Visible(s) /\ Answer(s, 404, {}))
    BY DEF GetMandate
  <2> HIDE DEF m
  <2>9. \/ m \in Visible(s) /\ Alone(firm)!Answer(s, 200, {m})
        \/ m \notin Visible(s) /\ Alone(firm)!Answer(s, 404, {})
    BY <2>5, <2>6, <2>7, <2>8
  <2>10. Alone(firm)!GetMandate(s)
    BY <1>3, <2>2, <2>3, <2>4, <2>9 DEF Alone!GetMandate
  <2> QED BY <2>10 DEF OfficeStep, Alone!OfficeNext
<1> QED BY <1>4, <1>5

(* The mandates listed are the newest of the firm's own.                   *)
LEMMA ListMandatesIsAlone ==
    ASSUME TenancyInv, NEW firm, NEW s \in Slots, ListMandates(s)
    PROVE  OfficeStep(firm)
<1> DEFINE shown == Visible(s)
           listed == Newest(shown, ListLimit)
           newer == {p \in shown \X shown :
                        MandateRows(firm)[p[1]].at > MandateRows(firm)[p[2]].at}
<1>1. Answered(s) /\ UNCHANGED <<clients, mandates>>
  BY ListMandatesAnswers
<1>2. /\ DeskIsTyped /\ desk[s] # Absent /\ desk[s].step = "begun"
      /\ desk[s].request.does = "list mandates"
  BY DEF ListMandates, Is, TenancyInv
<1>3. UNCHANGED <<ClientNames(firm), MandateRows(firm)>>
  BY <1>1, SameTables
<1>4. CASE Scope(s).firm # firm
  BY <1>1, <1>3, <1>4, OthersAnswered
<1>5. CASE Scope(s).firm = firm
  <2>1. IsOwn(firm, s)
    BY <1>2, <1>5 DEF IsOwn
  <2>2. Alone(firm)!Pending(s, "list mandates")
    <3>1. Alone(firm)!Pending(s, desk[s].request.does)
      <4>1. desk[s].step # "answered"
        BY <1>2
      <4> QED BY <2>1, <4>1, OwnPending
    <3> QED BY <1>2, <3>1
  <2>3. shown = Alone(firm)!Shown(s) /\ shown \in SUBSET MandatesOf(firm)
    BY <1>2, <2>1, OwnMandatesAreShown
  <2>4. listed \in SUBSET shown /\ listed \in SUBSET Nat
    <3>1. listed \in SUBSET shown
      BY DEF Newest
    <3>2. MandatesOf(firm) \subseteq Nat
      BY RowsAreNats DEF MandatesOf
    <3> QED BY <2>3, <3>1, <3>2
  <2>5. Alone(firm)!IsFirst(listed, shown, ListLimit, newer)
    <3> HIDE DEF shown
    <3> QED BY <2>3, LimitsAssumption, MandatesAreFirst
  <2> DEFINE ok == 200
  <2>6. ok \in Nat /\ Answer(s, ok, listed)
    BY DEF ListMandates
  <2>7. Alone(firm)!Answer(s, ok, listed)
    <3> HIDE DEF ok, listed
    <3> QED BY <1>2, <2>1, <2>4, <2>6, OwnAnswer
  <2> HIDE DEF listed, shown
  <2>8. Alone(firm)!ListMandates(s)
    BY <1>3, <2>2, <2>3, <2>4, <2>5, <2>7 DEF Alone!ListMandates
  <2> QED BY <2>8 DEF OfficeStep, Alone!OfficeNext
<1> QED BY <1>4, <1>5

(* A request that was answered leaves its slot.                            *)
LEMMA CloseDeskIsAlone ==
    ASSUME TenancyInv, NEW firm, NEW s \in Slots, CloseDesk(s)
    PROVE  OfficeStep(firm)
<1>1. /\ DeskIsTyped /\ desk[s] # Absent /\ desk[s].step = "answered"
      /\ desk' = [desk EXCEPT ![s] = Absent] /\ UNCHANGED <<clients, mandates, clock>>
  BY DEF CloseDesk, TenancyInv
<1>2. desk'[s] = Absent /\ \A t \in Slots : t # s => desk'[t] = desk[t]
  BY <1>1 DEF DeskIsTyped
<1>3. UNCHANGED <<ClientNames(firm), MandateRows(firm)>>
  BY <1>1, SameTables
<1>4. CASE Scope(s).firm # firm
  BY <1>1, <1>2, <1>3, <1>4, OthersStep
<1>5. CASE Scope(s).firm = firm
  <2>1. IsOwn(firm, s)
    BY <1>1, <1>5 DEF IsOwn
  <2>2. DeskOf(firm)[s] # Absent /\ DeskOf(firm)[s].code = desk[s].code
    BY <1>1, <2>1, OwnIsSeen
  <2>3. desk[s].code # Absent
    BY <1>1 DEF TenancyInv, ServedInTime
  <2>4. SeenBy(firm, desk'[s]) = Absent
    BY <1>2 DEF SeenBy
  <2>5. DeskOf(firm)' = [DeskOf(firm) EXCEPT ![s] = Absent]
    <3>1. DeskOf(firm)' = [DeskOf(firm) EXCEPT ![s] = SeenBy(firm, desk'[s])]
      BY <1>2, SlotSeen
    <3> QED BY <2>4, <3>1
  <2>6. Alone(firm)!Close(s)
    BY <1>1, <1>3, <2>2, <2>3, <2>5 DEF Alone!Close
  <2> QED BY <2>6 DEF OfficeStep, Alone!OfficeNext
<1> QED BY <1>4, <1>5

-------------------------------------------------------------------------------
(* Firm A cannot reach firm B's data by any route: every firm is answered  *)
(* as if it had the service to itself.                                     *)
THEOREM FirmsAreAlone == TenancySpec => EachFirmAlone
<1>1. TenancyInit => \A firm \in Firms : Alone(firm)!OfficeInit
  <2> SUFFICES ASSUME TenancyInit, NEW firm \in Firms PROVE Alone(firm)!OfficeInit
    OBVIOUS
  <2>1. MandatesOf(firm) = {}
    BY DEF TenancyInit, MandatesOf
  <2>2. MandateRows(firm) = [m \in {} |-> Absent]
    BY <2>1 DEF MandateRows
  <2>3. DeskOf(firm) = [s \in Slots |-> Absent]
    BY DEF TenancyInit, DeskOf, SeenBy
  <2> QED BY <2>2, <2>3 DEF Alone!OfficeInit
<1>2. TenancyInv /\ [TenancyNext]_tenancyVars =>
          [\A firm \in Firms : [Alone(firm)!OfficeNext]_(Alone(firm)!officeVars)]_tenancyVars
  <2> SUFFICES ASSUME TenancyInv, TenancyNext, NEW firm \in Firms
               PROVE  OfficeStep(firm)
    BY DEF OfficeStep
  <2>1. PICK s \in Slots :
            \/ \E request \in DeskRequests : Begin(s, request)
            \/ CreateClient(s) \/ ListClients(s) \/ FindClient(s) \/ InsertMandate(s)
            \/ GetMandate(s) \/ ListMandates(s) \/ CloseDesk(s)
    BY DEF TenancyNext
  <2>2. CASE \E request \in DeskRequests : Begin(s, request)
    BY <2>2, BeginIsAlone
  <2>3. CASE CreateClient(s)
    BY <2>3, CreateClientIsAlone
  <2>4. CASE ListClients(s)
    BY <2>4, ListClientsIsAlone
  <2>5. CASE FindClient(s)
    BY <2>5, FindClientIsAlone
  <2>6. CASE InsertMandate(s)
    BY <2>6, InsertMandateIsAlone
  <2>7. CASE GetMandate(s)
    BY <2>7, GetMandateIsAlone
  <2>8. CASE ListMandates(s)
    BY <2>8, ListMandatesIsAlone
  <2>9. CASE CloseDesk(s)
    BY <2>9, CloseDeskIsAlone
  <2> QED BY <2>1, <2>2, <2>3, <2>4, <2>5, <2>6, <2>7, <2>8, <2>9
<1>3. TenancySpec =>
          [][\A firm \in Firms : [Alone(firm)!OfficeNext]_(Alone(firm)!officeVars)]_tenancyVars
  BY <1>2, TenancyInvHolds, PTL DEF TenancySpec
<1>4. TenancySpec => \A firm \in Firms : Alone(firm)!OfficeInit
  BY <1>1 DEF TenancySpec
<1> QED BY <1>3, <1>4 DEF EachFirmAlone
================================================================================
