---------------------------- MODULE AccountsProofs ----------------------------
(***************************************************************************)
(* Proofs about Accounts for every set of requests, old accounts and       *)
(* addresses, with or without the required challenge.                      *)
(***************************************************************************)
EXTENDS Accounts, TLAPS

(* The points at which a request holds an instance of a row.               *)
Holding == {"rehash", "rehashed", "link", "linked", "complete", "minted",
            "challenge", "enrol", "enrolled", "issue"}

(***************************************************************************)
(* What a request knows of the row it works on.  The last two parts are    *)
(* the heart of SignUpSecretStays and AcceptedSecretStays: an instance of  *)
(* an account made by sign_up, or of one that was enrolled when it was     *)
(* read, shows a secret, so _complete mints it no other.                   *)
(***************************************************************************)
HoldsRow(r) ==
    request[r].pc \in Holding =>
        request[r].user \in Users /\ row[request[r].user].exists
HoldsGoogle(r) ==
    request[r].pc \in {"unlinked", "link"} => request[r].google \in GoogleAccounts
ShowsSecret(r) == request[r].pc = "challenge" => request[r].seen.secret # None
SavedSecret(r) ==
    request[r].pc = "minted" => row[request[r].user].secret # None
EnrolsOnce(r) ==
    request[r].pc = "enrol" =>
        ~request[r].seen.enrolled /\ row[request[r].user].secret # None
IssuesEnrolled(r) ==
    request[r].pc = "enrolled" \/ (request[r].pc = "issue" /\ mfaRequired) =>
        row[request[r].user].enrolled
SeesSignUpSecret(r) ==
    request[r].pc \in Holding /\ request[r].user \in Requests =>
        request[r].seen.secret = request[r].user
SeesEnrolledSecret(r) ==
    request[r].pc \in Holding /\ request[r].seen.enrolled =>
        request[r].seen.secret # None

Sound(r) ==
    /\ HoldsRow(r) /\ HoldsGoogle(r)
    /\ ShowsSecret(r) /\ SavedSecret(r)
    /\ EnrolsOnce(r) /\ IssuesEnrolled(r)
    /\ SeesSignUpSecret(r) /\ SeesEnrolledSecret(r)

RequestsSound == \A r \in Requests : Sound(r)

(* An account made by sign_up exists once its request is over.             *)
CreatedWhenOver == \A u \in Requests : row[u].exists => request[u].pc = "challenged"

(* Tokens and Google accounts belong to rows that exist.                   *)
TokensHaveRows ==
    /\ \A t \in sessions : row[t.user].exists
    /\ \A u \in challenges : row[u].exists
    /\ \A u \in Users : row[u].google # None => row[u].exists

EnrolledHaveSecrets ==
    \A u \in Users :
        row[u].enrolled => row[u].exists /\ row[u].secret # None

AccountsInv ==
    /\ TypeOK
    /\ RequestsSound
    /\ CreatedWhenOver
    /\ TokensHaveRows
    /\ EnrolledHaveSecrets
    /\ SessionsFollowEnrolment
    /\ SignUpSecretStays

-------------------------------------------------------------------------------
(***************************************************************************)
(* What save makes of a row, whatever was done to the row since it was     *)
(* read, when all that the request changed is one of the three columns.    *)
(***************************************************************************)
LEMMA SavedColumns ==
    ASSUME NEW current \in Row, NEW old \in Row, NEW new \in Row,
           old.enrolled => new.enrolled,
           new.google # old.google => new.google # None,
           new.secret # old.secret => new.secret # None
    PROVE  /\ Saved(current, old, new) \in Row
           /\ Saved(current, old, new).exists = current.exists
           /\ Saved(current, old, new).active = current.active
           /\ Saved(current, old, new).role = current.role
           /\ current.enrolled => Saved(current, old, new).enrolled
           /\ new.enrolled /\ ~old.enrolled => Saved(current, old, new).enrolled
           /\ Saved(current, old, new).enrolled =>
                current.enrolled \/ (new.enrolled /\ ~old.enrolled)
           /\ current.google # None => Saved(current, old, new).google # None
           /\ new.google = old.google =>
                Saved(current, old, new).google = current.google
           /\ current.secret # None => Saved(current, old, new).secret # None
           /\ new.secret # old.secret => Saved(current, old, new).secret # None
           /\ new.secret = old.secret =>
                Saved(current, old, new).secret = current.secret
<1> DEFINE saved == Saved(current, old, new)
           secret == IF new.secret # old.secret THEN new.secret ELSE current.secret
           enrolled == IF new.enrolled # old.enrolled THEN new.enrolled
                       ELSE current.enrolled
           google == IF new.google # old.google THEN new.google ELSE current.google
<1>1. saved = [current EXCEPT !.secret = secret, !.enrolled = enrolled, !.google = google]
  BY DEF Saved
<1>2. /\ secret \in Requests \union {None}
      /\ enrolled \in BOOLEAN
      /\ google \in GoogleAccounts \union {None}
  BY DEF Row
<1>3. /\ current.enrolled => enrolled
      /\ new.enrolled /\ ~old.enrolled => enrolled
      /\ enrolled => current.enrolled \/ (new.enrolled /\ ~old.enrolled)
      /\ current.google # None => google # None
      /\ new.google = old.google => google = current.google
      /\ current.secret # None => secret # None
      /\ new.secret # old.secret => secret # None
      /\ new.secret = old.secret => secret = current.secret
  BY DEF Row
<1> HIDE DEF saved, secret, enrolled, google
<1>4. saved \in Row
  BY <1>1, <1>2 DEF Row
<1>5. /\ saved.exists = current.exists /\ saved.active = current.active
      /\ saved.role = current.role
      /\ saved.secret = secret /\ saved.enrolled = enrolled /\ saved.google = google
  BY <1>1 DEF Row
<1> QED BY <1>3, <1>4, <1>5 DEF saved

LEMMA RowTypes ==
    /\ NoRow \in Row
    /\ \A a \in Addresses \union {None} : OldRow(a) \in Row
    /\ Idle \in Request
<1>1. NoRow \in Row
  BY SettingsAssumption DEF NoRow, Row
<1>2. \A a \in Addresses \union {None} : OldRow(a) \in Row
  BY <1>1, SettingsAssumption DEF OldRow, NoRow, Row
<1>3. Idle \in Request
  BY <1>1 DEF Idle, Request
<1> QED BY <1>1, <1>2, <1>3

LEMMA InitAccounts == Init => AccountsInv
<1> SUFFICES ASSUME Init PROVE AccountsInv
  OBVIOUS
<1> USE DEF Init
<1>1. \A u \in Users : row[u] \in Row /\ row[u].google = None
                     /\ ~row[u].enrolled
                     /\ (u \in Requests => ~row[u].exists)
  BY RowTypes, AddressAssumption, NamesAssumption DEF Users, OldRow, NoRow
<1>2. TypeOK
  BY <1>1, RowTypes DEF TypeOK
<1>3. RequestsSound
  BY DEF RequestsSound, Sound, HoldsRow, HoldsGoogle, ShowsSecret, SavedSecret,
         EnrolsOnce, IssuesEnrolled, SeesSignUpSecret, SeesEnrolledSecret,
         Holding, Idle
<1>4. /\ CreatedWhenOver /\ TokensHaveRows /\ EnrolledHaveSecrets
      /\ SessionsFollowEnrolment /\ SignUpSecretStays
  BY <1>1 DEF CreatedWhenOver, TokensHaveRows, EnrolledHaveSecrets,
              SessionsFollowEnrolment, SignUpSecretStays, Users
<1> QED BY <1>2, <1>3, <1>4 DEF AccountsInv

-------------------------------------------------------------------------------
(***************************************************************************)
(* What every step leaves true of a row that exists.                       *)
(***************************************************************************)
Kept(u) ==
    row[u].exists =>
        /\ row'[u].exists
        /\ row[u].enrolled => row'[u].enrolled
        /\ row[u].google # None => row'[u].google # None
        /\ row[u].secret # None => row'[u].secret # None
        /\ ~row[u].active => ~row'[u].active
        /\ u \in Requests => row'[u].secret = row[u].secret

RowsKept == \A u \in Users : Kept(u)

(* A request that does nothing stays sound while the rows are kept.        *)
LEMMA OthersSound ==
    ASSUME AccountsInv, RowsKept, mfaRequired' = mfaRequired,
           NEW s \in Requests, request'[s] = request[s]
    PROVE  Sound(s)'
<1>1. Sound(s)
  BY DEF AccountsInv, RequestsSound
<1>2. /\ HoldsRow(s)' /\ HoldsGoogle(s)' /\ ShowsSecret(s)'
      /\ SeesSignUpSecret(s)' /\ SeesEnrolledSecret(s)'
  BY <1>1 DEF Sound, HoldsRow, HoldsGoogle, ShowsSecret,
              SeesSignUpSecret, SeesEnrolledSecret, RowsKept, Kept
<1>3. IssuesEnrolled(s)' /\ SavedSecret(s)' /\ EnrolsOnce(s)'
  BY <1>1 DEF Sound, HoldsRow, IssuesEnrolled, SavedSecret, EnrolsOnce,
              RowsKept, Kept, Holding
<1> QED BY <1>2, <1>3 DEF Sound

(***************************************************************************)
(* What a step of request r must show: the tables are right, and so is r.  *)
(***************************************************************************)
TablesRight ==
    /\ mfaRequired' = mfaRequired
    /\ RowsKept
    /\ TypeOK'
    /\ TokensHaveRows'
    /\ EnrolledHaveSecrets'
    /\ SessionsFollowEnrolment'

OnlyRequest(r) ==
    /\ request[r].pc # "challenged"
    /\ request' \in [Requests -> Request]
    /\ \A s \in Requests \ {r} : request'[s] = request[s]

NoNewRow == \A u \in Users : row'[u].exists => row[u].exists

LEMMA StepKeepsInv ==
    ASSUME AccountsInv, NEW r \in Requests, TablesRight, NoNewRow,
           OnlyRequest(r), Sound(r)'
    PROVE  AccountsInv' /\ RowsKept
<1>1. RequestsSound'
  <2> SUFFICES ASSUME NEW s \in Requests PROVE Sound(s)'
    BY DEF RequestsSound
  <2>1. CASE s = r
    BY <2>1
  <2>2. CASE s # r
    BY <2>2, OthersSound DEF OnlyRequest, TablesRight
  <2> QED BY <2>1, <2>2
<1>2. CreatedWhenOver' /\ SignUpSecretStays'
  BY DEF AccountsInv, CreatedWhenOver, SignUpSecretStays, NoNewRow, OnlyRequest,
         TablesRight, RowsKept, Kept, Users
<1> QED BY <1>1, <1>2 DEF AccountsInv, TablesRight

(* The steps that write no table.                                          *)
LEMMA ReadingTables ==
    ASSUME AccountsInv, TablesUnchanged, request' \in [Requests -> Request]
    PROVE  TablesRight /\ NoNewRow
  BY DEF TablesUnchanged, TablesRight, NoNewRow, RowsKept, Kept, AccountsInv,
         TypeOK, TokensHaveRows, EnrolledHaveSecrets, SessionsFollowEnrolment

(* The steps that save an instance.                                        *)
LEMMA SavingTables ==
    ASSUME AccountsInv, NEW r \in Requests, NEW new \in Row,
           request[r].pc \in Holding,
           Save(r, new), RestUnchanged, request' \in [Requests -> Request],
           request[r].seen.enrolled => new.enrolled,
           new.google # request[r].seen.google => new.google # None,
           new.secret # request[r].seen.secret => new.secret # None,
           request[r].user \in Requests => new.secret = request[r].seen.secret,
           new.enrolled /\ ~request[r].seen.enrolled =>
                row[request[r].user].secret # None
    PROVE  /\ TablesRight /\ NoNewRow
           /\ row'[request[r].user].exists
           /\ new.enrolled /\ ~request[r].seen.enrolled =>
                row'[request[r].user].enrolled
           /\ row[request[r].user].enrolled => row'[request[r].user].enrolled
           /\ new.secret # request[r].seen.secret =>
                row'[request[r].user].secret # None
<1> DEFINE u == request[r].user
           seen == request[r].seen
<1>1. /\ u \in Users /\ row[u].exists
      /\ row \in [Users -> Row] /\ seen \in Row
  BY DEF AccountsInv, RequestsSound, Sound, HoldsRow, TypeOK, Request
<1>2. /\ row' = [row EXCEPT ![u] = Saved(row[u], seen, new)]
      /\ mfaRequired' = mfaRequired
      /\ shown' = shown /\ challenges' = challenges
      /\ sessions' = sessions /\ changes' = changes
  BY DEF Save, RestUnchanged
<1>3. /\ row'[u] \in Row /\ row'[u].exists
      /\ row'[u].active = row[u].active
      /\ row[u].enrolled => row'[u].enrolled
      /\ new.enrolled /\ ~seen.enrolled => row'[u].enrolled
      /\ row'[u].enrolled => row[u].enrolled \/ (new.enrolled /\ ~seen.enrolled)
      /\ row[u].google # None => row'[u].google # None
      /\ row[u].secret # None => row'[u].secret # None
      /\ new.secret # seen.secret => row'[u].secret # None
      /\ new.secret = seen.secret => row'[u].secret = row[u].secret
  BY <1>1, <1>2, SavedColumns
<1>4. \A v \in Users \ {u} : row'[v] = row[v]
  BY <1>1, <1>2
<1>5. row' \in [Users -> Row]
  BY <1>1, <1>2, <1>3
<1> HIDE DEF u, seen
<1>6. RowsKept /\ NoNewRow
  BY <1>1, <1>3, <1>4 DEF RowsKept, Kept, NoNewRow, u, seen
<1>7. TypeOK'
  BY <1>2, <1>5 DEF AccountsInv, TypeOK
<1>8. TokensHaveRows' /\ SessionsFollowEnrolment'
  BY <1>1, <1>2, <1>3, <1>4
     DEF AccountsInv, TypeOK, TokensHaveRows, SessionsFollowEnrolment
<1>9. EnrolledHaveSecrets'
  <2>1. row'[u].enrolled => row'[u].exists /\ row'[u].secret # None
    BY <1>1, <1>3 DEF AccountsInv, EnrolledHaveSecrets, u, seen
  <2> QED BY <1>4, <2>1 DEF AccountsInv, EnrolledHaveSecrets
<1> QED BY <1>2, <1>3, <1>6, <1>7, <1>8, <1>9 DEF TablesRight, u, seen

(* The two ways a handler goes on.                                         *)
LEMMA GotoOnly ==
    ASSUME AccountsInv, NEW r \in Requests, NEW pc, Goto(r, pc),
           [request[r] EXCEPT !.pc = pc] \in Request,
           request[r].pc # "challenged"
    PROVE  /\ OnlyRequest(r)
           /\ request'[r] = [request[r] EXCEPT !.pc = pc]
  BY DEF Goto, OnlyRequest, AccountsInv, TypeOK

LEMMA HoldsOnly ==
    ASSUME AccountsInv, NEW r \in Requests, NEW u \in Users, NEW pc \in Holding,
           Holds(r, u, pc), request[r].pc # "challenged"
    PROVE  /\ OnlyRequest(r)
           /\ request'[r].pc = pc
           /\ request'[r].user = u
           /\ request'[r].seen = row[u]
           /\ request'[r].google = request[r].google
<1>1. row[u] \in Row /\ request[r] \in Request /\ request \in [Requests -> Request]
  BY DEF AccountsInv, TypeOK
<1>2. request' = [request EXCEPT ![r] =
                    [request[r] EXCEPT !.pc = pc, !.user = u, !.seen = row[u]]]
  BY <1>1 DEF Holds, Request
<1>3. [request[r] EXCEPT !.pc = pc, !.user = u, !.seen = row[u]] \in Request
  BY <1>1 DEF Request, Holding
<1> QED BY <1>1, <1>2, <1>3 DEF OnlyRequest, Request

-------------------------------------------------------------------------------
(* A request that holds no row has little to show.                         *)
LEMMA NotHoldingSound ==
    ASSUME NEW r \in Requests, request'[r].pc \notin Holding,
           request'[r].pc = "unlinked" => request'[r].google \in GoogleAccounts
    PROVE  Sound(r)'
  BY DEF Sound, HoldsRow, HoldsGoogle, ShowsSecret, SavedSecret, EnrolsOnce,
         IssuesEnrolled, SeesSignUpSecret, SeesEnrolledSecret, Holding

(* A step that only moves r to an end of its handler.                      *)
LEMMA EndingStep ==
    ASSUME AccountsInv, NEW r \in Requests, TablesUnchanged,
           NEW pc \in {"refused", "error"}, Goto(r, pc),
           request[r].pc # "challenged"
    PROVE  AccountsInv' /\ RowsKept
<1>1. request[r] \in Request
  BY DEF AccountsInv, TypeOK
<1>2. [request[r] EXCEPT !.pc = pc] \in Request
  BY <1>1 DEF Request
<1>3. OnlyRequest(r) /\ request'[r].pc = pc
  BY <1>1, <1>2, GotoOnly DEF Request
<1>4. TablesRight /\ NoNewRow
  BY <1>3, ReadingTables DEF OnlyRequest
<1>5. Sound(r)'
  BY <1>3, NotHoldingSound DEF Holding
<1> QED BY <1>3, <1>4, <1>5, StepKeepsInv

(***************************************************************************)
(* A step that reads a row and goes on with it.                            *)
(***************************************************************************)
LEMMA HoldingStep ==
    ASSUME AccountsInv, NEW r \in Requests, NEW u \in Users, NEW pc \in Holding,
           TablesUnchanged, Holds(r, u, pc), request[r].pc # "challenged",
           row[u].exists,
           pc = "link" => request[r].google \in GoogleAccounts,
           pc = "challenge" => row[u].secret # None,
           pc = "minted" => row[u].secret # None,
           pc = "enrol" => ~row[u].enrolled /\ row[u].secret # None,
           pc = "enrolled" \/ (pc = "issue" /\ mfaRequired) => row[u].enrolled
    PROVE  AccountsInv' /\ RowsKept
<1>1. /\ OnlyRequest(r)
      /\ request'[r].pc = pc
      /\ request'[r].user = u
      /\ request'[r].seen = row[u]
      /\ request'[r].google = request[r].google
  BY HoldsOnly
<1>2. TablesRight /\ NoNewRow
  BY <1>1, ReadingTables DEF OnlyRequest
<1>3. row' = row /\ mfaRequired' = mfaRequired
  BY DEF TablesUnchanged
<1>4. pc # "unlinked"
  BY DEF Holding
<1>5. /\ HoldsRow(r)' /\ HoldsGoogle(r)' /\ ShowsSecret(r)' /\ SavedSecret(r)'
      /\ EnrolsOnce(r)' /\ IssuesEnrolled(r)'
  BY <1>1, <1>3, <1>4 DEF HoldsRow, HoldsGoogle, ShowsSecret, SavedSecret,
                          EnrolsOnce, IssuesEnrolled
<1>6. SeesSignUpSecret(r)' /\ SeesEnrolledSecret(r)'
  BY <1>1 DEF SeesSignUpSecret, SeesEnrolledSecret, AccountsInv,
              SignUpSecretStays, EnrolledHaveSecrets
<1>7. Sound(r)'
  BY <1>5, <1>6 DEF Sound
<1> QED BY <1>1, <1>2, <1>7, StepKeepsInv

(* A step of r that leaves what r holds and only moves it on.              *)
LEMMA MovedSound ==
    ASSUME NEW r \in Requests, NEW pc \in Holding, AccountsInv,
           request[r].pc \in Holding,
           request'[r] = [request[r] EXCEPT !.pc = pc], RowsKept,
           pc = "link" => request[r].google \in GoogleAccounts,
           pc = "challenge" => request[r].seen.secret # None,
           pc = "minted" => row'[request[r].user].secret # None,
           pc # "enrol",
           pc = "enrolled" \/ (pc = "issue" /\ mfaRequired') =>
                row'[request[r].user].enrolled
    PROVE  Sound(r)'
<1>1. /\ request[r] \in Request /\ HoldsRow(r)
      /\ SeesSignUpSecret(r) /\ SeesEnrolledSecret(r)
  BY DEF AccountsInv, TypeOK, RequestsSound, Sound
<1>2. /\ request'[r].pc = pc
      /\ request'[r].user = request[r].user
      /\ request'[r].seen = request[r].seen
      /\ request'[r].google = request[r].google
  BY <1>1 DEF Request
<1>3. pc # "unlinked"
  BY DEF Holding
<1>4. HoldsRow(r)'
  BY <1>1, <1>2 DEF HoldsRow, RowsKept, Kept
<1>5. /\ HoldsGoogle(r)' /\ ShowsSecret(r)' /\ SavedSecret(r)'
      /\ EnrolsOnce(r)' /\ IssuesEnrolled(r)'
  BY <1>2, <1>3 DEF HoldsGoogle, ShowsSecret, SavedSecret, EnrolsOnce, IssuesEnrolled
<1>6. SeesSignUpSecret(r)' /\ SeesEnrolledSecret(r)'
  BY <1>1, <1>2 DEF SeesSignUpSecret, SeesEnrolledSecret
<1> QED BY <1>4, <1>5, <1>6 DEF Sound

-------------------------------------------------------------------------------
LEMMA SignUpStep ==
    ASSUME AccountsInv, NEW r \in Requests, SignUp(r) PROVE AccountsInv' /\ RowsKept
<1>1. request[r].pc = "idle" /\ TablesUnchanged
  BY DEF SignUp
<1>2. CASE \E pc \in {"refused", "error"} : Goto(r, pc)
  BY <1>1, <1>2, EndingStep
<1>3. ASSUME NEW a \in Addresses,
             request' = [request EXCEPT ![r].pc = "creating", ![r].address = a]
      PROVE  AccountsInv' /\ RowsKept
  <2>1. request[r] \in Request /\ request \in [Requests -> Request]
    BY DEF AccountsInv, TypeOK
  <2>2. request' = [request EXCEPT ![r] =
                      [request[r] EXCEPT !.pc = "creating", !.address = a]]
    BY <1>3, <2>1 DEF Request
  <2>3. [request[r] EXCEPT !.pc = "creating", !.address = a] \in Request
    BY <2>1 DEF Request
  <2>4. OnlyRequest(r) /\ request'[r].pc = "creating"
    BY <1>1, <2>1, <2>2, <2>3 DEF OnlyRequest, Request
  <2>5. TablesRight /\ NoNewRow
    BY <1>1, <2>4, ReadingTables DEF OnlyRequest
  <2>6. Sound(r)'
    BY <2>4, NotHoldingSound DEF Holding
  <2> QED BY <2>4, <2>5, <2>6, StepKeepsInv
<1> QED BY <1>2, <1>3 DEF SignUp

LEMMA SignInStep ==
    ASSUME AccountsInv, NEW r \in Requests, SignIn(r) PROVE AccountsInv' /\ RowsKept
<1>1. request[r].pc = "idle" /\ TablesUnchanged
  BY DEF SignIn
<1>2. CASE \E pc \in {"refused", "error"} : Goto(r, pc)
  BY <1>1, <1>2, EndingStep
<1>3. ASSUME NEW a \in Addresses, NEW u \in At(a),
             NEW pc \in {"rehash", "complete"}, Holds(r, u, pc)
      PROVE  AccountsInv' /\ RowsKept
  <2>1. u \in Users /\ row[u].exists /\ pc \in Holding
    BY DEF At, Holding
  <2> QED BY <1>1, <1>3, <2>1, HoldingStep
<1> QED BY <1>2, <1>3 DEF SignIn

LEMMA SignInWithGoogleStep ==
    ASSUME AccountsInv, NEW r \in Requests, SignInWithGoogle(r)
    PROVE  AccountsInv' /\ RowsKept
<1>1. request[r].pc = "idle" /\ TablesUnchanged
  BY DEF SignInWithGoogle
<1>2. CASE Goto(r, "refused")
  BY <1>1, <1>2, EndingStep
<1>3. ASSUME NEW g \in GoogleAccounts, NEW u \in Users, row[u].google = g,
             Holds(r, u, "complete")
      PROVE  AccountsInv' /\ RowsKept
  <2>1. row[u].exists
    BY <1>3, NamesAssumption DEF AccountsInv, TokensHaveRows
  <2>2. "complete" \in Holding
    BY DEF Holding
  <2> QED BY <1>1, <1>3, <2>1, <2>2, HoldingStep
<1>4. ASSUME NEW g \in GoogleAccounts,
             request' = [request EXCEPT ![r].pc = "unlinked", ![r].google = g]
      PROVE  AccountsInv' /\ RowsKept
  <2>1. request[r] \in Request /\ request \in [Requests -> Request]
    BY DEF AccountsInv, TypeOK
  <2>2. request' = [request EXCEPT ![r] =
                      [request[r] EXCEPT !.pc = "unlinked", !.google = g]]
    BY <1>4, <2>1 DEF Request
  <2>3. [request[r] EXCEPT !.pc = "unlinked", !.google = g] \in Request
    BY <2>1 DEF Request
  <2>4. OnlyRequest(r) /\ request'[r].pc = "unlinked" /\ request'[r].google = g
    BY <1>1, <2>1, <2>2, <2>3 DEF OnlyRequest, Request
  <2>5. TablesRight /\ NoNewRow
    BY <1>1, <2>4, ReadingTables DEF OnlyRequest
  <2>6. Sound(r)'
    BY <2>4, NotHoldingSound DEF Holding
  <2> QED BY <2>4, <2>5, <2>6, StepKeepsInv
<1> QED BY <1>2, <1>3, <1>4 DEF SignInWithGoogle

LEMMA FindByGoogleAddressStep ==
    ASSUME AccountsInv, NEW r \in Requests, FindByGoogleAddress(r)
    PROVE  AccountsInv' /\ RowsKept
<1>1. request[r].pc = "unlinked" /\ TablesUnchanged
  BY DEF FindByGoogleAddress
<1>2. CASE \E pc \in {"refused", "error"} : Goto(r, pc)
  BY <1>1, <1>2, EndingStep
<1>3. ASSUME NEW u \in At(GoogleAddress[request[r].google]), Holds(r, u, "link")
      PROVE  AccountsInv' /\ RowsKept
  <2>1. u \in Users /\ row[u].exists /\ "link" \in Holding
    BY DEF At, Holding
  <2>2. request[r].google \in GoogleAccounts
    BY <1>1 DEF AccountsInv, RequestsSound, Sound, HoldsGoogle
  <2> QED BY <1>1, <1>3, <2>1, <2>2, HoldingStep
<1> QED BY <1>2, <1>3 DEF FindByGoogleAddress

-------------------------------------------------------------------------------
(***************************************************************************)
(* The new row is the first at its name: what tokens name is elsewhere.    *)
(***************************************************************************)
LEMMA CreateStep ==
    ASSUME AccountsInv, NEW r \in Requests, Create(r) PROVE AccountsInv' /\ RowsKept
<1>1. PICK role \in Roles :
        row' = [row EXCEPT ![r] = [OldRow(request[r].address)
                                     EXCEPT !.secret = r, !.role = role]]
  BY DEF Create
<1>2. /\ request[r].pc = "creating"
      /\ shown' = shown \union {[user |-> r, secret |-> r]}
      /\ challenges' = challenges \union {r}
      /\ Goto(r, "challenged")
      /\ mfaRequired' = mfaRequired
      /\ sessions' = sessions /\ changes' = changes
  BY DEF Create
<1>3. request[r] \in Request /\ TypeOK
  BY DEF AccountsInv, TypeOK
<1>4. [request[r] EXCEPT !.pc = "challenged"] \in Request
  BY <1>3 DEF Request
<1>5. OnlyRequest(r) /\ request'[r].pc = "challenged"
  BY <1>2, <1>3, <1>4, GotoOnly DEF Request
<1>6. ~row[r].exists /\ r \in Users
  BY <1>2 DEF AccountsInv, CreatedWhenOver, Users
<1>7. /\ row'[r] \in Row /\ row'[r].exists /\ row'[r].secret = r /\ r # None
      /\ \A u \in Users \ {r} : row'[u] = row[u]
      /\ row' \in [Users -> Row]
  <2>1. OldRow(request[r].address) \in Row /\ OldRow(request[r].address).exists
    BY <1>3, RowTypes DEF Request, OldRow, NoRow
  <2>3. r # None
    BY NamesAssumption DEF Users
  <2>2. [OldRow(request[r].address) EXCEPT !.secret = r, !.role = role] \in Row
    BY <2>1 DEF Row
  <2> QED BY <1>1, <1>3, <1>6, <2>1, <2>2, <2>3 DEF TypeOK, Row
<1>8. RowsKept
  BY <1>6, <1>7 DEF RowsKept, Kept
<1>9. TypeOK'
  BY <1>2, <1>3, <1>5, <1>6, <1>7 DEF TypeOK, OnlyRequest
<1>10. TokensHaveRows' /\ SessionsFollowEnrolment' /\ EnrolledHaveSecrets'
  BY <1>2, <1>3, <1>6, <1>7
     DEF AccountsInv, TypeOK, TokensHaveRows, SessionsFollowEnrolment,
         EnrolledHaveSecrets
<1>11. RequestsSound'
  <2> SUFFICES ASSUME NEW s \in Requests PROVE Sound(s)'
    BY DEF RequestsSound
  <2>1. CASE s = r
    BY <1>5, <2>1, NotHoldingSound DEF Holding
  <2>2. CASE s # r
    BY <1>2, <1>5, <1>8, <2>2, OthersSound DEF OnlyRequest
  <2> QED BY <2>1, <2>2
<1>12. CreatedWhenOver' /\ SignUpSecretStays'
  BY <1>5, <1>7 DEF AccountsInv, CreatedWhenOver, SignUpSecretStays, OnlyRequest, Users
<1> QED BY <1>8, <1>9, <1>10, <1>11, <1>12 DEF AccountsInv

-------------------------------------------------------------------------------
(* A step that saves what the request changed and moves on.                *)
LEMMA SavingStep ==
    ASSUME AccountsInv, NEW r \in Requests, NEW new \in Row, NEW pc \in Holding,
           request[r].pc \in Holding,
           Save(r, new), RestUnchanged, Goto(r, pc),
           pc \notin {"link", "challenge", "enrol", "issue"},
           request[r].seen.enrolled => new.enrolled,
           new.google # request[r].seen.google => new.google # None,
           new.secret # request[r].seen.secret => new.secret # None,
           request[r].user \in Requests => new.secret = request[r].seen.secret,
           new.enrolled /\ ~request[r].seen.enrolled =>
                row[request[r].user].secret # None,
           pc = "minted" => new.secret # request[r].seen.secret,
           pc = "enrolled" =>
               \/ new.enrolled /\ ~request[r].seen.enrolled
               \/ row[request[r].user].enrolled
    PROVE  AccountsInv' /\ RowsKept
<1>1. request[r] \in Request /\ request[r].pc # "challenged"
  BY DEF AccountsInv, TypeOK, Holding
<1>2. [request[r] EXCEPT !.pc = pc] \in Request
  BY <1>1 DEF Request, Holding
<1>3. OnlyRequest(r) /\ request'[r] = [request[r] EXCEPT !.pc = pc]
  BY <1>1, <1>2, GotoOnly
<1>4. /\ TablesRight /\ NoNewRow
      /\ pc = "enrolled" => row'[request[r].user].enrolled
      /\ pc = "minted" => row'[request[r].user].secret # None
  BY <1>3, SavingTables DEF OnlyRequest
<1>5. Sound(r)'
  BY <1>3, <1>4, MovedSound DEF TablesRight
<1> QED BY <1>3, <1>4, <1>5, StepKeepsInv DEF TablesRight

LEMMA HeldTypes ==
    ASSUME AccountsInv, NEW r \in Requests, request[r].pc \in Holding
    PROVE  /\ request[r] \in Request
           /\ request[r].seen \in Row
           /\ request[r].user \in Users
           /\ row[request[r].user] \in Row
           /\ row[request[r].user].exists
  BY DEF AccountsInv, TypeOK, Request, RequestsSound, Sound, HoldsRow

LEMMA RehashStep ==
    ASSUME AccountsInv, NEW r \in Requests, Rehash(r)
    PROVE  AccountsInv' /\ RowsKept
<1>1. request[r].pc \in Holding /\ "rehashed" \in Holding
  BY DEF Rehash, Holding
<1> QED BY <1>1, HeldTypes, SavingStep DEF Rehash

LEMMA LinkStep ==
    ASSUME AccountsInv, NEW r \in Requests, Link(r)
    PROVE  AccountsInv' /\ RowsKept
<1> DEFINE new == [request[r].seen EXCEPT !.google = request[r].google]
<1>1. request[r].pc \in Holding /\ "linked" \in Holding
  BY DEF Link, Holding
<1>2. request[r].google \in GoogleAccounts /\ request[r].google # None
  BY NamesAssumption DEF Link, AccountsInv, RequestsSound, Sound, HoldsGoogle
<1>3. /\ new \in Row /\ new.google = request[r].google
      /\ new.enrolled = request[r].seen.enrolled
      /\ new.secret = request[r].seen.secret
  BY <1>1, <1>2, HeldTypes DEF Row
<1>4. Save(r, new) /\ RestUnchanged /\ Goto(r, "linked")
  BY DEF Link
<1> QED BY <1>1, <1>2, <1>3, <1>4, SavingStep

LEMMA EnrolStep ==
    ASSUME AccountsInv, NEW r \in Requests, Enrol(r)
    PROVE  AccountsInv' /\ RowsKept
<1> DEFINE new == [request[r].seen EXCEPT !.enrolled = TRUE]
<1>1. request[r].pc \in Holding /\ "enrolled" \in Holding
  BY DEF Enrol, Holding
<1>2. /\ new \in Row /\ new.google = request[r].seen.google
      /\ new.enrolled
      /\ new.secret = request[r].seen.secret
      /\ ~request[r].seen.enrolled
      /\ row[request[r].user].secret # None
  BY <1>1, HeldTypes DEF Row, Enrol, AccountsInv, RequestsSound, Sound, EnrolsOnce
<1>3. Save(r, new) /\ RestUnchanged /\ Goto(r, "enrolled")
  BY DEF Enrol
<1> QED BY <1>1, <1>2, <1>3, SavingStep

-------------------------------------------------------------------------------
(***************************************************************************)
(* A row that is read after a save is the row as it is by then: what the   *)
(* request knew of it still holds, for rows are kept.                      *)
(***************************************************************************)
LEMMA RefreshStep ==
    ASSUME AccountsInv, NEW r \in Requests, Refresh(r) PROVE AccountsInv' /\ RowsKept
<1> DEFINE u == request[r].user
<1>1. TablesUnchanged
  BY DEF Refresh
<1>2. CASE request[r].pc = "linked" /\ ~row[u].active /\ Goto(r, "refused")
  BY <1>1, <1>2, EndingStep
<1>3. ASSUME NEW pc \in {"complete", "challenge", "issue"}, Holds(r, u, pc),
             request[r].pc \in {"rehashed", "linked", "minted", "enrolled"},
             pc = "challenge" => request[r].pc = "minted",
             pc = "issue" => request[r].pc = "enrolled"
      PROVE  AccountsInv' /\ RowsKept
  <2>1. request[r].pc \in Holding /\ request[r].pc # "challenged" /\ pc \in Holding
    BY <1>3 DEF Holding
  <2>2. u \in Users /\ row[u].exists
    BY <2>1, HeldTypes
  <2>3. pc = "issue" => row[u].enrolled
    BY <1>3 DEF AccountsInv, RequestsSound, Sound, IssuesEnrolled
  <2>4. pc = "challenge" => row[u].secret # None
    BY <1>3 DEF AccountsInv, RequestsSound, Sound, SavedSecret
  <2> HIDE DEF u
  <2>5. pc # "link" /\ pc # "enrol" /\ pc # "enrolled"
    BY <1>3
  <2> QED BY <1>1, <1>3, <2>1, <2>2, <2>3, <2>4, <2>5, HoldingStep
<1> QED BY <1>2, <1>3 DEF Refresh

LEMMA CompleteStep ==
    ASSUME AccountsInv, NEW r \in Requests, Complete(r)
    PROVE  AccountsInv' /\ RowsKept
<1> DEFINE seen == request[r].seen
           u == request[r].user
<1>1. /\ request[r].pc = "complete" /\ request[r].pc \in Holding
      /\ RestUnchanged
  BY DEF Complete, Holding
<1>2. ASSUME LacksSecret(seen), Save(r, [seen EXCEPT !.secret = r]), Goto(r, "minted")
      PROVE  AccountsInv' /\ RowsKept
  <2> DEFINE new == [seen EXCEPT !.secret = r]
  <2>1. /\ new \in Row /\ new.google = seen.google
        /\ new.enrolled = seen.enrolled /\ new.secret = r
    BY <1>1, HeldTypes DEF Row
  <2>2. seen.secret = None /\ r # None /\ u \notin Requests
    BY <1>1, <1>2, NamesAssumption
       DEF LacksSecret, AccountsInv, RequestsSound, Sound, SeesSignUpSecret, Users
  <2>3. "minted" \in Holding /\ Save(r, new)
    BY <1>2 DEF Holding
  <2> HIDE DEF new
  <2> QED BY <1>1, <1>2, <2>1, <2>2, <2>3, SavingStep
<1>3. ASSUME NEW pc \in {"challenge", "issue"}, Goto(r, pc), UNCHANGED row,
             pc = "challenge" => ~LacksSecret(seen),
             pc = "issue" => ~NeedsChallenge(seen)
      PROVE  AccountsInv' /\ RowsKept
  <2>1. request[r] \in Request /\ request[r].pc # "challenged" /\ pc \in Holding
    BY <1>1, HeldTypes DEF Holding
  <2>2. [request[r] EXCEPT !.pc = pc] \in Request
    BY <2>1 DEF Request, Holding
  <2>3. OnlyRequest(r) /\ request'[r] = [request[r] EXCEPT !.pc = pc]
    BY <1>3, <2>1, <2>2, GotoOnly
  <2>4. TablesUnchanged
    BY <1>1, <1>3 DEF RestUnchanged, TablesUnchanged
  <2>5. TablesRight /\ NoNewRow
    BY <2>3, <2>4, ReadingTables DEF OnlyRequest
  <2>6. Sound(r)'
    BY <1>1, <1>3, <2>1, <2>3, <2>4, <2>5, MovedSound
       DEF TablesRight, TablesUnchanged, LacksSecret, NeedsChallenge
  <2> QED BY <2>3, <2>5, <2>6, StepKeepsInv
<1> QED BY <1>1, <1>2, <1>3 DEF Complete

-------------------------------------------------------------------------------
LEMMA ChallengeStep ==
    ASSUME AccountsInv, NEW r \in Requests, Challenge(r)
    PROVE  AccountsInv' /\ RowsKept
<1> DEFINE u == request[r].user
           seen == request[r].seen
<1>1. /\ request[r].pc = "challenge" /\ request[r].pc \in Holding
      /\ challenges' = challenges \union {u}
      /\ shown' = IF seen.enrolled THEN shown
                  ELSE shown \union {[user |-> u, secret |-> seen.secret]}
      /\ Goto(r, "challenged")
      /\ row' = row /\ mfaRequired' = mfaRequired
      /\ sessions' = sessions /\ changes' = changes
  BY DEF Challenge, Holding
<1>2. /\ request[r] \in Request /\ seen \in Row
      /\ u \in Users /\ row[u].exists
  BY <1>1, HeldTypes
<1>3. seen.secret \in Requests
  BY <1>1, <1>2 DEF Row, AccountsInv, RequestsSound, Sound, ShowsSecret
<1>4. [request[r] EXCEPT !.pc = "challenged"] \in Request
  BY <1>2 DEF Request
<1>5. OnlyRequest(r) /\ request'[r].pc = "challenged"
  BY <1>1, <1>2, <1>4, GotoOnly DEF Request
<1> HIDE DEF u, seen
<1>6. TypeOK'
  BY <1>1, <1>2, <1>3, <1>5 DEF AccountsInv, TypeOK, OnlyRequest
<1>7. /\ RowsKept /\ NoNewRow
      /\ TokensHaveRows' /\ SessionsFollowEnrolment' /\ EnrolledHaveSecrets'
  BY <1>1, <1>2 DEF RowsKept, Kept, NoNewRow, AccountsInv, TokensHaveRows,
                    SessionsFollowEnrolment, EnrolledHaveSecrets
<1>8. Sound(r)'
  BY <1>5, NotHoldingSound DEF Holding
<1> QED BY <1>1, <1>5, <1>6, <1>7, <1>8, StepKeepsInv DEF TablesRight

LEMMA VerifyMfaStep ==
    ASSUME AccountsInv, NEW r \in Requests, VerifyMfa(r)
    PROVE  AccountsInv' /\ RowsKept
<1>1. request[r].pc = "idle" /\ TablesUnchanged
  BY DEF VerifyMfa
<1>2. CASE Goto(r, "refused")
  BY <1>1, <1>2, EndingStep
<1>3. ASSUME NEW u \in challenges, NEW pc \in {"issue", "enrol"}, Holds(r, u, pc),
             pc = "issue" <=> row[u].enrolled,
             [user |-> u, secret |-> row[u].secret] \in shown
      PROVE  AccountsInv' /\ RowsKept
  <2>1. u \in Users /\ row[u].exists
    BY DEF AccountsInv, TypeOK, TokensHaveRows
  <2>2. pc \in Holding
    BY DEF Holding
  <2>3. row[u].secret # None
    BY <1>3, NamesAssumption DEF AccountsInv, TypeOK, Users
  <2> QED BY <1>1, <1>3, <2>1, <2>2, <2>3, HoldingStep
<1> QED BY <1>2, <1>3 DEF VerifyMfa

LEMMA IssueAccessTokenStep ==
    ASSUME AccountsInv, NEW r \in Requests, IssueAccessToken(r)
    PROVE  AccountsInv' /\ RowsKept
<1> DEFINE u == request[r].user
           token == [user |-> u, role |-> request[r].seen.role]
<1>1. /\ request[r].pc = "issue" /\ request[r].pc \in Holding
      /\ sessions' = sessions \union {token}
      /\ Goto(r, "issued")
      /\ row' = row /\ mfaRequired' = mfaRequired
      /\ shown' = shown /\ challenges' = challenges /\ changes' = changes
  BY DEF IssueAccessToken, Holding
<1>2. /\ request[r] \in Request /\ request[r].seen \in Row
      /\ u \in Users /\ row[u].exists
  BY <1>1, HeldTypes
<1>3. token \in [user : Users, role : Roles] /\ token.user = u
  BY <1>2 DEF Row
<1>4. mfaRequired => row[u].enrolled
  BY <1>1 DEF AccountsInv, RequestsSound, Sound, IssuesEnrolled
<1>5. [request[r] EXCEPT !.pc = "issued"] \in Request
  BY <1>2 DEF Request
<1>6. OnlyRequest(r) /\ request'[r].pc = "issued"
  BY <1>1, <1>2, <1>5, GotoOnly DEF Request
<1> HIDE DEF u, token
<1>7. TypeOK'
  BY <1>1, <1>2, <1>3, <1>6 DEF AccountsInv, TypeOK, OnlyRequest
<1>8. /\ RowsKept /\ NoNewRow
      /\ TokensHaveRows' /\ SessionsFollowEnrolment' /\ EnrolledHaveSecrets'
  BY <1>1, <1>2, <1>3, <1>4
     DEF RowsKept, Kept, NoNewRow, AccountsInv, TokensHaveRows,
         SessionsFollowEnrolment, EnrolledHaveSecrets
<1>9. Sound(r)'
  BY <1>6, NotHoldingSound DEF Holding
<1> QED BY <1>1, <1>6, <1>7, <1>8, <1>9, StepKeepsInv DEF TablesRight

LEMMA CurrentScopeStep ==
    ASSUME AccountsInv, NEW r \in Requests, CurrentScope(r)
    PROVE  AccountsInv' /\ RowsKept
<1>1. request[r].pc = "idle" /\ TablesUnchanged
  BY DEF CurrentScope
<1>2. CASE Goto(r, "refused")
  BY <1>1, <1>2, EndingStep
<1>3. ASSUME NEW t \in sessions,
             request' = [request EXCEPT ![r].pc = "served", ![r].user = t.user,
                                        ![r].scope = ScopeFor(row[t.user])]
      PROVE  AccountsInv' /\ RowsKept
  <2> DEFINE scope == ScopeFor(row[t.user])
  <2>1. /\ request[r] \in Request /\ request \in [Requests -> Request]
        /\ t.user \in Users /\ scope \in Roles
    BY DEF AccountsInv, TypeOK, Row, ScopeFor
  <2> HIDE DEF scope
  <2>2. request' = [request EXCEPT ![r] =
            [request[r] EXCEPT !.pc = "served", !.user = t.user, !.scope = scope]]
    BY <1>3, <2>1 DEF Request, scope
  <2>3. [request[r] EXCEPT !.pc = "served", !.user = t.user, !.scope = scope] \in Request
    BY <2>1 DEF Request
  <2>4. OnlyRequest(r) /\ request'[r].pc = "served"
    BY <1>1, <2>1, <2>2, <2>3 DEF OnlyRequest, Request
  <2>5. TablesRight /\ NoNewRow
    BY <1>1, <2>4, ReadingTables DEF OnlyRequest
  <2>6. Sound(r)'
    BY <2>4, NotHoldingSound DEF Holding
  <2> QED BY <2>4, <2>5, <2>6, StepKeepsInv DEF TablesRight
<1> QED BY <1>2, <1>3 DEF CurrentScope

LEMMA AdministerStep ==
    ASSUME AccountsInv, NEW u \in Users, Administer(u)
    PROVE  AccountsInv' /\ RowsKept
<1>1. /\ mfaRequired' = mfaRequired /\ request' = request
      /\ shown' = shown /\ challenges' = challenges /\ sessions' = sessions
      /\ changes' = changes + 1
  BY DEF Administer
<1>2. PICK new \in Row :
        /\ row' = [row EXCEPT ![u] = new]
        /\ new.exists = row[u].exists /\ new.enrolled = row[u].enrolled
        /\ new.google = row[u].google /\ new.secret = row[u].secret
        /\ ~row[u].active => ~new.active
  <2>1. row[u] \in Row /\ row \in [Users -> Row]
    BY DEF AccountsInv, TypeOK
  <2>2. CASE row' = [row EXCEPT ![u].active = FALSE]
    <3>1. [row[u] EXCEPT !.active = FALSE] \in Row
      BY <2>1 DEF Row
    <3> QED BY <2>1, <2>2, <3>1 DEF Row
  <2>3. ASSUME NEW role \in Roles, row' = [row EXCEPT ![u].role = role]
        PROVE  \E new \in Row :
                 /\ row' = [row EXCEPT ![u] = new]
                 /\ new.exists = row[u].exists /\ new.enrolled = row[u].enrolled
                 /\ new.google = row[u].google /\ new.secret = row[u].secret
                 /\ ~row[u].active => ~new.active
    <3>1. [row[u] EXCEPT !.role = role] \in Row
      BY <2>1 DEF Row
    <3> QED BY <2>1, <2>3, <3>1 DEF Row
  <2> QED BY <2>2, <2>3 DEF Administer
<1>3. /\ row'[u] = new
      /\ \A v \in Users \ {u} : row'[v] = row[v]
      /\ row' \in [Users -> Row]
  BY <1>2 DEF AccountsInv, TypeOK
<1>4. RowsKept /\ NoNewRow
  BY <1>2, <1>3 DEF RowsKept, Kept, NoNewRow
<1>5. TypeOK'
  BY <1>1, <1>3 DEF AccountsInv, TypeOK
<1>6. TokensHaveRows' /\ SessionsFollowEnrolment' /\ EnrolledHaveSecrets'
  BY <1>1, <1>2, <1>3 DEF AccountsInv, TypeOK, TokensHaveRows,
                          SessionsFollowEnrolment, EnrolledHaveSecrets
<1>7. RequestsSound'
  BY <1>1, <1>4, OthersSound DEF RequestsSound
<1>8. CreatedWhenOver' /\ SignUpSecretStays'
  BY <1>1, <1>4 DEF AccountsInv, CreatedWhenOver, SignUpSecretStays, NoNewRow,
                    RowsKept, Kept, Users
<1> QED BY <1>4, <1>5, <1>6, <1>7, <1>8 DEF AccountsInv

-------------------------------------------------------------------------------
LEMMA NextAccounts ==
    AccountsInv /\ [Next]_vars => AccountsInv' /\ RowsKept
<1> SUFFICES ASSUME AccountsInv, [Next]_vars PROVE AccountsInv' /\ RowsKept
  OBVIOUS
<1>1. ASSUME NEW r \in Requests, Step(r) PROVE AccountsInv' /\ RowsKept
  BY <1>1, SignUpStep, CreateStep, SignInStep, SignInWithGoogleStep,
     FindByGoogleAddressStep, RehashStep, LinkStep, RefreshStep, CompleteStep,
     ChallengeStep, VerifyMfaStep, EnrolStep, IssueAccessTokenStep, CurrentScopeStep
     DEF Step
<1>2. ASSUME NEW u \in Users, Administer(u) PROVE AccountsInv' /\ RowsKept
  BY <1>2, AdministerStep
<1>3. CASE UNCHANGED vars
  BY <1>3 DEF vars, AccountsInv, TypeOK, RequestsSound, Sound, HoldsRow,
              HoldsGoogle, ShowsSecret, SavedSecret, EnrolsOnce, IssuesEnrolled,
              SeesSignUpSecret, SeesEnrolledSecret, CreatedWhenOver,
              TokensHaveRows, EnrolledHaveSecrets, SessionsFollowEnrolment,
              SignUpSecretStays, RowsKept, Kept
<1> QED BY <1>1, <1>2, <1>3 DEF Next

THEOREM AccountsInductive == Spec => []AccountsInv
BY InitAccounts, NextAccounts, PTL DEF Spec

(* The tables and the requests stay well typed.                            *)
THEOREM TypeCorrect == Spec => []TypeOK
<1>1. AccountsInv => TypeOK
  BY DEF AccountsInv
<1> QED BY <1>1, AccountsInductive, PTL

(***************************************************************************)
(* Where the challenge is required no access token exists for an account   *)
(* that has not enrolled, however many requests interleave.                *)
(***************************************************************************)
THEOREM SessionsEnrolled == Spec => []SessionsFollowEnrolment
<1>1. AccountsInv => SessionsFollowEnrolment
  BY DEF AccountsInv
<1> QED BY <1>1, AccountsInductive, PTL

(* The secret shown at sign-up is never replaced.                          *)
THEOREM SignUpSecretKept == Spec => []SignUpSecretStays
<1>1. AccountsInv => SignUpSecretStays
  BY DEF AccountsInv
<1> QED BY <1>1, AccountsInductive, PTL

(* No save of a stale instance takes back an enrolment, a link or a lock.  *)
THEOREM StaleSavesHarmless == Spec => StaleSavesUndoNothing
<1>1. RowsKept =>
        \A u \in Users :
          row[u].exists =>
            /\ row[u].enrolled => row'[u].enrolled
            /\ row[u].google # None => row'[u].google # None
            /\ ~row[u].active => ~row'[u].active
  BY DEF RowsKept, Kept
<1> QED BY <1>1, AccountsInductive, NextAccounts, PTL DEF Spec, StaleSavesUndoNothing

-------------------------------------------------------------------------------
(***************************************************************************)
(* A save that leaves the instance's secret leaves the row's.              *)
(***************************************************************************)
LEMMA SecretUntouched ==
    ASSUME AccountsInv, NEW r \in Requests, NEW new \in Row,
           request[r].pc \in Holding, Save(r, new),
           new.secret = request[r].seen.secret
    PROVE  \A u \in Users : row'[u].secret = row[u].secret
<1>1. /\ request[r].user \in Users /\ row \in [Users -> Row]
      /\ row[request[r].user] \in Row /\ request[r].seen \in Row
  BY HeldTypes DEF AccountsInv, TypeOK
<1>2. Saved(row[request[r].user], request[r].seen, new).secret
      = row[request[r].user].secret
  BY <1>1 DEF Saved, Row
<1>3. row' = [row EXCEPT ![request[r].user] =
                 Saved(row[request[r].user], request[r].seen, new)]
  BY DEF Save
<1> QED BY <1>1, <1>2, <1>3

(***************************************************************************)
(* The one step that gives an enrolled account another secret is that of a *)
(* sign-in which read it before it had any.                                *)
(***************************************************************************)
SecretsStay ==
    \A u \in Users :
        row[u].enrolled /\ row'[u].secret # row[u].secret =>
            \E r \in Requests : MintsForUnenrolled(r, u)

LEMMA CompleteMints ==
    ASSUME AccountsInv, NEW r \in Requests, Complete(r) PROVE SecretsStay
<1> DEFINE seen == request[r].seen
           owner == request[r].user
           new == [seen EXCEPT !.secret = r]
<1>1. request[r].pc = "complete" /\ request[r].pc \in Holding
  BY DEF Complete, Holding
<1>2. CASE UNCHANGED row
  BY <1>2 DEF SecretsStay
<1>3. ASSUME LacksSecret(seen), Save(r, new), Goto(r, "minted")
      PROVE  SecretsStay
  <2>1. /\ seen \in Row /\ owner \in Users /\ row[owner] \in Row
        /\ request \in [Requests -> Request] /\ row \in [Users -> Row]
        /\ request[r] \in Request
    BY <1>1, HeldTypes DEF AccountsInv, TypeOK
  <2>2. /\ new \in Row /\ new.secret = r /\ r # None
        /\ seen.secret = None
    BY <1>3, <2>1, NamesAssumption DEF Row, LacksSecret, Users
  <2>3. ~seen.enrolled
    BY <1>1, <2>2 DEF AccountsInv, RequestsSound, Sound, SeesEnrolledSecret
  <2>4. Saved(row[owner], seen, new).secret = r
    BY <2>1, <2>2 DEF Saved, Row
  <2> HIDE DEF new
  <2>5. row' = [row EXCEPT ![owner] = Saved(row[owner], seen, new)]
    BY <1>3 DEF Save
  <2>6. row'[owner].secret = r /\ \A u \in Users \ {owner} : row'[u] = row[u]
    BY <2>1, <2>4, <2>5
  <2>7. request'[r].pc = "minted"
    BY <1>3, <2>1 DEF Goto, Request
  <2> QED BY <1>1, <2>2, <2>3, <2>6, <2>7 DEF SecretsStay, MintsForUnenrolled
<1> QED BY <1>2, <1>3 DEF Complete

LEMMA StepKeepsSecrets ==
    ASSUME AccountsInv, NEW r \in Requests, Step(r) PROVE SecretsStay
<1>1. CASE SignUp(r) \/ SignIn(r) \/ SignInWithGoogle(r)
           \/ FindByGoogleAddress(r) \/ Refresh(r) \/ VerifyMfa(r)
           \/ CurrentScope(r) \/ Challenge(r) \/ IssueAccessToken(r)
  <2>1. row' = row
    BY <1>1 DEF SignUp, SignIn, SignInWithGoogle, FindByGoogleAddress, Refresh,
                VerifyMfa, CurrentScope, Challenge, IssueAccessToken,
                TablesUnchanged
  <2> QED BY <2>1 DEF SecretsStay
<1>2. CASE Create(r)
  <2>1. ~row[r].exists /\ row \in [Users -> Row]
    BY <1>2 DEF Create, AccountsInv, TypeOK, CreatedWhenOver
  <2>2. PICK new : row' = [row EXCEPT ![r] = new]
    BY <1>2 DEF Create
  <2>3. ~row[r].enrolled
    BY <1>2 DEF Create, AccountsInv, EnrolledHaveSecrets, CreatedWhenOver, Users
  <2> QED BY <2>1, <2>2, <2>3 DEF SecretsStay
<1>3. CASE Rehash(r)
  BY <1>3, HeldTypes, SecretUntouched DEF Rehash, Holding, SecretsStay
<1>4. CASE Link(r)
  <2> DEFINE new == [request[r].seen EXCEPT !.google = request[r].google]
  <2>1. request[r].pc \in Holding /\ Save(r, new)
    BY <1>4 DEF Link, Holding
  <2>2. request[r].google \in GoogleAccounts
    BY <1>4 DEF Link, AccountsInv, RequestsSound, Sound, HoldsGoogle
  <2>3. new \in Row /\ new.secret = request[r].seen.secret
    BY <2>1, <2>2, HeldTypes DEF Row
  <2> HIDE DEF new
  <2> QED BY <2>1, <2>3, SecretUntouched DEF SecretsStay
<1>5. CASE Enrol(r)
  <2> DEFINE new == [request[r].seen EXCEPT !.enrolled = TRUE]
  <2>1. request[r].pc \in Holding /\ Save(r, new)
    BY <1>5 DEF Enrol, Holding
  <2>2. new \in Row /\ new.secret = request[r].seen.secret
    BY <2>1, HeldTypes DEF Row
  <2> HIDE DEF new
  <2> QED BY <2>1, <2>2, SecretUntouched DEF SecretsStay
<1>6. CASE Complete(r)
  BY <1>6, CompleteMints
<1> QED BY <1>1, <1>2, <1>3, <1>4, <1>5, <1>6 DEF Step

(***************************************************************************)
(* For any number of sign-ins and whatever runs between their steps: an    *)
(* enrolled account keeps the secret a code was accepted for, but for a    *)
(* sign-in under way since before the account had a secret.                *)
(***************************************************************************)
THEOREM AcceptedSecretsStay == Spec => AcceptedSecretStays
<1>1. AccountsInv /\ [Next]_vars => SecretsStay
  <2> SUFFICES ASSUME AccountsInv, [Next]_vars PROVE SecretsStay
    OBVIOUS
  <2>1. ASSUME NEW u \in Users, Administer(u) PROVE SecretsStay
    <3>1. row \in [Users -> Row] /\ row[u] \in Row
      BY DEF AccountsInv, TypeOK
    <3>2. \A v \in Users : row'[v].secret = row[v].secret
      BY <2>1, <3>1 DEF Administer, Row
    <3> QED BY <3>2 DEF SecretsStay
  <2>2. CASE UNCHANGED vars
    BY <2>2 DEF vars, SecretsStay
  <2> QED BY <2>1, <2>2, StepKeepsSecrets DEF Next
<1>2. SecretsStay =>
        \A u \in Users :
          row[u].enrolled /\ row'[u].secret # row[u].secret =>
            \E r \in Requests : MintsForUnenrolled(r, u)
  BY DEF SecretsStay
<1> QED BY <1>1, <1>2, AccountsInductive, PTL DEF Spec, AcceptedSecretStays
===============================================================================
