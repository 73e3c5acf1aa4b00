------------------------------- MODULE Accounts -------------------------------
(***************************************************************************)
(* Accounts and sessions: sign-up, the two ways to sign in, the challenge  *)
(* that enrols an authenticator, and the scope a request is served under.  *)
(*                                                                         *)
(* A request is one call of an auth endpoint; a step of it is what runs    *)
(* between two awaits that touch the users table.  A request works on seen,*)
(* its session's instance of a row, which is what the row was when it was  *)
(* read: sessions are opened with expire_on_commit=False and save          *)
(* refreshes the instance only after its commit.                           *)
(*                                                                         *)
(* An account is named by the sign-up that creates it, a shared secret by  *)
(* the request that minted it, a Google account by its sub.  Rows older    *)
(* than migration 0002, which added the secret, have none.  Nothing in the *)
(* code disables an account or changes its role; that the code reads both  *)
(* columns from the row is why an administrator is modelled who does,      *)
(* MaxChanges times.                                                       *)
(*                                                                         *)
(* A definition placed before another whose name it extends (SavedWhole    *)
(* before Saved) is that definition with a plausible slip in it; the       *)
(* checks use it to show that the properties notice, no action does.       *)
(***************************************************************************)
EXTENDS Naturals, FiniteSets

CONSTANTS
    Requests,       \* calls of the auth endpoints
    OldAccounts,    \* accounts older than the secrets
    Addresses,      \* e-mail addresses, up to case
    OldAddress,     \* the address of each old account
    GoogleAccounts, \* subs, with ...
    GoogleAddress,  \* ... the verified address of each
    Roles,          \* the roles of the instance, out of USER_ROLES
    MaxChanges,     \* bound: what administrators do in a behaviour
    None            \* no row, no secret, no Google account

Users == Requests \union OldAccounts
UserRoles == {"partner", "valuer", "analyst", "readonly", "client"}

ASSUME NamesAssumption ==
    /\ Requests \intersect OldAccounts = {}
    /\ None \notin Users \union GoogleAccounts \union Addresses
ASSUME AddressAssumption ==
    /\ OldAddress \in [OldAccounts -> Addresses]
    /\ GoogleAddress \in [GoogleAccounts -> Addresses]
ASSUME SettingsAssumption ==
    /\ Roles \subseteq UserRoles /\ "partner" \in Roles
    /\ MaxChanges \in Nat

VARIABLES
    mfaRequired, \* settings.MFA_REQUIRED, fixed while the process runs
    row,        \* the users table
    request,    \* per request: where its handler is and what it holds
    shown,      \* the enrolment URIs answered: pairs of user and secret
    challenges, \* the users with an MFA token
    sessions,   \* the access tokens: pairs of user and role
    changes     \* administrators' changes so far

vars == <<mfaRequired, row, request, shown, challenges, sessions, changes>>

Row == [exists : BOOLEAN, address : Addresses \union {None},
        secret : Requests \union {None}, enrolled : BOOLEAN,
        active : BOOLEAN, role : Roles, google : GoogleAccounts \union {None}]

NoRow == [exists |-> FALSE, address |-> None, secret |-> None,
          enrolled |-> FALSE, active |-> FALSE, role |-> "partner",
          google |-> None]

OldRow(a) == [NoRow EXCEPT !.exists = TRUE, !.address = a, !.active = TRUE]

Request == [pc : {"idle", "creating", "rehash", "rehashed", "unlinked",
                  "link", "linked", "complete", "minted", "challenge",
                  "enrol", "enrolled", "issue",
                  "challenged", "issued", "refused", "error", "served"},
            user : Users \union {None}, address : Addresses \union {None},
            google : GoogleAccounts \union {None}, seen : Row,
            scope : Roles \union {None}]

Idle == [pc |-> "idle", user |-> None, address |-> None, google |-> None,
         seen |-> NoRow, scope |-> None]

TypeOK ==
    /\ mfaRequired \in BOOLEAN
    /\ row \in [Users -> Row]
    /\ request \in [Requests -> Request]
    /\ shown \subseteq [user : Users, secret : Requests]
    /\ challenges \subseteq Users
    /\ sessions \subseteq [user : Users, role : Roles]
    /\ changes \in Nat

Init ==
    /\ mfaRequired \in BOOLEAN
    /\ row = [u \in Users |-> IF u \in OldAccounts
                              THEN OldRow(OldAddress[u]) ELSE NoRow]
    /\ request = [r \in Requests |-> Idle]
    /\ shown = {}
    /\ challenges = {}
    /\ sessions = {}
    /\ changes = 0

-------------------------------------------------------------------------------
Goto(r, pc) == request' = [request EXCEPT ![r].pc = pc]

(* A request goes on with a row it has just read.                          *)
Holds(r, u, pc) ==
    request' = [request EXCEPT ![r].pc = pc, ![r].user = u, ![r].seen = row[u]]

TablesUnchanged ==
    UNCHANGED <<mfaRequired, row, shown, challenges, sessions, changes>>

(***************************************************************************)
(* find_for_authentication: scalar_one_or_none, which raises on two.       *)
(***************************************************************************)
At(address) == {u \in Users : row[u].exists /\ row[u].address = address}
Ambiguous(address) == \E u, v \in At(address) : u # v

(***************************************************************************)
(* sign_up, up to its find.  _validate_role may refuse the role asked for. *)
(***************************************************************************)
SignUp(r) ==
    /\ request[r].pc = "idle"
    /\ \E a \in Addresses :
         \/ Goto(r, "refused")
         \/ At(a) # {} /\ ~Ambiguous(a) /\ Goto(r, "refused")
         \/ Ambiguous(a) /\ Goto(r, "error")
         \/ /\ At(a) = {}
            /\ request' = [request EXCEPT ![r].pc = "creating",
                                          ![r].address = a]
    /\ TablesUnchanged

(***************************************************************************)
(* The new firm and its first user, in one transaction.  The unique        *)
(* constraint is on firm and address: a new firm never meets it.           *)
(***************************************************************************)
Create(r) ==
    /\ request[r].pc = "creating"
    /\ \E role \in Roles \ {"client"} :
         row' = [row EXCEPT ![r] = [OldRow(request[r].address)
                                      EXCEPT !.secret = r, !.role = role]]
    /\ shown' = shown \union {[user |-> r, secret |-> r]}
    /\ challenges' = challenges \union {r}
    /\ Goto(r, "challenged")
    /\ UNCHANGED <<mfaRequired, sessions, changes>>

(***************************************************************************)
(* sign_in, up to the check of the password, which may be wrong.  A hash   *)
(* of older parameters is replaced first.                                  *)
(***************************************************************************)
SignIn(r) ==
    /\ request[r].pc = "idle"
    /\ \E a \in Addresses :
         \/ At(a) = {} /\ Goto(r, "refused")
         \/ Ambiguous(a) /\ Goto(r, "error")
         \/ \E u \in At(a) :
              /\ ~Ambiguous(a)
              /\ \/ Goto(r, "refused")
                 \/ row[u].active /\ \E pc \in {"rehash", "complete"} : Holds(r, u, pc)
    /\ TablesUnchanged

(***************************************************************************)
(* sign_in_with_google: the account already linked, or else the account of *)
(* the verified address, in two reads.                                     *)
(***************************************************************************)
SignInWithGoogle(r) ==
    /\ request[r].pc = "idle"
    /\ \E g \in GoogleAccounts :
         LET linked == {u \in Users : row[u].google = g} IN
         \/ /\ linked = {}
            /\ request' = [request EXCEPT ![r].pc = "unlinked", ![r].google = g]
         \/ \E u \in linked :
              IF row[u].active THEN Holds(r, u, "complete") ELSE Goto(r, "refused")
    /\ TablesUnchanged

FindByGoogleAddress(r) ==
    /\ request[r].pc = "unlinked"
    /\ LET a == GoogleAddress[request[r].google] IN
         \/ At(a) = {} /\ Goto(r, "refused")
         \/ Ambiguous(a) /\ Goto(r, "error")
         \/ ~Ambiguous(a) /\ \E u \in At(a) : Holds(r, u, "link")
    /\ TablesUnchanged

-------------------------------------------------------------------------------
(***************************************************************************)
(* save: the UPDATE names the columns that the request changed on its      *)
(* instance, and no other.                                                 *)
(***************************************************************************)
SavedWhole(current, old, new) == new

Saved(current, old, new) ==
    [current EXCEPT
        !.secret = IF new.secret # old.secret THEN new.secret ELSE @,
        !.enrolled = IF new.enrolled # old.enrolled THEN new.enrolled ELSE @,
        !.google = IF new.google # old.google THEN new.google ELSE @]

Save(r, new) ==
    LET u == request[r].user IN
    row' = [row EXCEPT ![u] = Saved(@, request[r].seen, new)]

RestUnchanged == UNCHANGED <<mfaRequired, shown, challenges, sessions, changes>>

Rehash(r) ==
    /\ request[r].pc = "rehash"
    /\ Save(r, request[r].seen)
    /\ Goto(r, "rehashed")
    /\ RestUnchanged

Link(r) ==
    /\ request[r].pc = "link"
    /\ Save(r, [request[r].seen EXCEPT !.google = request[r].google])
    /\ Goto(r, "linked")
    /\ RestUnchanged

(***************************************************************************)
(* The refresh after a commit, and what the handler does next.             *)
(***************************************************************************)
Refresh(r) ==
    LET u == request[r].user IN
    /\ \/ request[r].pc = "rehashed" /\ Holds(r, u, "complete")
       \/ request[r].pc = "linked" /\ row[u].active /\ Holds(r, u, "complete")
       \/ request[r].pc = "linked" /\ ~row[u].active /\ Goto(r, "refused")
       \/ request[r].pc = "minted" /\ Holds(r, u, "challenge")
       \/ request[r].pc = "enrolled" /\ Holds(r, u, "issue")
    /\ TablesUnchanged

(***************************************************************************)
(* _complete: a challenge, before it a secret for an account without one,  *)
(* or a session where the deployment requires no challenge.                *)
(***************************************************************************)
NeedsChallengeOnceEnrolled(seen) == seen.enrolled
NeedsChallenge(seen) == mfaRequired \/ seen.enrolled

LacksSecretOnceEnrolled(seen) == seen.enrolled /\ seen.secret = None
LacksAuthenticator(seen) == ~seen.enrolled
LacksSecret(seen) == seen.secret = None

Complete(r) ==
    LET seen == request[r].seen IN
    /\ request[r].pc = "complete"
    /\ \/ /\ NeedsChallenge(seen) /\ LacksSecret(seen)
          /\ Save(r, [seen EXCEPT !.secret = r])
          /\ Goto(r, "minted")
       \/ /\ NeedsChallenge(seen) /\ ~LacksSecret(seen)
          /\ Goto(r, "challenge")
          /\ UNCHANGED row
       \/ /\ ~NeedsChallenge(seen)
          /\ Goto(r, "issue")
          /\ UNCHANGED row
    /\ RestUnchanged

(* The answer: an MFA token and, until the account is enrolled, the URI.   *)
Challenge(r) ==
    LET u == request[r].user
        seen == request[r].seen
    IN
    /\ request[r].pc = "challenge"
    /\ challenges' = challenges \union {u}
    /\ shown' = IF seen.enrolled THEN shown
                ELSE shown \union {[user |-> u, secret |-> seen.secret]}
    /\ Goto(r, "challenged")
    /\ UNCHANGED <<mfaRequired, row, sessions, changes>>

(***************************************************************************)
(* verify_mfa, for the holder of an MFA token, whose authenticator may     *)
(* hold any of the secrets that were shown.                                *)
(***************************************************************************)
VerifyMfa(r) ==
    /\ request[r].pc = "idle"
    /\ \E u \in challenges :
         \/ Goto(r, "refused")
         \/ /\ row[u].active
            /\ [user |-> u, secret |-> row[u].secret] \in shown
            /\ Holds(r, u, IF row[u].enrolled THEN "issue" ELSE "enrol")
    /\ TablesUnchanged

(* The first accepted code completes the enrolment.                        *)
Enrol(r) ==
    /\ request[r].pc = "enrol"
    /\ Save(r, [request[r].seen EXCEPT !.enrolled = TRUE])
    /\ Goto(r, "enrolled")
    /\ RestUnchanged

IssueAccessToken(r) ==
    /\ request[r].pc = "issue"
    /\ sessions' = sessions \union {[user |-> request[r].user,
                                     role |-> request[r].seen.role]}
    /\ Goto(r, "issued")
    /\ UNCHANGED <<mfaRequired, row, shown, challenges, changes>>

(***************************************************************************)
(* current_scope, for the holder of an access token: an inactive row is no *)
(* session, and the role is the row's.                                     *)
(***************************************************************************)
ScopeFor(current) == current.role

CurrentScope(r) ==
    /\ request[r].pc = "idle"
    /\ \E t \in sessions :
         \/ ~row[t.user].active /\ Goto(r, "refused")
         \/ /\ row[t.user].active
            /\ request' = [request EXCEPT ![r].pc = "served", ![r].user = t.user,
                                          ![r].scope = ScopeFor(row[t.user])]
    /\ TablesUnchanged

-------------------------------------------------------------------------------
(* What an administrator does to a row, outside this code.                 *)
Administer(u) ==
    /\ changes < MaxChanges
    /\ changes' = changes + 1
    /\ row[u].exists
    /\ \/ row' = [row EXCEPT ![u].active = FALSE]
       \/ \E role \in Roles : row' = [row EXCEPT ![u].role = role]
    /\ UNCHANGED <<mfaRequired, request, shown, challenges, sessions>>

Step(r) ==
    \/ SignUp(r) \/ Create(r)
    \/ SignIn(r) \/ SignInWithGoogle(r) \/ FindByGoogleAddress(r)
    \/ Rehash(r) \/ Link(r) \/ Refresh(r)
    \/ Complete(r) \/ Challenge(r)
    \/ VerifyMfa(r) \/ Enrol(r) \/ IssueAccessToken(r)
    \/ CurrentScope(r)

Next == (\E r \in Requests : Step(r)) \/ (\E u \in Users : Administer(u))

Spec == Init /\ [][Next]_vars

-------------------------------------------------------------------------------
(***************************************************************************)
(* "The account is not usable until the first TOTP code proves the         *)
(* authenticator was actually set up": where the deployment requires the   *)
(* challenge, an access token exists only for an enrolled account, by      *)
(* whichever of the three ways it was issued and whatever ran beside it.   *)
(***************************************************************************)
SessionsFollowEnrolment ==
    mfaRequired => \A t \in sessions : row[t.user].enrolled

(***************************************************************************)
(* The secret a new account was shown at sign-up is its secret for ever:   *)
(* no sign-in, in any order with others, mints it another.                 *)
(***************************************************************************)
SignUpSecretStays ==
    \A u \in Requests : row[u].exists => row[u].secret = u

(***************************************************************************)
(* A request that saves an instance it read a while ago undoes nothing     *)
(* done to the row since: an enrolment stays, a linked Google account is   *)
(* not unlinked, a disabled account is not enabled.                        *)
(***************************************************************************)
StaleSavesUndoNothing ==
    [][\A u \in Users :
         row[u].exists =>
            /\ row[u].enrolled => row'[u].enrolled
            /\ row[u].google # None => row'[u].google # None
            /\ ~row[u].active => ~row'[u].active]_vars

(***************************************************************************)
(* The secret a code was accepted for is the account's secret: once an     *)
(* account is enrolled, only a sign-in may replace it that has been under  *)
(* way since before the account had any, read the row then, and saves what *)
(* it minted only now (_complete does not look again).  No sign-in that    *)
(* reads the row later does, and no other save takes the secret with it.   *)
(***************************************************************************)
MintsForUnenrolled(r, u) ==
    /\ request[r].pc = "complete" /\ request'[r].pc = "minted"
    /\ request[r].user = u /\ row'[u].secret = r
    /\ request[r].seen.secret = None /\ ~request[r].seen.enrolled

AcceptedSecretStays ==
    [][\A u \in Users :
         row[u].enrolled /\ row'[u].secret # row[u].secret =>
            \E r \in Requests : MintsForUnenrolled(r, u)]_vars

-------------------------------------------------------------------------------
(***************************************************************************)
(* What the code says of itself and a run refutes.                         *)
(*                                                                         *)
(* "An account already exists for this address": no address has two        *)
(* accounts.  Two sign-ups both find none, and neither is refused; every   *)
(* later sign-in at the address fails on the second row.                   *)
(***************************************************************************)
OneAccountPerAddress == \A a \in Addresses : ~Ambiguous(a)

(***************************************************************************)
(* An enrolled account is one whose authenticator was set up: its secret   *)
(* has been shown.  A sign-in that read an old row without a secret saves  *)
(* one of its own while the code of an earlier one is being accepted, and  *)
(* does not show it, for the row it then reads is enrolled.                *)
(***************************************************************************)
EnrolledAuthenticatorWorks ==
    \A u \in Users :
        row[u].enrolled => [user |-> u, secret |-> row[u].secret] \in shown
===============================================================================
