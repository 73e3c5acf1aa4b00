------------------------------ MODULE ReviewDesk ------------------------------
(***************************************************************************)
(* Review notes and the sign-off gate.  A request is served in a database  *)
(* session of its own: it sees what is stored and what it has written, and *)
(* when its handler has returned, the session is closed and the answer is  *)
(* out.  get_db closes a session without committing it, and neither the    *)
(* note, deliverable and audit repositories nor their callers commit.      *)
(*                                                                         *)
(* Deliverables are given: no caller of create_deliverable is in the       *)
(* application.  Who asks is a scope, as current_scope makes it (see       *)
(* Accounts for the session behind it).  A note is the number it is issued *)
(* under; its text is blank or not.                                        *)
(***************************************************************************)
EXTENDS Naturals, Sequences, FiniteSets, TLC

CONSTANTS
    Deliverables,
    FirmOf,         \* the firm of each
    Scopes,         \* who may ask
    AssetClasses,   \* what the signer of a request may claim it is
    Slots,          \* bound: requests in progress at a time
    MaxRequests,    \* bound: requests
    None

VARIABLES
    stored,         \* what is committed: notes, signatures, audit events
    session,        \* per slot, the request being served, or None
    answers,        \* in the order they were given
    issued          \* notes issued so far

deskVars == <<stored, session, answers, issued>>

Note == [deliverable : Deliverables, firm : {FirmOf[d] : d \in Deliverables},
         status : {"open", "responded", "closed"}]

(* Writes not made yet.                                                    *)
NoWrites == [notes |-> << >>, signer |-> << >>, audit |-> << >>]

DeskInit ==
    /\ stored = NoWrites
    /\ session = [s \in Slots |-> None]
    /\ answers = << >>
    /\ issued = 0

Busy == {s \in Slots : session[s] # None}

(***************************************************************************)
(* What a session sees: its own writes over what is stored.                *)
(***************************************************************************)
NotesSeen(s) == session[s].writes.notes @@ stored.notes

(* A row another open session has written is locked.                       *)
NoteIsFree(s, n) == \A t \in Busy \ {s} : n \notin DOMAIN session[t].writes.notes
DeliverableIsFree(s, d) == \A t \in Busy \ {s} : d \notin DOMAIN session[t].writes.signer

(***************************************************************************)
(* A request arrives and is given a session.                               *)
(***************************************************************************)
Requests ==
    [by : Scopes, does : {"create"}, on : Deliverables, blank : BOOLEAN]
    \union [by : Scopes, does : {"respond", "close"}, on : 1 .. MaxRequests]
    \union [by : Scopes, does : {"sign"}, on : Deliverables, class : AssetClasses]
    \union [by : Scopes, does : {"list", "read"}, on : Deliverables]

Begin(s, request) ==
    /\ session[s] = None /\ Len(answers) + Cardinality(Busy) < MaxRequests
    /\ session' = [session EXCEPT ![s] =
           [request |-> request, step |-> "begun", after |-> Len(answers),
            writes |-> NoWrites, code |-> None, note |-> None]]
    /\ UNCHANGED <<stored, answers, issued>>

Is(s, does, step) ==
    session[s] # None /\ session[s].request.does = does /\ session[s].step = step

Answer(s, code, writes, note) ==
    /\ session' = [session EXCEPT ![s] = [@ EXCEPT !.step = "answered", !.code = code,
                                                  !.writes = writes, !.note = note]]
    /\ UNCHANGED <<stored, answers>>

Firm(s) == session[s].request.by.firm
Target(s) == session[s].request.on
HasDeliverable(s) == FirmOf[Target(s)] = Firm(s)
HasNote(s) == Target(s) \in DOMAIN NotesSeen(s) /\ NotesSeen(s)[Target(s)].firm = Firm(s)

-------------------------------------------------------------------------------
(***************************************************************************)
(* create_review_note: the deliverable must be of the asker's firm; a note *)
(* that is blank is refused by the table.                                  *)
(***************************************************************************)
CreateNote(s) ==
    /\ Is(s, "create", "begun")
    /\ LET number == issued + 1
           note == [deliverable |-> Target(s), firm |-> Firm(s), status |-> "open"]
       IN  \/ ~HasDeliverable(s) /\ Answer(s, 404, NoWrites, None) /\ UNCHANGED issued
           \/ /\ HasDeliverable(s) /\ session[s].request.blank
              /\ Answer(s, 500, NoWrites, None) /\ UNCHANGED issued
           \/ /\ HasDeliverable(s) /\ ~session[s].request.blank
              /\ Answer(s, 200, [NoWrites EXCEPT !.notes = number :> note], number)
              /\ issued' = number

(* respond_note and close_note: the status becomes what is asked, whatever *)
(* it was.                                                                 *)
SetStatus(s, does, becomes) ==
    /\ Is(s, does, "begun")
    /\ \/ ~HasNote(s) /\ Answer(s, 404, NoWrites, None)
       \/ /\ HasNote(s) /\ NoteIsFree(s, Target(s))
          /\ LET note == [NotesSeen(s)[Target(s)] EXCEPT !.status = becomes] IN
             Answer(s, 200, [NoWrites EXCEPT !.notes = Target(s) :> note], Target(s))
    /\ UNCHANGED issued
RespondNote(s) == SetStatus(s, "respond", "responded")
CloseNote(s) == SetStatus(s, "close", "closed")

ListNotes(s) ==
    Is(s, "list", "begun") /\ Answer(s, 200, NoWrites, None) /\ UNCHANGED issued

(* Reading a deliverable, or its provenance, is recorded.                  *)
ReadDeliverable(s) ==
    /\ Is(s, "read", "begun")
    /\ \/ ~HasDeliverable(s) /\ Answer(s, 404, NoWrites, None)
       \/ HasDeliverable(s)
            /\ Answer(s, 200, [NoWrites EXCEPT !.audit = <<"read_deliverable">>], None)
    /\ UNCHANGED issued

-------------------------------------------------------------------------------
(***************************************************************************)
(* sign_deliverable: the role and the registration, then the open notes,   *)
(* then the deliverable, which is written and recorded.                    *)
(***************************************************************************)
RolesThatMaySign == {"partner", "valuer"}

MaySign(scope, class) ==
    /\ scope.role \in RolesThatMaySign
    /\ scope.ibbiRegNo
    /\ class = None \/ scope.assetClass = class

OpenNotes(s) ==
    {n \in DOMAIN NotesSeen(s) :
        LET note == NotesSeen(s)[n] IN
        /\ note.deliverable = Target(s) /\ note.firm = Firm(s)
        /\ note.status \in {"open", "responded"}}

RequireSign(s) ==
    /\ Is(s, "sign", "begun")
    /\ LET request == session[s].request IN
       \/ ~MaySign(request.by, request.class) /\ Answer(s, 403, NoWrites, None) /\ UNCHANGED issued
       \/ /\ MaySign(request.by, request.class)
          /\ session' = [session EXCEPT ![s].step = "authorised"]
          /\ UNCHANGED <<stored, answers, issued>>

CheckNotes(s) ==
    /\ Is(s, "sign", "authorised")
    /\ \/ OpenNotes(s) # {} /\ Answer(s, 400, NoWrites, None) /\ UNCHANGED issued
       \/ /\ OpenNotes(s) = {}
          /\ session' = [session EXCEPT ![s].step = "checked"]
          /\ UNCHANGED <<stored, answers, issued>>

Sign(s) ==
    /\ Is(s, "sign", "checked")
    /\ \/ ~HasDeliverable(s) /\ Answer(s, 404, NoWrites, None)
       \/ /\ HasDeliverable(s) /\ DeliverableIsFree(s, Target(s))
          /\ Answer(s, 200, [NoWrites EXCEPT !.signer = Target(s) :> session[s].request.by,
                                             !.audit = <<"sign_deliverable">>], None)
    /\ UNCHANGED issued

(* get_db leaves its session: what was flushed is rolled back.             *)
CloseSession(s) ==
    /\ session[s] # None /\ session[s].step = "answered"
    /\ answers' = Append(answers, [request |-> session[s].request, code |-> session[s].code,
                                   note |-> session[s].note, after |-> session[s].after])
    /\ session' = [session EXCEPT ![s] = None]
    /\ UNCHANGED <<stored, issued>>

DeskNext ==
    \E s \in Slots :
        \/ \E request \in Requests : Begin(s, request)
        \/ CreateNote(s) \/ RespondNote(s) \/ CloseNote(s) \/ ListNotes(s)
        \/ ReadDeliverable(s) \/ RequireSign(s) \/ CheckNotes(s) \/ Sign(s)
        \/ CloseSession(s)

DeskSpec == DeskInit /\ [][DeskNext]_deskVars

-------------------------------------------------------------------------------
(***************************************************************************)
(* "The sign-off gate prevents deliverable signing while any note remains  *)
(* open": a deliverable is answered signed only when every note on it that *)
(* was answered open before the request came has since been answered       *)
(* closed.                                                                 *)
(***************************************************************************)
Answered(k, does) == answers[k].request.does = does /\ answers[k].code = 200

NotesBlockSigning ==
    \A k \in DOMAIN answers :
        Answered(k, "sign") =>
            \A j \in 1 .. answers[k].after :
                Answered(j, "create") /\ answers[j].request.on = answers[k].request.on
                    => \E i \in 1 .. k : Answered(i, "close") /\ answers[i].note = answers[j].note
===============================================================================
