--------------------------- MODULE GenerationQueue ----------------------------
(***************************************************************************)
(* The generation queue: POST /generate in the web process, the jobs table,*)
(* the arq queue in Redis, and the workers that drive a job to a terminal  *)
(* status.                                                                 *)
(*                                                                         *)
(* A job's id is a uuid minted by the submission that inserts it, so job   *)
(* ids are named by submissions.  A step is what runs between two awaits   *)
(* that touch shared state.  Redis and arq 0.28 are not in the repository; *)
(* they are modelled from how WorkerSettings and enqueue use them: an      *)
(* entry is leased to one worker for job_timeout + 10s, every delivery     *)
(* counts as a try, any exception or a timeout ends the entry, and only a  *)
(* cancelled or a dead worker leads to a redelivery.                       *)
(*                                                                         *)
(* Faults are what the environment may do to this machinery; each run      *)
(* allows a set of kinds and at most MaxFaults of them.                    *)
(***************************************************************************)
EXTENDS Naturals, FiniteSets

CONSTANTS
    Submissions,    \* POST /generate requests, and so the ids of the jobs
    Keys,           \* idempotency keys
    KeyOf,          \* build_key of each submission
    Editors,        \* the submissions whose scope passes require_edit
    Workers,        \* worker slots (max_jobs per process, several processes)
    MaxTries,       \* WorkerSettings.max_tries
    Faults,         \* the kinds of fault a run allows
    MaxFaults,      \* bound on the number of faults in a behaviour
    NoJob           \* stands for "no job"

FaultKinds ==
    {"redis", "web", "crash", "stall", "timeout", "shutdown", "database", "commit"}

ASSUME KeysAssumption == KeyOf \in [Submissions -> Keys]
ASSUME EditorsAssumption == Editors \subseteq Submissions
ASSUME TriesAssumption == MaxTries \in Nat \ {0}
ASSUME FaultsAssumption == Faults \subseteq FaultKinds /\ MaxFaults \in Nat
ASSUME NoJobAssumption == NoJob \notin Submissions

(***************************************************************************)
(* JOB_STATUSES and TERMINAL_STATUSES of models/job.py.                    *)
(***************************************************************************)
TerminalStatuses == {"completed", "failed", "blocked_evidence"}
JobStatuses == {"queued", "processing"} \union TerminalStatuses

VARIABLES
    request,    \* per submission: where its handler is, the job it answered
    row,        \* the jobs table: the row each submission inserted, if any
    queue,      \* the arq entry of each job
    tries,      \* arq's retry counter of each job
    worker,     \* per worker slot: the run_generation call it is in
    zombies,    \* graph threads left running after their task was cancelled
    store,      \* per job: the try whose document is under the job's S3 key
    sent,       \* webhook payloads that left the system
    faults      \* faults so far

vars == <<request, row, queue, tries, worker, zombies, store, sent, faults>>

(***************************************************************************)
(* A row keeps what the properties tell apart: whether doc_url and error   *)
(* are set, not their text.  The document's path is built from the job's   *)
(* id and the type the run's intake answered, with nothing that tells one  *)
(* try of a job from another: the tries that read the same instructions    *)
(* alike write the same key, and store holds the run that wrote it last.   *)
(***************************************************************************)
Row == [status : JobStatuses \union {"absent"},
        terminal : BOOLEAN, doc : BOOLEAN, error : BOOLEAN]
NoRow == [status |-> "absent", terminal |-> FALSE,
          doc |-> FALSE, error |-> FALSE]
NewRow == [NoRow EXCEPT !.status = "queued"]

Request == [pc : {"idle", "submitted", "missed", "created",
                  "answered", "refused", "error", "lost"},
            job : Submissions \union {NoJob}]

Results == {"none", "document", "nothing", "blocked", "raised"}

(***************************************************************************)
(* seen is the ORM's cached instance of the row: the session is opened     *)
(* with expire_on_commit=False, so it changes only when it is refreshed,   *)
(* and by the session's own UPDATE, which carries its values over to it    *)
(* before the COMMIT.  doubt is not in the code: a history variable for    *)
(* the properties, set when that COMMIT failed, so that seen shows a       *)
(* status of which nobody knows whether the row has it.                    *)
(***************************************************************************)
Worker == [pc : {"idle", "claimed", "loaded", "refresh", "graph",
                 "write", "notify", "done"},
           job : Submissions \union {NoJob}, run : Nat,
           seen : Row, result : Results, doubt : BOOLEAN]
IdleWorker == [pc |-> "idle", job |-> NoJob, run |-> 0,
               seen |-> NoRow, result |-> "none", doubt |-> FALSE]

Payload == [job : Submissions, run : Nat,
            status : JobStatuses \union {"absent"}, doc : BOOLEAN,
            doubt : BOOLEAN]

TypeOK ==
    /\ request \in [Submissions -> Request]
    /\ row \in [Submissions -> Row]
    /\ queue \in [Submissions -> {"absent", "ready", "leased"}]
    /\ tries \in [Submissions -> Nat]
    /\ worker \in [Workers -> Worker]
    /\ zombies \subseteq [job : Submissions, run : Nat]
    /\ store \in [Submissions -> Nat]
    /\ sent \subseteq Payload
    /\ faults \in Nat

Init ==
    /\ request = [s \in Submissions |-> [pc |-> "idle", job |-> NoJob]]
    /\ row = [s \in Submissions |-> NoRow]
    /\ queue = [s \in Submissions |-> "absent"]
    /\ tries = [s \in Submissions |-> 0]
    /\ worker = [w \in Workers |-> IdleWorker]
    /\ zombies = {}
    /\ store = [s \in Submissions |-> 0]
    /\ sent = {}
    /\ faults = 0

Exists(j) == row[j].status # "absent"

-------------------------------------------------------------------------------
(***************************************************************************)
(* The web process: start_generation.                                      *)
(***************************************************************************)
WorkUnchanged == UNCHANGED <<worker, zombies, store, sent>>

(***************************************************************************)
(* require_edit, then the key; no await in between.                        *)
(***************************************************************************)
Submit(s) ==
    /\ request[s].pc = "idle"
    /\ request' = [request EXCEPT ![s].pc =
                       IF s \in Editors THEN "submitted" ELSE "refused"]
    /\ UNCHANGED <<row, queue, tries, faults>>
    /\ WorkUnchanged

(***************************************************************************)
(* find_by_idempotency_key: a committed row under the key answers the      *)
(* request with that job.                                                  *)
(***************************************************************************)
FindExisting(s) ==
    /\ request[s].pc = "submitted"
    /\ \/ \E j \in Submissions :
            /\ Exists(j)
            /\ KeyOf[j] = KeyOf[s]
            /\ request' = [request EXCEPT ![s] = [pc |-> "answered", job |-> j]]
       \/ /\ \A j \in Submissions : Exists(j) => KeyOf[j] # KeyOf[s]
          /\ request' = [request EXCEPT ![s].pc = "missed"]
    /\ UNCHANGED <<row, queue, tries, faults>>
    /\ WorkUnchanged

(***************************************************************************)
(* The partial unique index on jobs.idempotency_key.  (Seeded fault: the   *)
(* index is missing and the find is trusted.)                              *)
(***************************************************************************)
KeyIsFreeUnindexed(k) == k \in Keys
KeyIsFree(k) == \A j \in Submissions : Exists(j) => KeyOf[j] # k

(***************************************************************************)
(* jobRepository.create: insert and commit.  The loser of a race between   *)
(* two submissions gets the IntegrityError, which nothing handles.         *)
(***************************************************************************)
CreateJob(s) ==
    /\ request[s].pc = "missed"
    /\ \/ /\ KeyIsFree(KeyOf[s])
          /\ row' = [row EXCEPT ![s] = NewRow]
          /\ request' = [request EXCEPT ![s].pc = "created"]
       \/ /\ ~KeyIsFree(KeyOf[s])
          /\ request' = [request EXCEPT ![s].pc = "error"]
          /\ UNCHANGED row
    /\ UNCHANGED <<queue, tries, faults>>
    /\ WorkUnchanged

(***************************************************************************)
(* enqueue, and the 202 with the created job.                              *)
(***************************************************************************)
Enqueue(s) ==
    /\ request[s].pc = "created"
    /\ queue' = [queue EXCEPT ![s] = "ready"]
    /\ request' = [request EXCEPT ![s] = [pc |-> "answered", job |-> s]]
    /\ UNCHANGED <<row, tries, faults>>
    /\ WorkUnchanged

Fault(kind) ==
    /\ kind \in Faults
    /\ faults < MaxFaults
    /\ faults' = faults + 1

(***************************************************************************)
(* Redis refuses the connection: create_pool raises after the commit.      *)
(***************************************************************************)
EnqueueFails(s) ==
    /\ Fault("redis")
    /\ request[s].pc = "created"
    /\ request' = [request EXCEPT ![s].pc = "error"]
    /\ UNCHANGED <<row, queue, tries>>
    /\ WorkUnchanged

(***************************************************************************)
(* The web process dies under a request.                                   *)
(***************************************************************************)
WebDies(s) ==
    /\ Fault("web")
    /\ request[s].pc \in {"submitted", "missed", "created"}
    /\ request' = [request EXCEPT ![s].pc = "lost"]
    /\ UNCHANGED <<row, queue, tries>>
    /\ WorkUnchanged

-------------------------------------------------------------------------------
(***************************************************************************)
(* arq: delivery, leases and tries.                                        *)
(***************************************************************************)
Deliver(w, j) ==
    /\ worker[w].pc = "idle"
    /\ queue[j] = "ready"
    /\ tries[j] < MaxTries
    /\ tries' = [tries EXCEPT ![j] = @ + 1]
    /\ queue' = [queue EXCEPT ![j] = "leased"]
    /\ worker' = [worker EXCEPT ![w] =
                      [IdleWorker EXCEPT !.pc = "claimed", !.job = j,
                                         !.run = tries[j] + 1]]
    /\ UNCHANGED <<request, row, zombies, store, sent, faults>>

(***************************************************************************)
(* Past max_tries arq ends the entry itself; run_generation is not called. *)
(***************************************************************************)
GiveUp(j) ==
    /\ queue[j] = "ready"
    /\ tries[j] >= MaxTries
    /\ queue' = [queue EXCEPT ![j] = "absent"]
    /\ UNCHANGED <<request, row, tries, worker, zombies, store, sent, faults>>

(***************************************************************************)
(* The worker's coroutine is over: arq stores the result and forgets the   *)
(* entry.                                                                  *)
(***************************************************************************)
FinishEntry(w) ==
    /\ worker[w].pc = "done"
    /\ queue' = [queue EXCEPT ![worker[w].job] = "absent"]
    /\ worker' = [worker EXCEPT ![w] = IdleWorker]
    /\ UNCHANGED <<request, row, tries, zombies, store, sent, faults>>

Running(j) == \E w \in Workers : worker[w].job = j

(***************************************************************************)
(* The in-progress key of a dead worker expires and the entry is delivered *)
(* again.                                                                  *)
(***************************************************************************)
LeaseExpires(j) ==
    /\ queue[j] = "leased"
    /\ ~Running(j)
    /\ queue' = [queue EXCEPT ![j] = "ready"]
    /\ UNCHANGED <<request, row, tries, worker, zombies, store, sent, faults>>

(***************************************************************************)
(* A worker is paused past its lease and resumes while another has the     *)
(* entry: two coroutines write the same row.                               *)
(***************************************************************************)
LeaseExpiresUnderStall(j) ==
    /\ Fault("stall")
    /\ queue[j] = "leased"
    /\ Running(j)
    /\ queue' = [queue EXCEPT ![j] = "ready"]
    /\ UNCHANGED <<request, row, tries, worker, zombies, store, sent>>

-------------------------------------------------------------------------------
(***************************************************************************)
(* A worker: run_generation, execute and set_status.                       *)
(***************************************************************************)
Goto(w, pc) == worker' = [worker EXCEPT ![w].pc = pc]

(***************************************************************************)
(* get_unscoped, and the early returns for a missing or a terminal row.    *)
(***************************************************************************)
Load(w) ==
    LET j == worker[w].job IN
    /\ worker[w].pc = "claimed"
    /\ IF ~Exists(j) \/ row[j].terminal
         THEN Goto(w, "done")
         ELSE worker' = [worker EXCEPT ![w].pc = "loaded", ![w].seen = row[j]]
    /\ UNCHANGED <<request, row, queue, tries, zombies, store, sent, faults>>

(***************************************************************************)
(* set_status is guarded twice: the check on the cached instance, and the  *)
(* terminal_at IS NULL predicate of the UPDATE.  (Seeded fault: the UPDATE *)
(* without its predicate.)                                                 *)
(***************************************************************************)
AcceptsByCache(seen, current) == ~seen.terminal /\ current.status # "absent"
Accepts(seen, current) == ~seen.terminal /\ ~current.terminal

(***************************************************************************)
(* The values set_status merges into the row.  (Seeded fault: terminal_at  *)
(* left unset on completion.)                                              *)
(***************************************************************************)
WrittenUnfinished(old, status) ==
    [status |-> status,
     terminal |-> old.terminal \/ status \in {"failed", "blocked_evidence"},
     doc |-> old.doc \/ status = "completed",
     error |-> old.error \/ status \in {"failed", "blocked_evidence"}]

Written(old, status) ==
    [status |-> status,
     terminal |-> old.terminal \/ status \in TerminalStatuses,
     doc |-> old.doc \/ status = "completed",
     error |-> old.error \/ status \in {"failed", "blocked_evidence"}]

SetStatus(j, status) == row' = [row EXCEPT ![j] = Written(@, status)]

(***************************************************************************)
(* execute's claim.  A refusal is logged and the call returns, with no     *)
(* callback.                                                               *)
(***************************************************************************)
MarkProcessing(w) ==
    LET j == worker[w].job IN
    /\ worker[w].pc = "loaded"
    /\ \/ /\ Accepts(worker[w].seen, row[j])
          /\ SetStatus(j, "processing")
          /\ Goto(w, "refresh")
       \/ /\ ~Accepts(worker[w].seen, row[j])
          /\ Goto(w, "done")
          /\ UNCHANGED row
    /\ UNCHANGED <<request, queue, tries, zombies, store, sent, faults>>

(***************************************************************************)
(* db.refresh after the commit: a read in a new transaction, which may see *)
(* what another worker wrote in between.                                   *)
(***************************************************************************)
Refresh(w) ==
    /\ worker[w].pc = "refresh"
    /\ worker' = [worker EXCEPT ![w].pc = "graph",
                                ![w].seen = row[worker[w].job]]
    /\ UNCHANGED <<request, row, queue, tries, zombies, store, sent, faults>>

(***************************************************************************)
(* The graph, in a thread: it uploads a document, ends with none, is       *)
(* blocked by the evidence gate, or raises (a provider error).             *)
(***************************************************************************)
RunGraph(w) ==
    /\ worker[w].pc = "graph"
    /\ \E result \in Results \ {"none"} :
         /\ worker' = [worker EXCEPT ![w].pc = "write", ![w].result = result]
         /\ store' = IF result = "document"
                       THEN [store EXCEPT ![worker[w].job] = worker[w].run]
                       ELSE store
    /\ UNCHANGED <<request, row, queue, tries, zombies, sent, faults>>

(***************************************************************************)
(* The status execute writes for what the graph returned.  (Seeded faults: *)
(* a result passed through as a status; a run without a document taken for *)
(* a completed one; a failed run left as it is.)                           *)
(***************************************************************************)
FinalStatusUntranslated(result) ==
    IF result = "document" THEN "completed" ELSE result
FinalStatusOptimistic(result) ==
    IF result = "blocked" THEN "blocked_evidence" ELSE "completed"
FinalStatusUnfailed(result) ==
    CASE result = "document" -> "completed"
      [] result = "blocked" -> "blocked_evidence"
      [] OTHER -> "processing"

FinalStatus(result) ==
    CASE result = "document" -> "completed"
      [] result = "blocked" -> "blocked_evidence"
      [] OTHER -> "failed"

(***************************************************************************)
(* The instance _notify will read after the final write.  (Seeded fault:   *)
(* the cached instance is kept.)                                           *)
(***************************************************************************)
RereadSkipped(cached, current) == cached
Reread(cached, current) == current

(***************************************************************************)
(* The final set_status.  A refused write rolls back, which expires the    *)
(* cached instance, and re-reads the row; an accepted one commits and      *)
(* refreshes it.  Either way the callback follows.  (A row is frozen once  *)
(* terminal, so the re-read is part of the step.)                          *)
(***************************************************************************)
WriteResult(w) ==
    LET j == worker[w].job IN
    /\ worker[w].pc = "write"
    /\ \/ /\ Accepts(worker[w].seen, row[j])
          /\ SetStatus(j, FinalStatus(worker[w].result))
       \/ /\ ~Accepts(worker[w].seen, row[j])
          /\ UNCHANGED row
    /\ worker' = [worker EXCEPT ![w].pc = "notify", ![w].seen = Reread(@, row'[j])]
    /\ UNCHANGED <<request, queue, tries, zombies, store, sent, faults>>

(***************************************************************************)
(* _notify posts the cached instance; a failed post is swallowed.          *)
(***************************************************************************)
Notify(w) ==
    LET j == worker[w].job
        seen == worker[w].seen
    IN
    /\ worker[w].pc = "notify"
    /\ \/ sent' = sent \union {[job |-> j, run |-> worker[w].run,
                                status |-> seen.status, doc |-> seen.doc,
                                doubt |-> worker[w].doubt]}
       \/ UNCHANGED sent
    /\ Goto(w, "done")
    /\ UNCHANGED <<request, row, queue, tries, zombies, store, faults>>

-------------------------------------------------------------------------------
(***************************************************************************)
(* What can happen to a worker.                                            *)
(***************************************************************************)
Busy(w) == worker[w].pc # "idle"

(***************************************************************************)
(* kill -9: the coroutine and its thread are gone, the lease stays.        *)
(***************************************************************************)
WorkerDies(w) ==
    /\ Fault("crash")
    /\ Busy(w)
    /\ worker' = [worker EXCEPT ![w] = IdleWorker]
    /\ UNCHANGED <<request, row, queue, tries, zombies, store, sent>>

(***************************************************************************)
(* A cancelled await of asyncio.to_thread abandons the thread; it runs on. *)
(***************************************************************************)
LeaveThreadOf(w) ==
    zombies' = IF worker[w].pc = "graph"
                 THEN zombies \union {[job |-> worker[w].job,
                                       run |-> worker[w].run]}
                 ELSE zombies

(***************************************************************************)
(* job_timeout: the task is cancelled and arq records a failure, which it  *)
(* does not retry.  execute does not catch CancelledError.                 *)
(***************************************************************************)
TimesOut(w) ==
    /\ Fault("timeout")
    /\ worker[w].pc \notin {"idle", "done"}
    /\ LeaveThreadOf(w)
    /\ queue' = [queue EXCEPT ![worker[w].job] = "absent"]
    /\ worker' = [worker EXCEPT ![w] = IdleWorker]
    /\ UNCHANGED <<request, row, tries, store, sent>>

(***************************************************************************)
(* A deploy stops the worker: its tasks are cancelled and arq leaves the   *)
(* entry in the queue for another worker.                                  *)
(***************************************************************************)
ShutsDown(w) ==
    LET j == worker[w].job IN
    /\ Fault("shutdown")
    /\ worker[w].pc \notin {"idle", "done"}
    /\ LeaveThreadOf(w)
    /\ queue' = [queue EXCEPT ![j] = IF @ = "absent" THEN @ ELSE "ready"]
    /\ worker' = [worker EXCEPT ![w] = IdleWorker]
    /\ UNCHANGED <<request, row, tries, store, sent>>

(***************************************************************************)
(* The database fails a read, an UPDATE, the refresh after a COMMIT, or a  *)
(* COMMIT outside the try of execute or in its handler: the session is in  *)
(* a failed transaction or its instance is expired, so whatever comes next *)
(* raises as well, the error leaves run_generation and arq ends the entry. *)
(* A write under way may have been committed.  (An instance that shows a   *)
(* terminal row is refused without a query.)                               *)
(***************************************************************************)
DatabaseFails(w) ==
    LET j == worker[w].job IN
    /\ Fault("database")
    /\ worker[w].pc \in {"claimed", "loaded", "refresh", "write"}
    /\ ~worker[w].seen.terminal
    /\ \/ UNCHANGED row
       \/ /\ worker[w].pc \in {"loaded", "write"}
          /\ Accepts(worker[w].seen, row[j])
          /\ SetStatus(j, IF worker[w].pc = "loaded" THEN "processing"
                          ELSE FinalStatus(worker[w].result))
    /\ queue' = [queue EXCEPT ![j] = "absent"]
    /\ worker' = [worker EXCEPT ![w] = IdleWorker]
    /\ UNCHANGED <<request, tries, zombies, store, sent>>

(***************************************************************************)
(* The COMMIT of the final set_status fails inside the try of execute,     *)
(* with the row written or not.  The UPDATE has already put the status and *)
(* terminal_at on the cached instance, so the set_status("failed") of the  *)
(* handler finds a terminal job, its TerminalJobError is dropped, and      *)
(* _notify follows.  (After a raised run the final set_status is itself in *)
(* the handler, and DatabaseFails has its errors.)                         *)
(***************************************************************************)
CommitFails(w) ==
    LET j == worker[w].job
        status == FinalStatus(worker[w].result)
    IN
    /\ Fault("commit")
    /\ worker[w].pc = "write"
    /\ worker[w].result # "raised"
    /\ Accepts(worker[w].seen, row[j])
    /\ \/ SetStatus(j, status)
       \/ UNCHANGED row
    /\ worker' = [worker EXCEPT ![w].pc = "notify", ![w].doubt = TRUE,
                                ![w].seen = Written(@, status)]
    /\ UNCHANGED <<request, queue, tries, zombies, store, sent>>

(***************************************************************************)
(* An abandoned graph thread reaches its end, with or without an upload.   *)
(***************************************************************************)
ZombieEnds(z) ==
    /\ z \in zombies
    /\ zombies' = zombies \ {z}
    /\ \/ store' = [store EXCEPT ![z.job] = z.run]
       \/ UNCHANGED store
    /\ UNCHANGED <<request, row, queue, tries, worker, sent, faults>>

-------------------------------------------------------------------------------
WebStep(s) == FindExisting(s) \/ CreateJob(s) \/ Enqueue(s)

WorkStep(w) ==
    Load(w) \/ MarkProcessing(w) \/ Refresh(w) \/ RunGraph(w)
        \/ WriteResult(w) \/ Notify(w) \/ FinishEntry(w)

QueueStep(j) ==
    GiveUp(j) \/ LeaseExpires(j) \/ \E w \in Workers : Deliver(w, j)

WorkerFault(w) ==
    WorkerDies(w) \/ TimesOut(w) \/ ShutsDown(w) \/ DatabaseFails(w)

Next ==
    \/ \E s \in Submissions :
         Submit(s) \/ WebStep(s) \/ EnqueueFails(s) \/ WebDies(s)
    \/ \E j \in Submissions : QueueStep(j) \/ LeaseExpiresUnderStall(j)
    \/ \E w \in Workers : WorkStep(w) \/ WorkerFault(w) \/ CommitFails(w)
    \/ \E z \in zombies : ZombieEnds(z)

Spec == Init /\ [][Next]_vars

(***************************************************************************)
(* Handlers and workers that are not interrupted go on; Redis delivers     *)
(* ready entries and expires leases.  Clients owe nothing, faults neither. *)
(***************************************************************************)
Fairness ==
    /\ \A s \in Submissions : WF_vars(WebStep(s))
    /\ \A j \in Submissions : WF_vars(QueueStep(j))
    /\ \A w \in Workers : WF_vars(WorkStep(w))

FairSpec == Spec /\ Fairness

-------------------------------------------------------------------------------
(***************************************************************************)
(* The columns of a row agree: terminal_at is set exactly with a terminal  *)
(* status, doc_url exactly on completion, error exactly on the other two.  *)
(* (Every set_status merges into what earlier tries left in the row.)      *)
(***************************************************************************)
RowConsistent ==
    \A j \in Submissions :
        /\ row[j].terminal <=> row[j].status \in TerminalStatuses
        /\ row[j].doc <=> row[j].status = "completed"
        /\ row[j].error <=> row[j].status \in {"failed", "blocked_evidence"}

(***************************************************************************)
(* A double submit is one execution: never two rows under one key, and     *)
(* whatever crashed or raced, everybody who got an answer for a key was    *)
(* told the same job, which exists.                                        *)
(***************************************************************************)
OneJobPerKey ==
    \A i, j \in Submissions :
        Exists(i) /\ Exists(j) /\ KeyOf[i] = KeyOf[j] => i = j

Answered(s) == request[s].pc = "answered"

SameKeySameJob ==
    \A s, t \in Submissions :
        Answered(s) /\ Answered(t) /\ KeyOf[s] = KeyOf[t] =>
            /\ request[s].job = request[t].job
            /\ Exists(request[s].job)

(***************************************************************************)
(* A callback never contradicts the row: it is built from a cached         *)
(* instance, possibly by the worker that lost the race to finish the job,  *)
(* and still carries the status and the document the row ended with.  The  *)
(* exception is a worker whose final COMMIT failed, which announces an     *)
(* outcome the row may never get; that a document it announces exists      *)
(* holds even then.                                                        *)
(***************************************************************************)
CallbackTruth ==
    \A m \in sent :
        /\ ~m.doubt => /\ row[m.job].terminal
                       /\ m.status = row[m.job].status
                       /\ m.doc = row[m.job].doc
        /\ m.status = "completed" => store[m.job] # 0

(***************************************************************************)
(* A completed job has a document behind its doc_url.                      *)
(***************************************************************************)
CompletedHasDocument ==
    \A j \in Submissions : row[j].status = "completed" => store[j] # 0

(***************************************************************************)
(* Terminal finality of jobRepository: once terminal_at is set no step of  *)
(* any process changes the row.                                            *)
(***************************************************************************)
TerminalFinality ==
    [][\A j \in Submissions : row[j].terminal => row'[j] = row[j]]_vars

(***************************************************************************)
(* "Tasks are safe to run twice" (README of the repository), for the       *)
(* deliverable itself: redelivery never replaces the document behind a     *)
(* doc_url.  What may still replace it is a thread that a cancelled try    *)
(* left running.                                                           *)
(***************************************************************************)
RedeliveryKeepsDocument ==
    [][\A j \in Submissions :
         row[j].doc /\ store'[j] # store[j] =>
             \E z \in zombies \ zombies' : z.job = j]_vars

(***************************************************************************)
(* A job is announced by at most one of its tries.                         *)
(***************************************************************************)
CallbackAtMostOnce ==
    \A m, n \in sent : m.job = n.job => m = n

(***************************************************************************)
(* "All reach a terminal state, none lost": whoever was answered with a    *)
(* job id sees that job finish.                                            *)
(***************************************************************************)
AnsweredJobTerminates ==
    \A s, j \in Submissions :
        (request[s] = [pc |-> "answered", job |-> j]) ~> row[j].terminal

(***************************************************************************)
(* What a client can see of the table and the callbacks, per key; but for  *)
(* the callbacks of a worker whose COMMIT failed (see CallbackTruth).      *)
(***************************************************************************)
OpenKeys == {KeyOf[j] : j \in {i \in Submissions : Exists(i) /\ ~row[i].terminal}}
Outcomes ==
    {<<KeyOf[j], row[j].status>> : j \in {i \in Submissions : row[i].terminal}}
Announced == {<<KeyOf[m.job], m.status>> : m \in {n \in sent : ~n.doubt}}

Lifecycle == INSTANCE JobLifecycle
    WITH open <- OpenKeys, done <- Outcomes, told <- Announced

(***************************************************************************)
(* The queue implements the abstract life cycle: under every fault a key   *)
(* is opened once and decided once, and, where no COMMIT failed under the  *)
(* announcing worker, announced as it was decided.                         *)
(***************************************************************************)
RefinesLifecycle == Lifecycle!Spec

(***************************************************************************)
(* Every opened key is decided.                                            *)
(***************************************************************************)
KeysProgress == Lifecycle!Progress

===============================================================================
