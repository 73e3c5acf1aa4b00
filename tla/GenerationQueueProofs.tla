------------------------ MODULE GenerationQueueProofs -------------------------
(***************************************************************************)
(* Proofs about GenerationQueue for every set of submissions, keys and     *)
(* workers, every kind and number of faults.                               *)
(***************************************************************************)
EXTENDS GenerationQueue, TLAPS

(***************************************************************************)
(* What set_status writes is a row.                                        *)
(***************************************************************************)
LEMMA RecordTypes ==
    /\ NoRow \in Row
    /\ NewRow \in Row
    /\ IdleWorker \in Worker
<1>1. NoRow \in Row
  BY DEF NoRow, Row
<1>2. NewRow \in Row
  BY DEF NewRow, NoRow, Row, JobStatuses
<1>3. IdleWorker \in Worker
  BY <1>1 DEF IdleWorker, Worker, Results
<1> QED BY <1>1, <1>2, <1>3

LEMMA WrittenType ==
    ASSUME NEW r \in Row, NEW status \in JobStatuses
    PROVE  Written(r, status) \in Row
BY DEF Written, Row, JobStatuses, TerminalStatuses

LEMMA WrittenFields ==
    ASSUME NEW r \in Row, NEW status \in JobStatuses
    PROVE  /\ Written(r, status).status = status
           /\ Written(r, status).terminal = (r.terminal \/ status \in TerminalStatuses)
           /\ Written(r, status).doc = (r.doc \/ status = "completed")
           /\ Written(r, status).error =
                (r.error \/ status \in {"failed", "blocked_evidence"})
BY DEF Written, Row

LEMMA FinalStatusType ==
    ASSUME NEW result \in Results
    PROVE  FinalStatus(result) \in TerminalStatuses
BY DEF FinalStatus, TerminalStatuses, Results

(***************************************************************************)
(* TypeOK with the one strengthening it needs to be inductive: a busy      *)
(* worker slot has a job.                                                  *)
(***************************************************************************)
BusyHasJob == \A w \in Workers : worker[w].pc # "idle" => worker[w].job \in Submissions

TypeInv == TypeOK /\ BusyHasJob

LEMMA TypeInit == Init => TypeInv
BY DEF Init, TypeInv, TypeOK, BusyHasJob, Request, Row, NoRow, JobStatuses,
       TerminalStatuses, Worker, IdleWorker, Results

LEMMA TypeNext == TypeInv /\ [Next]_vars => TypeInv'
<1> SUFFICES ASSUME TypeInv, [Next]_vars PROVE TypeInv'
  OBVIOUS
<1> USE DEF TypeInv
<1>1. ASSUME NEW s \in Submissions,
             Submit(s) \/ WebStep(s) \/ EnqueueFails(s) \/ WebDies(s)
      PROVE  TypeInv'
  <2>1. row' \in [Submissions -> Row]
    BY <1>1, RecordTypes DEF TypeOK, Submit, WebStep, FindExisting, CreateJob, Enqueue,
         EnqueueFails, WebDies
  <2>2. request' \in [Submissions -> Request]
    BY <1>1 DEF TypeOK, Submit, WebStep, FindExisting, CreateJob, Enqueue,
         EnqueueFails, WebDies, Request
  <2>3. queue' \in [Submissions -> {"absent", "ready", "leased"}]
    BY <1>1 DEF TypeOK, Submit, WebStep, FindExisting, CreateJob, Enqueue,
         EnqueueFails, WebDies
  <2>4. faults' \in Nat
    BY <1>1 DEF TypeOK, Submit, WebStep, FindExisting, CreateJob, Enqueue,
         EnqueueFails, WebDies, Fault
  <2>5. UNCHANGED <<tries, worker, zombies, store, sent>>
    BY <1>1 DEF Submit, WebStep, FindExisting, CreateJob, Enqueue,
         EnqueueFails, WebDies, WorkUnchanged
  <2> QED BY <2>1, <2>2, <2>3, <2>4, <2>5 DEF TypeOK, BusyHasJob
<1>2. ASSUME NEW j \in Submissions, QueueStep(j) \/ LeaseExpiresUnderStall(j)
      PROVE  TypeInv'
  <2>1. CASE GiveUp(j) \/ LeaseExpires(j) \/ LeaseExpiresUnderStall(j)
    BY <2>1 DEF GiveUp, LeaseExpires, LeaseExpiresUnderStall, Fault, TypeOK, BusyHasJob
  <2>2. ASSUME NEW w \in Workers, Deliver(w, j) PROVE TypeInv'
    <3>1. worker' \in [Workers -> Worker]
      <4>1. tries[j] + 1 \in Nat
        BY DEF TypeOK
      <4>2. [IdleWorker EXCEPT !.pc = "claimed", !.job = j, !.run = tries[j] + 1] \in Worker
        BY <4>1, RecordTypes DEF Worker
      <4> QED BY <2>2, <4>2 DEF Deliver, TypeOK
    <3>2. BusyHasJob'
      BY <2>2 DEF Deliver, TypeOK, Worker, IdleWorker, BusyHasJob
    <3> QED BY <2>2, <3>1, <3>2 DEF Deliver, TypeOK
  <2> QED BY <1>2, <2>1, <2>2 DEF QueueStep
<1>3. ASSUME NEW w \in Workers, WorkStep(w) PROVE TypeInv'
  <2>1. CASE Load(w)
    BY <2>1 DEF Load, Goto, TypeOK, BusyHasJob, Worker
  <2>2. CASE MarkProcessing(w)
    <3>1. row' \in [Submissions -> Row]
      BY <2>2, WrittenType DEF MarkProcessing, SetStatus, TypeOK, BusyHasJob, JobStatuses
    <3>2. worker' \in [Workers -> Worker] /\ BusyHasJob'
      BY <2>2 DEF MarkProcessing, Goto, TypeOK, BusyHasJob, Worker
    <3> QED BY <2>2, <3>1, <3>2 DEF MarkProcessing, TypeOK
  <2>3. CASE Refresh(w)
    BY <2>3 DEF Refresh, TypeOK, BusyHasJob, Worker
  <2>4. CASE RunGraph(w)
    <3>1. worker' \in [Workers -> Worker] /\ BusyHasJob'
      <4>1. PICK result \in Results \ {"none"} :
              worker' = [worker EXCEPT ![w].pc = "write", ![w].result = result]
        BY <2>4 DEF RunGraph
      <4>2. worker[w].job \in Submissions
        BY <2>4 DEF RunGraph, BusyHasJob
      <4>3. worker' \in [Workers -> Worker]
        <5>1. [worker[w] EXCEPT !.pc = "write", !.result = result] \in Worker
          BY DEF TypeOK, Worker
        <5> QED BY <4>1, <5>1 DEF TypeOK
      <4>4. BusyHasJob'
        BY <4>1, <4>2 DEF TypeOK, BusyHasJob, Worker
      <4> QED BY <4>3, <4>4
    <3>2. store' \in [Submissions -> Nat]
      BY <2>4 DEF RunGraph, TypeOK, BusyHasJob, Worker
    <3> QED BY <2>4, <3>1, <3>2 DEF RunGraph, TypeOK
  <2>5. CASE WriteResult(w)
    <3> DEFINE j == worker[w].job
    <3>1. worker[w] \in Worker /\ j \in Submissions
      BY <2>5 DEF WriteResult, TypeOK, BusyHasJob
    <3>2. row' \in [Submissions -> Row]
      <4>1. FinalStatus(worker[w].result) \in JobStatuses
        BY <3>1, FinalStatusType DEF Worker, JobStatuses
      <4>2. \/ row' = row
            \/ row' = [row EXCEPT ![j] = Written(@, FinalStatus(worker[w].result))]
        BY <2>5 DEF WriteResult, SetStatus
      <4> QED BY <4>1, <4>2, WrittenType DEF TypeOK
    <3>3. worker' = [worker EXCEPT ![w].pc = "notify", ![w].seen = row'[j]]
      BY <2>5 DEF WriteResult, Reread
    <3>4. row'[j] \in Row
      BY <3>1, <3>2
    <3> HIDE DEF j
    <3>5. worker' \in [Workers -> Worker]
      <4>1. [worker[w] EXCEPT !.pc = "notify", !.seen = row'[j]] \in Worker
        BY <3>1, <3>4 DEF Worker
      <4> QED BY <3>3, <4>1 DEF TypeOK
    <3>6. BusyHasJob'
      BY <3>1, <3>3 DEF TypeOK, BusyHasJob, Worker, j
    <3> QED BY <2>5, <3>2, <3>5, <3>6 DEF WriteResult, TypeOK
  <2>6. CASE Notify(w)
    <3>1. worker' \in [Workers -> Worker] /\ BusyHasJob'
      BY <2>6 DEF Notify, Goto, TypeOK, BusyHasJob, Worker
    <3>2. sent' \subseteq Payload
      <4>1. worker[w].job \in Submissions /\ worker[w] \in Worker
        BY <2>6 DEF Notify, TypeOK, BusyHasJob
      <4> QED BY <2>6, <4>1 DEF Notify, TypeOK, Payload, Worker, Row
    <3> QED BY <2>6, <3>1, <3>2 DEF Notify, TypeOK
  <2>7. CASE FinishEntry(w)
    BY <2>7, RecordTypes DEF FinishEntry, TypeOK, BusyHasJob, IdleWorker
  <2> QED BY <1>3, <2>1, <2>2, <2>3, <2>4, <2>5, <2>6, <2>7 DEF WorkStep
<1>4. ASSUME NEW w \in Workers, WorkerFault(w) PROVE TypeInv'
  <2>1. worker' \in [Workers -> Worker] /\ BusyHasJob'
    <3>1. worker' = [worker EXCEPT ![w] = IdleWorker]
      BY <1>4 DEF WorkerFault, WorkerDies, TimesOut, ShutsDown, DatabaseFails
    <3>2. IdleWorker \in Worker /\ IdleWorker.pc = "idle"
      BY RecordTypes DEF IdleWorker
    <3> QED BY <3>1, <3>2 DEF TypeOK, BusyHasJob
  <2>2. faults' \in Nat
    BY <1>4 DEF WorkerFault, WorkerDies, TimesOut, ShutsDown, DatabaseFails, Fault, TypeOK
  <2>3. queue' \in [Submissions -> {"absent", "ready", "leased"}]
    BY <1>4 DEF WorkerFault, WorkerDies, TimesOut, ShutsDown, DatabaseFails, TypeOK
  <2>4. zombies' \subseteq [job : Submissions, run : Nat]
    BY <1>4 DEF WorkerFault, WorkerDies, TimesOut, ShutsDown, DatabaseFails, TypeOK,
         LeaveThreadOf, BusyHasJob, Worker
  <2>5. row' \in [Submissions -> Row]
    <3>1. CASE WorkerDies(w) \/ TimesOut(w) \/ ShutsDown(w)
      BY <3>1 DEF WorkerDies, TimesOut, ShutsDown, TypeOK
    <3>2. CASE DatabaseFails(w)
      <4>1. PICK status \in JobStatuses :
              row' = row \/ row' = [row EXCEPT ![worker[w].job] = Written(@, status)]
        <5>1. FinalStatus(worker[w].result) \in JobStatuses
          BY FinalStatusType DEF TypeOK, Worker, JobStatuses
        <5>2. "processing" \in JobStatuses
          BY DEF JobStatuses
        <5> QED BY <3>2, <5>1, <5>2 DEF DatabaseFails, SetStatus
      <4> QED BY <4>1, WrittenType DEF TypeOK
    <3> QED BY <1>4, <3>1, <3>2 DEF WorkerFault
  <2>6. UNCHANGED <<request, tries, store, sent>>
    BY <1>4 DEF WorkerFault, WorkerDies, TimesOut, ShutsDown, DatabaseFails
  <2> QED BY <2>1, <2>2, <2>3, <2>4, <2>5, <2>6 DEF TypeOK
<1>5. ASSUME NEW z \in zombies, ZombieEnds(z) PROVE TypeInv'
  BY <1>5 DEF ZombieEnds, TypeOK, BusyHasJob
<1>6. ASSUME NEW w \in Workers, CommitFails(w) PROVE TypeInv'
  <2> DEFINE j == worker[w].job
             status == FinalStatus(worker[w].result)
             x == [worker[w] EXCEPT !.pc = "notify", !.doubt = TRUE,
                                    !.seen = Written(@, status)]
  <2>1. worker[w] \in Worker /\ j \in Submissions
    BY <1>6 DEF CommitFails, TypeOK, BusyHasJob
  <2>2. status \in JobStatuses
    BY <2>1, FinalStatusType DEF Worker, JobStatuses
  <2>3. row' = row \/ row' = [row EXCEPT ![j] = Written(@, status)]
    BY <1>6 DEF CommitFails, SetStatus
  <2>4. worker' = [worker EXCEPT ![w] = x]
    BY <1>6 DEF CommitFails
  <2>5. Written(worker[w].seen, status) \in Row
    BY <2>1, <2>2, WrittenType DEF Worker
  <2>6. x \in Worker /\ x.job = j
    BY <2>1, <2>5 DEF Worker
  <2>7. row' \in [Submissions -> Row]
    <3> HIDE DEF j, status
    <3> QED BY <2>2, <2>3, WrittenType DEF TypeOK
  <2> HIDE DEF x
  <2>8. worker' \in [Workers -> Worker]
    BY <2>4, <2>6 DEF TypeOK
  <2>9. BusyHasJob'
    BY <2>1, <2>4, <2>6 DEF TypeOK, BusyHasJob
  <2>10. faults' \in Nat /\ UNCHANGED <<request, queue, tries, zombies, store, sent>>
    BY <1>6 DEF CommitFails, Fault, TypeOK
  <2> QED BY <2>7, <2>8, <2>9, <2>10 DEF TypeOK
<1>7. CASE UNCHANGED vars
  BY <1>7 DEF vars, TypeOK, BusyHasJob
<1> QED BY <1>1, <1>2, <1>3, <1>4, <1>5, <1>6, <1>7 DEF Next

(***************************************************************************)
(* Type correctness of the queue.                                          *)
(***************************************************************************)
THEOREM TypeCorrect == Spec => []TypeOK
<1>1. Spec => []TypeInv
  BY TypeInit, TypeNext, PTL DEF Spec
<1> QED BY <1>1, PTL DEF TypeInv

-------------------------------------------------------------------------------
(***************************************************************************)
(* What one step may do to the jobs table, whoever takes it: nothing,      *)
(* insert one row under a free key, or merge a status into a row that is   *)
(* not terminal.                                                           *)
(***************************************************************************)
Insert(j) ==
    /\ KeyIsFree(KeyOf[j])
    /\ row' = [row EXCEPT ![j] = NewRow]

Update(j) ==
    /\ Exists(j)
    /\ ~row[j].terminal
    /\ \E status \in JobStatuses : row' = [row EXCEPT ![j] = Written(@, status)]

RowStep == UNCHANGED row \/ \E j \in Submissions : Insert(j) \/ Update(j)

(***************************************************************************)
(* A job is enqueued, and so taken by a worker, only after its row was     *)
(* committed.                                                              *)
(***************************************************************************)
EntryHasRow ==
    /\ \A j \in Submissions : queue[j] # "absent" => Exists(j)
    /\ \A w \in Workers : worker[w].pc # "idle" => Exists(worker[w].job)

(***************************************************************************)
(* Every step that is not a write leaves the table alone; every write is   *)
(* an Insert or an Update.                                                 *)
(***************************************************************************)
LEMMA RowSteps == TypeInv /\ EntryHasRow /\ [Next]_vars => RowStep
<1> SUFFICES ASSUME TypeInv, EntryHasRow, [Next]_vars PROVE RowStep
  OBVIOUS
<1>1. ASSUME NEW s \in Submissions,
             Submit(s) \/ WebStep(s) \/ EnqueueFails(s) \/ WebDies(s)
      PROVE  RowStep
  BY <1>1 DEF RowStep, Insert, Submit, WebStep, FindExisting, CreateJob, Enqueue,
       EnqueueFails, WebDies
<1>2. ASSUME NEW j \in Submissions, QueueStep(j) \/ LeaseExpiresUnderStall(j)
      PROVE  RowStep
  BY <1>2 DEF RowStep, QueueStep, GiveUp, LeaseExpires, Deliver, LeaseExpiresUnderStall
<1>3. ASSUME NEW w \in Workers, WorkStep(w) PROVE RowStep
  <2>1. CASE Load(w) \/ Refresh(w) \/ RunGraph(w) \/ Notify(w) \/ FinishEntry(w)
    BY <2>1 DEF RowStep, Load, Refresh, RunGraph, Notify, FinishEntry
  <2>2. CASE MarkProcessing(w)
    <3>1. worker[w].job \in Submissions /\ Exists(worker[w].job)
      BY <2>2 DEF MarkProcessing, TypeInv, BusyHasJob, EntryHasRow
    <3>2. "processing" \in JobStatuses
      BY DEF JobStatuses
    <3> QED BY <2>2, <3>1, <3>2 DEF MarkProcessing, Accepts, SetStatus, RowStep, Update
  <2>3. CASE WriteResult(w)
    <3>1. worker[w].job \in Submissions /\ Exists(worker[w].job)
      BY <2>3 DEF WriteResult, TypeInv, BusyHasJob, EntryHasRow
    <3>2. FinalStatus(worker[w].result) \in JobStatuses
      BY FinalStatusType DEF TypeInv, TypeOK, Worker, JobStatuses
    <3> QED BY <2>3, <3>1, <3>2 DEF WriteResult, Accepts, SetStatus, RowStep, Update
  <2> QED BY <1>3, <2>1, <2>2, <2>3 DEF WorkStep
<1>4. ASSUME NEW w \in Workers, WorkerFault(w) PROVE RowStep
  <2>1. CASE WorkerDies(w) \/ TimesOut(w) \/ ShutsDown(w)
    BY <2>1 DEF RowStep, WorkerDies, TimesOut, ShutsDown
  <2>2. CASE DatabaseFails(w)
    <3>1. worker[w].job \in Submissions /\ Exists(worker[w].job)
      BY <2>2 DEF DatabaseFails, TypeInv, BusyHasJob, EntryHasRow
    <3>2. FinalStatus(worker[w].result) \in JobStatuses /\ "processing" \in JobStatuses
      BY FinalStatusType DEF TypeInv, TypeOK, Worker, JobStatuses
    <3> QED BY <2>2, <3>1, <3>2 DEF DatabaseFails, Accepts, SetStatus, RowStep, Update
  <2> QED BY <1>4, <2>1, <2>2 DEF WorkerFault
<1>5. ASSUME NEW z \in zombies, ZombieEnds(z) PROVE RowStep
  BY <1>5 DEF RowStep, ZombieEnds
<1>6. ASSUME NEW w \in Workers, CommitFails(w) PROVE RowStep
  <2>1. worker[w].job \in Submissions /\ Exists(worker[w].job)
    BY <1>6 DEF CommitFails, TypeInv, BusyHasJob, EntryHasRow
  <2>2. FinalStatus(worker[w].result) \in JobStatuses
    BY FinalStatusType DEF TypeInv, TypeOK, Worker, JobStatuses
  <2> QED BY <1>6, <2>1, <2>2 DEF CommitFails, Accepts, SetStatus, RowStep, Update
<1>7. CASE UNCHANGED vars
  BY <1>7 DEF vars, RowStep
<1> QED BY <1>1, <1>2, <1>3, <1>4, <1>5, <1>6, <1>7 DEF Next

(***************************************************************************)
(* The inductive invariant.  The properties of GenerationQueue are not     *)
(* inductive: that a callback is true depends on what the worker's cached  *)
(* instance may differ in from the row, that a completed job has its       *)
(* document on which worker may still complete it.                         *)
(***************************************************************************)
RequestHasRow ==
    \A s \in Submissions :
        /\ request[s].pc = "created" => Exists(s)
        /\ Answered(s) => /\ request[s].job \in Submissions
                          /\ Exists(request[s].job)
                          /\ KeyOf[request[s].job] = KeyOf[s]

Snapshots ==
    \A w \in Workers : worker[w].pc # "idle" =>
        /\ worker[w].doubt => worker[w].pc \in {"notify", "done"}
        /\ ~worker[w].doubt /\ worker[w].seen.terminal => row[worker[w].job].terminal
        /\ worker[w].pc = "notify" =>
             IF worker[w].doubt
               THEN worker[w].seen.status = FinalStatus(worker[w].result)
               ELSE /\ row[worker[w].job].terminal
                    /\ worker[w].seen = row[worker[w].job]

Uploads ==
    /\ \A w \in Workers : worker[w].pc # "idle" =>
         /\ worker[w].run # 0
         /\ worker[w].result = "document" => store[worker[w].job] # 0
    /\ \A z \in zombies : z.run # 0

Inv ==
    /\ TypeInv
    /\ EntryHasRow
    /\ RequestHasRow
    /\ RowConsistent
    /\ OneJobPerKey
    /\ Snapshots
    /\ Uploads
    /\ CompletedHasDocument
    /\ CallbackTruth

(***************************************************************************)
(* What the other invariants use of a RowStep: rows stay, and a terminal   *)
(* row stays as it is.                                                     *)
(***************************************************************************)
LEMMA RowsPersist ==
    ASSUME TypeInv, RowConsistent, RowStep, NEW j \in Submissions
    PROVE  /\ Exists(j) => Exists(j)'
           /\ row[j].terminal => row'[j] = row[j]
<1>1. row[j].terminal => Exists(j)
  BY DEF RowConsistent, Exists, TerminalStatuses
<1>2. ASSUME NEW i \in Submissions, Insert(i)
      PROVE  /\ Exists(j) => Exists(j)'
             /\ row[j].terminal => row'[j] = row[j]
  BY <1>1, <1>2 DEF Insert, KeyIsFree, Exists, TypeInv, TypeOK
<1>3. ASSUME NEW i \in Submissions, Update(i)
      PROVE  /\ Exists(j) => Exists(j)'
             /\ row[j].terminal => row'[j] = row[j]
  BY <1>3 DEF Update, Exists, TypeInv, TypeOK, Written, JobStatuses, TerminalStatuses
<1> QED BY <1>2, <1>3 DEF RowStep, Exists

LEMMA EntryNext == Inv /\ RowStep /\ [Next]_vars => EntryHasRow'
<1> SUFFICES ASSUME Inv, RowStep, [Next]_vars PROVE EntryHasRow'
  OBVIOUS
<1>1. \A j \in Submissions : Exists(j) => Exists(j)'
  BY RowsPersist DEF Inv
<1>2. ASSUME NEW j \in Submissions, queue'[j] # "absent"
      PROVE  Exists(j)
  <2>1. CASE queue[j] # "absent"
    BY <2>1 DEF Inv, EntryHasRow
  <2>2. CASE \E s \in Submissions :
               Submit(s) \/ WebStep(s) \/ EnqueueFails(s) \/ WebDies(s)
    BY <1>2, <2>2 DEF Submit, WebStep, FindExisting, CreateJob, Enqueue, EnqueueFails,
         WebDies, Inv, EntryHasRow, RequestHasRow, TypeInv, TypeOK
  <2>3. CASE \E i \in Submissions : QueueStep(i) \/ LeaseExpiresUnderStall(i)
    BY <1>2, <2>3 DEF QueueStep, GiveUp, LeaseExpires, Deliver, LeaseExpiresUnderStall,
         Inv, EntryHasRow, TypeInv, TypeOK
  <2>4. CASE \E w \in Workers : WorkStep(w)
    BY <1>2, <2>4 DEF WorkStep, Load, MarkProcessing, Refresh, RunGraph, WriteResult,
         Notify, FinishEntry, Inv, EntryHasRow, TypeInv, TypeOK
  <2>5. CASE \E w \in Workers : WorkerFault(w) \/ CommitFails(w)
    BY <1>2, <2>5 DEF WorkerFault, WorkerDies, TimesOut, ShutsDown, DatabaseFails,
         CommitFails, Inv, EntryHasRow, TypeInv, TypeOK
  <2>6. CASE UNCHANGED vars \/ \E z \in zombies : ZombieEnds(z)
    BY <1>2, <2>6 DEF vars, ZombieEnds, Inv, EntryHasRow
  <2> QED BY <2>1, <2>2, <2>3, <2>4, <2>5, <2>6 DEF Next
<1>3. ASSUME NEW w \in Workers, worker'[w].pc # "idle"
      PROVE  Exists(worker'[w].job)
  <2>1. CASE \E s \in Submissions :
               Submit(s) \/ WebStep(s) \/ EnqueueFails(s) \/ WebDies(s)
    BY <1>3, <2>1 DEF Submit, WebStep, FindExisting, CreateJob, Enqueue, EnqueueFails,
         WebDies, WorkUnchanged, Inv, EntryHasRow
  <2>2. CASE \E i \in Submissions :
               GiveUp(i) \/ LeaseExpires(i) \/ LeaseExpiresUnderStall(i)
    BY <1>3, <2>2 DEF GiveUp, LeaseExpires, LeaseExpiresUnderStall, Inv, EntryHasRow
  <2>3. ASSUME NEW i \in Submissions, NEW v \in Workers, Deliver(v, i)
        PROVE  Exists(worker'[w].job)
    <3>1. Exists(i)
      BY <2>3 DEF Deliver, Inv, EntryHasRow
    <3> QED BY <1>3, <2>3, <3>1, RecordTypes
           DEF Deliver, Inv, EntryHasRow, TypeInv, TypeOK, Worker
  <2>4. CASE \E v \in Workers : WorkStep(v)
    BY <1>3, <2>4 DEF WorkStep, Load, MarkProcessing, Refresh, RunGraph, WriteResult,
         Notify, FinishEntry, Goto, Inv, EntryHasRow, TypeInv, TypeOK, Worker, IdleWorker
  <2>5. CASE \E v \in Workers : WorkerFault(v) \/ CommitFails(v)
    BY <1>3, <2>5 DEF WorkerFault, WorkerDies, TimesOut, ShutsDown, DatabaseFails,
         CommitFails, Inv, EntryHasRow, TypeInv, TypeOK, Worker, IdleWorker
  <2>6. CASE UNCHANGED vars \/ \E z \in zombies : ZombieEnds(z)
    BY <1>3, <2>6 DEF vars, ZombieEnds, Inv, EntryHasRow
  <2> QED BY <2>1, <2>2, <2>3, <2>4, <2>5, <2>6 DEF Next, QueueStep
<1>4. \A w \in Workers : worker'[w].pc # "idle" => worker'[w].job \in Submissions
  BY TypeNext DEF Inv, TypeInv, BusyHasJob
<1> QED BY <1>1, <1>2, <1>3, <1>4 DEF EntryHasRow

LEMMA RequestNext == Inv /\ RowStep /\ [Next]_vars => RequestHasRow'
<1> SUFFICES ASSUME Inv, RowStep, [Next]_vars, NEW s \in Submissions
             PROVE  /\ request'[s].pc = "created" => Exists(s)'
                    /\ request'[s].pc = "answered" =>
                          /\ request'[s].job \in Submissions
                          /\ Exists(request[s].job)'
                          /\ KeyOf[request'[s].job] = KeyOf[s]
  BY DEF RequestHasRow, Answered
<1>1. \A j \in Submissions : Exists(j) => Exists(j)'
  BY RowsPersist DEF Inv
<1>2. CASE request'[s] = request[s]
  BY <1>1, <1>2 DEF Inv, RequestHasRow, Answered, Exists
<1>3. CASE request'[s] # request[s]
  <2>1. Submit(s) \/ WebStep(s) \/ EnqueueFails(s) \/ WebDies(s)
    <3>1. CASE \E r \in Submissions :
                 Submit(r) \/ WebStep(r) \/ EnqueueFails(r) \/ WebDies(r)
      BY <1>3, <3>1 DEF Submit, WebStep, FindExisting, CreateJob, Enqueue, EnqueueFails,
           WebDies, Inv, TypeInv, TypeOK
    <3>2. CASE \E i \in Submissions : QueueStep(i) \/ LeaseExpiresUnderStall(i)
      BY <1>3, <3>2 DEF QueueStep, GiveUp, LeaseExpires, Deliver, LeaseExpiresUnderStall
    <3>3. CASE \E w \in Workers : WorkStep(w)
      BY <1>3, <3>3 DEF WorkStep, Load, MarkProcessing, Refresh, RunGraph, WriteResult,
           Notify, FinishEntry
    <3>4. CASE \E w \in Workers : WorkerFault(w) \/ CommitFails(w)
      BY <1>3, <3>4 DEF WorkerFault, WorkerDies, TimesOut, ShutsDown, DatabaseFails,
           CommitFails
    <3>5. CASE UNCHANGED vars \/ \E z \in zombies : ZombieEnds(z)
      BY <1>3, <3>5 DEF vars, ZombieEnds
    <3> QED BY <3>1, <3>2, <3>3, <3>4, <3>5 DEF Next
  <2>2. CASE FindExisting(s)
    <3>1. CASE request'[s].pc = "missed"
      BY <3>1
    <3>2. ASSUME NEW j \in Submissions, Exists(j), KeyOf[j] = KeyOf[s],
                 request' = [request EXCEPT ![s] = [pc |-> "answered", job |-> j]]
          PROVE  /\ request'[s].pc = "answered"
                 /\ request'[s].job = j
                 /\ Exists(j)'
      BY <3>2, <1>1 DEF Inv, TypeInv, TypeOK
    <3>3. request' = [request EXCEPT ![s].pc = "missed"] => request'[s].pc = "missed"
      BY DEF Inv, TypeInv, TypeOK, Request
    <3> QED BY <2>2, <3>1, <3>2, <3>3 DEF FindExisting, Exists
  <2>3. CASE CreateJob(s)
    <3>1. request'[s].pc \in {"created", "error"}
      BY <2>3 DEF CreateJob, Inv, TypeInv, TypeOK, Request
    <3>2. request'[s].pc = "created" => row' = [row EXCEPT ![s] = NewRow]
      BY <2>3 DEF CreateJob, Inv, TypeInv, TypeOK, Request
    <3>3. NewRow.status = "queued"
      BY DEF NewRow, NoRow
    <3> QED BY <3>1, <3>2, <3>3 DEF Inv, TypeInv, TypeOK, Exists
  <2>4. CASE Enqueue(s)
    <3>1. request'[s] = [pc |-> "answered", job |-> s]
      BY <2>4 DEF Enqueue, Inv, TypeInv, TypeOK
    <3>2. Exists(s)
      BY <2>4 DEF Enqueue, Inv, RequestHasRow
    <3> QED BY <1>1, <3>1, <3>2 DEF Exists
  <2>5. CASE Submit(s) \/ EnqueueFails(s) \/ WebDies(s)
    <3>1. request'[s].pc \in {"submitted", "refused", "error", "lost"}
      BY <2>5 DEF Submit, EnqueueFails, WebDies, Inv, TypeInv, TypeOK, Request
    <3> QED BY <3>1
  <2> QED BY <2>1, <2>2, <2>3, <2>4, <2>5 DEF WebStep
<1> QED BY <1>2, <1>3

(***************************************************************************)
(* A status merged into a consistent row that is not terminal leaves a     *)
(* consistent row, provided only final statuses come with a doc or error.  *)
(***************************************************************************)
LEMMA RowConsistentNext == Inv /\ RowStep => RowConsistent'
<1> SUFFICES ASSUME Inv, RowStep, NEW j \in Submissions
             PROVE  /\ row'[j].terminal <=> row'[j].status \in TerminalStatuses
                    /\ row'[j].doc <=> row'[j].status = "completed"
                    /\ row'[j].error <=> row'[j].status \in {"failed", "blocked_evidence"}
  BY DEF RowConsistent
<1> USE DEF Inv, TypeInv, TypeOK
<1>1. CASE row'[j] = row[j]
  BY <1>1 DEF RowConsistent
<1>2. CASE row'[j] = NewRow
  BY <1>2 DEF NewRow, NoRow, TerminalStatuses
<1>3. ASSUME ~row[j].terminal, NEW status \in JobStatuses, row'[j] = Written(row[j], status)
      PROVE  /\ row'[j].terminal <=> row'[j].status \in TerminalStatuses
             /\ row'[j].doc <=> row'[j].status = "completed"
             /\ row'[j].error <=> row'[j].status \in {"failed", "blocked_evidence"}
  <2>1. ~row[j].doc /\ ~row[j].error
    BY <1>3 DEF RowConsistent, TerminalStatuses
  <2>2. row[j] \in Row
    OBVIOUS
  <2>3. /\ row'[j].status = status
        /\ row'[j].terminal = (row[j].terminal \/ status \in TerminalStatuses)
        /\ row'[j].doc = (row[j].doc \/ status = "completed")
        /\ row'[j].error = (row[j].error \/ status \in {"failed", "blocked_evidence"})
    BY <1>3, <2>2, WrittenFields
  <2> QED BY <1>3, <2>1, <2>3
<1>4. \/ row'[j] = row[j]
      \/ row'[j] = NewRow
      \/ /\ ~row[j].terminal
         /\ \E status \in JobStatuses : row'[j] = Written(row[j], status)
  BY DEF RowStep, Insert, Update
<1> QED BY <1>1, <1>2, <1>3, <1>4

LEMMA OneJobNext == Inv /\ RowStep => OneJobPerKey'
<1> SUFFICES ASSUME Inv, RowStep, NEW i \in Submissions, NEW j \in Submissions,
                    Exists(i)', Exists(j)', KeyOf[i] = KeyOf[j]
             PROVE  i = j
  BY DEF OneJobPerKey
<1> USE DEF Inv, TypeInv, TypeOK
<1>1. CASE UNCHANGED row
  BY <1>1 DEF OneJobPerKey, Exists
<1>2. ASSUME NEW k \in Submissions, Insert(k) PROVE i = j
  BY <1>2 DEF Insert, KeyIsFree, OneJobPerKey, Exists
<1>3. ASSUME NEW k \in Submissions, Update(k) PROVE i = j
  BY <1>3 DEF Update, OneJobPerKey, Exists
<1> QED BY <1>1, <1>2, <1>3 DEF RowStep

(***************************************************************************)
(* A worker slot changes only by its own step, its own fault or a delivery.*)
(***************************************************************************)
LEMMA WorkerFrame ==
    TypeInv /\ [Next]_vars =>
        \A w \in Workers :
            \/ worker'[w] = worker[w]
            \/ WorkStep(w) \/ WorkerFault(w) \/ CommitFails(w)
            \/ \E j \in Submissions : Deliver(w, j)
<1> SUFFICES ASSUME TypeInv, [Next]_vars, NEW w \in Workers
             PROVE  \/ worker'[w] = worker[w]
                    \/ WorkStep(w) \/ WorkerFault(w) \/ CommitFails(w)
                    \/ \E j \in Submissions : Deliver(w, j)
  OBVIOUS
<1> USE DEF TypeInv, TypeOK
<1>1. CASE \E r \in Submissions :
             Submit(r) \/ WebStep(r) \/ EnqueueFails(r) \/ WebDies(r)
  BY <1>1 DEF Submit, WebStep, FindExisting, CreateJob, Enqueue, EnqueueFails,
       WebDies, WorkUnchanged
<1>2. CASE \E i \in Submissions : QueueStep(i) \/ LeaseExpiresUnderStall(i)
  BY <1>2 DEF QueueStep, GiveUp, LeaseExpires, Deliver, LeaseExpiresUnderStall
<1>3. CASE \E v \in Workers : WorkStep(v)
  BY <1>3 DEF WorkStep, Load, MarkProcessing, Refresh, RunGraph, WriteResult,
       Notify, FinishEntry, Goto
<1>4. CASE \E v \in Workers : WorkerFault(v)
  BY <1>4 DEF WorkerFault, WorkerDies, TimesOut, ShutsDown, DatabaseFails
<1>5. CASE \E v \in Workers : CommitFails(v)
  BY <1>5 DEF CommitFails
<1>6. CASE UNCHANGED vars \/ \E z \in zombies : ZombieEnds(z)
  BY <1>6 DEF vars, ZombieEnds
<1> QED BY <1>1, <1>2, <1>3, <1>4, <1>5, <1>6 DEF Next

LEMMA SnapshotsNext == Inv /\ RowStep /\ [Next]_vars => Snapshots'
<1> SUFFICES ASSUME Inv, RowStep, [Next]_vars,
                    NEW w \in Workers, worker'[w].pc # "idle"
             PROVE  /\ worker'[w].doubt => worker'[w].pc \in {"notify", "done"}
                    /\ ~worker'[w].doubt /\ worker'[w].seen.terminal =>
                          row'[worker'[w].job].terminal
                    /\ worker'[w].pc = "notify" =>
                          IF worker'[w].doubt
                            THEN worker'[w].seen.status = FinalStatus(worker'[w].result)
                            ELSE /\ row'[worker'[w].job].terminal
                                 /\ worker'[w].seen = row'[worker'[w].job]
  BY DEF Snapshots
<1> USE DEF Inv
<1>1. \A j \in Submissions : row[j].terminal => row'[j] = row[j]
  BY RowsPersist
<1>2. CASE worker'[w] = worker[w]
  BY <1>1, <1>2 DEF Snapshots, TypeInv, BusyHasJob
<1>3. CASE worker'[w] # worker[w]
  <2>1. (\E j \in Submissions : Deliver(w, j)) \/ WorkStep(w) \/ CommitFails(w)
    <3>1. ~WorkerFault(w)
      BY <1>3 DEF WorkerFault, WorkerDies, TimesOut, ShutsDown, DatabaseFails,
           TypeInv, TypeOK, IdleWorker
    <3> QED BY <1>3, <3>1, WorkerFrame
  <2>2. CASE \E j \in Submissions : Deliver(w, j)
    BY <2>2 DEF Deliver, TypeInv, TypeOK, IdleWorker, NoRow
  <2>3. CASE Load(w) \/ MarkProcessing(w) \/ Refresh(w) \/ RunGraph(w) \/ Notify(w)
    <3>1. worker[w].job \in Submissions /\ worker[w].pc # "idle"
      BY <2>3 DEF Load, MarkProcessing, Refresh, RunGraph, Notify, TypeInv, BusyHasJob
    <3>2. worker'[w].job = worker[w].job /\ worker'[w].pc # "notify"
      BY <2>3 DEF Load, MarkProcessing, Refresh, RunGraph, Notify, Goto, TypeInv,
           TypeOK, Worker
    <3>3. \/ worker'[w].seen = worker[w].seen
          \/ worker'[w].seen = row[worker[w].job]
      BY <2>3 DEF Load, MarkProcessing, Refresh, RunGraph, Notify, Goto, TypeInv,
           TypeOK, Worker
    <3>4. worker'[w].doubt = worker[w].doubt
      BY <2>3 DEF Load, MarkProcessing, Refresh, RunGraph, Notify, Goto, TypeInv,
           TypeOK, Worker
    <3>5. worker[w].doubt => worker[w].pc = "notify" /\ worker'[w].pc = "done"
      BY <2>3, <3>1 DEF Load, MarkProcessing, Refresh, RunGraph, Notify, Goto, TypeInv,
           TypeOK, Worker, Snapshots
    <3> QED BY <1>1, <3>1, <3>2, <3>3, <3>4, <3>5 DEF Snapshots
  <2>4. CASE WriteResult(w)
    <3> DEFINE j == worker[w].job
    <3>1. j \in Submissions /\ worker[w].pc = "write" /\ ~worker[w].doubt
      BY <2>4 DEF WriteResult, TypeInv, BusyHasJob, Snapshots
    <3>2. worker'[w].job = j /\ worker'[w].seen = row'[j] /\ ~worker'[w].doubt
      BY <2>4, <3>1 DEF WriteResult, Reread, TypeInv, TypeOK, Worker
    <3>3. row'[j].terminal
      <4>1. CASE Accepts(worker[w].seen, row[j])
        <5>1. FinalStatus(worker[w].result) \in TerminalStatuses
          BY FinalStatusType DEF TypeInv, TypeOK, Worker
        <5>2. row'[j] = Written(row[j], FinalStatus(worker[w].result))
          BY <2>4, <4>1, <3>1 DEF WriteResult, SetStatus, TypeInv, TypeOK
        <5>3. row[j] \in Row /\ FinalStatus(worker[w].result) \in JobStatuses
          BY <5>1, <3>1 DEF TypeInv, TypeOK, JobStatuses
        <5>4. row'[j].terminal =
                (row[j].terminal \/ FinalStatus(worker[w].result) \in TerminalStatuses)
          BY <5>2, <5>3, WrittenFields
        <5> QED BY <5>1, <5>4
      <4>2. CASE ~Accepts(worker[w].seen, row[j])
        BY <2>4, <4>2, <3>1 DEF WriteResult, Accepts, Snapshots
      <4> QED BY <4>1, <4>2
    <3> QED BY <3>2, <3>3
  <2>5. CASE CommitFails(w)
    <3> DEFINE status == FinalStatus(worker[w].result)
    <3>1. worker[w] \in Worker /\ status \in JobStatuses
      BY FinalStatusType DEF TypeInv, TypeOK, Worker, JobStatuses
    <3>2. worker'[w] = [worker[w] EXCEPT !.pc = "notify", !.doubt = TRUE,
                                         !.seen = Written(@, status)]
      BY <2>5 DEF CommitFails, TypeInv, TypeOK
    <3>3. /\ worker'[w].pc = "notify" /\ worker'[w].doubt
          /\ worker'[w].result = worker[w].result
          /\ worker'[w].seen = Written(worker[w].seen, status)
      <4> HIDE DEF status
      <4> QED BY <3>1, <3>2 DEF Worker
    <3>4. worker'[w].seen.status = status
      <4> HIDE DEF status
      <4> QED BY <3>1, <3>3, WrittenFields DEF Worker
    <3> QED BY <3>3, <3>4
  <2>6. CASE FinishEntry(w)
    BY <2>6 DEF FinishEntry, TypeInv, TypeOK, IdleWorker
  <2> QED BY <2>1, <2>2, <2>3, <2>4, <2>5, <2>6 DEF WorkStep
<1> QED BY <1>2, <1>3

(***************************************************************************)
(* Documents are only ever added to the store.                             *)
(***************************************************************************)
LEMMA StoreGrows ==
    Inv /\ [Next]_vars => \A j \in Submissions : store[j] # 0 => store'[j] # 0
<1> SUFFICES ASSUME Inv, [Next]_vars, NEW j \in Submissions, store[j] # 0
             PROVE  store'[j] # 0
  OBVIOUS
<1> USE DEF Inv, TypeInv, TypeOK
<1>1. CASE store' = store
  BY <1>1
<1>2. ASSUME NEW w \in Workers, RunGraph(w) PROVE store'[j] # 0
  <2>1. worker[w].run # 0
    BY <1>2 DEF RunGraph, Uploads
  <2>2. \/ store' = store
        \/ store' = [store EXCEPT ![worker[w].job] = worker[w].run]
    BY <1>2 DEF RunGraph
  <2> QED BY <2>1, <2>2
<1>3. ASSUME NEW z \in zombies, ZombieEnds(z) PROVE store'[j] # 0
  BY <1>3 DEF ZombieEnds, Uploads
<1>4. \/ store' = store
      \/ \E w \in Workers : RunGraph(w)
      \/ \E z \in zombies : ZombieEnds(z)
  <2>1. CASE \E r \in Submissions :
               Submit(r) \/ WebStep(r) \/ EnqueueFails(r) \/ WebDies(r)
    BY <2>1 DEF Submit, WebStep, FindExisting, CreateJob, Enqueue, EnqueueFails,
         WebDies, WorkUnchanged
  <2>2. CASE \E i \in Submissions : QueueStep(i) \/ LeaseExpiresUnderStall(i)
    BY <2>2 DEF QueueStep, GiveUp, LeaseExpires, Deliver, LeaseExpiresUnderStall
  <2>3. CASE \E w \in Workers : WorkStep(w)
    BY <2>3 DEF WorkStep, Load, MarkProcessing, Refresh, WriteResult, Notify, FinishEntry
  <2>4. CASE \E w \in Workers : WorkerFault(w) \/ CommitFails(w)
    BY <2>4 DEF WorkerFault, WorkerDies, TimesOut, ShutsDown, DatabaseFails, CommitFails
  <2>5. CASE UNCHANGED vars
    BY <2>5 DEF vars
  <2> QED BY <2>1, <2>2, <2>3, <2>4, <2>5 DEF Next
<1> QED BY <1>1, <1>2, <1>3, <1>4

LEMMA UploadsNext == Inv /\ [Next]_vars => Uploads'
<1> SUFFICES ASSUME Inv, [Next]_vars PROVE Uploads'
  OBVIOUS
<1> USE DEF Inv, TypeInv, TypeOK
<1>1. \A j \in Submissions : store[j] # 0 => store'[j] # 0
  BY StoreGrows
<1>2. ASSUME NEW w \in Workers, worker'[w].pc # "idle"
      PROVE  /\ worker'[w].run # 0
             /\ worker'[w].result = "document" => store'[worker'[w].job] # 0
  <2>1. CASE worker'[w] = worker[w]
    BY <1>1, <1>2, <2>1 DEF Uploads, BusyHasJob
  <2>2. ASSUME NEW j \in Submissions, Deliver(w, j)
        PROVE  /\ worker'[w].run # 0
               /\ worker'[w].result = "document" => store'[worker'[w].job] # 0
    <3>1. worker'[w] = [IdleWorker EXCEPT !.pc = "claimed", !.job = j,
                                          !.run = tries[j] + 1]
      BY <2>2 DEF Deliver
    <3>2. worker'[w].run = tries[j] + 1 /\ worker'[w].result = "none"
      BY <3>1 DEF IdleWorker
    <3> QED BY <3>2
  <2>3. CASE \/ Load(w) \/ MarkProcessing(w) \/ Refresh(w) \/ WriteResult(w)
             \/ Notify(w) \/ CommitFails(w)
    <3>1. worker[w].pc # "idle"
      BY <2>3 DEF Load, MarkProcessing, Refresh, WriteResult, Notify, CommitFails
    <3>2. /\ worker'[w].run = worker[w].run
          /\ worker'[w].result = worker[w].result
          /\ worker'[w].job = worker[w].job
      BY <2>3 DEF Load, MarkProcessing, Refresh, WriteResult, Notify, CommitFails, Goto,
           Worker
    <3> QED BY <1>1, <3>1, <3>2 DEF Uploads, BusyHasJob
  <2>4. CASE RunGraph(w)
    <3>1. PICK result \in Results \ {"none"} :
            /\ worker' = [worker EXCEPT ![w].pc = "write", ![w].result = result]
            /\ store' = IF result = "document"
                          THEN [store EXCEPT ![worker[w].job] = worker[w].run]
                          ELSE store
      BY <2>4 DEF RunGraph
    <3>2. worker[w].job \in Submissions /\ worker[w].run # 0
      BY <2>4 DEF RunGraph, BusyHasJob, Uploads
    <3>3. /\ worker'[w].run = worker[w].run
          /\ worker'[w].result = result
          /\ worker'[w].job = worker[w].job
      BY <3>1 DEF Worker
    <3> QED BY <3>1, <3>2, <3>3
  <2>5. CASE FinishEntry(w)
    BY <1>2, <2>5 DEF FinishEntry, IdleWorker
  <2>6. CASE WorkerFault(w)
    BY <1>2, <2>6 DEF WorkerFault, WorkerDies, TimesOut, ShutsDown, DatabaseFails, IdleWorker
  <2>7. \/ worker'[w] = worker[w]
        \/ WorkStep(w) \/ WorkerFault(w) \/ CommitFails(w)
        \/ \E j \in Submissions : Deliver(w, j)
    BY WorkerFrame
  <2> QED BY <2>1, <2>2, <2>3, <2>4, <2>5, <2>6, <2>7 DEF WorkStep
<1>3. ASSUME NEW z \in zombies' PROVE z.run # 0
  <2>1. CASE z \in zombies
    BY <2>1 DEF Uploads
  <2>2. CASE \E w \in Workers : TimesOut(w) \/ ShutsDown(w)
    BY <2>2 DEF TimesOut, ShutsDown, LeaveThreadOf, Uploads
  <2>3. zombies' \subseteq zombies \/ \E w \in Workers : TimesOut(w) \/ ShutsDown(w)
    <3>1. CASE \E r \in Submissions :
                 Submit(r) \/ WebStep(r) \/ EnqueueFails(r) \/ WebDies(r)
      BY <3>1 DEF Submit, WebStep, FindExisting, CreateJob, Enqueue, EnqueueFails,
           WebDies, WorkUnchanged
    <3>2. CASE \E i \in Submissions : QueueStep(i) \/ LeaseExpiresUnderStall(i)
      BY <3>2 DEF QueueStep, GiveUp, LeaseExpires, Deliver, LeaseExpiresUnderStall
    <3>3. CASE \E v \in Workers : WorkStep(v)
      BY <3>3 DEF WorkStep, Load, MarkProcessing, Refresh, RunGraph, WriteResult,
           Notify, FinishEntry
    <3>4. CASE \E v \in Workers : WorkerFault(v) \/ CommitFails(v)
      BY <3>4 DEF WorkerFault, WorkerDies, DatabaseFails, CommitFails
    <3>5. CASE UNCHANGED vars \/ \E y \in zombies : ZombieEnds(y)
      BY <3>5 DEF vars, ZombieEnds
    <3> QED BY <3>1, <3>2, <3>3, <3>4, <3>5 DEF Next
  <2> QED BY <2>1, <2>2, <2>3
<1> QED BY <1>2, <1>3 DEF Uploads

(***************************************************************************)
(* Only a worker whose graph returned a document completes a job.          *)
(***************************************************************************)
LEMMA OnlyDocumentsComplete ==
    Inv /\ [Next]_vars =>
        \A j \in Submissions : row'[j].status = "completed" =>
            \/ row[j].status = "completed"
            \/ \E w \in Workers : /\ worker[w].pc # "idle"
                                  /\ worker[w].job = j
                                  /\ worker[w].result = "document"
<1> SUFFICES ASSUME Inv, [Next]_vars, NEW j \in Submissions,
                    row'[j].status = "completed", row[j].status # "completed"
             PROVE  \E w \in Workers : /\ worker[w].pc # "idle"
                                      /\ worker[w].job = j
                                      /\ worker[w].result = "document"
  OBVIOUS
<1> USE DEF Inv, TypeInv, TypeOK
<1>1. PICK w \in Workers :
        \/ /\ MarkProcessing(w) \/ DatabaseFails(w)
           /\ row' = [row EXCEPT ![worker[w].job] = Written(@, "processing")]
        \/ /\ WriteResult(w) \/ DatabaseFails(w) \/ CommitFails(w)
           /\ row' = [row EXCEPT ![worker[w].job] =
                        Written(@, FinalStatus(worker[w].result))]
  <2>1. CASE \E r \in Submissions :
               Submit(r) \/ WebStep(r) \/ EnqueueFails(r) \/ WebDies(r)
    <3>1. NewRow.status # "completed"
      BY DEF NewRow, NoRow
    <3> QED BY <2>1, <3>1 DEF Submit, WebStep, FindExisting, CreateJob, Enqueue,
              EnqueueFails, WebDies
  <2>2. CASE \E i \in Submissions : QueueStep(i) \/ LeaseExpiresUnderStall(i)
    BY <2>2 DEF QueueStep, GiveUp, LeaseExpires, Deliver, LeaseExpiresUnderStall
  <2>3. CASE \E w \in Workers : WorkStep(w)
    BY <2>3 DEF WorkStep, Load, MarkProcessing, Refresh, RunGraph, WriteResult,
         Notify, FinishEntry, SetStatus
  <2>4. CASE \E w \in Workers : WorkerFault(w) \/ CommitFails(w)
    BY <2>4 DEF WorkerFault, WorkerDies, TimesOut, ShutsDown, DatabaseFails, CommitFails,
         SetStatus
  <2>5. CASE UNCHANGED vars \/ \E z \in zombies : ZombieEnds(z)
    BY <2>5 DEF vars, ZombieEnds
  <2> QED BY <2>1, <2>2, <2>3, <2>4, <2>5 DEF Next
<1>2. worker[w].pc # "idle"
  BY <1>1 DEF MarkProcessing, DatabaseFails, CommitFails, WriteResult
<1>3. worker[w].job = j
  BY <1>1
<1>4. worker[w].result = "document"
  <2>1. row[j] \in Row /\ worker[w].result \in Results
    BY DEF Worker
  <2>2. /\ "processing" \in JobStatuses
        /\ FinalStatus(worker[w].result) \in JobStatuses
    BY <2>1, FinalStatusType DEF JobStatuses
  <2>3. row'[j].status \in {"processing", FinalStatus(worker[w].result)}
    BY <1>1, <1>3, <2>1, <2>2, WrittenFields
  <2> QED BY <2>1, <2>3 DEF FinalStatus, Results
<1> QED BY <1>2, <1>3, <1>4

LEMMA CompletedNext == Inv /\ [Next]_vars => CompletedHasDocument'
<1> SUFFICES ASSUME Inv, [Next]_vars, NEW j \in Submissions, row'[j].status = "completed"
             PROVE  store'[j] # 0
  BY DEF CompletedHasDocument
<1>1. store[j] # 0
  BY OnlyDocumentsComplete DEF Inv, CompletedHasDocument, Uploads
<1> QED BY <1>1, StoreGrows

LEMMA CallbackNext == Inv /\ RowStep /\ [Next]_vars => CallbackTruth'
<1> SUFFICES ASSUME Inv, RowStep, [Next]_vars, NEW m \in sent'
             PROVE  /\ ~m.doubt => /\ row'[m.job].terminal
                                   /\ m.status = row'[m.job].status
                                   /\ m.doc = row'[m.job].doc
                    /\ m.status = "completed" => store'[m.job] # 0
  BY DEF CallbackTruth
<1>1. \A j \in Submissions : row[j].terminal => row'[j] = row[j]
  BY RowsPersist DEF Inv
<1>2. CASE m \in sent
  <2>1. m.job \in Submissions
    BY <1>2 DEF Inv, TypeInv, TypeOK, Payload
  <2> QED BY <1>1, <1>2, <2>1, StoreGrows DEF Inv, CallbackTruth
<1>3. ASSUME NEW w \in Workers, Notify(w), m \notin sent
      PROVE  /\ ~m.doubt => /\ row'[m.job].terminal
                            /\ m.status = row'[m.job].status
                            /\ m.doc = row'[m.job].doc
             /\ m.status = "completed" => store'[m.job] # 0
  <2> DEFINE j == worker[w].job
  <2>1. m = [job |-> worker[w].job, run |-> worker[w].run,
             status |-> worker[w].seen.status, doc |-> worker[w].seen.doc,
             doubt |-> worker[w].doubt]
    BY <1>3 DEF Notify
  <2>2. /\ m.job = j /\ m.doubt = worker[w].doubt
        /\ m.status = worker[w].seen.status /\ m.doc = worker[w].seen.doc
    BY <2>1
  <2>3. j \in Submissions /\ worker[w].pc = "notify"
    BY <1>3 DEF Notify, Inv, TypeInv, BusyHasJob
  <2>4. ~worker[w].doubt => row[j].terminal /\ worker[w].seen = row[j]
    BY <2>3 DEF Inv, Snapshots
  <2>5. CASE ~worker[w].doubt
    BY <1>1, <2>2, <2>3, <2>4, <2>5, StoreGrows DEF Inv, CompletedHasDocument
  <2>6. CASE worker[w].doubt
    <3>1. worker[w].seen.status = FinalStatus(worker[w].result)
      BY <2>3, <2>6 DEF Inv, Snapshots
    <3>2. worker[w].seen.status = "completed" => worker[w].result = "document"
      BY <3>1 DEF FinalStatus
    <3>3. worker[w].result = "document" => store[j] # 0
      BY <2>3 DEF Inv, Uploads
    <3> QED BY <2>2, <2>3, <2>6, <3>2, <3>3, StoreGrows
  <2> QED BY <2>5, <2>6
<1>4. m \in sent \/ \E w \in Workers : Notify(w)
  <2>1. CASE \E r \in Submissions :
               Submit(r) \/ WebStep(r) \/ EnqueueFails(r) \/ WebDies(r)
    BY <2>1 DEF Submit, WebStep, FindExisting, CreateJob, Enqueue, EnqueueFails,
         WebDies, WorkUnchanged
  <2>2. CASE \E i \in Submissions : QueueStep(i) \/ LeaseExpiresUnderStall(i)
    BY <2>2 DEF QueueStep, GiveUp, LeaseExpires, Deliver, LeaseExpiresUnderStall
  <2>3. CASE \E w \in Workers : WorkStep(w)
    BY <2>3 DEF WorkStep, Load, MarkProcessing, Refresh, RunGraph, WriteResult, FinishEntry
  <2>4. CASE \E w \in Workers : WorkerFault(w) \/ CommitFails(w)
    BY <2>4 DEF WorkerFault, WorkerDies, TimesOut, ShutsDown, DatabaseFails, CommitFails
  <2>5. CASE UNCHANGED vars \/ \E z \in zombies : ZombieEnds(z)
    BY <2>5 DEF vars, ZombieEnds
  <2> QED BY <2>1, <2>2, <2>3, <2>4, <2>5 DEF Next
<1> QED BY <1>2, <1>3, <1>4

-------------------------------------------------------------------------------
LEMMA InvInit == Init => Inv
<1> SUFFICES ASSUME Init PROVE Inv
  OBVIOUS
<1>1. TypeInv
  BY TypeInit
<1>2. \A j \in Submissions : row[j] = NoRow
  BY DEF Init
<1>3. RowConsistent
  BY <1>2 DEF RowConsistent, NoRow, TerminalStatuses
<1>4. OneJobPerKey
  BY <1>2 DEF OneJobPerKey, Exists, NoRow
<1>5. EntryHasRow /\ RequestHasRow
  BY DEF Init, EntryHasRow, RequestHasRow, Answered, IdleWorker
<1>6. Snapshots /\ Uploads
  BY DEF Init, Snapshots, Uploads, IdleWorker
<1>7. CompletedHasDocument
  BY <1>2 DEF CompletedHasDocument, NoRow
<1>8. CallbackTruth
  BY DEF Init, CallbackTruth
<1> QED BY <1>1, <1>3, <1>4, <1>5, <1>6, <1>7, <1>8 DEF Inv

LEMMA InvNext == Inv /\ [Next]_vars => Inv' /\ RowStep
<1> SUFFICES ASSUME Inv, [Next]_vars PROVE Inv' /\ RowStep
  OBVIOUS
<1>1. RowStep
  BY RowSteps DEF Inv
<1> QED BY <1>1, TypeNext, EntryNext, RequestNext, RowConsistentNext, OneJobNext,
          SnapshotsNext, UploadsNext, CompletedNext, CallbackNext DEF Inv

(***************************************************************************)
(* The invariant of the queue.                                             *)
(***************************************************************************)
THEOREM QueueInvariant == Spec => []Inv
BY InvInit, InvNext, PTL DEF Spec

(***************************************************************************)
(* The columns of every row agree, whatever tries and faults wrote them.   *)
(***************************************************************************)
THEOREM RowsAreConsistent == Spec => []RowConsistent
BY QueueInvariant, PTL DEF Inv

(***************************************************************************)
(* One idempotency key never has two jobs, whoever races for it.           *)
(***************************************************************************)
THEOREM KeysHaveOneJob == Spec => []OneJobPerKey
BY QueueInvariant, PTL DEF Inv

(***************************************************************************)
(* Two submissions under one key are answered with the same job.           *)
(***************************************************************************)
THEOREM SubmissionsShareAJob == Spec => []SameKeySameJob
<1>1. Inv => SameKeySameJob
  BY DEF Inv, OneJobPerKey, SameKeySameJob, RequestHasRow, Answered
<1> QED BY <1>1, QueueInvariant, PTL

(***************************************************************************)
(* Every callback agrees with the row it announces, although it is built   *)
(* from a cached copy and sent by losers of the race as well, unless the   *)
(* COMMIT of what it announces failed under its worker; and whoever is     *)
(* told of a document, there is one.                                       *)
(***************************************************************************)
THEOREM CallbacksAreTrue == Spec => []CallbackTruth
BY QueueInvariant, PTL DEF Inv

(***************************************************************************)
(* A completed job has a document in the store.                            *)
(***************************************************************************)
THEOREM CompletedJobsHaveDocuments == Spec => []CompletedHasDocument
BY QueueInvariant, PTL DEF Inv

(***************************************************************************)
(* Terminal finality: no process changes a row with terminal_at set.       *)
(***************************************************************************)
THEOREM RowsAreFinal == Spec => TerminalFinality
<1>1. Inv /\ [Next]_vars => [\A j \in Submissions : row[j].terminal => row'[j] = row[j]]_vars
  BY InvNext, RowsPersist DEF Inv
<1> QED BY <1>1, QueueInvariant, PTL DEF Spec, TerminalFinality

-------------------------------------------------------------------------------
(***************************************************************************)
(* Refinement of JobLifecycle: an insert opens a key, the update that sets *)
(* terminal_at decides it, a callback announces it; everything else        *)
(* stutters.                                                               *)
(***************************************************************************)
LEMMA TableOrCallback ==
    Inv /\ [Next]_vars =>
        \/ UNCHANGED sent
        \/ /\ UNCHANGED row
           /\ \E w \in Workers :
                 /\ worker[w].pc = "notify"
                 /\ sent' = sent \union
                       {[job |-> worker[w].job, run |-> worker[w].run,
                         status |-> worker[w].seen.status, doc |-> worker[w].seen.doc,
                         doubt |-> worker[w].doubt]}
<1> SUFFICES ASSUME Inv, [Next]_vars, sent' # sent
             PROVE  \E w \in Workers : Notify(w)
  BY DEF Notify
<1>1. CASE \E r \in Submissions :
             Submit(r) \/ WebStep(r) \/ EnqueueFails(r) \/ WebDies(r)
  BY <1>1 DEF Submit, WebStep, FindExisting, CreateJob, Enqueue, EnqueueFails,
       WebDies, WorkUnchanged
<1>2. CASE \E i \in Submissions : QueueStep(i) \/ LeaseExpiresUnderStall(i)
  BY <1>2 DEF QueueStep, GiveUp, LeaseExpires, Deliver, LeaseExpiresUnderStall
<1>3. CASE \E w \in Workers : WorkStep(w)
  BY <1>3 DEF WorkStep, Load, MarkProcessing, Refresh, RunGraph, WriteResult, FinishEntry
<1>4. CASE \E w \in Workers : WorkerFault(w) \/ CommitFails(w)
  BY <1>4 DEF WorkerFault, WorkerDies, TimesOut, ShutsDown, DatabaseFails, CommitFails
<1>5. CASE UNCHANGED vars \/ \E z \in zombies : ZombieEnds(z)
  BY <1>5 DEF vars, ZombieEnds
<1> QED BY <1>1, <1>2, <1>3, <1>4, <1>5 DEF Next

LEMMA InsertOpens ==
    ASSUME Inv, UNCHANGED sent, NEW s \in Submissions, Insert(s)
    PROVE  Lifecycle!Submit(KeyOf[s])
<1> USE DEF Inv, TypeInv, TypeOK
<1>1. ~Exists(s)
  BY DEF Insert, KeyIsFree
<1>2. /\ row'[s] = NewRow
      /\ \A j \in Submissions : j # s => row'[j] = row[j]
  BY DEF Insert
<1>3. NewRow.status = "queued" /\ NewRow.terminal = FALSE
  BY DEF NewRow, NoRow
<1>4. ~row[s].terminal
  BY <1>1 DEF Exists, RowConsistent, TerminalStatuses
<1>5. \A j \in Submissions : row[j].terminal => Exists(j)
  BY DEF Exists, RowConsistent, TerminalStatuses
<1>6. KeyOf[s] \notin OpenKeys
  BY DEF Insert, KeyIsFree, OpenKeys
<1>7. ~Lifecycle!Decided(KeyOf[s])
  BY <1>5 DEF Insert, KeyIsFree, Outcomes, Lifecycle!Decided
<1>8. OpenKeys' = OpenKeys \union {KeyOf[s]}
  <2>1. \A j \in Submissions :
          (Exists(j) /\ ~row[j].terminal)' <=> (j = s \/ (Exists(j) /\ ~row[j].terminal))
    BY <1>1, <1>2, <1>3 DEF Exists
  <2> QED BY <2>1 DEF OpenKeys
<1>9. Outcomes' = Outcomes
  BY <1>2, <1>3, <1>4 DEF Outcomes
<1>10. Announced' = Announced
  BY DEF Announced
<1> QED BY <1>6, <1>7, <1>8, <1>9, <1>10 DEF Lifecycle!Submit

LEMMA UpdateDecides ==
    ASSUME Inv, UNCHANGED sent, NEW j \in Submissions, Update(j)
    PROVE  \/ UNCHANGED <<OpenKeys, Outcomes, Announced>>
           \/ \E s \in TerminalStatuses : Lifecycle!Decide(KeyOf[j], s)
<1> USE DEF Inv, TypeInv, TypeOK
<1>1. PICK status \in JobStatuses : row' = [row EXCEPT ![j] = Written(@, status)]
  BY DEF Update
<1>2. Exists(j) /\ ~row[j].terminal
  BY DEF Update
<1>3. /\ row'[j].status = status
      /\ row'[j].terminal = (status \in TerminalStatuses)
      /\ \A i \in Submissions : i # j => row'[i] = row[i]
  <2>1. /\ Written(row[j], status).status = status
        /\ Written(row[j], status).terminal =
             (row[j].terminal \/ status \in TerminalStatuses)
    BY WrittenFields
  <2> QED BY <1>1, <1>2, <2>1
<1>4. Exists(j)'
  BY <1>3 DEF Exists, JobStatuses, TerminalStatuses
<1>5. Announced' = Announced
  BY DEF Announced
<1>6. CASE status \notin TerminalStatuses
  <2>1. \A i \in Submissions :
          (Exists(i) /\ ~row[i].terminal)' <=> (Exists(i) /\ ~row[i].terminal)
    BY <1>2, <1>3, <1>4, <1>6 DEF Exists
  <2>2. OpenKeys' = OpenKeys
    BY <2>1 DEF OpenKeys
  <2>3. \A i \in Submissions :
          /\ row'[i].terminal <=> row[i].terminal
          /\ row[i].terminal => row'[i] = row[i]
    BY <1>2, <1>3, <1>6
  <2>4. Outcomes' = Outcomes
    BY <2>3 DEF Outcomes
  <2> QED BY <1>5, <2>2, <2>4
<1>7. CASE status \in TerminalStatuses
  <2>1. \A i \in Submissions :
          (Exists(i) /\ ~row[i].terminal)' <=> (i # j /\ Exists(i) /\ ~row[i].terminal)
    BY <1>3, <1>7 DEF Exists
  <2>2. \A i \in Submissions : Exists(i) /\ KeyOf[i] = KeyOf[j] => i = j
    BY <1>2 DEF OneJobPerKey
  <2>3. KeyOf[j] \in OpenKeys
    BY <1>2 DEF OpenKeys
  <2>4. OpenKeys' = OpenKeys \ {KeyOf[j]}
    <3>1. ASSUME NEW k PROVE k \in OpenKeys' <=> k \in OpenKeys \ {KeyOf[j]}
      BY <2>1, <2>2 DEF OpenKeys
    <3> QED BY <3>1
  <2>5. Outcomes' = Outcomes \union {<<KeyOf[j], status>>}
    <3>1. \A i \in Submissions :
            /\ row'[i].terminal <=> (i = j \/ row[i].terminal)
            /\ row[i].terminal => row'[i] = row[i]
      BY <1>2, <1>3, <1>7
    <3>2. ASSUME NEW p PROVE p \in Outcomes' <=> p \in Outcomes \union {<<KeyOf[j], status>>}
      BY <1>3, <3>1 DEF Outcomes
    <3> QED BY <3>2
  <2> QED BY <1>5, <1>7, <2>3, <2>4, <2>5 DEF Lifecycle!Decide
<1> QED BY <1>6, <1>7

LEMMA CallbackAnnounces ==
    ASSUME Inv, UNCHANGED row, NEW w \in Workers, worker[w].pc = "notify",
           ~worker[w].doubt,
           sent' = sent \union
             {[job |-> worker[w].job, run |-> worker[w].run,
               status |-> worker[w].seen.status, doc |-> worker[w].seen.doc,
               doubt |-> worker[w].doubt]}
    PROVE  \E s \in TerminalStatuses : Lifecycle!Announce(KeyOf[worker[w].job], s)
<1> USE DEF Inv, TypeInv, TypeOK
<1> DEFINE j == worker[w].job
           s == row[j].status
<1>1. j \in Submissions /\ row[j].terminal /\ worker[w].seen = row[j]
  BY DEF BusyHasJob, Snapshots
<1>2. s \in TerminalStatuses
  BY <1>1 DEF RowConsistent
<1>3. <<KeyOf[j], s>> \in Outcomes
  BY <1>1 DEF Outcomes
<1>4. Announced' = Announced \union {<<KeyOf[j], s>>}
  <2> DEFINE m == [job |-> j, run |-> worker[w].run,
                   status |-> worker[w].seen.status, doc |-> worker[w].seen.doc,
                   doubt |-> worker[w].doubt]
  <2>1. /\ sent' = sent \union {m}
        /\ m.job = j
        /\ m.status = s
        /\ ~m.doubt
    BY <1>1
  <2> HIDE DEF m
  <2> HIDE DEF j, s
  <2>2. {n \in sent' : ~n.doubt} = {n \in sent : ~n.doubt} \union {m}
    BY <2>1
  <2>3. Announced' = {<<KeyOf[n.job], n.status>> : n \in {o \in sent : ~o.doubt} \union {m}}
    BY <2>2, Zenon DEF Announced
  <2> QED BY <2>1, <2>3, Zenon DEF Announced
<1>5. UNCHANGED <<OpenKeys, Outcomes>>
  BY DEF OpenKeys, Outcomes, Exists
<1> QED BY <1>2, <1>3, <1>4, <1>5 DEF Lifecycle!Announce

(* A callback in doubt is none of those the abstract life cycle speaks of. *)
LEMMA DoubtStutters ==
    ASSUME Inv, UNCHANGED row, NEW w \in Workers, worker[w].doubt,
           sent' = sent \union
             {[job |-> worker[w].job, run |-> worker[w].run,
               status |-> worker[w].seen.status, doc |-> worker[w].seen.doc,
               doubt |-> worker[w].doubt]}
    PROVE  UNCHANGED <<OpenKeys, Outcomes, Announced>>
<1>1. {n \in sent' : ~n.doubt} = {n \in sent : ~n.doubt}
  OBVIOUS
<1>2. UNCHANGED <<OpenKeys, Outcomes>>
  BY DEF OpenKeys, Outcomes, Exists
<1>3. UNCHANGED Announced
  BY <1>1, Zenon DEF Announced
<1> QED BY <1>2, <1>3

(***************************************************************************)
(* The generation queue implements JobLifecycle, under every fault, its    *)
(* callbacks but for those whose COMMIT failed under the worker.           *)
(***************************************************************************)
THEOREM QueueImplementsLifecycle == Spec => RefinesLifecycle
<1>1. Init => Lifecycle!Init
  BY DEF Init, Lifecycle!Init, OpenKeys, Outcomes, Announced, Exists, NoRow
<1>2. Inv /\ [Next]_vars => [Lifecycle!Next]_(Lifecycle!vars)
  <2> SUFFICES ASSUME Inv, [Next]_vars
               PROVE  \/ Lifecycle!Next
                      \/ UNCHANGED <<OpenKeys, Outcomes, Announced>>
    BY DEF Lifecycle!vars
  <2>1. \A j \in Submissions : KeyOf[j] \in Keys
    BY KeysAssumption
  <2>2. CASE UNCHANGED sent
    <3>1. RowStep
      BY InvNext
    <3>2. CASE UNCHANGED row
      BY <2>2, <3>2 DEF OpenKeys, Outcomes, Announced, Exists
    <3>3. ASSUME NEW j \in Submissions, Insert(j) PROVE Lifecycle!Next
      BY <2>1, <2>2, <3>3, InsertOpens DEF Lifecycle!Next
    <3>4. ASSUME NEW j \in Submissions, Update(j)
          PROVE  Lifecycle!Next \/ UNCHANGED <<OpenKeys, Outcomes, Announced>>
      <4>1. \/ UNCHANGED <<OpenKeys, Outcomes, Announced>>
            \/ \E s \in TerminalStatuses : Lifecycle!Decide(KeyOf[j], s)
        BY <2>2, <3>4, UpdateDecides
      <4> QED BY <2>1, <4>1 DEF Lifecycle!Next, Lifecycle!TerminalStatuses, TerminalStatuses
    <3> QED BY <3>1, <3>2, <3>3, <3>4 DEF RowStep
  <2>3. ASSUME NEW w \in Workers, UNCHANGED row, worker[w].pc = "notify",
               sent' = sent \union
                 {[job |-> worker[w].job, run |-> worker[w].run,
                   status |-> worker[w].seen.status, doc |-> worker[w].seen.doc,
                   doubt |-> worker[w].doubt]}
        PROVE  Lifecycle!Next \/ UNCHANGED <<OpenKeys, Outcomes, Announced>>
    <3>1. worker[w].job \in Submissions
      BY <2>3 DEF Inv, TypeInv, BusyHasJob
    <3>2. CASE worker[w].doubt
      BY <2>3, <3>2, DoubtStutters
    <3>3. CASE ~worker[w].doubt
      <4>1. \E s \in TerminalStatuses : Lifecycle!Announce(KeyOf[worker[w].job], s)
        BY <2>3, <3>3, CallbackAnnounces
      <4> QED BY <2>1, <3>1, <4>1
             DEF Lifecycle!Next, Lifecycle!TerminalStatuses, TerminalStatuses
    <3> QED BY <3>2, <3>3
  <2> QED BY <2>2, <2>3, TableOrCallback
<1> QED BY <1>1, <1>2, QueueInvariant, PTL DEF Spec, RefinesLifecycle, Lifecycle!Spec

-------------------------------------------------------------------------------
(***************************************************************************)
(* Without stalls a job is never in two hands: who holds a job holds its   *)
(* lease, an entry without a lease has nobody, and a job that was not yet  *)
(* enqueued has no entry.                                                  *)
(***************************************************************************)
NotEnqueued(s) == request[s].pc \in {"idle", "submitted", "missed", "created"}

Alone ==
    /\ \A w \in Workers : worker[w].pc = "idle" => worker[w].job = NoJob
    /\ \A w \in Workers : worker[w].pc # "idle" => queue[worker[w].job] = "leased"
    /\ \A v, w \in Workers :
         v # w /\ worker[v].pc # "idle" => worker[w].job # worker[v].job
    /\ \A s \in Submissions : NotEnqueued(s) => queue[s] = "absent"

(* Who works on a job works on an open one, ...                            *)
Undecided ==
    \A w \in Workers : worker[w].pc \in {"loaded", "refresh", "graph", "write"} =>
        ~row[worker[w].job].terminal

SoloInv == Inv /\ Alone /\ Undecided

(* ... and, where no COMMIT fails, who is about to announce it is the      *)
(* first to, and has no doubt.                                             *)
NoDoubt == \A w \in Workers : ~worker[w].doubt
NoDoubtfulCallback == \A m \in sent : ~m.doubt

Unannounced ==
    \A w \in Workers : worker[w].pc = "notify" =>
        \A m \in sent : m.job # worker[w].job

OnceInv ==
    SoloInv /\ NoDoubt /\ NoDoubtfulCallback /\ Unannounced /\ CallbackAtMostOnce

LEMMA SoloInit == Init => SoloInv
<1> SUFFICES ASSUME Init PROVE SoloInv
  OBVIOUS
<1>1. Inv
  BY InvInit
<1>2. Alone /\ Undecided
  BY DEF Init, Alone, NotEnqueued, Undecided, IdleWorker
<1> QED BY <1>1, <1>2 DEF SoloInv

(* A worker goes on with the job it holds.                                 *)
LEMMA AloneGoesOn ==
    ASSUME SoloInv, NEW w \in Workers, worker[w].pc # "idle", NEW x,
           x.pc # "idle", x.job = worker[w].job,
           worker' = [worker EXCEPT ![w] = x], UNCHANGED <<queue, request>>
    PROVE  Alone'
  BY DEF SoloInv, Inv, TypeInv, TypeOK, Alone, NotEnqueued

(* A worker lets go of its job, whatever becomes of the entry.             *)
LEMMA AloneLetsGo ==
    ASSUME SoloInv, NEW w \in Workers, worker[w].pc # "idle", NEW entry,
           worker' = [worker EXCEPT ![w] = IdleWorker],
           queue' = [queue EXCEPT ![worker[w].job] = entry], UNCHANGED request
    PROVE  Alone'
<1>1. worker[w].job \in Submissions /\ queue[worker[w].job] = "leased"
  BY DEF SoloInv, Inv, TypeInv, BusyHasJob, Alone
<1>2. ASSUME NEW v \in Workers, v # w, worker[v].pc # "idle"
      PROVE  worker[v].job # worker[w].job
  BY <1>2 DEF SoloInv, Alone
<1>3. ~NotEnqueued(worker[w].job)
  BY <1>1 DEF SoloInv, Alone
<1>4. IdleWorker.pc = "idle" /\ IdleWorker.job = NoJob
  BY DEF IdleWorker
<1>5. \A v \in Workers : worker[v].pc # "idle" => worker[v].job \in Submissions
  BY DEF SoloInv, Inv, TypeInv, BusyHasJob
<1>6. \A v \in Workers : worker'[v] = IF v = w THEN IdleWorker ELSE worker[v]
  BY DEF SoloInv, Inv, TypeInv, TypeOK
<1>7. \A j \in Submissions : j # worker[w].job => queue'[j] = queue[j]
  BY DEF SoloInv, Inv, TypeInv, TypeOK
<1>8. \A v \in Workers : worker'[v].pc = "idle" => worker'[v].job = NoJob
  BY <1>4, <1>6 DEF SoloInv, Alone
<1>9. \A v \in Workers : worker'[v].pc # "idle" => queue'[worker'[v].job] = "leased"
  BY <1>2, <1>4, <1>5, <1>6, <1>7 DEF SoloInv, Alone
<1>10. \A u, v \in Workers :
         u # v /\ worker'[u].pc # "idle" => worker'[v].job # worker'[u].job
  BY <1>4, <1>5, <1>6, NoJobAssumption DEF SoloInv, Alone
<1>11. \A s \in Submissions : NotEnqueued(s)' => queue'[s] = "absent"
  BY <1>3, <1>7 DEF SoloInv, Alone, NotEnqueued
<1> QED BY <1>8, <1>9, <1>10, <1>11 DEF Alone

LEMMA AloneNext == "stall" \notin Faults /\ SoloInv /\ [Next]_vars => Alone'
<1> SUFFICES ASSUME "stall" \notin Faults, SoloInv, [Next]_vars PROVE Alone'
  OBVIOUS
<1> USE DEF SoloInv, Inv, TypeInv
<1>1. ASSUME NEW s \in Submissions,
             Submit(s) \/ WebStep(s) \/ EnqueueFails(s) \/ WebDies(s)
      PROVE  Alone'
  <2>1. UNCHANGED worker
    BY <1>1 DEF Submit, WebStep, FindExisting, CreateJob, Enqueue, EnqueueFails, WebDies,
         WorkUnchanged
  <2>2. CASE Enqueue(s)
    <3>1. queue[s] = "absent"
      BY <2>2 DEF Enqueue, Alone, NotEnqueued
    <3>2. \A w \in Workers : worker[w].pc # "idle" => worker[w].job # s
      BY <3>1 DEF Alone
    <3>3. \A t \in Submissions \ {s} : queue'[t] = queue[t] /\ request'[t] = request[t]
      BY <2>2 DEF Enqueue, TypeOK
    <3>4. request'[s].pc = "answered"
      BY <2>2 DEF Enqueue, TypeOK
    <3> QED BY <2>1, <3>2, <3>3, <3>4 DEF Alone, NotEnqueued, BusyHasJob
  <2>3. CASE Submit(s) \/ FindExisting(s) \/ CreateJob(s) \/ EnqueueFails(s) \/ WebDies(s)
    <3>1. UNCHANGED queue
      BY <2>3 DEF Submit, FindExisting, CreateJob, EnqueueFails, WebDies
    <3>2. \A t \in Submissions : NotEnqueued(t)' => NotEnqueued(t)
      BY <2>3 DEF Submit, FindExisting, CreateJob, EnqueueFails, WebDies, NotEnqueued, TypeOK
    <3> QED BY <2>1, <3>1, <3>2 DEF Alone
  <2> QED BY <1>1, <2>2, <2>3 DEF WebStep
<1>2. ASSUME NEW j \in Submissions, QueueStep(j) \/ LeaseExpiresUnderStall(j)
      PROVE  Alone'
  <2>1. ~LeaseExpiresUnderStall(j)
    BY DEF LeaseExpiresUnderStall, Fault
  <2>2. CASE GiveUp(j)
    BY <2>2 DEF GiveUp, Alone, NotEnqueued, BusyHasJob, TypeOK
  <2>3. CASE LeaseExpires(j)
    <3>1. \A w \in Workers : worker[w].job # j
      BY <2>3 DEF LeaseExpires, Running
    <3> QED BY <2>3, <3>1 DEF LeaseExpires, Alone, NotEnqueued, BusyHasJob, TypeOK
  <2>4. ASSUME NEW w \in Workers, Deliver(w, j) PROVE Alone'
    <3>1. \A v \in Workers : worker[v].pc # "idle" => worker[v].job # j
      BY <2>4 DEF Deliver, Alone
    <3>2. \A v \in Workers : worker[v].job # j
      BY <3>1, NoJobAssumption DEF Alone
    <3>3. ~NotEnqueued(j)
      BY <2>4 DEF Deliver, Alone
    <3>4. /\ worker'[w].pc = "claimed" /\ worker'[w].job = j
          /\ \A v \in Workers \ {w} : worker'[v] = worker[v]
      BY <2>4 DEF Deliver, IdleWorker, TypeOK
    <3>5. queue'[j] = "leased" /\ \A i \in Submissions \ {j} : queue'[i] = queue[i]
      BY <2>4 DEF Deliver, TypeOK
    <3>6. UNCHANGED request
      BY <2>4 DEF Deliver
    <3> QED BY <3>2, <3>3, <3>4, <3>5, <3>6 DEF Alone, NotEnqueued, BusyHasJob
  <2> QED BY <1>2, <2>1, <2>2, <2>3, <2>4 DEF QueueStep
<1>3. ASSUME NEW w \in Workers, WorkStep(w) PROVE Alone'
  <2> DEFINE old == worker[w]
  <2>1. CASE FinishEntry(w)
    <3>1. worker[w].pc # "idle"
      BY <2>1 DEF FinishEntry
    <3> QED BY <2>1, <3>1, AloneLetsGo DEF FinishEntry
  <2>2. CASE ~FinishEntry(w)
    <3>1. worker[w].pc # "idle" /\ UNCHANGED <<queue, request>>
      BY <1>3, <2>2 DEF WorkStep, Load, MarkProcessing, Refresh, RunGraph, WriteResult, Notify
    <3>2. /\ worker'[w].pc # "idle" /\ worker'[w].job = worker[w].job
          /\ worker' = [worker EXCEPT ![w] = worker'[w]]
      BY <1>3, <2>2 DEF WorkStep, Load, MarkProcessing, Refresh, RunGraph, WriteResult,
           Notify, Goto, TypeOK, Worker
    <3> QED BY <3>1, <3>2, AloneGoesOn
  <2> QED BY <2>1, <2>2
<1>4. ASSUME NEW w \in Workers, WorkerFault(w) PROVE Alone'
  <2>1. worker[w].pc # "idle" /\ UNCHANGED request
    BY <1>4 DEF WorkerFault, WorkerDies, TimesOut, ShutsDown, DatabaseFails, Busy
  <2>2. worker' = [worker EXCEPT ![w] = IdleWorker]
    BY <1>4 DEF WorkerFault, WorkerDies, TimesOut, ShutsDown, DatabaseFails
  <2>3. \E entry : queue' = [queue EXCEPT ![worker[w].job] = entry]
    <3>1. CASE WorkerDies(w)
      <4>1. queue' = [queue EXCEPT ![worker[w].job] = queue[worker[w].job]]
        BY <3>1 DEF WorkerDies, TypeOK
      <4> QED BY <4>1
    <3>2. CASE TimesOut(w) \/ DatabaseFails(w)
      BY <3>2 DEF TimesOut, DatabaseFails
    <3>3. CASE ShutsDown(w)
      BY <3>3 DEF ShutsDown
    <3> QED BY <1>4, <3>1, <3>2, <3>3 DEF WorkerFault
  <2> QED BY <2>1, <2>2, <2>3, AloneLetsGo
<1>5. ASSUME NEW z \in zombies, ZombieEnds(z) PROVE Alone'
  BY <1>5 DEF ZombieEnds, Alone, NotEnqueued
<1>6. ASSUME NEW w \in Workers, CommitFails(w) PROVE Alone'
  <2>1. worker[w].pc # "idle" /\ UNCHANGED <<queue, request>>
    BY <1>6 DEF CommitFails
  <2>2. /\ worker'[w].pc # "idle" /\ worker'[w].job = worker[w].job
        /\ worker' = [worker EXCEPT ![w] = worker'[w]]
    BY <1>6 DEF CommitFails, TypeOK, Worker
  <2> QED BY <2>1, <2>2, AloneGoesOn
<1>7. CASE UNCHANGED vars
  BY <1>7 DEF vars, Alone, NotEnqueued
<1> QED BY <1>1, <1>2, <1>3, <1>4, <1>5, <1>6, <1>7 DEF Next

(* What a worker does to the table, it does to the row of its job.         *)
LEMMA OthersAreSpared ==
    ASSUME SoloInv, NEW w \in Workers, worker[w].pc # "idle",
           \A j \in Submissions : j # worker[w].job => row'[j] = row[j],
           NEW v \in Workers, v # w, worker'[v] = worker[v], worker[v].pc # "idle"
    PROVE  row'[worker[v].job] = row[worker[v].job]
  BY DEF SoloInv, Inv, TypeInv, BusyHasJob, Alone

LEMMA UndecidedNext == SoloInv /\ [Next]_vars => Undecided'
<1> SUFFICES ASSUME SoloInv, [Next]_vars PROVE Undecided'
  OBVIOUS
<1> USE DEF SoloInv, Inv, TypeInv
<1>1. ASSUME NEW s \in Submissions,
             Submit(s) \/ WebStep(s) \/ EnqueueFails(s) \/ WebDies(s)
      PROVE  Undecided'
  <2>1. UNCHANGED worker
    BY <1>1 DEF Submit, WebStep, FindExisting, CreateJob, Enqueue, EnqueueFails, WebDies,
         WorkUnchanged
  <2>2. row' = row \/ row' = [row EXCEPT ![s] = NewRow]
    BY <1>1 DEF Submit, WebStep, FindExisting, CreateJob, Enqueue, EnqueueFails, WebDies
  <2>3. NewRow.terminal = FALSE
    BY DEF NewRow, NoRow
  <2> QED BY <2>1, <2>2, <2>3 DEF Undecided, BusyHasJob, TypeOK
<1>2. ASSUME NEW j \in Submissions, QueueStep(j) \/ LeaseExpiresUnderStall(j)
      PROVE  Undecided'
  <2>1. CASE GiveUp(j) \/ LeaseExpires(j) \/ LeaseExpiresUnderStall(j)
    BY <2>1 DEF GiveUp, LeaseExpires, LeaseExpiresUnderStall, Undecided
  <2>2. ASSUME NEW w \in Workers, Deliver(w, j) PROVE Undecided'
    <3>1. /\ worker'[w].pc = "claimed" /\ UNCHANGED row
          /\ \A v \in Workers \ {w} : worker'[v] = worker[v]
      BY <2>2 DEF Deliver, IdleWorker, TypeOK
    <3> QED BY <3>1 DEF Undecided
  <2> QED BY <1>2, <2>1, <2>2 DEF QueueStep
<1>3. ASSUME NEW w \in Workers, WorkStep(w) PROVE Undecided'
  <2> DEFINE j == worker[w].job
  <2>1. worker[w].pc # "idle" /\ j \in Submissions
    BY <1>3 DEF WorkStep, Load, MarkProcessing, Refresh, RunGraph, WriteResult, Notify,
         FinishEntry, BusyHasJob
  <2>2. \A i \in Submissions : i # j => row'[i] = row[i]
    BY <1>3 DEF WorkStep, Load, MarkProcessing, Refresh, RunGraph, WriteResult, Notify,
         FinishEntry, SetStatus, TypeOK
  <2>3. \A v \in Workers \ {w} : worker'[v] = worker[v]
    BY <1>3 DEF WorkStep, Load, MarkProcessing, Refresh, RunGraph, WriteResult, Notify,
         FinishEntry, Goto, TypeOK
  <2>4. ASSUME NEW v \in Workers \ {w},
               worker'[v].pc \in {"loaded", "refresh", "graph", "write"}
        PROVE  ~row'[worker'[v].job].terminal
    BY <2>1, <2>2, <2>3, <2>4, OthersAreSpared DEF Undecided
  <2>5. ASSUME worker'[w].pc \in {"loaded", "refresh", "graph", "write"}
        PROVE  ~row'[worker'[w].job].terminal
    <3>1. CASE Load(w)
      BY <2>5, <3>1 DEF Load, Goto, TypeOK, Worker
    <3>2. CASE MarkProcessing(w)
      <4>1. worker'[w].pc \in {"refresh", "done"} /\ worker'[w].job = j
        BY <3>2 DEF MarkProcessing, Goto, TypeOK, Worker
      <4>2. Accepts(worker[w].seen, row[j]) /\ row' = [row EXCEPT ![j] = Written(@, "processing")]
        BY <2>5, <3>2 DEF MarkProcessing, Goto, SetStatus, TypeOK, Worker
      <4>3. "processing" \in JobStatuses /\ "processing" \notin TerminalStatuses
        BY DEF JobStatuses, TerminalStatuses
      <4>4. row'[j] = Written(row[j], "processing") /\ row[j] \in Row /\ ~row[j].terminal
        BY <2>1, <4>2 DEF Accepts, TypeOK
      <4>5. Written(row[j], "processing").terminal =
              (row[j].terminal \/ "processing" \in TerminalStatuses)
        BY <4>3, <4>4, WrittenFields
      <4> QED BY <4>1, <4>3, <4>4, <4>5
    <3>3. CASE Refresh(w) \/ RunGraph(w)
      <4>1. /\ worker[w].pc \in {"refresh", "graph"} /\ worker'[w].job = j
            /\ UNCHANGED row
        BY <3>3 DEF Refresh, RunGraph, TypeOK, Worker
      <4> QED BY <4>1 DEF Undecided
    <3>4. CASE WriteResult(w) \/ Notify(w) \/ FinishEntry(w)
      BY <2>5, <3>4 DEF WriteResult, Notify, FinishEntry, Goto, IdleWorker, TypeOK, Worker
    <3> QED BY <1>3, <3>1, <3>2, <3>3, <3>4 DEF WorkStep
  <2> QED BY <2>4, <2>5 DEF Undecided
<1>4. ASSUME NEW w \in Workers, WorkerFault(w) PROVE Undecided'
  <2>1. worker[w].pc # "idle"
    BY <1>4 DEF WorkerFault, WorkerDies, TimesOut, ShutsDown, DatabaseFails, Busy
  <2>2. worker' = [worker EXCEPT ![w] = IdleWorker]
    BY <1>4 DEF WorkerFault, WorkerDies, TimesOut, ShutsDown, DatabaseFails
  <2>3. \A i \in Submissions : i # worker[w].job => row'[i] = row[i]
    BY <1>4 DEF WorkerFault, WorkerDies, TimesOut, ShutsDown, DatabaseFails, SetStatus,
         TypeOK
  <2>4. worker'[w].pc = "idle" /\ \A v \in Workers \ {w} : worker'[v] = worker[v]
    BY <2>2 DEF TypeOK, IdleWorker
  <2> QED BY <2>1, <2>3, <2>4, OthersAreSpared DEF Undecided
<1>5. ASSUME NEW z \in zombies, ZombieEnds(z) PROVE Undecided'
  BY <1>5 DEF ZombieEnds, Undecided
<1>6. ASSUME NEW w \in Workers, CommitFails(w) PROVE Undecided'
  <2>1. worker[w].pc # "idle"
    BY <1>6 DEF CommitFails
  <2>2. \A i \in Submissions : i # worker[w].job => row'[i] = row[i]
    BY <1>6 DEF CommitFails, SetStatus, TypeOK
  <2>3. worker'[w].pc = "notify" /\ \A v \in Workers \ {w} : worker'[v] = worker[v]
    BY <1>6 DEF CommitFails, TypeOK, Worker
  <2> QED BY <2>1, <2>2, <2>3, OthersAreSpared DEF Undecided
<1>7. CASE UNCHANGED vars
  BY <1>7 DEF vars, Undecided
<1> QED BY <1>1, <1>2, <1>3, <1>4, <1>5, <1>6, <1>7 DEF Next

(* Doubt comes with a failed COMMIT.                                       *)
LEMMA DoubtNext ==
    "commit" \notin Faults /\ OnceInv /\ [Next]_vars => NoDoubt' /\ NoDoubtfulCallback'
<1> SUFFICES ASSUME "commit" \notin Faults, OnceInv, [Next]_vars
             PROVE  NoDoubt' /\ NoDoubtfulCallback'
  OBVIOUS
<1> USE DEF OnceInv, SoloInv, Inv, TypeInv
<1>1. ASSUME NEW w \in Workers PROVE ~worker'[w].doubt
  <2>1. ~CommitFails(w)
    BY DEF CommitFails, Fault
  <2>2. CASE worker'[w] = worker[w]
    BY <2>2 DEF NoDoubt
  <2>3. CASE WorkerFault(w) \/ FinishEntry(w)
    <3>1. worker' = [worker EXCEPT ![w] = IdleWorker]
      BY <2>3 DEF WorkerFault, WorkerDies, TimesOut, ShutsDown, DatabaseFails, FinishEntry
    <3> QED BY <3>1 DEF IdleWorker, TypeOK
  <2>4. CASE WorkStep(w) /\ ~FinishEntry(w)
    <3>1. worker'[w].doubt = worker[w].doubt
      BY <2>4 DEF WorkStep, Load, MarkProcessing, Refresh, RunGraph, WriteResult, Notify,
           Goto, TypeOK, Worker
    <3> QED BY <3>1 DEF NoDoubt
  <2>5. CASE \E j \in Submissions : Deliver(w, j)
    BY <2>5 DEF Deliver, IdleWorker, TypeOK
  <2> QED BY <2>1, <2>2, <2>3, <2>4, <2>5, WorkerFrame
<1>2. NoDoubtfulCallback'
  <2>1. CASE UNCHANGED sent
    BY <2>1 DEF NoDoubtfulCallback
  <2>2. ASSUME NEW w \in Workers,
               sent' = sent \union
                 {[job |-> worker[w].job, run |-> worker[w].run,
                   status |-> worker[w].seen.status, doc |-> worker[w].seen.doc,
                   doubt |-> worker[w].doubt]}
        PROVE  NoDoubtfulCallback'
    BY <2>2 DEF NoDoubt, NoDoubtfulCallback
  <2> QED BY <2>1, <2>2, TableOrCallback
<1> QED BY <1>1, <1>2 DEF NoDoubt

(* Nothing of an open job was announced.                                   *)
LEMMA AnnouncedNext ==
    "commit" \notin Faults /\ OnceInv /\ [Next]_vars =>
        Unannounced' /\ CallbackAtMostOnce'
<1> SUFFICES ASSUME "commit" \notin Faults, OnceInv, [Next]_vars
             PROVE  Unannounced' /\ CallbackAtMostOnce'
  OBVIOUS
<1> USE DEF OnceInv, SoloInv, Inv, TypeInv
<1>1. ASSUME NEW w \in Workers, Notify(w) PROVE Unannounced' /\ CallbackAtMostOnce'
  <2> DEFINE m == [job |-> worker[w].job, run |-> worker[w].run,
                   status |-> worker[w].seen.status, doc |-> worker[w].seen.doc,
                   doubt |-> worker[w].doubt]
  <2>1. sent' = sent \/ sent' = sent \union {m}
    BY <1>1 DEF Notify
  <2>2. /\ worker[w].pc = "notify" /\ worker'[w].pc = "done"
        /\ \A v \in Workers \ {w} : worker'[v] = worker[v]
    BY <1>1 DEF Notify, Goto, TypeOK, Worker
  <2>3. \A n \in sent : n.job # worker[w].job
    BY <2>2 DEF Unannounced
  <2>4. \A v \in Workers \ {w} : worker[v].pc # "idle" => worker[v].job # worker[w].job
    BY <2>2 DEF Alone
  <2>5. m.job = worker[w].job
    OBVIOUS
  <2> HIDE DEF m
  <2>6. Unannounced'
    BY <2>1, <2>2, <2>4, <2>5 DEF Unannounced
  <2>7. CallbackAtMostOnce'
    BY <2>1, <2>3, <2>5 DEF CallbackAtMostOnce
  <2> QED BY <2>6, <2>7
<1>2. ASSUME NEW w \in Workers, WriteResult(w) PROVE Unannounced' /\ CallbackAtMostOnce'
  <2>1. /\ worker[w].pc = "write" /\ worker'[w].job = worker[w].job /\ UNCHANGED sent
        /\ \A v \in Workers \ {w} : worker'[v] = worker[v]
    BY <1>2 DEF WriteResult, TypeOK, Worker
  <2>2. ~row[worker[w].job].terminal
    BY <2>1 DEF Undecided
  <2>3. \A m \in sent : m.job # worker[w].job
    BY <2>2 DEF CallbackTruth, NoDoubtfulCallback
  <2> QED BY <2>1, <2>3 DEF Unannounced, CallbackAtMostOnce
<1>3. ASSUME UNCHANGED sent,
             \A w \in Workers : worker'[w].pc = "notify" => worker'[w] = worker[w]
      PROVE  Unannounced' /\ CallbackAtMostOnce'
  BY <1>3 DEF Unannounced, CallbackAtMostOnce
<1>4. ASSUME NEW w \in Workers, WorkStep(w), ~Notify(w), ~WriteResult(w)
      PROVE  Unannounced' /\ CallbackAtMostOnce'
  <2>1. UNCHANGED sent
    BY <1>4 DEF WorkStep, Load, MarkProcessing, Refresh, RunGraph, FinishEntry
  <2>2. \A v \in Workers : worker'[v].pc = "notify" => worker'[v] = worker[v]
    BY <1>4 DEF WorkStep, Load, MarkProcessing, Refresh, RunGraph, FinishEntry, Goto,
         IdleWorker, TypeOK, Worker
  <2> QED BY <1>3, <2>1, <2>2
<1>5. ASSUME NEW s \in Submissions,
             Submit(s) \/ WebStep(s) \/ EnqueueFails(s) \/ WebDies(s)
      PROVE  Unannounced' /\ CallbackAtMostOnce'
  <2>1. UNCHANGED <<worker, sent>>
    BY <1>5 DEF Submit, WebStep, FindExisting, CreateJob, Enqueue, EnqueueFails, WebDies,
         WorkUnchanged
  <2> QED BY <1>3, <2>1
<1>6. ASSUME NEW j \in Submissions, QueueStep(j) \/ LeaseExpiresUnderStall(j)
      PROVE  Unannounced' /\ CallbackAtMostOnce'
  <2>1. UNCHANGED sent
    BY <1>6 DEF QueueStep, GiveUp, LeaseExpires, LeaseExpiresUnderStall, Deliver
  <2>2. CASE UNCHANGED worker
    BY <1>3, <2>1, <2>2
  <2>3. ASSUME NEW w \in Workers, Deliver(w, j) PROVE Unannounced' /\ CallbackAtMostOnce'
    <3>1. /\ worker'[w].pc = "claimed"
          /\ \A v \in Workers \ {w} : worker'[v] = worker[v]
      BY <2>3 DEF Deliver, IdleWorker, TypeOK
    <3> QED BY <1>3, <2>1, <3>1
  <2> QED BY <1>6, <2>2, <2>3 DEF QueueStep, GiveUp, LeaseExpires, LeaseExpiresUnderStall
<1>7. ASSUME NEW w \in Workers, WorkerFault(w) PROVE Unannounced' /\ CallbackAtMostOnce'
  <2>1. UNCHANGED sent /\ worker' = [worker EXCEPT ![w] = IdleWorker]
    BY <1>7 DEF WorkerFault, WorkerDies, TimesOut, ShutsDown, DatabaseFails
  <2> QED BY <1>3, <2>1 DEF IdleWorker, TypeOK
<1>8. ASSUME NEW z \in zombies, ZombieEnds(z) PROVE Unannounced' /\ CallbackAtMostOnce'
  BY <1>3, <1>8 DEF ZombieEnds
<1>9. CASE UNCHANGED vars
  BY <1>3, <1>9 DEF vars
<1>10. \A w \in Workers : ~CommitFails(w)
  BY DEF CommitFails, Fault
<1> QED BY <1>1, <1>2, <1>4, <1>5, <1>6, <1>7, <1>8, <1>9, <1>10 DEF Next

LEMMA SoloNext == "stall" \notin Faults /\ SoloInv /\ [Next]_vars => SoloInv'
  BY InvNext, AloneNext, UndecidedNext DEF SoloInv

LEMMA SoloAlways == "stall" \notin Faults /\ Spec => []SoloInv
<1> SUFFICES ASSUME "stall" \notin Faults PROVE Spec => []SoloInv
  OBVIOUS
<1>1. SoloInv /\ [Next]_vars => SoloInv'
  BY SoloNext
<1> QED BY <1>1, SoloInit, PTL DEF Spec

(***************************************************************************)
(* Where no worker is paused past its lease and no COMMIT fails, a job is  *)
(* announced by one of its tries at most, whatever crashes, times out or   *)
(* fails.                                                                  *)
(***************************************************************************)
THEOREM AnnouncedOnce ==
    {"stall", "commit"} \cap Faults = {} /\ Spec => []CallbackAtMostOnce
<1> SUFFICES ASSUME {"stall", "commit"} \cap Faults = {}
             PROVE  Spec => []CallbackAtMostOnce
  OBVIOUS
<1>1. "stall" \notin Faults /\ "commit" \notin Faults
  OBVIOUS
<1>2. Init => OnceInv
  BY SoloInit DEF OnceInv, Init, NoDoubt, NoDoubtfulCallback, Unannounced,
     CallbackAtMostOnce, IdleWorker
<1>3. OnceInv /\ [Next]_vars => OnceInv'
  BY <1>1, SoloNext, DoubtNext, AnnouncedNext DEF OnceInv
<1>4. OnceInv => CallbackAtMostOnce
  BY DEF OnceInv
<1> QED BY <1>2, <1>3, <1>4, PTL DEF Spec

(***************************************************************************)
(* Where no worker is paused past its lease, the document behind a doc_url *)
(* is replaced by nothing but a thread that a cancelled try left running.  *)
(***************************************************************************)
THEOREM DocumentKept == "stall" \notin Faults /\ Spec => RedeliveryKeepsDocument
<1>1. SoloInv /\ [Next]_vars =>
        [\A j \in Submissions :
           row[j].doc /\ store'[j] # store[j] => \E z \in zombies \ zombies' : z.job = j]_vars
  <2> SUFFICES ASSUME SoloInv, Next, NEW j \in Submissions, row[j].doc, store'[j] # store[j]
               PROVE  \E z \in zombies \ zombies' : z.job = j
    OBVIOUS
  <2> USE DEF SoloInv, Inv, TypeInv
  <2>1. row[j].terminal
    BY DEF RowConsistent, TerminalStatuses
  <2>2. ASSUME NEW w \in Workers, RunGraph(w) PROVE FALSE
    <3>1. worker[w].pc = "graph" /\ worker[w].job = j
      BY <2>2 DEF RunGraph, TypeOK, BusyHasJob
    <3> QED BY <2>1, <3>1 DEF Undecided
  <2>3. ASSUME NEW z \in zombies, ZombieEnds(z) PROVE z \in zombies \ zombies' /\ z.job = j
    BY <2>3 DEF ZombieEnds, TypeOK
  <2>4. \/ UNCHANGED store
        \/ \E w \in Workers : RunGraph(w)
        \/ \E z \in zombies : ZombieEnds(z)
    <3>1. ASSUME NEW s \in Submissions,
                 Submit(s) \/ WebStep(s) \/ EnqueueFails(s) \/ WebDies(s)
          PROVE  UNCHANGED store
      BY <3>1 DEF Submit, WebStep, FindExisting, CreateJob, Enqueue, EnqueueFails, WebDies,
           WorkUnchanged
    <3>2. ASSUME NEW i \in Submissions, QueueStep(i) \/ LeaseExpiresUnderStall(i)
          PROVE  UNCHANGED store
      BY <3>2 DEF QueueStep, GiveUp, LeaseExpires, LeaseExpiresUnderStall, Deliver
    <3>3. ASSUME NEW w \in Workers, WorkStep(w), ~RunGraph(w) PROVE UNCHANGED store
      BY <3>3 DEF WorkStep, Load, MarkProcessing, Refresh, WriteResult, Notify, FinishEntry
    <3>4. ASSUME NEW w \in Workers, WorkerFault(w) \/ CommitFails(w) PROVE UNCHANGED store
      BY <3>4 DEF WorkerFault, WorkerDies, TimesOut, ShutsDown, DatabaseFails, CommitFails
    <3> QED BY <3>1, <3>2, <3>3, <3>4 DEF Next
  <2> QED BY <2>2, <2>3, <2>4
<1> QED BY <1>1, SoloAlways, PTL DEF Spec, RedeliveryKeepsDocument
===============================================================================
