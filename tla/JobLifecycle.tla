----------------------------- MODULE JobLifecycle -----------------------------
(***************************************************************************)
(* What the generation queue promises a client, and nothing of how: per    *)
(* idempotency key there is at most one deliverable; once submitted it is  *)
(* open until it is given exactly one outcome; and a callback only ever    *)
(* announces an outcome the deliverable already has.  GenerationQueue      *)
(* implements this module but for the callbacks a worker posts after the   *)
(* COMMIT of its outcome failed (GenerationQueue!RefinesLifecycle).        *)
(***************************************************************************)
CONSTANTS
    Keys        \* the idempotency keys clients submit under

(***************************************************************************)
(* TERMINAL_STATUSES of models/job.py.                                     *)
(***************************************************************************)
TerminalStatuses == {"completed", "failed", "blocked_evidence"}

VARIABLES
    open,       \* the keys whose deliverable is being worked on
    done,       \* the outcomes given: pairs of a key and a terminal status
    told        \* the outcomes announced to the callback URL

vars == <<open, done, told>>

Init ==
    /\ open = {}
    /\ done = {}
    /\ told = {}

Decided(k) == \E s \in TerminalStatuses : <<k, s>> \in done

(***************************************************************************)
(* A first submission under k opens it; a later one changes nothing.       *)
(***************************************************************************)
Submit(k) ==
    /\ k \notin open
    /\ ~Decided(k)
    /\ open' = open \union {k}
    /\ UNCHANGED <<done, told>>

Decide(k, s) ==
    /\ k \in open
    /\ open' = open \ {k}
    /\ done' = done \union {<<k, s>>}
    /\ UNCHANGED told

Announce(k, s) ==
    /\ <<k, s>> \in done
    /\ told' = told \union {<<k, s>>}
    /\ UNCHANGED <<open, done>>

Next ==
    \E k \in Keys :
        \/ Submit(k)
        \/ \E s \in TerminalStatuses : Decide(k, s) \/ Announce(k, s)

Spec == Init /\ [][Next]_vars

(***************************************************************************)
(* The promise of S4 of the sprint plan, "all reach a terminal state, none *)
(* lost": a submitted deliverable is eventually decided.                   *)
(***************************************************************************)
Progress == \A k \in Keys : (k \in open) ~> Decided(k)

===============================================================================
