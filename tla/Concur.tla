-------------------------------- MODULE Concur --------------------------------
(***************************************************************************)
(* concur.map, each and exec (libkite/modules/concur): one goroutine per   *)
(* item, at most workers of them inside the function, a deadline they all  *)
(* share, and an answer when all have ended. What the function does is     *)
(* left to the module that composes this one: Returned is its return.      *)
(***************************************************************************)
EXTENDS Naturals, FiniteSets

CONSTANTS
  NumItems,      \* items of the call
  WorkerCounts   \* values of workers; 0 is no limit

Items == 1..NumItems

ASSUME ConcurAssumption == NumItems \in Nat \ {0} /\ WorkerCounts \subseteq Nat

VARIABLES
  workers, deadline,   \* the arguments of the call
  ctx,       \* its context: "live" or "done"
  next,      \* the item the launching loop is at
  item,      \* where each item's goroutine is
  stopped,   \* the items whose interpreter thread the watcher has cancelled
  result,    \* what became of each item
  answer     \* what the call returned, and to the script: "none" while it runs

concurVars == <<workers, deadline, ctx, next, item, stopped, result, answer>>

Outcomes == {"none", "value", "error", "timeout"}

ConcurInit ==
  /\ workers \in WorkerCounts /\ deadline \in BOOLEAN
  /\ ctx = "live" /\ next = 1 /\ item = [i \in Items |-> "none"] /\ stopped = {}
  /\ result = [i \in Items |-> "none"] /\ answer = "none"

args == <<workers, deadline>>

Ended(i, outcome) ==
  /\ item' = [item EXCEPT ![i] = "ended"]
  /\ result' = [result EXCEPT ![i] = outcome]

\* The loop starts a goroutine, or none when the deadline has passed already.
Launch ==
  /\ next \in Items /\ next' = next + 1
  /\ IF ctx = "done"
       THEN Ended(next, "timeout")
       ELSE /\ item' = [item EXCEPT ![next] = IF workers = 0 THEN "held" ELSE "waiting"]
            /\ UNCHANGED result
  /\ UNCHANGED <<args, ctx, stopped, answer>>

\* Mutant: the slot is never released.
AcquireForGood(i) ==
  /\ item[i] = "waiting"
  /\ Cardinality({j \in Items : item[j] \in {"held", "calling", "ended"}}) < workers
  /\ item' = [item EXCEPT ![i] = "held"]
  /\ UNCHANGED <<args, ctx, next, stopped, result, answer>>

\* The select on the semaphore and the context: either may win when both are ready.
Acquire(i) ==
  /\ item[i] = "waiting"
  /\ Cardinality({j \in Items : item[j] \in {"held", "calling"}}) < workers
  /\ item' = [item EXCEPT ![i] = "held"]
  /\ UNCHANGED <<args, ctx, next, stopped, result, answer>>

\* The deadline passed while the item waited for a slot, or right after it got one.
GiveUp(i) ==
  /\ item[i] \in {"waiting", "held"} /\ ctx = "done" /\ Ended(i, "timeout")
  /\ UNCHANGED <<args, ctx, next, stopped, answer>>

Call(i) ==
  /\ item[i] = "held" /\ ctx = "live"
  /\ item' = [item EXCEPT ![i] = "calling"]
  /\ UNCHANGED <<args, ctx, next, stopped, result, answer>>

\* The watcher goroutine sees the context and cancels the thread, some time later.
Cancel(i) ==
  /\ item[i] = "calling" /\ ctx = "done" /\ i \notin stopped
  /\ stopped' = stopped \cup {i}
  /\ UNCHANGED <<args, ctx, next, item, result, answer>>

\* The function returns: a value counts, however late; an error after the deadline is
\* reported as a timeout. The slot is released.
Returned(i, outcome) ==
  /\ item[i] = "calling"
  /\ Ended(i, IF outcome = "error" /\ ctx = "done" THEN "timeout" ELSE outcome)
  /\ stopped' = stopped \ {i} /\ UNCHANGED <<args, ctx, next, answer>>

\* A list of all results, or the first error by index.
Answer(onError) ==
  IF onError = "abort" /\ \E i \in Items : result[i] # "value" THEN "error" ELSE "list"

\* Mutant: the call returns at the first error.
CollectAtFirstError ==
  /\ answer = "none"
  /\ \/ \E i \in Items : result[i] \in {"error", "timeout"}
     \/ next \notin Items /\ \A i \in Items : item[i] = "ended"
  /\ \E onError \in {"abort", "continue"} : answer' = Answer(onError)
  /\ UNCHANGED <<args, ctx, next, item, stopped, result>>

\* wg.Wait, then the answer; on_error plays no part before.
Collect ==
  /\ answer = "none" /\ next \notin Items /\ \A i \in Items : item[i] = "ended"
  /\ \E onError \in {"abort", "continue"} : answer' = Answer(onError)
  /\ UNCHANGED <<args, ctx, next, item, stopped, result>>

\* The timer of the context fires.
Expire ==
  /\ deadline /\ ctx = "live" /\ answer = "none" /\ ctx' = "done"
  /\ UNCHANGED <<args, next, item, stopped, result, answer>>

\* The type of the variables.
ConcurTypeOK ==
  /\ workers \in WorkerCounts /\ deadline \in BOOLEAN
  /\ ctx \in {"live", "done"} /\ next \in 1..NumItems + 1
  /\ item \in [Items -> {"none", "waiting", "held", "calling", "ended"}]
  /\ stopped \subseteq Items /\ result \in [Items -> Outcomes]
  /\ answer \in {"none", "list", "error"}
=============================================================================
