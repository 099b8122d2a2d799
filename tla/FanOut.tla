-------------------------------- MODULE FanOut --------------------------------
(***************************************************************************)
(* The modules a script composes to do work in parallel:                   *)
(*                                                                         *)
(*   concur.map(items, lambda x: retry.do(lambda: db.tx(work)),            *)
(*              workers = .., timeout = .., on_error = ..)                 *)
(*                                                                         *)
(* Concur gives every item a thread, Retry its loop, Transaction the       *)
(* managed transaction of each attempt. They meet in the thread's context, *)
(* which ends with the map's deadline or with the loop's own (executeRetry *)
(* puts it on the thread), and in the connection pool.                     *)
(***************************************************************************)
EXTENDS Concur

CONSTANTS
  MaxCalls,  \* bound: the callbacks an item may run, attempts times tries
  MaxOpen    \* connections of the pool; 1 for sqlite :memory:

ASSUME FanOutAssumption ==
  MaxCalls \in Nat \ {0} /\ MaxOpen \in Nat \ {0}

VARIABLES
  maxAttempts, timed, timer, loop,   \* of Retry
  txRetries, txn, zombies,           \* of Transaction
  applied,  \* history: the commits of each item's attempts that have ended
  excused   \* history: items whose script or database made a second commit right

R == INSTANCE Retry WITH Threads <- Items
T == INSTANCE Transaction WITH Threads <- Items

retryVars == <<maxAttempts, timed, timer, loop>>
txVars    == <<txRetries, txn, zombies>>
history   == <<applied, excused>>
vars      == <<concurVars, retryVars, txVars, history>>

\* Bounds: an item's callbacks, and one deadline, the map's or the loop's.
Bounded == maxAttempts * (txRetries + 1) <= MaxCalls /\ ~(deadline /\ timed)

Init ==
  /\ ConcurInit /\ R!RetryInit /\ T!TxInit /\ Bounded
  /\ excused = {} /\ applied = [i \in Items |-> 0]

\* The context on the item's thread.
Done(i) == ctx = "done" \/ i \in timer

-----------------------------------------------------------------------------
ConcurStep ==
  /\ Launch \/ Collect \/ Expire \/ \E i \in Items : Acquire(i) \/ GiveUp(i) \/ Cancel(i)
  /\ UNCHANGED <<retryVars, txVars, history>>

\* The item's function is called, and calls retry.do.
StartItem(i) == Call(i) /\ R!RetryCalled(i) /\ UNCHANGED <<txVars, history>>

RetryStep(i) ==
  /\ R!TimedOut(i, ctx = "done") \/ R!RetryExpire(i)
  /\ UNCHANGED <<concurVars, txVars, history>>

\* An attempt calls db.tx; on a thread cancelled since the check it raises like one
\* whose context is done.
StartAttempt(i) ==
  /\ R!Attempt(i, ctx = "done") /\ T!TxCalled(i)
  /\ UNCHANGED <<concurVars, history>>

TxStep(i) ==
  /\ \/ T!Begin(i, Done(i)) \/ T!UseDb(i) \/ T!GetDb(i, Done(i))
     \/ T!CommitSelf(i, Done(i)) \/ T!RollbackSelf(i)
     \/ T!Return(i, Done(i)) \/ T!ContextRollback(i, Done(i))
     \/ \E err \in {"locked", "error"} : T!Raise(i, err, Done(i))
  /\ UNCHANGED <<concurVars, retryVars, history>>

\* The context of an abandoned transaction is over at the latest when the call that
\* set a deadline returns; one without any deadline is over with the run.
Reap ==
  /\ T!Reap(ctx = "done" \/ timed \/ (deadline /\ answer # "none"))
  /\ UNCHANGED <<concurVars, retryVars, history>>

\* db.tx returns the callback's value or raises, and retry.do judges it.
EndAttempt(i, value) ==
  /\ T!TxReturns(i) /\ (value = "error" <=> txn[i].failed) /\ R!AttemptEnds(i, value)
  /\ excused' = IF txn[i].self \/ txn[i].lost \/ value \in {"false", "again"}
                THEN excused \cup {i} ELSE excused
  /\ applied' = [applied EXCEPT ![i] = IF i \in excused' THEN 0 ELSE @ + txn[i].commits]
  /\ UNCHANGED concurVars

\* The function returns the RetryResult, raises because of it, or has been cancelled.
EndItem(i, outcome) ==
  /\ R!RetryReturns(i) /\ Returned(i, outcome)
  /\ outcome = "error" => ~loop[i].res.ok \/ i \in stopped
  /\ UNCHANGED <<txVars, history>>

ItemStep(i) ==
  \/ StartItem(i) \/ RetryStep(i) \/ StartAttempt(i) \/ TxStep(i)
  \/ \E value \in {"error", "false", "true", "again", "plain"} : EndAttempt(i, value)
  \/ \E outcome \in {"value", "error"} : EndItem(i, outcome)

Next == ConcurStep \/ Reap \/ \E i \in Items : ItemStep(i)

Spec == Init /\ [][Next]_vars

-----------------------------------------------------------------------------
(* Fairness: something that can run does run, and a callback comes to its    *)
(* end after finitely many uses of the connection.                           *)

CallbackEnds(i) ==
  T!Return(i, Done(i)) \/ \E err \in {"locked", "error"} : T!Raise(i, err, Done(i))

Fairness ==
  /\ WF_vars(Next)
  /\ \A i \in Items : SF_vars(CallbackEnds(i) /\ UNCHANGED <<concurVars, retryVars, history>>)

FairSpec == Spec /\ Fairness

-----------------------------------------------------------------------------
(* Properties.                                                             *)

\* The type of the variables.
TypeOK ==
  ConcurTypeOK /\ R!RetryTypeOK /\ T!TxTypeOK /\ excused \subseteq Items

\* db.tx alone: see Transaction.
AllOrNothing == T!AllOrNothing

\* Exactly once from end to end: what retry.do reports as done is in the database once,
\* what it gave up on is not there, although conflicts are retried in db.tx and errors
\* again around it, and deadlines fall anywhere. Excepted are items whose callback
\* finished its transaction itself, whose value retry.do refused after the commit, or
\* whose commit lost its answer.
AppliedOnce ==
  \A i \in Items \ excused :
    loop[i].ph = "ended" => applied[i] = IF loop[i].res.ok THEN 1 ELSE 0

\* Nothing the map started outlives it: once it has answered, the database does not
\* change and no callback runs.
NothingOutlives ==
  answer # "none" => \A i \in Items : loop[i].ph = "off" /\ txn[i].ph = "off"

\* The map ends: the only way for it not to is that no deadline was given and callbacks
\* that hold the whole pool wait for one more connection.
Starved ==
  /\ ~deadline /\ ~timed
  /\ \E i \in Items : txn[i].ph = "want"
  /\ T!InUse = MaxOpen /\ \A i \in Items : txn[i].tx = "open" => txn[i].ph = "want"
MapEnds == <>(answer # "none") \/ <>[]Starved
=============================================================================
