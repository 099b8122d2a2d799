----------------------------- MODULE FanOutProofs -----------------------------
(***************************************************************************)
(* Theorems about FanOut: its type invariant, and that items, retries and  *)
(* transactions stay in step, for any number of items, workers, retries    *)
(* and connections.                                                        *)
(***************************************************************************)
EXTENDS FanOut, FiniteSetTheorems, TLAPS

-----------------------------------------------------------------------------
(* One managed transaction.                                                *)

CallRec == [ph : {"off", "begin", "body", "want", "ended"}, tries : 0..txRetries,
            tx : {"none", "open", "committed", "rolledback"}, own : {"none", "commit", "rollback"},
            commits : Nat, failed : BOOLEAN, self : BOOLEAN, lost : BOOLEAN]

TxTyped == txRetries \in 0..MaxCalls - 1 /\ txn \in [Items -> CallRec]

\* What is known of a call of db.tx: an end its callback chose is marked, nothing is
\* committed before the call ends unless the callback did it, and a call that has ended
\* is all or nothing.
CallAt(c) ==
  /\ c.own # "none" => c.self
  /\ c.ph \in {"begin", "body", "want"} =>
       /\ ~c.lost /\ (~c.self => c.commits = 0)
       /\ c.tries = 0 /\ c.own # "commit" => c.commits = 0
  /\ c.ph = "begin" /\ c.tries = 0 => c.own = "none"
  /\ c.ph = "ended" =>
       /\ ~c.self /\ ~c.lost => c.commits = IF c.failed THEN 0 ELSE 1
       /\ c.own = "rollback" /\ c.tries = 0 => c.commits = 0

\* A step that changes the transaction of one item at most.
TxMoves(i) ==
  /\ txRetries' = txRetries /\ txn' \in [Items -> CallRec]
  /\ \A j \in Items \ {i} : txn'[j] = txn[j]
  /\ CallAt(txn'[i]) /\ (txn'[i].ph = "off" <=> txn[i].ph = "off")

LEMMA OneCall ==
  ASSUME TxTyped, NEW i \in Items, NEW c \in CallRec, txn' = [txn EXCEPT ![i] = c],
         txRetries' = txRetries, CallAt(c), c.ph = "off" <=> txn[i].ph = "off"
  PROVE  TxMoves(i)
  BY DEF TxTyped, TxMoves, CallRec

LEMMA TryEndsCall ==
  ASSUME TxTyped, NEW i \in Items, CallAt(txn[i]), txn[i].ph = "body", txRetries' = txRetries,
         NEW err \in {"none", "locked", "lost", "error"}, NEW n \in {0, 1},
         NEW tx \in {"none", "open", "committed", "rolledback"},
         txn[i].own # "none" => n = 0,
         txn[i].own = "none" => (err = "none" => n = 1) /\ (err \in {"locked", "error"} => n = 0),
         T!TryEnds(i, err, tx, n)
  PROVE  TxMoves(i)
  <1> DEFINE again == [txn[i] EXCEPT !.ph = "begin", !.tries = txn[i].tries + 1, !.tx = tx,
                                     !.commits = txn[i].commits + n]
             over  == [txn[i] EXCEPT !.ph = "ended", !.tx = tx, !.commits = txn[i].commits + n,
                                     !.lost = err = "lost", !.failed = err # "none"]
  <1>0. txn[i] \in CallRec /\ txRetries \in Nat /\ MaxCalls \in Nat
    BY FanOutAssumption DEF TxTyped, FanOutAssumption
  <1>1. CASE err = "locked" /\ txn[i].tries < txRetries
    <2>1. txn' = [txn EXCEPT ![i] = again]
      BY <1>1 DEF T!TryEnds
    <2>a. txn[i].tries + 1 \in 0..txRetries /\ txn[i].commits + n \in Nat
      BY <1>0, <1>1 DEF CallRec
    <2>2. again \in CallRec /\ again.ph = "begin"
      BY <1>0, <2>a DEF CallRec
    <2>3. CallAt(again)
      BY <1>0, <1>1 DEF CallRec, CallAt
    <2> HIDE DEF again
    <2> QED BY <2>1, <2>2, <2>3, OneCall
  <1>2. CASE ~(err = "locked" /\ txn[i].tries < txRetries)
    <2>1. txn' = [txn EXCEPT ![i] = over]
      BY <1>2 DEF T!TryEnds
    <2>a. txn[i].commits + n \in Nat
      BY <1>0 DEF CallRec
    <2>2. over \in CallRec /\ over.ph = "ended"
      BY <1>0, <2>a DEF CallRec
    <2>b. /\ over.own = txn[i].own /\ over.self = txn[i].self /\ over.tries = txn[i].tries
          /\ over.commits = txn[i].commits + n /\ over.failed \in BOOLEAN /\ (over.failed <=> err # "none") /\ (over.lost <=> err = "lost")
      BY <1>0 DEF CallRec
    <2>c. txn[i].self \in BOOLEAN /\ txn[i].commits \in Nat
          /\ ~txn[i].lost /\ (~txn[i].self => txn[i].commits = 0 /\ txn[i].own = "none")
          /\ (txn[i].tries = 0 /\ txn[i].own # "commit" => txn[i].commits = 0)
          /\ (txn[i].own # "none" => txn[i].self)
      BY <1>0 DEF CallRec, CallAt
    <2>3. CallAt(over)
      <3> HIDE DEF over
      <3>1. ~over.self /\ ~over.lost => over.commits = IF over.failed THEN 0 ELSE 1
        BY <2>b, <2>c
      <3>2. over.own = "rollback" /\ over.tries = 0 => over.commits = 0
        BY <2>b, <2>c
      <3> QED BY <2>2, <2>b, <2>c, <3>1, <3>2 DEF CallAt
    <2> HIDE DEF over
    <2> QED BY <2>1, <2>2, <2>3, OneCall
  <1> QED BY <1>1, <1>2

LEMMA TxStepMoves ==
  ASSUME TxTyped, NEW i \in Items, CallAt(txn[i]), TxStep(i)
  PROVE  TxMoves(i)
  <1>0. txn[i] \in CallRec /\ txRetries \in Nat /\ MaxCalls \in Nat /\ Done(i) \in BOOLEAN
    BY FanOutAssumption DEF TxTyped, FanOutAssumption, Done
  <1> DEFINE done == Done(i)
  <1>1. CASE T!Begin(i, done)
    <2> DEFINE over == [txn[i] EXCEPT !.ph = "ended", !.failed = TRUE]
               open == [txn[i] EXCEPT !.ph = "body", !.tx = "open", !.own = "none"]
    <2>0. txRetries' = txRetries /\ txn[i].ph = "begin"
      BY <1>1 DEF T!Begin, T!TxPhase
    <2>1. CASE done
      <3>1. txn' = [txn EXCEPT ![i] = over]
        BY <1>0, <1>1, <2>1 DEF T!Begin, TxTyped
      <3>2. over \in CallRec /\ over.ph # "off" /\ CallAt(over)
        BY <1>0, <2>0 DEF CallRec, CallAt
      <3> HIDE DEF over
      <3> QED BY <2>0, <3>1, <3>2, OneCall
    <2>2. CASE ~done
      <3>1. txn' = [txn EXCEPT ![i] = open]
        BY <1>0, <1>1, <2>2 DEF T!Begin, TxTyped
      <3>a. /\ open.ph = "body" /\ open.own = "none" /\ open.self = txn[i].self
            /\ open.tries = txn[i].tries /\ open.commits = txn[i].commits /\ open.lost = txn[i].lost
        BY <1>0 DEF CallRec
      <3>b. open \in CallRec
        BY <1>0 DEF CallRec
      <3>c. /\ ~txn[i].lost /\ (~txn[i].self => txn[i].commits = 0)
            /\ txn[i].tries = 0 => txn[i].commits = 0
        BY <1>0, <2>0 DEF CallAt, CallRec
      <3>2. open \in CallRec /\ open.ph # "off" /\ CallAt(open)
        <4> HIDE DEF open
        <4> QED BY <3>a, <3>b, <3>c DEF CallAt
      <3> HIDE DEF open
      <3> QED BY <2>0, <3>1, <3>2, OneCall
    <2> QED BY <2>1, <2>2
  <1>2. CASE T!UseDb(i)
    <2> DEFINE c == [txn[i] EXCEPT !.ph = "want"]
    <2>1. txn' = [txn EXCEPT ![i] = c] /\ txRetries' = txRetries /\ txn[i].ph = "body"
      BY <1>0, <1>2 DEF T!UseDb, T!TxPhase, TxTyped
    <2>2. c \in CallRec /\ c.ph # "off" /\ CallAt(c)
      BY <1>0, <2>1 DEF CallRec, CallAt
    <2> HIDE DEF c
    <2> QED BY <2>1, <2>2, OneCall
  <1>3. CASE T!GetDb(i, done)
    <2> DEFINE c == [txn[i] EXCEPT !.ph = "body"]
    <2>1. txn' = [txn EXCEPT ![i] = c] /\ txRetries' = txRetries /\ txn[i].ph = "want"
      BY <1>0, <1>3 DEF T!GetDb, T!TxPhase, TxTyped
    <2>2. c \in CallRec /\ c.ph # "off" /\ CallAt(c)
      BY <1>0, <2>1 DEF CallRec, CallAt
    <2> HIDE DEF c
    <2> QED BY <2>1, <2>2, OneCall
  <1>4. CASE T!CommitSelf(i, done)
    <2>0. txn[i].ph = "body" /\ txRetries' = txRetries
      BY <1>4 DEF T!CommitSelf, T!TxPhase
    <2>1. ASSUME NEW n \in {0, 1}, NEW tx \in {"committed", "rolledback"},
                 txn' = [txn EXCEPT ![i] = [txn[i] EXCEPT !.own = "commit", !.self = TRUE,
                                              !.commits = txn[i].commits + n, !.tx = tx]]
          PROVE  TxMoves(i)
      <3> DEFINE c == [txn[i] EXCEPT !.own = "commit", !.self = TRUE,
                                     !.commits = txn[i].commits + n, !.tx = tx]
      <3>a. txn[i].commits + n \in Nat
        BY <1>0 DEF CallRec
      <3>1. c \in CallRec /\ c.ph = "body"
        BY <1>0, <2>0, <3>a DEF CallRec
      <3>2. CallAt(c)
        BY <1>0, <2>0 DEF CallRec, CallAt
      <3>3. txn' = [txn EXCEPT ![i] = c]
        BY <2>1
      <3> HIDE DEF c
      <3> QED BY <2>0, <3>1, <3>2, <3>3, OneCall
    <2>2. CASE T!Open(i) /\ ~done
      <3>1. PICK out \in T!CommitOutcomes :
              txn' = [txn EXCEPT ![i] =
                [txn[i] EXCEPT !.own = "commit", !.self = TRUE, !.commits = txn[i].commits + out[2],
                               !.tx = IF out[1] = "none" THEN "committed" ELSE "rolledback"]]
        BY <1>4, <2>2 DEF T!CommitSelf
      <3>2. out[2] \in {0, 1} /\ (IF out[1] = "none" THEN "committed" ELSE "rolledback")
                                 \in {"committed", "rolledback"}
        BY DEF T!CommitOutcomes
      <3> QED BY <2>1, <3>1, <3>2
    <2>3. CASE ~(T!Open(i) /\ ~done)
      <3> DEFINE c == [txn[i] EXCEPT !.own = "commit", !.self = TRUE]
      <3>1. txn' = [txn EXCEPT ![i] = c]
        BY <1>0, <1>4, <2>3 DEF T!CommitSelf, TxTyped
      <3>2. c \in CallRec /\ c.ph = "body" /\ CallAt(c)
        BY <1>0, <2>0 DEF CallRec, CallAt
      <3> HIDE DEF c
      <3> QED BY <2>0, <3>1, <3>2, OneCall
    <2> QED BY <2>2, <2>3
  <1>5. CASE T!RollbackSelf(i)
    <2> DEFINE c == [txn[i] EXCEPT !.own = "rollback", !.self = TRUE, !.tx = "rolledback"]
    <2>1. txn' = [txn EXCEPT ![i] = c] /\ txRetries' = txRetries
          /\ txn[i].ph = "body" /\ txn[i].own = "none"
      BY <1>0, <1>5 DEF T!RollbackSelf, T!TxPhase, TxTyped
    <2>2. c \in CallRec /\ c.ph # "off" /\ CallAt(c)
      BY <1>0, <2>1 DEF CallRec, CallAt
    <2> HIDE DEF c
    <2> QED BY <2>1, <2>2, OneCall
  <1>6. CASE T!ContextRollback(i, done)
    <2> DEFINE c == [txn[i] EXCEPT !.tx = "rolledback"]
    <2>1. txn' = [txn EXCEPT ![i] = c] /\ txRetries' = txRetries
      BY <1>0, <1>6 DEF T!ContextRollback, TxTyped
    <2>2. c \in CallRec /\ c.ph = txn[i].ph /\ CallAt(c)
      BY <1>0 DEF CallRec, CallAt
    <2> HIDE DEF c
    <2> QED BY <2>1, <2>2, OneCall
  <1>7. CASE T!Return(i, done)
    <2>0. txn[i].ph = "body" /\ txRetries' = txRetries /\ txn[i].tx \in {"none", "open", "committed", "rolledback"}
      BY <1>0, <1>7 DEF T!Return, T!TxPhase, CallRec
    <2>1. CASE txn[i].own # "none" /\ T!TryEnds(i, "none", IF T!Open(i) THEN "rolledback" ELSE txn[i].tx, 0)
      BY <2>0, <2>1, TryEndsCall
    <2>2. CASE txn[i].own = "none" /\ T!TryEnds(i, "error", "rolledback", 0)
      BY <2>0, <2>2, TryEndsCall
    <2>3. ASSUME txn[i].own = "none", NEW out \in T!CommitOutcomes,
                 T!TryEnds(i, out[1], IF out[1] = "none" THEN "committed" ELSE "rolledback", out[2])
          PROVE  TxMoves(i)
      <3>1. /\ out[1] \in {"none", "locked", "lost", "error"} /\ out[2] \in {0, 1}
            /\ out[1] = "none" => out[2] = 1
            /\ out[1] \in {"locked", "error"} => out[2] = 0
        BY <2>3 DEF T!CommitOutcomes
      <3> QED BY <2>0, <2>3, <3>1, TryEndsCall
    <2> QED BY <1>7, <2>1, <2>2, <2>3 DEF T!Return
  <1>8. ASSUME NEW err \in {"locked", "error"}, T!Raise(i, err, done) PROVE TxMoves(i)
    <2>0. txn[i].ph = "body" /\ txRetries' = txRetries /\ txn[i].tx \in {"none", "open", "committed", "rolledback"}
      BY <1>0, <1>8 DEF T!Raise, T!TxPhase, CallRec
    <2>1. T!TryEnds(i, err, IF T!Open(i) THEN "rolledback" ELSE txn[i].tx, 0)
      BY <1>8 DEF T!Raise
    <2> QED BY <2>0, <2>1, TryEndsCall
  <1> QED BY <1>1, <1>2, <1>3, <1>4, <1>5, <1>6, <1>7, <1>8 DEF TxStep

-----------------------------------------------------------------------------
(* One retry loop.                                                         *)

LoopRec == [ph : {"off", "check", "calling", "ended"}, attempt : 1..maxAttempts,
            errors : 0..maxAttempts,
            res : [ok : BOOLEAN, attempts : 0..maxAttempts, errors : 0..maxAttempts]]

RetryTyped ==
  /\ maxAttempts \in 1..MaxCalls /\ timed \in BOOLEAN /\ timer \subseteq Items
  /\ loop \in [Items -> LoopRec]
  /\ \A i \in Items : loop[i].ph \in {"check", "calling"} => loop[i].errors < loop[i].attempt

\* A step that changes the loop of one item at most.
LoopMoves(i) ==
  /\ maxAttempts' = maxAttempts /\ timed' = timed /\ timer' \subseteq Items
  /\ RetryTyped' /\ \A j \in Items \ {i} : loop'[j] = loop[j]

LEMMA OneLoop ==
  ASSUME RetryTyped, NEW i \in Items, NEW c \in LoopRec, loop' = [loop EXCEPT ![i] = c],
         maxAttempts' = maxAttempts, timed' = timed, timer' \subseteq Items,
         c.ph \in {"check", "calling"} => c.errors < c.attempt
  PROVE  LoopMoves(i) /\ loop'[i] = c
  BY DEF RetryTyped, LoopMoves, LoopRec

LEMMA LoopEnds ==
  ASSUME RetryTyped, NEW i \in Items, NEW ok \in BOOLEAN,
         NEW attempts \in 0..maxAttempts, NEW errors \in 0..maxAttempts,
         maxAttempts' = maxAttempts, timed' = timed, timer' \subseteq Items,
         R!RetryEnds(i, ok, attempts, errors)
  PROVE  LoopMoves(i) /\ loop'[i].ph = "ended" /\ loop'[i].res.ok = ok
  <1> DEFINE r == [ok |-> ok, attempts |-> attempts, errors |-> errors]
             c == [loop[i] EXCEPT !.ph = "ended", !.errors = errors, !.res = r]
  <1>0. loop[i] \in LoopRec /\ loop \in [Items -> LoopRec]
    BY DEF RetryTyped
  <1>1. r \in [ok : BOOLEAN, attempts : 0..maxAttempts, errors : 0..maxAttempts]
    OBVIOUS
  <1>2. loop' = [loop EXCEPT ![i] = c]
    BY <1>0 DEF R!RetryEnds
  <1>3. c \in LoopRec /\ c.ph = "ended" /\ c.res.ok = ok
    BY <1>0, <1>1 DEF LoopRec
  <1> HIDE DEF c
  <1> QED BY <1>2, <1>3, OneLoop

LEMMA LoopAgain ==
  ASSUME RetryTyped, NEW i \in Items, loop[i].ph = "calling",
         maxAttempts' = maxAttempts, timed' = timed, timer' \subseteq Items, R!Again(i)
  PROVE  LoopMoves(i) /\ \/ loop'[i].ph = "check"
                         \/ loop'[i].ph = "ended" /\ ~loop'[i].res.ok
  <1>0. loop[i] \in LoopRec /\ maxAttempts \in Nat /\ loop[i].errors < loop[i].attempt
        /\ loop[i].attempt \in 1..maxAttempts /\ loop[i].errors \in 0..maxAttempts
    BY FanOutAssumption DEF RetryTyped, LoopRec, FanOutAssumption
  <1>1. CASE loop[i].attempt < maxAttempts
    <2> DEFINE c == [loop[i] EXCEPT !.ph = "check", !.errors = loop[i].errors + 1,
                                    !.attempt = loop[i].attempt + 1]
    <2>1. loop' = [loop EXCEPT ![i] = c]
      BY <1>1 DEF R!Again, RetryTyped
    <2>2. loop[i].errors + 1 \in 0..maxAttempts /\ loop[i].attempt + 1 \in 1..maxAttempts
          /\ loop[i].errors + 1 < loop[i].attempt + 1
      BY <1>0, <1>1
    <2>3. c \in LoopRec /\ c.ph = "check" /\ c.errors < c.attempt
      BY <1>0, <2>2 DEF LoopRec
    <2> HIDE DEF c
    <2> QED BY <2>1, <2>3, OneLoop
  <1>2. CASE ~(loop[i].attempt < maxAttempts)
    <2>1. R!RetryEnds(i, FALSE, maxAttempts, loop[i].errors + 1)
      BY <1>2 DEF R!Again
    <2>2. loop[i].errors + 1 \in 0..maxAttempts /\ maxAttempts \in 0..maxAttempts
      BY <1>0
    <2> QED BY <2>1, <2>2, LoopEnds
  <1> QED BY <1>1, <1>2

-----------------------------------------------------------------------------
(* The composition.                                                        *)

\* Where an item, its loop and its transaction are, and what has been committed for it.
ItemAt(i) ==
  /\ i >= next => item[i] = "none"
  /\ loop[i].ph # "off" <=> item[i] = "calling"
  /\ loop[i].ph # "calling" => txn[i].ph = "off"
  /\ i \notin excused /\ item[i] # "ended" =>
       applied[i] = IF loop[i].ph = "ended" /\ loop[i].res.ok THEN 1 ELSE 0

Answered == answer # "none" => next \notin Items /\ \A i \in Items : item[i] = "ended"

FanInv ==
  /\ ConcurTypeOK /\ RetryTyped /\ TxTyped
  /\ excused \subseteq Items /\ applied \in [Items -> Nat]
  /\ \A i \in Items : CallAt(txn[i]) /\ ItemAt(i)
  /\ Answered

LEMMA FanInit == Init => FanInv
  <1> SUFFICES ASSUME Init PROVE FanInv
    OBVIOUS
  <1> USE ConcurAssumption, FanOutAssumption
      DEF Init, ConcurAssumption, FanOutAssumption
  <1>1. ConcurTypeOK
    BY DEF ConcurInit, ConcurTypeOK, Outcomes, Items
  <1>2. RetryTyped
    <2>1. R!NoLoop \in LoopRec /\ R!NoLoop.ph = "off"
      BY DEF R!RetryInit, R!NoLoop, R!NoResult, LoopRec
    <2> QED BY <2>1 DEF R!RetryInit, RetryTyped
  <1>3. TxTyped /\ \A i \in Items : CallAt(txn[i]) /\ txn[i].ph = "off"
    <2>1. T!NoTx \in CallRec /\ T!NoTx.ph = "off" /\ CallAt(T!NoTx)
      BY DEF T!TxInit, T!NoTx, CallRec, CallAt
    <2> QED BY <2>1 DEF T!TxInit, TxTyped
  <1>4. \A i \in Items : ItemAt(i)
    <2>1. \A i \in Items : loop[i].ph = "off" /\ item[i] = "none" /\ applied[i] = 0
      BY DEF R!RetryInit, R!NoLoop, ConcurInit
    <2> QED BY <1>3, <2>1 DEF ItemAt
  <1>5. Answered /\ applied \in [Items -> Nat]
    BY DEF Answered, ConcurInit
  <1> QED BY <1>1, <1>2, <1>3, <1>4, <1>5 DEF FanInv

\* The fan-out alone: no item starts or stops running its function.
Steady ==
  \A i \in Items :
    /\ i >= next' => item'[i] = "none"
    /\ item'[i] = "calling" <=> item[i] = "calling"
    /\ item[i] = "ended" => item'[i] = "ended"

LEMMA ConcurKeeps ==
  ASSUME FanInv, ConcurStep
  PROVE  FanInv'
  <1>0. /\ ConcurTypeOK /\ Answered /\ \A i \in Items : ItemAt(i)
        /\ UNCHANGED <<retryVars, txVars, history>>
        /\ NumItems \in Nat
    BY ConcurAssumption DEF FanInv, ConcurStep, ConcurAssumption
  <1>a. \A i \in Items : i >= next => item[i] = "none"
    BY <1>0 DEF ItemAt
  <1> USE DEF ConcurTypeOK, Items, args
  <1>1. ConcurTypeOK' /\ Answered' /\ Steady
    <2>1. CASE Launch
      <3>1. item[next] = "none" /\ next \in Items /\ next + 1 \in 1..NumItems + 1 /\ next' = next + 1
        BY <1>0, <1>a, <2>1 DEF Launch
      <3>2. answer = "none" /\ answer' = answer /\ workers' = workers
        BY <1>0, <2>1, <3>1 DEF Launch, Answered
      <3>3. PICK l \in {"ended", "held", "waiting"} : item' = [item EXCEPT ![next] = l]
        BY <2>1 DEF Launch, Ended
      <3>4. result' \in [Items -> Outcomes]
        BY <1>0, <2>1, <3>1 DEF Launch, Ended, Outcomes
      <3>5. item' \in [Items -> {"none", "waiting", "held", "calling", "ended"}]
        BY <1>0, <3>3
      <3>6. ConcurTypeOK'
        <4>1. UNCHANGED <<workers, deadline, ctx, stopped, answer>>
          BY <2>1 DEF Launch
        <4> QED BY <1>0, <3>1, <3>4, <3>5, <4>1
      <3>7. Steady
        BY <1>0, <1>a, <3>1, <3>3 DEF Steady
      <3> QED BY <3>2, <3>6, <3>7 DEF Answered
    <2>2. CASE Collect
      <3>0. answer' \in {"list", "error"} /\ UNCHANGED <<workers, deadline, ctx, next, item, stopped, result>>
        BY <2>2 DEF Collect, Answer
      <3>1. ConcurTypeOK' /\ Steady
        BY <1>0, <1>a, <3>0 DEF Steady
      <3> QED BY <2>2, <3>1 DEF Collect, Answered
    <2>3. CASE Expire
      <3>1. ConcurTypeOK' /\ Steady
        BY <1>0, <1>a, <2>3 DEF Expire, Steady
      <3> QED BY <1>0, <2>3, <3>1 DEF Expire, Answered
    <2>4. ASSUME NEW i \in Items, Acquire(i) \/ GiveUp(i) \/ Cancel(i)
          PROVE  ConcurTypeOK' /\ Answered' /\ Steady
      <3>1. /\ item[i] # "ended" /\ next' = next /\ answer' = answer /\ UNCHANGED <<workers, deadline, ctx>>
            /\ item[i] # "none"
        BY <2>4 DEF Acquire, GiveUp, Cancel
      <3>2. answer = "none"
        BY <1>0, <3>1 DEF Answered
      <3>3. result' \in [Items -> Outcomes] /\ stopped' \subseteq Items
        BY <1>0, <2>4 DEF Acquire, GiveUp, Cancel, Ended, Outcomes
      <3>4. \/ item' = item
            \/ item[i] \in {"waiting", "held"} /\ item' = [item EXCEPT ![i] = "held"]
            \/ item[i] \in {"waiting", "held"} /\ item' = [item EXCEPT ![i] = "ended"]
        BY <2>4 DEF Acquire, GiveUp, Cancel, Ended
      <3>a. item' \in [Items -> {"none", "waiting", "held", "calling", "ended"}]
        BY <1>0, <3>4
      <3>5. ConcurTypeOK'
        BY <1>0, <3>1, <3>3, <3>a
      <3>6. Steady
        BY <1>0, <1>a, <3>1, <3>4 DEF Steady
      <3> QED BY <3>1, <3>2, <3>5, <3>6 DEF Answered
    <2> QED BY <1>0, <2>1, <2>2, <2>3, <2>4 DEF ConcurStep
  <1>2. \A i \in Items : CallAt(txn[i])' /\ ItemAt(i)'
    <2> SUFFICES ASSUME NEW i \in Items PROVE CallAt(txn[i])' /\ ItemAt(i)'
      OBVIOUS
    <2>1. CallAt(txn[i])'
      BY <1>0 DEF FanInv, txVars
    <2>2. UNCHANGED <<loop, txn, applied, excused>>
      BY <1>0 DEF retryVars, txVars, history
    <2>3. ItemAt(i)'
      BY <1>0, <1>1, <2>2 DEF Steady, ItemAt
    <2> QED BY <2>1, <2>3
  <1>3. RetryTyped' /\ TxTyped' /\ excused' \subseteq Items /\ applied' \in [Items -> Nat]
    BY <1>0 DEF FanInv, retryVars, txVars, history, RetryTyped, TxTyped, LoopRec, CallRec
  <1> QED BY <1>1, <1>2, <1>3 DEF FanInv

\* What is left to show of a step of one item.
LEMMA OneItem ==
  ASSUME FanInv, NEW i \in Items,
         ConcurTypeOK', RetryTyped', TxTyped', Answered',
         excused' \subseteq Items, applied' \in [Items -> Nat],
         next' = next, CallAt(txn[i])', ItemAt(i)',
         \A j \in Items \ {i} :
            /\ item'[j] = item[j] /\ loop'[j] = loop[j] /\ txn'[j] = txn[j]
            /\ applied'[j] = applied[j] /\ (j \in excused => j \in excused')
  PROVE  FanInv'
  <1>1. \A j \in Items \ {i} : CallAt(txn[j])' /\ ItemAt(j)'
    BY DEF FanInv, ItemAt
  <1> QED BY <1>1 DEF FanInv

\* Steps that leave the fan-out and the history alone.
LEMMA InnerKeeps ==
  ASSUME FanInv, NEW i \in Items, UNCHANGED <<concurVars, history>>,
         RetryTyped', TxTyped', CallAt(txn[i])',
         \A j \in Items \ {i} : loop'[j] = loop[j] /\ txn'[j] = txn[j],
         loop'[i].ph # "off" <=> loop[i].ph # "off",
         loop'[i].ph # "calling" => txn'[i].ph = "off",
         loop'[i].ph = "ended" /\ loop'[i].res.ok <=> loop[i].ph = "ended" /\ loop[i].res.ok
  PROVE  FanInv'
  <1>1. UNCHANGED <<workers, deadline, ctx, next, item, stopped, result, answer, applied, excused>>
    BY DEF concurVars, history
  <1>2. ConcurTypeOK' /\ Answered' /\ excused' \subseteq Items /\ applied' \in [Items -> Nat]
    BY <1>1 DEF FanInv, ConcurTypeOK, Answered
  <1>3. ItemAt(i)'
    BY <1>1 DEF FanInv, ItemAt
  <1> QED BY <1>1, <1>2, <1>3, OneItem

LEMMA RetryKeeps ==
  ASSUME FanInv, NEW i \in Items, RetryStep(i)
  PROVE  FanInv'
  <1>0. /\ RetryTyped /\ TxTyped /\ loop[i] \in LoopRec /\ CallAt(txn[i]) /\ ItemAt(i)
        /\ UNCHANGED <<concurVars, history>> /\ UNCHANGED <<txRetries, txn>>
        /\ maxAttempts \in Nat
    BY FanOutAssumption DEF FanInv, RetryStep, txVars, RetryTyped, FanOutAssumption
  <1>1. TxTyped' /\ CallAt(txn[i])'
    BY <1>0 DEF TxTyped, CallRec
  <1>2. CASE R!TimedOut(i, ctx = "done")
    <2>1. loop[i].ph = "check" /\ maxAttempts' = maxAttempts /\ timed' = timed /\ timer' \subseteq Items
      BY <1>0, <1>2 DEF R!TimedOut, R!Phase, RetryTyped
    <2> DEFINE errors == IF loop[i].errors = 0 THEN 1 ELSE loop[i].errors
    <2>2. R!RetryEnds(i, FALSE, loop[i].attempt - 1, errors)
      BY <1>2 DEF R!TimedOut
    <2>3. loop[i].attempt - 1 \in 0..maxAttempts /\ errors \in 0..maxAttempts
      BY <1>0 DEF LoopRec
    <2> HIDE DEF errors
    <2>4. LoopMoves(i) /\ loop'[i].ph = "ended" /\ loop'[i].res.ok = FALSE
      BY <1>0, <2>1, <2>2, <2>3, LoopEnds
    <2>5. txn[i].ph = "off"
      BY <1>0, <2>1 DEF ItemAt
    <2> QED BY <1>0, <1>1, <2>1, <2>4, <2>5, InnerKeeps DEF LoopMoves
  <1>3. CASE R!RetryExpire(i)
    <2>1. loop' = loop /\ RetryTyped'
      BY <1>0, <1>3 DEF R!RetryExpire, RetryTyped, LoopRec
    <2> QED BY <1>0, <1>1, <2>1, InnerKeeps DEF ItemAt
  <1> QED BY <1>2, <1>3 DEF RetryStep

LEMMA StartAttemptKeeps ==
  ASSUME FanInv, NEW i \in Items, StartAttempt(i)
  PROVE  FanInv'
  <1>0. /\ RetryTyped /\ TxTyped /\ loop[i] \in LoopRec /\ UNCHANGED <<concurVars, history>>
        /\ R!Attempt(i, ctx = "done") /\ T!TxCalled(i)
    BY DEF FanInv, StartAttempt, RetryTyped
  <1> DEFINE l == [loop[i] EXCEPT !.ph = "calling"]
             c == [T!NoTx EXCEPT !.ph = "begin"]
  <1>1. /\ loop[i].ph = "check" /\ loop' = [loop EXCEPT ![i] = l]
        /\ maxAttempts' = maxAttempts /\ timed' = timed /\ timer' \subseteq Items
    BY <1>0 DEF R!Attempt, R!Phase, RetryTyped
  <1>2. l \in LoopRec /\ l.ph = "calling" /\ l.errors < l.attempt
    BY <1>0, <1>1 DEF LoopRec, RetryTyped
  <1>3. txn' = [txn EXCEPT ![i] = c] /\ txRetries' = txRetries
    BY <1>0 DEF T!TxCalled
  <1>4. c \in CallRec /\ CallAt(c)
    <2>1. 0 \in 0..txRetries
      BY <1>0, FanOutAssumption DEF TxTyped, FanOutAssumption
    <2>2. T!NoTx \in CallRec /\ T!NoTx.own = "none" /\ ~T!NoTx.lost /\ T!NoTx.commits = 0
      BY <2>1 DEF T!NoTx, CallRec
    <2>3. c \in CallRec /\ c.ph = "begin" /\ c.own = "none" /\ ~c.lost /\ c.commits = 0
      BY <2>2 DEF CallRec
    <2> HIDE DEF c
    <2> QED BY <2>3 DEF CallAt
  <1> HIDE DEF l, c
  <1>5. LoopMoves(i) /\ loop'[i] = l
    BY <1>0, <1>1, <1>2, OneLoop
  <1>6. TxTyped' /\ txn'[i] = c /\ \A j \in Items \ {i} : txn'[j] = txn[j]
    BY <1>0, <1>3, <1>4 DEF TxTyped, CallRec
  <1> QED BY <1>0, <1>1, <1>2, <1>4, <1>5, <1>6, InnerKeeps DEF LoopMoves

LEMMA TxKeeps ==
  ASSUME FanInv, NEW i \in Items, TxStep(i)
  PROVE  FanInv'
  <1>0. /\ RetryTyped /\ TxTyped /\ CallAt(txn[i]) /\ ItemAt(i)
        /\ UNCHANGED <<concurVars, history>> /\ UNCHANGED <<maxAttempts, timed, timer, loop>>
    BY DEF FanInv, TxStep, retryVars
  <1>1. TxMoves(i)
    BY <1>0, TxStepMoves
  <1>2. RetryTyped' /\ TxTyped' /\ CallAt(txn[i])'
    BY <1>0, <1>1 DEF RetryTyped, LoopRec, TxMoves, TxTyped, CallRec
  <1> QED BY <1>0, <1>1, <1>2, InnerKeeps DEF TxMoves, ItemAt

LEMMA StartItemKeeps ==
  ASSUME FanInv, NEW i \in Items, StartItem(i)
  PROVE  FanInv'
  <1>0. /\ ConcurTypeOK /\ RetryTyped /\ TxTyped /\ CallAt(txn[i]) /\ ItemAt(i) /\ Answered
        /\ UNCHANGED <<txRetries, txn, applied, excused>> /\ Call(i) /\ R!RetryCalled(i)
        /\ excused \subseteq Items /\ applied \in [Items -> Nat]
    BY DEF FanInv, StartItem, txVars, history
  <1> DEFINE l == [R!NoLoop EXCEPT !.ph = "check"]
  <1>1. /\ loop' = [loop EXCEPT ![i] = l]
        /\ maxAttempts' = maxAttempts /\ timed' = timed /\ timer' \subseteq Items
    BY <1>0 DEF R!RetryCalled, RetryTyped
  <1>2. l \in LoopRec /\ l.ph = "check" /\ l.errors < l.attempt
    <2>1. 0 \in 0..maxAttempts /\ 1 \in 1..maxAttempts
      BY <1>0, FanOutAssumption DEF RetryTyped, FanOutAssumption
    <2>2. R!NoLoop \in LoopRec /\ R!NoLoop.attempt = 1 /\ R!NoLoop.errors = 0
      BY <2>1 DEF R!NoLoop, R!NoResult, LoopRec
    <2> QED BY <2>2 DEF LoopRec
  <1> HIDE DEF l
  <1>3. LoopMoves(i) /\ loop'[i] = l
    BY <1>0, <1>1, <1>2, OneLoop
  <1>4. /\ item[i] = "held" /\ item' = [item EXCEPT ![i] = "calling"]
        /\ UNCHANGED <<workers, deadline, ctx, next, stopped, result, answer>>
    BY <1>0 DEF Call, args
  <1>5. ConcurTypeOK' /\ item'[i] = "calling"
    BY <1>0, <1>4 DEF ConcurTypeOK
  <1>6. Answered'
    BY <1>0, <1>4 DEF Answered
  <1>7. TxTyped' /\ CallAt(txn[i])'
    BY <1>0 DEF TxTyped, CallRec
  <1>8. ItemAt(i)'
    BY <1>0, <1>2, <1>3, <1>4, <1>5 DEF ItemAt
  <1>9. \A j \in Items \ {i} : item'[j] = item[j] /\ loop'[j] = loop[j]
    BY <1>0, <1>3, <1>4 DEF ConcurTypeOK, LoopMoves
  <1> QED BY <1>0, <1>3, <1>4, <1>5, <1>6, <1>7, <1>8, <1>9, OneItem DEF LoopMoves

LEMMA EndItemKeeps ==
  ASSUME FanInv, NEW i \in Items, NEW outcome \in {"value", "error"}, EndItem(i, outcome)
  PROVE  FanInv'
  <1>0. /\ ConcurTypeOK /\ RetryTyped /\ TxTyped /\ CallAt(txn[i]) /\ ItemAt(i) /\ Answered
        /\ UNCHANGED <<txRetries, txn, applied, excused>> /\ R!RetryReturns(i) /\ Returned(i, outcome)
        /\ excused \subseteq Items /\ applied \in [Items -> Nat]
    BY DEF FanInv, EndItem, txVars, history
  <1> DEFINE l == R!NoLoop
  <1>1. /\ loop' = [loop EXCEPT ![i] = l] /\ loop[i].ph = "ended"
        /\ maxAttempts' = maxAttempts /\ timed' = timed /\ timer' \subseteq Items
    BY <1>0 DEF R!RetryReturns, R!Phase, RetryTyped
  <1>2. l \in LoopRec /\ l.ph = "off"
    <2>1. 0 \in 0..maxAttempts /\ 1 \in 1..maxAttempts
      BY <1>0, FanOutAssumption DEF RetryTyped, FanOutAssumption
    <2> QED BY <2>1 DEF R!NoLoop, R!NoResult, LoopRec
  <1> HIDE DEF l
  <1>3. LoopMoves(i) /\ loop'[i] = l
    BY <1>0, <1>1, <1>2, OneLoop
  <1>4. /\ item[i] = "calling" /\ item' = [item EXCEPT ![i] = "ended"]
        /\ UNCHANGED <<workers, deadline, ctx, next, answer>>
        /\ stopped' \subseteq Items /\ result' \in [Items -> Outcomes]
    BY <1>0 DEF Returned, Ended, args, ConcurTypeOK, Outcomes
  <1>5. ConcurTypeOK' /\ item'[i] = "ended"
    BY <1>0, <1>4 DEF ConcurTypeOK
  <1>6. Answered'
    BY <1>0, <1>4 DEF Answered
  <1>7. TxTyped' /\ CallAt(txn[i])'
    BY <1>0 DEF TxTyped, CallRec
  <1>8. ItemAt(i)'
    BY <1>0, <1>1, <1>2, <1>3, <1>4, <1>5 DEF ItemAt
  <1>9. \A j \in Items \ {i} : item'[j] = item[j] /\ loop'[j] = loop[j]
    BY <1>0, <1>3, <1>4 DEF ConcurTypeOK, LoopMoves
  <1> QED BY <1>0, <1>3, <1>4, <1>5, <1>6, <1>7, <1>8, <1>9, OneItem DEF LoopMoves

\* The end of an attempt: what the transaction has committed meets what the loop makes
\* of the callback's value.
LEMMA EndAttemptKeeps ==
  ASSUME FanInv, NEW i \in Items, NEW value \in {"error", "false", "true", "again", "plain"},
         EndAttempt(i, value)
  PROVE  FanInv'
  <1>0. /\ ConcurTypeOK /\ RetryTyped /\ TxTyped /\ CallAt(txn[i]) /\ ItemAt(i) /\ Answered
        /\ excused \subseteq Items /\ applied \in [Items -> Nat]
        /\ loop[i] \in LoopRec /\ txn[i] \in CallRec
    BY DEF FanInv, RetryTyped, TxTyped
  <1>1. /\ txn[i].ph = "ended" /\ txn' = [txn EXCEPT ![i] = T!NoTx] /\ txRetries' = txRetries
        /\ value = "error" <=> txn[i].failed
        /\ R!AttemptEnds(i, value)
        /\ excused' = IF txn[i].self \/ txn[i].lost \/ value \in {"false", "again"}
                       THEN excused \cup {i} ELSE excused
        /\ applied' = [applied EXCEPT ![i] = IF i \in excused' THEN 0 ELSE applied[i] + txn[i].commits]
        /\ UNCHANGED concurVars
    BY DEF EndAttempt, T!TxReturns, T!TxPhase
  <1>2. TxTyped' /\ CallAt(txn[i])' /\ txn'[i].ph = "off" /\ \A j \in Items \ {i} : txn'[j] = txn[j]
    <2>1. 0 \in 0..txRetries
      BY <1>0, FanOutAssumption DEF TxTyped, FanOutAssumption
    <2>2. T!NoTx \in CallRec /\ CallAt(T!NoTx) /\ T!NoTx.ph = "off"
      BY <2>1 DEF T!NoTx, CallRec, CallAt
    <2> QED BY <1>0, <1>1, <2>2 DEF TxTyped, CallRec
  <1>3. loop[i].ph = "calling" /\ maxAttempts' = maxAttempts /\ timed' = timed /\ timer' \subseteq Items
    BY <1>0, <1>1 DEF R!AttemptEnds, R!Phase, RetryTyped
  <1>4. /\ LoopMoves(i)
        /\ \/ value \in {"true", "plain"} /\ loop'[i].ph = "ended" /\ loop'[i].res.ok
           \/ value \in {"error", "false", "again"}
              /\ (loop'[i].ph = "check" \/ (loop'[i].ph = "ended" /\ ~loop'[i].res.ok))
    <2>0. loop[i].attempt \in 0..maxAttempts /\ loop[i].errors \in 0..maxAttempts
          /\ 0 \in 0..maxAttempts /\ 1 \in 0..maxAttempts
      BY <1>0, FanOutAssumption DEF RetryTyped, LoopRec, FanOutAssumption
    <2>1. CASE value \in {"error", "false", "again"} /\ R!Again(i)
      BY <1>0, <1>3, <2>1, LoopAgain
    <2>2. CASE value = "true" /\ R!RetryEnds(i, TRUE, loop[i].attempt, loop[i].errors)
      BY <1>0, <1>3, <2>0, <2>2, LoopEnds
    <2>3. CASE value = "plain" /\ R!RetryEnds(i, TRUE, 1, 0)
      BY <1>0, <1>3, <2>0, <2>3, LoopEnds
    <2> QED BY <1>1, <2>1, <2>2, <2>3 DEF R!AttemptEnds
  <1>5. UNCHANGED <<workers, deadline, ctx, next, item, stopped, result, answer>>
    BY <1>1 DEF concurVars
  <1>6. ConcurTypeOK' /\ Answered'
    BY <1>0, <1>5 DEF ConcurTypeOK, Answered
  <1>7. /\ excused' \subseteq Items /\ excused \subseteq excused'
        /\ applied' \in [Items -> Nat] /\ \A j \in Items \ {i} : applied'[j] = applied[j]
        /\ i \notin excused' => applied'[i] = applied[i] + txn[i].commits
    BY <1>0, <1>1 DEF CallRec
  <1>8. i \notin excused' =>
          /\ applied'[i] = IF loop'[i].ph = "ended" /\ loop'[i].res.ok THEN 1 ELSE 0
          /\ i \notin excused
    <2> SUFFICES ASSUME i \notin excused'
                 PROVE  applied'[i] = IF loop'[i].ph = "ended" /\ loop'[i].res.ok THEN 1 ELSE 0
      BY <1>7
    <2>1. ~txn[i].self /\ ~txn[i].lost /\ value \notin {"false", "again"} /\ i \notin excused
      BY <1>1, <1>7
    <2>2. applied[i] = 0
      BY <1>0, <1>3, <2>1 DEF ItemAt
    <2>3. txn[i].commits = IF value = "error" THEN 0 ELSE 1
      BY <1>0, <1>1, <2>1 DEF CallAt
    <2> QED BY <1>4, <1>7, <2>1, <2>2, <2>3
  <1>9. ItemAt(i)'
    BY <1>0, <1>2, <1>3, <1>4, <1>5, <1>8 DEF ItemAt
  <1> QED BY <1>2, <1>4, <1>5, <1>6, <1>7, <1>9, OneItem DEF LoopMoves

LEMMA FanStep == FanInv /\ [Next]_vars => FanInv'
  <1> SUFFICES ASSUME FanInv, [Next]_vars PROVE FanInv'
    OBVIOUS
  <1>1. ASSUME NEW i \in Items, ItemStep(i) PROVE FanInv'
    BY <1>1, StartItemKeeps, RetryKeeps, StartAttemptKeeps, TxKeeps, EndAttemptKeeps, EndItemKeeps
       DEF ItemStep
  <1>2. CASE Reap \/ UNCHANGED vars
    <2>1. UNCHANGED <<concurVars, retryVars, history, txRetries, txn>>
      BY <1>2 DEF Reap, T!Reap, vars, txVars
    <2>2. UNCHANGED <<workers, deadline, ctx, next, item, stopped, result, answer,
                      maxAttempts, timed, timer, loop, applied, excused, txRetries, txn>>
      BY <2>1 DEF concurVars, retryVars, history
    <2>3. ConcurTypeOK' /\ RetryTyped' /\ TxTyped' /\ Answered'
      BY <2>2 DEF FanInv, ConcurTypeOK, RetryTyped, LoopRec, TxTyped, CallRec, Answered
    <2>4. \A i \in Items : CallAt(txn[i])' /\ ItemAt(i)'
      BY <2>2 DEF FanInv, ItemAt
    <2> QED BY <2>2, <2>3, <2>4 DEF FanInv
  <1> QED BY <1>1, <1>2, ConcurKeeps DEF Next

\* db.tx is all or nothing, whichever try, conflict, deadline or automatic rollback
\* ended it (runManaged, Tx.commit).
THEOREM TransactionCorrect == Spec => []AllOrNothing
  <1>1. Spec => []FanInv
    BY FanInit, FanStep, PTL DEF Spec
  <1>2. FanInv => AllOrNothing
    BY DEF FanInv, CallAt, AllOrNothing, T!AllOrNothing
  <1> QED BY <1>1, <1>2, PTL

\* What retry.do reports as done around db.tx is in the database once, what it gave up
\* on is not there (executeRetry, runManaged, parallelExecute).
THEOREM ExactlyOnce == Spec => []AppliedOnce
  <1>1. Spec => []FanInv
    BY FanInit, FanStep, PTL DEF Spec
  <1>2. FanInv => AppliedOnce
    <2> SUFFICES ASSUME FanInv, NEW i \in Items \ excused, loop[i].ph = "ended"
                 PROVE  applied[i] = IF loop[i].res.ok THEN 1 ELSE 0
      BY DEF AppliedOnce
    <2>1. ItemAt(i) /\ ConcurTypeOK
      BY DEF FanInv
    <2> QED BY <2>1 DEF ItemAt
  <1> QED BY <1>1, <1>2, PTL

\* Nothing a map started outlives it: neither a callback nor a transaction
\* (parallelExecute's wg.Wait).
THEOREM MapOutlivesAll == Spec => []NothingOutlives
  <1>1. Spec => []FanInv
    BY FanInit, FanStep, PTL DEF Spec
  <1>2. FanInv => NothingOutlives
    <2> SUFFICES ASSUME FanInv, answer # "none", NEW i \in Items
                 PROVE  loop[i].ph = "off" /\ txn[i].ph = "off"
      BY DEF NothingOutlives
    <2>1. ItemAt(i) /\ item[i] = "ended"
      BY DEF FanInv, Answered
    <2> QED BY <2>1 DEF ItemAt
  <1> QED BY <1>1, <1>2, PTL

-----------------------------------------------------------------------------
(* The pool.                                                               *)

OpenOnes == {i \in Items : txn[i].tx = "open"}
PoolInv  == FanInv /\ zombies \in Nat /\ Cardinality(OpenOnes) + zombies <= MaxOpen

LEMMA InUseCounts == T!InUse = Cardinality(OpenOnes) + zombies
  BY DEF T!InUse, OpenOnes, T!Cardinality, Cardinality

LEMMA OpenFinite == IsFiniteSet(OpenOnes) /\ Cardinality(OpenOnes) \in Nat
  <1>1. IsFiniteSet(Items)
    BY FS_Interval, ConcurAssumption DEF Items, ConcurAssumption
  <1>2. OpenOnes \subseteq Items
    BY DEF OpenOnes
  <1>3. IsFiniteSet(OpenOnes)
    BY <1>1, <1>2, FS_Subset
  <1> QED BY <1>3, FS_CardinalityType

\* What one item's step does to the number of open transactions.
LEMMA Counted ==
  ASSUME NEW i \in Items, \A j \in Items \ {i} : txn'[j] = txn[j]
  PROVE  Cardinality(OpenOnes)' =
           Cardinality(OpenOnes) + (IF txn'[i].tx = "open" THEN 1 ELSE 0)
                                 - (IF txn[i].tx = "open" THEN 1 ELSE 0)
  <1>0. IsFiniteSet(OpenOnes) /\ Cardinality(OpenOnes) \in Nat
    BY OpenFinite
  <1>1. CASE txn'[i].tx = "open" <=> txn[i].tx = "open"
    <2>1. OpenOnes' = OpenOnes
      BY <1>1 DEF OpenOnes
    <2> QED BY <1>0, <1>1, <2>1
  <1>2. CASE txn'[i].tx = "open" /\ txn[i].tx # "open"
    <2>1. OpenOnes' = OpenOnes \cup {i} /\ i \notin OpenOnes
      BY <1>2 DEF OpenOnes
    <2>2. Cardinality(OpenOnes') = Cardinality(OpenOnes) + 1
      BY <1>0, <2>1, FS_AddElement
    <2> QED BY <1>0, <1>2, <2>2
  <1>3. CASE txn'[i].tx # "open" /\ txn[i].tx = "open"
    <2>1. OpenOnes' = OpenOnes \ {i} /\ i \in OpenOnes
      BY <1>3 DEF OpenOnes
    <2>2. Cardinality(OpenOnes') = Cardinality(OpenOnes) - 1
      BY <1>0, <2>1, FS_RemoveElement
    <2> QED BY <1>0, <1>3, <2>2
  <1> QED BY <1>1, <1>2, <1>3

Pooled == zombies \in Nat /\ Cardinality(OpenOnes) + zombies <= MaxOpen

LEMMA TryEndsClosed ==
  ASSUME TxTyped, NEW i \in Items, NEW err, NEW tx, NEW n, T!TryEnds(i, err, tx, n)
  PROVE  txn'[i].tx = tx
  <1>1. txn[i] \in CallRec
    BY DEF TxTyped
  <1> QED BY <1>1 DEF T!TryEnds, TxTyped, CallRec

LEMMA TxPool ==
  ASSUME PoolInv, NEW i \in Items, TxStep(i)
  PROVE  Pooled'
  <1>0. /\ TxTyped /\ txn[i] \in CallRec /\ zombies \in Nat /\ MaxOpen \in Nat
        /\ Cardinality(OpenOnes) + zombies <= MaxOpen
    BY FanOutAssumption DEF PoolInv, FanInv, TxTyped, FanOutAssumption
  <1>1. \A j \in Items \ {i} : txn'[j] = txn[j]
    BY <1>0, TxStepMoves DEF PoolInv, FanInv, TxMoves
  <1>2. Cardinality(OpenOnes) \in Nat
    BY OpenFinite
  <1>3. Cardinality(OpenOnes)' =
           Cardinality(OpenOnes) + (IF txn'[i].tx = "open" THEN 1 ELSE 0)
                                 - (IF txn[i].tx = "open" THEN 1 ELSE 0)
    BY <1>1, Counted
  <1> DEFINE done == Done(i)
  <1>4. CASE T!Begin(i, done)
    <2>1. CASE done
      <3>1. txn'[i].tx = txn[i].tx /\ zombies' = zombies
        BY <1>0, <1>4, <2>1 DEF T!Begin, TxTyped, CallRec
      <3> QED BY <1>0, <1>2, <1>3, <3>1 DEF Pooled
    <2>2. CASE ~done
      <3>1. Cardinality(OpenOnes) + zombies < MaxOpen /\ zombies' = zombies
        BY <1>4, <2>2, InUseCounts DEF T!Begin
      <3> QED BY <1>0, <1>2, <1>3, <3>1 DEF Pooled
    <2> QED BY <2>1, <2>2
  <1>5. CASE T!UseDb(i) \/ T!GetDb(i, done)
    <2>1. txn'[i].tx = txn[i].tx /\ zombies' = zombies
      BY <1>0, <1>5 DEF T!UseDb, T!GetDb, TxTyped, CallRec
    <2> QED BY <1>0, <1>2, <1>3, <2>1 DEF Pooled
  <1>6. CASE T!CommitSelf(i, done) \/ T!RollbackSelf(i) \/ T!ContextRollback(i, done)
    <2>1. zombies' = zombies
      BY <1>6 DEF T!CommitSelf, T!RollbackSelf, T!ContextRollback
    <2>2. txn'[i].tx = "open" => txn[i].tx = "open"
      <3>1. CASE T!CommitSelf(i, done)
        <4>1. CASE T!Open(i) /\ ~done
          BY <4>1 DEF T!Open
        <4>2. CASE ~(T!Open(i) /\ ~done)
          <5>1. txn' = [txn EXCEPT ![i].own = "commit", ![i].self = TRUE]
            BY <3>1, <4>2 DEF T!CommitSelf
          <5> QED BY <1>0, <5>1 DEF TxTyped, CallRec
        <4> QED BY <4>1, <4>2
      <3>2. CASE T!RollbackSelf(i)
        BY <1>0, <3>2 DEF T!RollbackSelf, TxTyped, CallRec
      <3>3. CASE T!ContextRollback(i, done)
        BY <1>0, <3>3 DEF T!ContextRollback, TxTyped, CallRec
      <3> QED BY <1>6, <3>1, <3>2, <3>3
    <2> QED BY <1>0, <1>2, <1>3, <2>1, <2>2 DEF Pooled
  <1>7. ASSUME zombies' = zombies + (IF txn[i].tx = "open" THEN 1 ELSE 0) \/ zombies' = zombies,
               txn'[i].tx # "open"
        PROVE  Pooled'
    BY <1>0, <1>2, <1>3, <1>7 DEF Pooled
  <1>8. CASE T!Return(i, done)
    <2>1. zombies' = zombies + (IF txn[i].tx = "open" THEN 1 ELSE 0) \/ zombies' = zombies
      BY <1>0, <1>8 DEF T!Return, T!Open
    <2> DEFINE closed == IF T!Open(i) THEN "rolledback" ELSE txn[i].tx
    <2>2. CASE T!TryEnds(i, "none", closed, 0) \/ T!TryEnds(i, "error", "rolledback", 0)
      BY <1>0, <1>7, <2>1, <2>2, TryEndsClosed DEF T!Open
    <2>3. ASSUME NEW out \in T!CommitOutcomes,
                 T!TryEnds(i, out[1], IF out[1] = "none" THEN "committed" ELSE "rolledback", out[2])
          PROVE  Pooled'
      BY <1>0, <1>7, <2>1, <2>3, TryEndsClosed
    <2> QED BY <1>8, <2>2, <2>3 DEF T!Return
  <1>9. ASSUME NEW err \in {"locked", "error"}, T!Raise(i, err, done) PROVE Pooled'
    <2>1. zombies' = zombies + (IF txn[i].tx = "open" THEN 1 ELSE 0) \/ zombies' = zombies
      BY <1>0, <1>9 DEF T!Raise, T!Open
    <2>2. txn'[i].tx = IF T!Open(i) THEN "rolledback" ELSE txn[i].tx
      BY <1>0, <1>9, TryEndsClosed DEF T!Raise
    <2> QED BY <1>7, <2>1, <2>2 DEF T!Open
  <1> QED BY <1>4, <1>5, <1>6, <1>8, <1>9 DEF TxStep

LEMMA PoolStep == PoolInv /\ [Next]_vars => PoolInv'
  <1> SUFFICES ASSUME PoolInv, [Next]_vars PROVE Pooled'
    BY FanStep DEF PoolInv, Pooled
  <1>0. /\ FanInv /\ TxTyped /\ zombies \in Nat /\ Cardinality(OpenOnes) + zombies <= MaxOpen
        /\ MaxOpen \in Nat /\ Cardinality(OpenOnes) \in Nat
    BY OpenFinite, FanOutAssumption DEF PoolInv, FanInv, FanOutAssumption
  <1>1. ASSUME UNCHANGED <<txn, zombies>> PROVE Pooled'
    <2>1. OpenOnes' = OpenOnes
      BY <1>1 DEF OpenOnes
    <2> QED BY <1>0, <1>1, <2>1 DEF Pooled
  <1>2. ASSUME NEW i \in Items, zombies' = zombies, txn' = [txn EXCEPT ![i] = txn'[i]], txn'[i].tx # "open"
        PROVE  Pooled'
    <2>1. \A j \in Items \ {i} : txn'[j] = txn[j]
      BY <1>0, <1>2 DEF TxTyped
    <2> QED BY <1>0, <1>2, <2>1, Counted DEF Pooled
  <1>3. CASE ConcurStep \/ UNCHANGED vars
    BY <1>1, <1>3 DEF ConcurStep, vars, txVars
  <1>4. CASE Reap
    <2>1. zombies > 0 /\ zombies' = zombies - 1 /\ OpenOnes' = OpenOnes
      BY <1>4 DEF Reap, T!Reap, OpenOnes
    <2> QED BY <1>0, <2>1 DEF Pooled
  <1>5. ASSUME NEW i \in Items, ItemStep(i) PROVE Pooled'
    <2>1. CASE StartItem(i) \/ RetryStep(i)
      BY <1>1, <2>1 DEF StartItem, RetryStep, txVars
    <2>2. ASSUME NEW o \in {"value", "error"}, EndItem(i, o) PROVE Pooled'
      BY <1>1, <2>2 DEF EndItem, txVars
    <2>3. CASE StartAttempt(i)
      <3>1. /\ zombies' = zombies /\ txn' = [txn EXCEPT ![i] = [T!NoTx EXCEPT !.ph = "begin"]]
        BY <2>3 DEF StartAttempt, T!TxCalled
      <3>2. txn'[i] = [T!NoTx EXCEPT !.ph = "begin"] /\ txn'[i].tx = "none"
        BY <1>0, <3>1 DEF TxTyped, T!NoTx
      <3> QED BY <1>2, <3>1, <3>2
    <2>4. ASSUME NEW v \in {"error", "false", "true", "again", "plain"}, EndAttempt(i, v) PROVE Pooled'
      <3>1. zombies' = zombies /\ txn' = [txn EXCEPT ![i] = T!NoTx]
        BY <2>4 DEF EndAttempt, T!TxReturns
      <3>2. txn'[i] = T!NoTx /\ txn'[i].tx = "none"
        BY <1>0, <3>1 DEF TxTyped, T!NoTx
      <3> QED BY <1>2, <3>1, <3>2
    <2> QED BY <1>5, <2>1, <2>2, <2>3, <2>4, TxPool DEF ItemStep
  <1> QED BY <1>3, <1>4, <1>5 DEF Next

\* The type invariant of map, loops, transactions and pool: no more connections are in
\* use than the pool has, whatever contexts end.
THEOREM TypeCorrect == Spec => []TypeOK
  <1>1. Init => PoolInv
    <2> SUFFICES ASSUME Init PROVE PoolInv
      OBVIOUS
    <2>1. zombies = 0 /\ OpenOnes = {}
      BY DEF Init, T!TxInit, T!NoTx, OpenOnes
    <2> QED BY <2>1, FanInit, FS_EmptySet, FanOutAssumption DEF PoolInv, FanOutAssumption
  <1>2. PoolInv => TypeOK
    <2> SUFFICES ASSUME PoolInv PROVE TypeOK
      OBVIOUS
    <2>1. ConcurTypeOK /\ R!RetryTypeOK /\ excused \subseteq Items
      BY DEF PoolInv, FanInv, RetryTyped, LoopRec, R!RetryTypeOK
    <2>2. Cardinality(OpenOnes) \in Nat /\ MaxOpen \in Nat
      BY OpenFinite, FanOutAssumption DEF FanOutAssumption
    <2>3. zombies \in 0..MaxOpen /\ T!InUse <= MaxOpen
      BY <2>2, InUseCounts DEF PoolInv
    <2>4. T!TxTypeOK
      BY <2>3 DEF PoolInv, FanInv, TxTyped, CallRec, T!TxTypeOK
    <2> QED BY <2>1, <2>4 DEF TypeOK
  <1> QED BY <1>1, <1>2, PoolStep, PTL DEF Spec
=============================================================================
