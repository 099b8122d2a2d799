------------------------------ MODULE Transaction ------------------------------
(***************************************************************************)
(* db.tx(callback, retry=N) of libkite/modules/sql over one connection      *)
(* pool: every thread runs callbacks in managed transactions. The pool, the *)
(* database and the rollback that database/sql itself performs when a       *)
(* context ends are external, modelled as the code relies on them.          *)
(***************************************************************************)
EXTENDS Naturals, FiniteSets

CONSTANTS
  Threads,     \* interpreter threads that call db.tx
  MaxOpen,     \* connections of the pool
  MaxCalls     \* bound: the largest number of tries

VARIABLES
  txRetries, \* retry= of db.tx
  txn,       \* the db.tx call of each thread
  zombies    \* connections of transactions left open whose context is done

txVars == <<txRetries, txn, zombies>>

\* ph is where db.tx is; tries the retries so far; tx the transaction; own whether the
\* callback finished it itself; failed whether db.tx raises; the others are
\* history: the commits the database has seen of this call, whether a callback of it
\* has finished its transaction itself, and whether the outcome of a commit was lost.
NoTx == [ph |-> "off", tries |-> 0, tx |-> "none", own |-> "none", failed |-> FALSE,
         commits |-> 0, self |-> FALSE, lost |-> FALSE]

TxInit ==
  txRetries \in 0..MaxCalls - 1 /\ txn = [t \in Threads |-> NoTx] /\ zombies = 0

TxPhase(t) == txn[t].ph
InUse      == Cardinality({t \in Threads : txn[t].tx = "open"}) + zombies
Open(t)    == txn[t].tx = "open"

TxCalled(t) ==
  /\ TxPhase(t) = "off"
  /\ txn' = [txn EXCEPT ![t] = [NoTx EXCEPT !.ph = "begin"]]
  /\ UNCHANGED <<txRetries, zombies>>

\* BeginTx waits for a connection as long as the context is live.
Begin(t, done) ==
  /\ TxPhase(t) = "begin"
  /\ IF done
       THEN txn' = [txn EXCEPT ![t].ph = "ended", ![t].failed = TRUE]
       ELSE InUse < MaxOpen
            /\ txn' = [txn EXCEPT ![t].ph = "body", ![t].tx = "open", ![t].own = "none"]
  /\ UNCHANGED <<txRetries, zombies>>

\* The callback uses the connection beside its transaction: that takes a second
\* connection from the pool for a moment, or fails when the context ends.
UseDb(t) ==
  /\ TxPhase(t) = "body" /\ Open(t) /\ txn' = [txn EXCEPT ![t].ph = "want"]
  /\ UNCHANGED <<txRetries, zombies>>

GetDb(t, done) ==
  /\ TxPhase(t) = "want" /\ (done \/ InUse < MaxOpen)
  /\ txn' = [txn EXCEPT ![t].ph = "body"]
  /\ UNCHANGED <<txRetries, zombies>>

\* database/sql rolls a transaction back when its context ends.
ContextRollback(t, done) ==
  /\ done /\ Open(t) /\ txn' = [txn EXCEPT ![t].tx = "rolledback"]
  /\ UNCHANGED <<txRetries, zombies>>

Reap(done) == done /\ zombies > 0 /\ zombies' = zombies - 1 /\ UNCHANGED <<txRetries, txn>>

-----------------------------------------------------------------------------
\* What Commit may do to an open transaction of a live context: succeed, meet a
\* conflict, or lose the server's answer. Afterwards the connection is free.
CommitOutcomes == {<<"none", 1>>, <<"locked", 0>>, <<"lost", 0>>, <<"lost", 1>>}

\* tx.commit() in the callback: marked done first, so a commit that failed is final.
\* The callback sees its error, and raises or goes on. Commit refuses when the context
\* is done, and database/sql rolls back.
CommitSelf(t, done) ==
  /\ TxPhase(t) = "body" /\ txn[t].own = "none"
  /\ \/ /\ Open(t) /\ ~done
        /\ \E out \in CommitOutcomes :
             txn' = [txn EXCEPT ![t] =
               [txn[t] EXCEPT !.own = "commit", !.self = TRUE, !.commits = txn[t].commits + out[2],
                              !.tx = IF out[1] = "none" THEN "committed" ELSE "rolledback"]]
     \/ (~Open(t) \/ done) /\ txn' = [txn EXCEPT ![t].own = "commit", ![t].self = TRUE]
  /\ UNCHANGED <<txRetries, zombies>>

\* tx.rollback() in the callback, which works whatever the context.
RollbackSelf(t) ==
  /\ TxPhase(t) = "body" /\ txn[t].own = "none"
  /\ txn' = [txn EXCEPT ![t].own = "rollback", ![t].self = TRUE, ![t].tx = "rolledback"]
  /\ UNCHANGED <<txRetries, zombies>>

\* The end of one try: db.tx tries again after a conflict and ends after anything else.
TryEnds(t, err, tx, commits) ==
  LET call == txn[t] total == call.commits + commits IN
  txn' = [txn EXCEPT ![t] =
    IF err = "locked" /\ call.tries < txRetries
      THEN [call EXCEPT !.ph = "begin", !.tries = call.tries + 1, !.tx = tx, !.commits = total]
      ELSE [call EXCEPT !.ph = "ended", !.tx = tx, !.commits = total,
                        !.lost = err = "lost", !.failed = err # "none"]]

\* A conflict needs a live context and a transaction, or has been reported already.
MayConflict(t, done) == (Open(t) /\ ~done) \/ txn[t].own # "none"

\* Mutant: the cases of runManaged are swapped, an error commits.
RaiseCommits(t, err, done) ==
  /\ TxPhase(t) = "body" /\ (err = "locked" => MayConflict(t, done))
  /\ TryEnds(t, err, "committed", IF Open(t) THEN 1 ELSE 0) /\ UNCHANGED <<txRetries, zombies>>

\* The callback raises: rolled back, unless it finished the transaction itself. One
\* whose own commit met a finished context is left to database/sql.
Raise(t, err, done) ==
  /\ TxPhase(t) = "body" /\ (err = "locked" => MayConflict(t, done))
  /\ UNCHANGED txRetries /\ zombies' = zombies + IF Open(t) /\ txn[t].own # "none" THEN 1 ELSE 0
  /\ TryEnds(t, err, IF Open(t) THEN "rolledback" ELSE txn[t].tx, 0)

\* Mutant: the error of Commit is dropped.
ReturnDropsError(t, done) ==
  /\ TxPhase(t) = "body"
  /\ UNCHANGED txRetries /\ zombies' = zombies + IF Open(t) /\ done THEN 1 ELSE 0
  /\ TryEnds(t, "none", IF Open(t) THEN "rolledback" ELSE txn[t].tx,
             IF Open(t) /\ ~done THEN 1 ELSE 0)

\* The callback returns: committed, unless it finished the transaction itself.
Return(t, done) ==
  /\ TxPhase(t) = "body"
  /\ UNCHANGED txRetries /\ zombies' = zombies + IF Open(t) /\ done THEN 1 ELSE 0
  /\ \/ txn[t].own # "none" /\ TryEnds(t, "none", IF Open(t) THEN "rolledback" ELSE txn[t].tx, 0)
     \/ /\ txn[t].own = "none" /\ Open(t) /\ ~done
        /\ \E out \in CommitOutcomes :
             TryEnds(t, out[1], IF out[1] = "none" THEN "committed" ELSE "rolledback", out[2])
     \/ /\ txn[t].own = "none" /\ (done \/ ~Open(t)) /\ TryEnds(t, "error", "rolledback", 0)

TxReturns(t) ==
  /\ TxPhase(t) = "ended" /\ txn' = [txn EXCEPT ![t] = NoTx]
  /\ UNCHANGED <<txRetries, zombies>>

\* The type of the variables.
TxTypeOK ==
  /\ txn \in [Threads -> [ph : {"off", "begin", "body", "want", "ended"},
                          tries : 0..txRetries,
                          tx : {"none", "open", "committed", "rolledback"},
                          own : {"none", "commit", "rollback"},
                          commits : Nat, failed : BOOLEAN, self : BOOLEAN, lost : BOOLEAN]]
  /\ zombies \in 0..MaxOpen /\ InUse <= MaxOpen

\* db.tx is all or nothing: without an error its callback's work is committed exactly
\* once, with one it is not committed at all, whichever try, conflict, deadline or
\* automatic rollback ended it; and a callback that rolled back in its first try is not
\* overruled. Excepted are commits whose outcome nobody learnt and
\* tries after one that finished its transaction itself.
AllOrNothing ==
  \A t \in Threads :
    LET call == txn[t] IN
    call.ph = "ended" =>
      /\ ~call.self /\ ~call.lost => call.commits = IF call.failed THEN 0 ELSE 1
      /\ call.own = "rollback" /\ call.tries = 0 => call.commits = 0
=============================================================================
