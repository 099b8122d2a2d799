--------------------------------- MODULE Retry ---------------------------------
(***************************************************************************)
(* retry.do and retry.with_backoff (executeRetry in libkite/modules/retry): *)
(* a function is called until it succeeds, max_attempts are used up or the  *)
(* deadline is seen to have passed. One loop per interpreter thread; the    *)
(* function, and whether the thread's own context is done, come from the    *)
(* module that composes this one.                                           *)
(***************************************************************************)
EXTENDS Naturals

CONSTANTS
  Threads,   \* interpreter threads
  MaxCalls   \* bound: the largest max_attempts

VARIABLES
  maxAttempts, timed,   \* the arguments: max_attempts, whether timeout= was given
  timer,     \* the threads whose retry deadline has passed
  loop       \* the loop of each thread

retryVars == <<maxAttempts, timed, timer, loop>>

\* ph is where the loop is, attempt the number of its attempt; res is the RetryResult:
\* [ok, attempts, errors], errors being how many were recorded.
NoResult == [ok |-> FALSE, attempts |-> 0, errors |-> 0]
NoLoop   == [ph |-> "off", attempt |-> 1, errors |-> 0, res |-> NoResult]

RetryInit ==
  /\ maxAttempts \in 1..MaxCalls /\ timed \in BOOLEAN
  /\ timer = {} /\ loop = [t \in Threads |-> NoLoop]

Phase(t)   == loop[t].ph
Late(t, parentDone) == parentDone \/ t \in timer
RetryEnds(t, ok, attempts, errors) ==
  loop' = [loop EXCEPT ![t].ph = "ended", ![t].errors = errors,
                       ![t].res = [ok |-> ok, attempts |-> attempts, errors |-> errors]]

RetryCalled(t) ==
  /\ Phase(t) = "off"
  /\ loop' = [loop EXCEPT ![t] = [NoLoop EXCEPT !.ph = "check"]]
  /\ UNCHANGED <<maxAttempts, timed, timer>>

\* The context is looked at before every attempt; a timeout with no error recorded
\* yet is recorded itself.
TimedOut(t, parentDone) ==
  /\ Phase(t) = "check" /\ Late(t, parentDone)
  /\ RetryEnds(t, FALSE, loop[t].attempt - 1, IF loop[t].errors = 0 THEN 1 ELSE loop[t].errors)
  /\ UNCHANGED <<maxAttempts, timed, timer>>

Attempt(t, parentDone) ==
  /\ Phase(t) = "check" /\ ~Late(t, parentDone)
  /\ loop' = [loop EXCEPT ![t].ph = "calling"]
  /\ UNCHANGED <<maxAttempts, timed, timer>>

\* Mutant: an off-by-one in the last attempt.
AgainOneMore(t) ==
  IF loop[t].attempt <= maxAttempts
    THEN loop' = [loop EXCEPT ![t].ph = "check", ![t].errors = @ + 1, ![t].attempt = @ + 1]
    ELSE RetryEnds(t, FALSE, maxAttempts, loop[t].errors + 1)

\* The call raised, returned a failure, or its value triggered retry_on: recorded and,
\* unless it was the last, followed by on_retry and a sleep that the context cuts short.
Again(t) ==
  IF loop[t].attempt < maxAttempts
    THEN loop' = [loop EXCEPT ![t].ph = "check", ![t].errors = @ + 1, ![t].attempt = @ + 1]
    ELSE RetryEnds(t, FALSE, maxAttempts, loop[t].errors + 1)

\* What the function returned: "error" raised, "false" a failure, "true" a success,
\* "again" a success that retry_on refuses, "plain" a value that is neither, which
\* is taken as it is and reported as one attempt without errors.
AttemptEnds(t, value) ==
  /\ Phase(t) = "calling"
  /\ \/ value \in {"error", "false", "again"} /\ Again(t)
     \/ value = "true"  /\ RetryEnds(t, TRUE, loop[t].attempt, loop[t].errors)
     \/ value = "plain" /\ RetryEnds(t, TRUE, 1, 0)
  /\ UNCHANGED <<maxAttempts, timed, timer>>

RetryReturns(t) ==
  /\ Phase(t) = "ended" /\ loop' = [loop EXCEPT ![t] = NoLoop]
  /\ timer' = timer \ {t} /\ UNCHANGED <<maxAttempts, timed>>

RetryExpire(t) ==
  /\ timed /\ Phase(t) \notin {"off", "ended"} /\ t \notin timer
  /\ timer' = timer \cup {t} /\ UNCHANGED <<maxAttempts, timed, loop>>

\* The type of the variables.
RetryTypeOK ==
  /\ maxAttempts \in 1..MaxCalls /\ timed \in BOOLEAN /\ timer \subseteq Threads
  /\ loop \in [Threads -> [ph : {"off", "check", "calling", "ended"},
                           attempt : 1..maxAttempts,
                           errors : 0..maxAttempts,
                           res : [ok : BOOLEAN, attempts : 0..maxAttempts, errors : 0..maxAttempts]]]
=============================================================================
