----------------------------- MODULE HttpServer -----------------------------
(***************************************************************************)
(* An http.server value (libkite/modules/http/server.go): a script starts, *)
(* serves and shuts it down, request handlers and the signal goroutine may *)
(* shut it down or start it again, and every start makes a new net/http    *)
(* server - a generation - with a goroutine of its own.                    *)
(*                                                                         *)
(* net/http is external: Serve, Shutdown and Close are modelled by what    *)
(* server.go relies on.                                                    *)
(***************************************************************************)
EXTENDS Naturals, FiniteSets

CONSTANTS
  Requests,   \* HTTP requests that may arrive
  Script,     \* the goroutine that executes the script
  Signal,     \* the runtime's signal goroutine
  MaxStarts   \* bound: successful starts

Gens    == 1..MaxStarts
Enders  == {Script, Signal}
Callers == Requests \cup Enders
Nobody  == "nobody"

ASSUME ConstantsAssumption ==
  /\ Script \notin Requests /\ Signal \notin Requests /\ Script # Signal
  /\ Nobody \notin Callers /\ MaxStarts \in Nat

VARIABLES
  running,    \* s.running
  current,    \* s.server, s.listener and s.done, as a generation; 0 is nil
  serving,    \* the goroutine of each generation
  stopping,   \* generations whose Shutdown was called
  forced,     \* generations whose Close was called after a timeout
  handlerMu,  \* the request whose handler holds s.handlerMu
  pc,         \* where each goroutine is
  gen,        \* the generation that has accepted a request and not finished it, or 0
  target,     \* the generation a goroutine shuts down or waits for
  after,      \* where a goroutine goes when its shutdown() returns
  installed,  \* whether serve() registered its default signal handlers
  cleanup,    \* how often shutdownInternal is on the runtime's cleanup list
  left,       \* how many entries it has still to run, whoever took that list
  closing,    \* whether the script's goroutine has left Execute and is in Close
  exited

server == <<running, current, serving, stopping, forced>>
ending == <<cleanup, left, closing, exited>>
run    == <<installed, ending>>
calls  == <<gen, target, after>>
vars   == <<server, handlerMu, pc, calls, run>>

Init ==
  /\ running = FALSE /\ current = 0 /\ serving = [g \in Gens |-> "none"]
  /\ stopping = {} /\ forced = {} /\ handlerMu = Nobody
  /\ pc = [p \in Callers |-> IF p = Script THEN "script" ELSE IF p = Signal THEN "quiet" ELSE "new"]
  /\ gen = [r \in Requests |-> 0] /\ target = [p \in Callers |-> 0]
  /\ after = [p \in Callers |-> "none"]
  /\ installed = FALSE /\ cleanup = 0 /\ left = [p \in Enders |-> 0]
  /\ closing = FALSE /\ exited = FALSE

At(p, label)   == ~exited /\ pc[p] = label
Goto(p, label) == pc' = [pc EXCEPT ![p] = label]

Accepting(g) == serving[g] = "serving" /\ g \notin stopping
\* Requests a generation has accepted and not finished.
Active(g)    == {r \in Requests : gen[r] = g}
\* Starlark code that may call a method of the server.
Calling(p)   == At(p, "script") \/ At(p, "handling")

-----------------------------------------------------------------------------
(* start(), serve() and the goroutine of a generation.                     *)

\* Mutant: a server that is running is started again.
StartAnyway(p, label) ==
  /\ Calling(p) /\ current < MaxStarts
  /\ running' = TRUE /\ current' = current + 1
  /\ serving' = [serving EXCEPT ![current + 1] = "serving"]
  /\ cleanup' = cleanup + 1 /\ Goto(p, label)
  /\ UNCHANGED <<stopping, forced, handlerMu, calls, installed, left, closing, exited>>

\* Mutant: only the first start registers the cleanup.
StartRegistersOnce(p, label) ==
  /\ Calling(p) /\ ~running /\ current < MaxStarts
  /\ running' = TRUE /\ current' = current + 1
  /\ serving' = [serving EXCEPT ![current + 1] = "serving"]
  /\ cleanup' = (IF current = 0 THEN 1 ELSE cleanup) /\ Goto(p, label)
  /\ UNCHANGED <<stopping, forced, handlerMu, calls, installed, left, closing, exited>>

\* startInternal, under s.mu; start() stays where it is, serve() goes on to block.
Start(p, label) ==
  /\ Calling(p) /\ ~running /\ current < MaxStarts
  /\ running' = TRUE /\ current' = current + 1
  /\ serving' = [serving EXCEPT ![current + 1] = "serving"]
  /\ cleanup' = cleanup + 1 /\ Goto(p, label)
  /\ UNCHANGED <<stopping, forced, handlerMu, calls, installed, left, closing, exited>>

\* serve() registers its handlers and waits on s.done as it finds it.
Block ==
  /\ At(Script, "started") /\ Goto(Script, "blocked") /\ installed' = TRUE
  /\ target' = [target EXCEPT ![Script] = current]
  /\ UNCHANGED <<server, handlerMu, gen, after, ending>>

Unblock ==
  /\ At(Script, "blocked") /\ serving[target[Script]] = "closed"
  /\ Goto(Script, "script") /\ installed' = FALSE
  /\ target' = [target EXCEPT ![Script] = 0]
  /\ UNCHANGED <<server, handlerMu, gen, after, ending>>

\* Serve returns once its server is shut down; then s.running, then close(done).
ServeReturns(g) ==
  /\ ~exited /\ serving[g] = "serving" /\ g \in stopping
  /\ serving' = [serving EXCEPT ![g] = "returned"]
  /\ UNCHANGED <<running, current, stopping, forced, handlerMu, pc, calls, run>>

\* Mutant: the server forgets its generation when it stops.
MarkStoppedForgets(g) ==
  /\ ~exited /\ serving[g] = "returned" /\ running' = FALSE /\ current' = 0
  /\ serving' = [serving EXCEPT ![g] = "stopped"]
  /\ UNCHANGED <<stopping, forced, handlerMu, pc, calls, run>>

MarkStopped(g) ==
  /\ ~exited /\ serving[g] = "returned" /\ running' = FALSE
  /\ serving' = [serving EXCEPT ![g] = "stopped"]
  /\ UNCHANGED <<current, stopping, forced, handlerMu, pc, calls, run>>

CloseDone(g) ==
  /\ ~exited /\ serving[g] = "stopped" /\ serving' = [serving EXCEPT ![g] = "closed"]
  /\ UNCHANGED <<running, current, stopping, forced, handlerMu, pc, calls, run>>

-----------------------------------------------------------------------------
(* shutdownInternal, from whatever goroutine.                              *)

\* The first section under s.mu: nothing to do unless the server runs.
EnterShutdown(p, label) ==
  /\ Goto(p, IF running THEN "shutdown" ELSE label)
  /\ target' = [target EXCEPT ![p] = IF running THEN current ELSE 0]
  /\ after' = [after EXCEPT ![p] = IF running THEN label ELSE "none"]

\* shutdownInternal returns.
Return(p) ==
  /\ Goto(p, after[p])
  /\ target' = [target EXCEPT ![p] = 0] /\ after' = [after EXCEPT ![p] = "none"]

\* srv.Shutdown refuses new connections and waits for the active ones.
CallShutdown(p) ==
  /\ At(p, "shutdown") /\ Goto(p, "draining") /\ stopping' = stopping \cup {target[p]}
  /\ UNCHANGED <<running, current, serving, forced, handlerMu, calls, run>>

Drained(p) ==
  /\ At(p, "draining") /\ Active(target[p]) = {} /\ Return(p)
  /\ UNCHANGED <<server, handlerMu, gen, run>>

\* The shutdown timeout: srv.Close cuts the connections that are left.
TimeOut(p) ==
  /\ At(p, "draining") /\ Active(target[p]) # {} /\ Return(p)
  /\ forced' = forced \cup {target[p]}
  /\ UNCHANGED <<running, current, serving, stopping, handlerMu, gen, run>>

\* srv.shutdown() in the script or in a handler.
ShutdownMethod(p) ==
  /\ Calling(p) /\ running /\ EnterShutdown(p, pc[p])
  /\ UNCHANGED <<server, handlerMu, gen, run>>

\* The execution's context is cancelled (--timeout) while serve() blocks.
CancelServe ==
  /\ At(Script, "blocked") /\ EnterShutdown(Script, "started")
  /\ UNCHANGED <<server, handlerMu, gen, run>>

-----------------------------------------------------------------------------
(* Requests.                                                               *)

Accept(r, g) ==
  /\ At(r, "new") /\ Accepting(g) /\ Goto(r, "accepted") /\ gen' = [gen EXCEPT ![r] = g]
  /\ UNCHANGED <<server, handlerMu, target, after, run>>

\* The handler is done with the request, whether or not its connection was cut.
Reply(r) == Goto(r, "answered") /\ gen' = [gen EXCEPT ![r] = 0]

\* A request that cannot be read, or is too large, never gets to the handler.
Refuse(r) ==
  /\ At(r, "accepted") /\ Reply(r)
  /\ UNCHANGED <<server, handlerMu, target, after, run>>

\* Mutant: every generation brings a mutex of its own.
HandleByGeneration(r) ==
  /\ At(r, "accepted") /\ \A q \in Requests : handlerMu = q => gen[q] # gen[r]
  /\ handlerMu' = r /\ Goto(r, "handling")
  /\ UNCHANGED <<server, calls, run>>

Handle(r) ==
  /\ At(r, "accepted") /\ handlerMu = Nobody /\ handlerMu' = r /\ Goto(r, "handling")
  /\ UNCHANGED <<server, calls, run>>

\* Mutant: the mutex is not released.
AnswerKeepsMutex(r) ==
  /\ At(r, "handling") /\ Reply(r)
  /\ UNCHANGED <<server, handlerMu, target, after, run>>

\* The handler returns, fails or panics.
Answer(r) ==
  /\ At(r, "handling") /\ handlerMu' = Nobody /\ Reply(r)
  /\ UNCHANGED <<server, target, after, run>>

-----------------------------------------------------------------------------
(* The end of the run (module Runtime), as far as the server sees it.      *)

ScriptEnds ==
  /\ At(Script, "script") /\ Goto(Script, "ending")
  /\ UNCHANGED <<server, handlerMu, calls, run>>

\* SIGINT or SIGTERM while the channel is there: the default handler, if serve()
\* registered it, then the list.  Later a signal ends the process on the spot.
Interrupt ==
  /\ At(Signal, "quiet") /\ ~closing
  /\ IF installed THEN EnterShutdown(Signal, "ending")
                  ELSE Goto(Signal, "ending") /\ UNCHANGED <<target, after>>
  /\ UNCHANGED <<server, handlerMu, gen, run>>

\* runGoCleanups: every start has left an entry, which is shutdownInternal.
TakeCleanup(p) ==
  /\ At(p, "ending") /\ Goto(p, "cleaning")
  /\ left' = [left EXCEPT ![p] = cleanup] /\ cleanup' = 0
  /\ UNCHANGED <<server, handlerMu, calls, installed, closing, exited>>

RunCleanup(p) ==
  /\ At(p, "cleaning") /\ left[p] > 0 /\ left' = [left EXCEPT ![p] = @ - 1]
  /\ EnterShutdown(p, "cleaning")
  /\ UNCHANGED <<server, handlerMu, gen, installed, cleanup, closing, exited>>

Cleaned(p) == At(p, "cleaning") /\ left[p] = 0

\* Execute returns: the channel is gone, and Close takes the list once more.
Close ==
  /\ Cleaned(Script) /\ ~closing /\ closing' = TRUE
  /\ left' = [left EXCEPT ![Script] = cleanup] /\ cleanup' = 0
  /\ UNCHANGED <<server, handlerMu, pc, calls, installed, exited>>

\* The command returns, or the signal goroutine calls os.Exit.
Exit(p) ==
  /\ Cleaned(p) /\ (p = Script => closing) /\ exited' = TRUE
  /\ UNCHANGED <<server, handlerMu, pc, calls, installed, cleanup, left, closing>>

Terminated == exited /\ UNCHANGED vars

-----------------------------------------------------------------------------
(* The specification.                                                      *)

Serve    == Start(Script, "started")
Drain(p) == CallShutdown(p) \/ Drained(p) \/ TimeOut(p)
Goroutine(g) == ServeReturns(g) \/ MarkStopped(g) \/ CloseDone(g)
End(p)   == TakeCleanup(p) \/ RunCleanup(p) \/ Exit(p)
Script_  == Serve \/ Block \/ Unblock \/ CancelServe \/ ScriptEnds \/ Close
Request(r) == Handle(r) \/ Answer(r) \/ Refuse(r) \/ \E g \in Gens : Accept(r, g)

Next ==
  \/ Script_ \/ Interrupt \/ Terminated
  \/ \E p \in Requests \cup {Script} : ShutdownMethod(p) \/ Start(p, pc[p])
  \/ \E p \in Callers : Drain(p)
  \/ \E p \in Enders : End(p)
  \/ \E g \in Gens : Goroutine(g)
  \/ \E r \in Requests : Request(r)

\* Goroutines run, timers fire, handlers return and a waiter gets its mutex; the
\* script, the clients and the signals owe nothing.
Fairness ==
  /\ WF_vars(Block \/ Unblock)
  /\ \A p \in Callers : WF_vars(Drain(p))
  /\ WF_vars(Close \/ \E p \in Enders : End(p))
  /\ WF_vars(\E g \in Gens : Goroutine(g))
  /\ \A r \in Requests : SF_vars(Handle(r)) /\ WF_vars(Answer(r))

Spec     == Init /\ [][Next]_vars
FairSpec == Spec /\ Fairness

-----------------------------------------------------------------------------
(* Properties.                                                             *)

Labels == {"script", "started", "blocked", "shutdown", "draining", "ending", "cleaning",
           "none", "quiet", "new", "accepted", "handling", "answered"}

\* Type invariant; only started generations have a goroutine.
TypeOK ==
  /\ {running, installed, closing, exited} \subseteq BOOLEAN
  /\ current \in 0..MaxStarts /\ cleanup \in 0..current /\ left \in [Enders -> 0..current]
  /\ serving \in [Gens -> {"none", "serving", "returned", "stopped", "closed"}]
  /\ stopping \subseteq 1..current /\ forced \subseteq stopping
  /\ handlerMu \in Requests \cup {Nobody}
  /\ pc \in [Callers -> Labels] /\ after \in [Callers -> Labels]
  /\ gen \in [Requests -> 0..MaxStarts] /\ target \in [Callers -> 0..MaxStarts]
  /\ \A g \in Gens : serving[g] = "none" <=> g > current

\* s.running tells the truth: whatever shutdowns and restarts overlap, at most one
\* generation has a goroutine in Serve, it is the current one, and s.running is set.
RunningMeansServing ==
  \A g \in Gens : serving[g] \in {"serving", "returned"} <=> running /\ g = current

\* Handlers of one server never overlap, even when those of a generation that is
\* being shut down meet those of the next (s.handlerMu).
HandlersExcluded ==
  \A a, b \in Requests :
    gen[a] # 0 /\ gen[b] # 0 /\ {pc[a], pc[b]} \subseteq {"handling", "shutdown", "draining"} => a = b

\* Whoever is in a shutdown of generation g.
ShuttingDown(g) == {p \in Callers : pc[p] \in {"shutdown", "draining"} /\ target[p] = g}

\* A server is never left behind: a generation that takes connections, or has a
\* request in flight that was not cut, is being shut down by some goroutine or, if it
\* is the current one, has its cleanup on the runtime's list or in the hands of who
\* took that list - however starts, shutdowns and the end of the run overlap.
NeverLeftBehind ==
  \A g \in Gens :
    Accepting(g) \/ (Active(g) # {} /\ g \notin forced) =>
      \/ ShuttingDown(g) # {}
      \/ g = current /\ (cleanup > 0 \/ \E p \in Enders : left[p] > 0)

\* serve() comes back once its generation is shut down, by whomever, and a handler
\* that shuts its own server down hangs neither itself nor the requests behind it.
ShutdownEndsServe ==
  /\ pc[Script] = "blocked" /\ target[Script] \in stopping ~> pc[Script] # "blocked" \/ exited
  /\ (\E g \in Gens : Active(g) # {}) ~> (\A g \in Gens : Active(g) = {}) \/ exited
=============================================================================
