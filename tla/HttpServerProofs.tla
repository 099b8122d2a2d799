-------------------------- MODULE HttpServerProofs --------------------------
(***************************************************************************)
(* The invariants of HttpServer for any number of requests and starts:     *)
(* s.running and the generations' goroutines agree, handlers exclude each  *)
(* other across generations, and no generation is left behind.             *)
(***************************************************************************)
EXTENDS HttpServer, TLAPS

-----------------------------------------------------------------------------
(* Generations.                                                            *)

ServeStates == {"none", "serving", "returned", "stopped", "closed"}

\* Strengthens RunningMeansServing by which generations were ever started: a new one
\* has no goroutine yet.
GenInv ==
  /\ running \in BOOLEAN /\ current \in 0..MaxStarts /\ serving \in [Gens -> ServeStates]
  /\ \A g \in Gens : serving[g] = "none" <=> g > current
  /\ RunningMeansServing

LEMMA GenInit == Init => GenInv
  <1> SUFFICES ASSUME Init PROVE GenInv
    OBVIOUS
  <1>1. running = FALSE /\ current = 0 /\ serving = [g \in Gens |-> "none"]
    BY DEF Init
  <1>2. current \in 0..MaxStarts
    BY <1>1, ConstantsAssumption DEF ConstantsAssumption
  <1>3. \A g \in Gens : serving[g] = "none" /\ g > current
    BY <1>1, ConstantsAssumption DEF Gens, ConstantsAssumption
  <1> QED BY <1>1, <1>2, <1>3 DEF GenInv, ServeStates, RunningMeansServing

LEMMA GenStart ==
  ASSUME GenInv, NEW p, NEW label, Start(p, label)
  PROVE  GenInv'
  <1>1. current \in Nat /\ current + 1 \in Gens /\ current' = current + 1 /\ running' = TRUE
        /\ current' \in 0..MaxStarts
    BY ConstantsAssumption DEF Start, GenInv, Gens, ConstantsAssumption
  <1>2. serving' = [serving EXCEPT ![current + 1] = "serving"]
    BY DEF Start
  <1>3. serving' \in [Gens -> ServeStates]
    BY <1>1, <1>2 DEF GenInv, ServeStates
  <1>4. \A g \in Gens : serving'[g] = "none" <=> g > current'
    BY <1>1, <1>2 DEF GenInv, Gens
  <1>5. ~running
    BY DEF Start
  <1>6. RunningMeansServing'
    BY <1>1, <1>2, <1>5 DEF GenInv, RunningMeansServing, Gens
  <1> QED BY <1>1, <1>3, <1>4, <1>6 DEF GenInv

LEMMA GenGoroutine ==
  ASSUME GenInv, NEW g \in Gens, Goroutine(g)
  PROVE  GenInv'
  <1>1. CASE ServeReturns(g)
    BY <1>1 DEF ServeReturns, GenInv, RunningMeansServing, ServeStates
  <1>2. CASE MarkStopped(g)
    BY <1>2 DEF MarkStopped, GenInv, RunningMeansServing, ServeStates
  <1>3. CASE CloseDone(g)
    BY <1>3 DEF CloseDone, GenInv, RunningMeansServing, ServeStates
  <1> QED BY <1>1, <1>2, <1>3 DEF Goroutine

LEMMA GenKeep == GenInv /\ UNCHANGED <<running, current, serving>> => GenInv'
  BY DEF GenInv, RunningMeansServing

LEMMA GenStep == GenInv /\ [Next]_vars => GenInv'
  <1> SUFFICES ASSUME GenInv, [Next]_vars PROVE GenInv'
    OBVIOUS
  <1> USE DEF server
  <1>1. CASE Script_
    BY <1>1, GenStart, GenKeep DEF Script_, Serve, Block, Unblock, CancelServe, ScriptEnds, Close
  <1>2. CASE Interrupt \/ Terminated \/ UNCHANGED vars
    BY <1>2, GenKeep DEF Interrupt, Terminated, vars
  <1>3. ASSUME NEW p \in Requests \cup {Script}, ShutdownMethod(p) \/ Start(p, pc[p]) PROVE GenInv'
    BY <1>3, GenStart, GenKeep DEF ShutdownMethod
  <1>4. ASSUME NEW p \in Callers, Drain(p) PROVE GenInv'
    BY <1>4, GenKeep DEF Drain, CallShutdown, Drained, TimeOut
  <1>5. ASSUME NEW p \in Enders, End(p) PROVE GenInv'
    BY <1>5, GenKeep DEF End, TakeCleanup, RunCleanup, Exit
  <1>6. ASSUME NEW g \in Gens, Goroutine(g) PROVE GenInv'
    BY <1>6, GenGoroutine
  <1>7. ASSUME NEW r \in Requests, Request(r) PROVE GenInv'
    BY <1>7, GenKeep DEF Request, Handle, Answer, Refuse, Accept
  <1> QED BY <1>1, <1>2, <1>3, <1>4, <1>5, <1>6, <1>7 DEF Next

\* At most one generation is in Serve, the current one, exactly while s.running is
\* set: startInternal and the goroutine it starts (server.go:301-410).
THEOREM RunningCorrect == Spec => []RunningMeansServing
  <1>1. Spec => []GenInv
    BY GenInit, GenStep, PTL DEF Spec
  <1>2. GenInv => RunningMeansServing
    BY DEF GenInv
  <1> QED BY <1>1, <1>2, PTL

-----------------------------------------------------------------------------
(* Handlers.                                                               *)

InHandler == {"handling", "shutdown", "draining"}

\* Whoever is in a handler, or in a shutdown called from it, holds s.handlerMu.
HandlerInv ==
  /\ pc \in [Callers -> Labels] /\ after \in [Callers -> Labels]
  /\ \A r \in Requests : pc[r] \in InHandler => handlerMu = r
  /\ \A r \in Requests : pc[r] # "script" /\ after[r] # "script"

LEMMA HandlerInit == Init => HandlerInv
  BY ConstantsAssumption DEF Init, HandlerInv, Labels, InHandler, Callers, Enders, ConstantsAssumption

\* A step of one goroutine that leaves the mutex alone keeps the invariant unless it
\* takes a request into a handler.
LEMMA HandlerMove ==
  ASSUME HandlerInv, NEW p \in Callers, NEW label \in Labels, Goto(p, label), UNCHANGED handlerMu,
         after' \in [Callers -> Labels], \A r \in Requests : after'[r] # "script",
         p \in Requests => label # "script", p \in Requests /\ label \in InHandler => pc[p] \in InHandler
  PROVE  HandlerInv'
  BY DEF HandlerInv, Goto, Callers

LEMMA HandlerKeep == HandlerInv /\ UNCHANGED <<pc, after, handlerMu>> => HandlerInv'
  BY DEF HandlerInv

\* EnterShutdown, called by a request in its handler or by another goroutine.
LEMMA HandlerEnters ==
  ASSUME HandlerInv, NEW p \in Callers, NEW label \in Labels, EnterShutdown(p, label), UNCHANGED handlerMu,
         p \in Requests => pc[p] \in InHandler /\ label # "script"
  PROVE  HandlerInv'
  <1>1. after' \in [Callers -> Labels] /\ \A r \in Requests : after'[r] # "script"
    BY DEF EnterShutdown, HandlerInv, Labels, Callers
  <1>2. CASE running
    BY <1>1, <1>2, HandlerMove DEF EnterShutdown, Labels
  <1>3. CASE ~running
    BY <1>1, <1>3, HandlerMove DEF EnterShutdown
  <1> QED BY <1>2, <1>3

LEMMA HandlerDrain ==
  ASSUME HandlerInv, NEW p \in Callers, Drain(p)
  PROVE  HandlerInv'
  <1>1. CASE CallShutdown(p)
    <2>1. after' \in [Callers -> Labels] /\ \A r \in Requests : after'[r] # "script"
      BY <1>1 DEF CallShutdown, calls, HandlerInv
    <2> QED BY <1>1, <2>1, HandlerMove DEF CallShutdown, At, Labels, InHandler
  <1>2. CASE Drained(p) \/ TimeOut(p)
    <2>1. Return(p) /\ pc[p] = "draining" /\ UNCHANGED handlerMu
      BY <1>2 DEF Drained, TimeOut, At
    <2>2. after[p] \in Labels /\ (p \in Requests => after[p] # "script")
      BY DEF HandlerInv
    <2>3. after' \in [Callers -> Labels] /\ \A r \in Requests : after'[r] # "script"
      BY <2>1 DEF Return, HandlerInv, Labels, Callers
    <2> QED BY <2>1, <2>2, <2>3, HandlerMove DEF Return, InHandler
  <1> QED BY <1>1, <1>2 DEF Drain

LEMMA HandlerRequest ==
  ASSUME HandlerInv, NEW r \in Requests, Request(r)
  PROVE  HandlerInv'
  <1> USE ConstantsAssumption DEF HandlerInv, Labels, InHandler, Goto, At, calls
  <1>1. CASE Handle(r)
    BY <1>1 DEF Handle, Callers, Enders, ConstantsAssumption
  <1>2. CASE Answer(r)
    BY <1>2 DEF Answer, Reply, Callers, Enders, ConstantsAssumption
  <1>3. CASE \E g \in Gens : Accept(r, g)
    BY <1>3 DEF Accept, Callers
  <1>4. CASE Refuse(r)
    BY <1>4 DEF Refuse, Reply, Callers
  <1> QED BY <1>1, <1>2, <1>3, <1>4 DEF Request

LEMMA HandlerStep == HandlerInv /\ [Next]_vars => HandlerInv'
  <1> SUFFICES ASSUME HandlerInv, [Next]_vars PROVE HandlerInv'
    OBVIOUS
  <1>0. Script \in Callers /\ Signal \in Callers /\ Script \notin Requests /\ Signal \notin Requests
        /\ Requests \subseteq Callers /\ \A p \in Callers : pc[p] \in Labels
    BY ConstantsAssumption DEF Callers, Enders, ConstantsAssumption, HandlerInv
  <1>1. ASSUME NEW p \in Callers, NEW label \in Labels, Start(p, label),
               label = pc[p] \/ p \notin Requests
        PROVE  HandlerInv'
    BY <1>1, HandlerMove DEF Start, calls, HandlerInv
  <1>2. CASE Script_
    <2>1. CASE Serve
      BY <2>1, <1>0, <1>1 DEF Serve, Labels
    <2>2. CASE Block
      BY <2>2, <1>0, HandlerMove DEF Block, Labels, HandlerInv
    <2>3. CASE Unblock
      BY <2>3, <1>0, HandlerMove DEF Unblock, Labels, HandlerInv
    <2>4. CASE CancelServe
      BY <2>4, <1>0, HandlerEnters DEF CancelServe, Labels
    <2>5. CASE ScriptEnds
      BY <2>5, <1>0, HandlerMove DEF ScriptEnds, Labels, HandlerInv, calls
    <2>6. CASE Close
      BY <2>6, HandlerKeep DEF Close, calls
    <2> QED BY <1>2, <2>1, <2>2, <2>3, <2>4, <2>5, <2>6 DEF Script_
  <1>3. CASE Interrupt
    <2>1. CASE EnterShutdown(Signal, "ending")
      BY <1>3, <2>1, <1>0, HandlerEnters DEF Interrupt, Labels
    <2>2. CASE Goto(Signal, "ending") /\ UNCHANGED <<target, after>>
      BY <1>3, <2>2, <1>0, HandlerMove DEF Interrupt, Labels, HandlerInv
    <2> QED BY <1>3, <2>1, <2>2 DEF Interrupt
  <1>4. ASSUME NEW p \in Requests \cup {Script}, ShutdownMethod(p) \/ Start(p, pc[p]) PROVE HandlerInv'
    <2>0. p \in Callers /\ pc[p] \in Labels
      BY <1>0
    <2>1. CASE ShutdownMethod(p)
      <3>1. p \in Requests => pc[p] \in InHandler /\ pc[p] # "script"
        BY <2>1 DEF ShutdownMethod, Calling, At, InHandler, HandlerInv
      <3> QED BY <2>0, <2>1, <3>1, HandlerEnters DEF ShutdownMethod
    <2>2. CASE Start(p, pc[p])
      BY <2>0, <2>2, <1>1
    <2> QED BY <1>4, <2>1, <2>2
  <1>5. ASSUME NEW p \in Callers, Drain(p) PROVE HandlerInv'
    BY <1>5, HandlerDrain
  <1>6. ASSUME NEW p \in Enders, End(p) PROVE HandlerInv'
    <2>0. p \in Callers /\ p \notin Requests
      BY <1>0 DEF Enders
    <2>1. CASE RunCleanup(p)
      BY <2>0, <2>1, HandlerEnters DEF RunCleanup, Labels
    <2>2. CASE TakeCleanup(p)
      BY <2>0, <2>2, HandlerMove DEF TakeCleanup, calls, Labels, HandlerInv
    <2>3. CASE Exit(p)
      BY <2>3, HandlerKeep DEF Exit, calls
    <2> QED BY <1>6, <2>1, <2>2, <2>3 DEF End
  <1>7. ASSUME NEW g \in Gens, Goroutine(g) PROVE HandlerInv'
    BY <1>7, HandlerKeep DEF Goroutine, ServeReturns, MarkStopped, CloseDone, calls
  <1>8. ASSUME NEW r \in Requests, Request(r) PROVE HandlerInv'
    BY <1>8, HandlerRequest
  <1>9. CASE Terminated \/ UNCHANGED vars
    BY <1>9, HandlerKeep DEF Terminated, vars, calls
  <1> QED BY <1>2, <1>3, <1>4, <1>5, <1>6, <1>7, <1>8, <1>9 DEF Next

\* Handlers of one server exclude each other, whatever generations they belong to
\* and whatever shutdowns they call (makeGoHandler, server.go:454-457).
THEOREM HandlersCorrect == Spec => []HandlersExcluded
  <1>1. Spec => []HandlerInv
    BY HandlerInit, HandlerStep, PTL DEF Spec
  <1>2. HandlerInv => HandlersExcluded
    BY DEF HandlerInv, HandlersExcluded, InHandler
  <1> QED BY <1>1, <1>2, PTL

-----------------------------------------------------------------------------
(* Shutdowns.                                                              *)

\* Where a goroutine may be when its shutdown returns.
Resumes == {"script", "handling", "started", "ending", "cleaning", "none"}

\* A shutdown is of a generation that was started; while it drains, that generation
\* has been told to stop.
ShutAt(p) ==
  /\ pc[p] \in {"shutdown", "draining"} => target[p] \in 1..current
  /\ pc[p] = "draining" => target[p] \in stopping

ShutTyped ==
  /\ {installed, closing, exited} \subseteq BOOLEAN
  /\ cleanup \in 0..current /\ left \in [Enders -> 0..current]
  /\ stopping \subseteq 1..current /\ forced \subseteq stopping /\ (running => current # 0)
  /\ handlerMu \in Requests \cup {Nobody}
  /\ after \in [Callers -> Resumes]
  /\ gen \in [Requests -> 0..MaxStarts] /\ target \in [Callers -> 0..MaxStarts]

ShutInv == GenInv /\ HandlerInv /\ ShutTyped /\ \A p \in Callers : ShutAt(p)

LEMMA ShutInit == Init => ShutInv
  <1> SUFFICES ASSUME Init PROVE ShutTyped /\ \A p \in Callers : ShutAt(p)
    BY GenInit, HandlerInit DEF ShutInv
  <1>1. 0 \in 0..MaxStarts
    BY ConstantsAssumption DEF ConstantsAssumption
  <1>2. ShutTyped
    <2>1. current = 0 /\ cleanup = 0 /\ left = [p \in Enders |-> 0] /\ 0 \in 0..0
      BY DEF Init
    <2>2. cleanup \in 0..current /\ left \in [Enders -> 0..current]
      BY <2>1
    <2> QED BY <1>1, <2>2 DEF Init, ShutTyped, Resumes
  <1>3. \A p \in Callers : pc[p] \notin {"shutdown", "draining"}
    BY DEF Init
  <1> QED BY <1>2, <1>3 DEF ShutAt

\* What every kind of step leaves to show.
LEMMA ShutOthers ==
  ASSUME ShutInv, GenInv', HandlerInv', ShutTyped', NEW p \in Callers, ShutAt(p)',
         \A q \in Callers \ {p} : pc'[q] = pc[q] /\ target'[q] = target[q],
         stopping \subseteq stopping', current \in Nat /\ current' \in Nat /\ current <= current'
  PROVE  ShutInv'
  <1>1. \A q \in Callers \ {p} : ShutAt(q)'
    BY DEF ShutInv, ShutAt
  <1> QED BY <1>1 DEF ShutInv

\* A goroutine enters a shutdown, or passes it by when nothing runs.
LEMMA ShutEnters ==
  ASSUME ShutInv, [Next]_vars, NEW p \in Callers, NEW label \in Resumes, EnterShutdown(p, label),
         UNCHANGED <<server, handlerMu, gen, installed, cleanup, closing, exited>>, left' \in [Enders -> 0..current]
  PROVE  ShutInv'
  <1>0. /\ current \in 0..MaxStarts /\ MaxStarts \in Nat /\ (running => current \in 1..current)
        /\ UNCHANGED <<running, current, serving, stopping, forced>>
        /\ pc \in [Callers -> Labels] /\ ShutTyped
    BY ConstantsAssumption DEF ShutInv, GenInv, HandlerInv, ShutTyped, server, ConstantsAssumption
  <1>1. ShutTyped'
    BY <1>0 DEF ShutTyped, EnterShutdown, Resumes
  <1>2. \A q \in Callers \ {p} : pc'[q] = pc[q] /\ target'[q] = target[q]
    BY <1>0 DEF EnterShutdown, Goto, ShutTyped
  <1>3. ShutAt(p)'
    BY <1>0 DEF EnterShutdown, Goto, ShutTyped, ShutAt, Resumes
  <1> QED BY <1>0, <1>1, <1>2, <1>3, ShutOthers, GenStep, HandlerStep DEF ShutInv

LEMMA ShutDrains ==
  ASSUME ShutInv, [Next]_vars, NEW p \in Callers, Drain(p)
  PROVE  ShutInv'
  <1>0. /\ current \in 0..MaxStarts /\ current \in Nat /\ pc \in [Callers -> Labels] /\ ShutTyped /\ ShutAt(p)
        /\ 0 \in 0..MaxStarts
    BY ConstantsAssumption DEF ShutInv, GenInv, HandlerInv, ConstantsAssumption
  <1>1. CASE CallShutdown(p)
    <2>1. /\ pc[p] = "shutdown" /\ pc' = [pc EXCEPT ![p] = "draining"]
          /\ stopping' = stopping \cup {target[p]} /\ target[p] \in 1..current
          /\ UNCHANGED <<running, current, forced, handlerMu, gen, target, after, installed, cleanup, left, closing, exited>>
      BY <1>0, <1>1 DEF CallShutdown, At, Goto, ShutAt, calls, run, ending
    <2>2. ShutTyped' /\ ShutAt(p)'
      BY <1>0, <2>1 DEF ShutTyped, ShutAt
    <2> QED BY <1>0, <2>1, <2>2, ShutOthers, GenStep, HandlerStep DEF ShutInv
  <1>2. CASE Drained(p) \/ TimeOut(p)
    <2>1. /\ pc[p] = "draining" /\ Return(p) /\ forced' \subseteq forced \cup {target[p]} /\ target[p] \in stopping
          /\ UNCHANGED <<running, current, stopping, handlerMu, gen, installed, cleanup, left, closing, exited>>
      BY <1>0, <1>2 DEF Drained, TimeOut, At, ShutAt, server, run, ending
    <2>2. ShutTyped'
      BY <1>0, <2>1 DEF ShutTyped, Return, Resumes
    <2>3. pc'[p] \notin {"shutdown", "draining"}
      BY <1>0, <2>1 DEF ShutTyped, Return, Goto, Resumes
    <2>4. \A q \in Callers \ {p} : pc'[q] = pc[q] /\ target'[q] = target[q]
      BY <1>0, <2>1 DEF ShutTyped, Return, Goto
    <2> QED BY <1>0, <2>1, <2>2, <2>3, <2>4, ShutOthers, GenStep, HandlerStep DEF ShutInv, ShutAt
  <1> QED BY <1>1, <1>2 DEF Drain

\* A step of a goroutine that is in no shutdown before or after it.
LEMMA ShutMoves ==
  ASSUME ShutInv, [Next]_vars, NEW p \in Callers,
         \A q \in Callers \ {p} : pc'[q] = pc[q] /\ target'[q] = target[q],
         pc'[p] \notin {"shutdown", "draining"} \/ (pc'[p] = pc[p] /\ target'[p] = target[p]),
         UNCHANGED <<stopping, forced, after>>, gen' \in [Requests -> 0..MaxStarts],
         target' \in [Callers -> 0..MaxStarts], handlerMu' \in Requests \cup {Nobody},
         {installed', closing', exited'} \subseteq BOOLEAN, cleanup' \in 0..current', left' \in [Enders -> 0..current'],
         UNCHANGED <<running, current>> \/ (current' = current + 1 /\ current' \in Nat) \/ (~running' /\ current' = current)
  PROVE  ShutInv'
  <1>0. current \in Nat /\ current' \in Nat /\ current <= current' /\ (running' => current' # 0)
    BY ConstantsAssumption DEF ShutInv, GenInv, ShutTyped, ConstantsAssumption
  <1>1. ShutTyped'
    BY <1>0 DEF ShutInv, ShutTyped
  <1>2. ShutAt(p)'
    BY <1>0 DEF ShutInv, ShutAt
  <1> QED BY <1>0, <1>1, <1>2, ShutOthers, GenStep, HandlerStep DEF ShutInv

LEMMA ShutStarts ==
  ASSUME ShutInv, [Next]_vars, NEW p \in Callers, NEW label, Start(p, label),
         label = pc[p] \/ label = "started"
  PROVE  ShutInv'
  <1>0. ShutTyped /\ current \in Nat /\ pc \in [Callers -> Labels]
    BY ConstantsAssumption DEF ShutInv, GenInv, HandlerInv, ConstantsAssumption
  <1>1. /\ UNCHANGED <<stopping, forced, handlerMu, gen, target, after, installed, closing, exited>>
        /\ cleanup' \in 0..current' /\ left' \in [Enders -> 0..current']
        /\ current' = current + 1 /\ current' \in Nat
        /\ pc' = [pc EXCEPT ![p] = label]
    BY <1>0 DEF Start, calls, Goto, ShutTyped
  <1> QED BY <1>0, <1>1, ShutMoves DEF ShutTyped

LEMMA ShutStep == ShutInv /\ [Next]_vars => ShutInv'
  <1> SUFFICES ASSUME ShutInv, [Next]_vars PROVE ShutInv'
    OBVIOUS
  <1>0. /\ Script \in Callers /\ Signal \in Callers /\ Requests \subseteq Callers
        /\ ShutTyped /\ current \in 0..MaxStarts /\ 0 \in 0..MaxStarts /\ pc \in [Callers -> Labels]
    BY ConstantsAssumption DEF Callers, Enders, ConstantsAssumption, ShutInv, GenInv, HandlerInv
  <1>a. ASSUME UNCHANGED <<stopping, forced, handlerMu, gen, target, after, pc>>,
               {installed', closing', exited'} \subseteq BOOLEAN, cleanup' \in 0..current', left' \in [Enders -> 0..current'],
               UNCHANGED <<running, current>> \/ (~running' /\ current' = current)
        PROVE  ShutInv'
    BY <1>0, <1>a, ShutMoves DEF ShutTyped
  <1>1. CASE Script_
    <2>1. CASE Serve
      BY <1>0, <2>1, ShutStarts DEF Serve
    <2>2. CASE Block \/ Unblock
      <3>1. PICK g \in 0..MaxStarts : target' = [target EXCEPT ![Script] = g]
        BY <1>0, <2>2 DEF Block, Unblock
      <3>2. PICK l \in {"blocked", "script"} : pc' = [pc EXCEPT ![Script] = l]
        BY <2>2 DEF Block, Unblock, Goto
      <3>3. installed' \in BOOLEAN
        BY <2>2 DEF Block, Unblock
      <3>4. UNCHANGED <<running, current, stopping, forced, handlerMu, gen, after, cleanup, left, closing, exited>>
        BY <2>2 DEF Block, Unblock, server, ending
      <3> QED BY <1>0, <3>1, <3>2, <3>3, <3>4, ShutMoves DEF ShutTyped
    <2>3. CASE CancelServe
      BY <1>0, <2>3, ShutEnters DEF CancelServe, run, ending, ShutTyped, Resumes
    <2>4. CASE ScriptEnds
      BY <1>0, <2>4, ShutMoves DEF ScriptEnds, Goto, server, calls, run, ending, ShutTyped
    <2>5. CASE Close
      <3>0. 0 \in 0..current /\ current' = current
        BY <1>0, <2>5, ConstantsAssumption DEF Close, server, ConstantsAssumption
      <3>1. cleanup' \in 0..current' /\ left' \in [Enders -> 0..current']
        BY <1>0, <2>5, <3>0 DEF Close, ShutTyped
      <3>2. UNCHANGED <<running, current, stopping, forced, handlerMu, gen, target, after, pc, installed, exited>>
        BY <2>5 DEF Close, server, calls
      <3>3. {installed', closing', exited'} \subseteq BOOLEAN
        BY <1>0, <2>5, <3>2 DEF Close, ShutTyped
      <3> QED BY <3>1, <3>2, <3>3, <1>a
    <2> QED BY <1>1, <2>1, <2>2, <2>3, <2>4, <2>5 DEF Script_
  <1>2. CASE Interrupt
    <2>1. CASE EnterShutdown(Signal, "ending")
      BY <1>0, <1>2, <2>1, ShutEnters DEF Interrupt, run, ending, ShutTyped, Resumes
    <2>2. CASE Goto(Signal, "ending") /\ UNCHANGED <<target, after>>
      BY <1>0, <1>2, <2>2, ShutMoves DEF Interrupt, Goto, server, run, ending, ShutTyped
    <2> QED BY <1>2, <2>1, <2>2 DEF Interrupt
  <1>3. CASE Terminated \/ UNCHANGED vars
    BY <1>0, <1>3, <1>a DEF Terminated, vars, server, calls, run, ending, ShutTyped
  <1>4. ASSUME NEW p \in Requests \cup {Script}, ShutdownMethod(p) \/ Start(p, pc[p]) PROVE ShutInv'
    <2>1. CASE ShutdownMethod(p)
      <3>1. pc[p] \in Resumes /\ p \in Callers
        BY <1>0, <2>1 DEF ShutdownMethod, Calling, At, Resumes
      <3> QED BY <1>0, <2>1, <3>1, ShutEnters DEF ShutdownMethod, run, ending, ShutTyped
    <2>2. CASE Start(p, pc[p])
      BY <1>0, <2>2, ShutStarts
    <2> QED BY <1>4, <2>1, <2>2
  <1>5. ASSUME NEW p \in Callers, Drain(p) PROVE ShutInv'
    BY <1>5, ShutDrains
  <1>6. ASSUME NEW p \in Enders, End(p) PROVE ShutInv'
    <2>0. p \in Callers /\ left[p] \in 0..current /\ left \in [Enders -> 0..current]
      BY <1>0, <1>6 DEF Enders, Callers, ShutTyped
    <2>1. CASE RunCleanup(p)
      <3>1. left' \in [Enders -> 0..current]
        BY <1>0, <2>0, <2>1 DEF RunCleanup
      <3> QED BY <1>0, <2>0, <2>1, <3>1, ShutEnters DEF RunCleanup, Resumes
    <2>2. CASE TakeCleanup(p)
      BY <1>0, <2>0, <2>2, ShutMoves DEF TakeCleanup, Goto, server, calls, ShutTyped
    <2>3. CASE Exit(p)
      BY <1>0, <2>3, <1>a DEF Exit, server, calls, ShutTyped
    <2> QED BY <1>6, <2>1, <2>2, <2>3 DEF End
  <1>7. ASSUME NEW g \in Gens, Goroutine(g) PROVE ShutInv'
    BY <1>0, <1>7, <1>a DEF Goroutine, ServeReturns, MarkStopped, CloseDone, calls, run, ending, ShutTyped
  <1>8. ASSUME NEW r \in Requests, Request(r) PROVE ShutInv'
    <2>1. CASE Handle(r)
      BY <1>0, <2>1, ShutMoves DEF Handle, Goto, server, calls, run, ending, ShutTyped
    <2>3. CASE Answer(r) \/ Refuse(r)
      <3>1. Reply(r) /\ UNCHANGED <<server, target, after, run>> /\ handlerMu' \in Requests \cup {Nobody}
        BY <1>0, <2>3 DEF Answer, Refuse, ShutTyped
      <3>2. gen' \in [Requests -> 0..MaxStarts]
        BY <1>0, <3>1 DEF Reply, ShutTyped
      <3> QED BY <1>0, <3>1, <3>2, ShutMoves DEF Reply, Goto, server, run, ending, ShutTyped
    <2>2. ASSUME NEW g \in Gens, Accept(r, g) PROVE ShutInv'
      <3>1. gen' \in [Requests -> 0..MaxStarts]
        BY <1>0, <2>2, ConstantsAssumption DEF Accept, ShutTyped, Gens, ConstantsAssumption
      <3>2. /\ pc' = [pc EXCEPT ![r] = "accepted"] /\ r \in Callers
            /\ UNCHANGED <<running, current, stopping, forced, handlerMu, target, after, installed, cleanup, left, closing, exited>>
        BY <1>0, <2>2 DEF Accept, Goto, server, run, ending
      <3> QED BY <1>0, <3>1, <3>2, ShutMoves DEF ShutTyped
    <2> QED BY <1>8, <2>1, <2>2, <2>3 DEF Request
  <1> QED BY <1>1, <1>2, <1>3, <1>4, <1>5, <1>6, <1>7, <1>8 DEF Next

\* The type invariant: only generations that were started are shut down or cut, and a
\* goroutine exists for exactly those (startInternal, shutdownInternal).
THEOREM TypeCorrect == Spec => []TypeOK
  <1>1. Spec => []ShutInv
    BY ShutInit, ShutStep, PTL DEF Spec
  <1>2. ShutInv => TypeOK
    <2> SUFFICES ASSUME ShutInv PROVE TypeOK
      OBVIOUS
    <2>1. {running, installed, closing, exited} \subseteq BOOLEAN
      BY DEF ShutInv, ShutTyped, GenInv
    <2> QED BY <2>1 DEF ShutInv, ShutTyped, GenInv, HandlerInv, TypeOK, ServeStates
  <1> QED BY <1>1, <1>2, PTL

-----------------------------------------------------------------------------
(* The end of the run.                                                     *)

\* A generation is in Serve until it is told to stop, and accepts nothing before it
\* was started.
Begun ==
  /\ gen \in [Requests -> 0..current]
  /\ \A g \in 1..current : g \in stopping \/ serving[g] = "serving"

\* Who has entries of the list left is running them.
TakersAt(p) ==
  left[p] > 0 => \/ pc[p] = "cleaning"
                 \/ pc[p] \in {"shutdown", "draining"} /\ after[p] = "cleaning"

\* A cleanup is registered, or taken and not run.
Owed == cleanup > 0 \/ \E p \in Enders : left[p] > 0

\* The server that serves is about to be told to stop, or will be by a cleanup.
Served ==
  running /\ current \notin stopping =>
    Owed \/ \E p \in Callers : pc[p] = "shutdown" /\ target[p] = current

\* A generation that was told to stop has somebody who waits for its requests.
DrainingAt(g) ==
  g \in stopping /\ Active(g) # {} /\ g \notin forced =>
    \E p \in Callers : pc[p] = "draining" /\ target[p] = g

BehindInv ==
  ShutInv /\ Begun /\ (\A p \in Enders : TakersAt(p)) /\ Served /\ \A g \in Gens : DrainingAt(g)

\* What the steps use of the invariant.
LEMMA BehindFacts ==
  ASSUME BehindInv
  PROVE  /\ Script \in Callers /\ Signal \in Callers /\ Requests \subseteq Callers /\ Enders \subseteq Callers
         /\ Script \in Enders /\ Signal \in Enders /\ Script # Signal
         /\ Script \notin Requests /\ Signal \notin Requests
         /\ running \in BOOLEAN /\ current \in 0..MaxStarts /\ current \in Nat /\ MaxStarts \in Nat
         /\ serving \in [Gens -> ServeStates] /\ stopping \subseteq 1..current /\ forced \subseteq stopping
         /\ cleanup \in Nat /\ left \in [Enders -> Nat]
         /\ pc \in [Callers -> Labels] /\ after \in [Callers -> Resumes] /\ target \in [Callers -> 0..MaxStarts]
  <1>1. \A n \in 0..current : n \in Nat
    BY ConstantsAssumption DEF BehindInv, ShutInv, GenInv, ConstantsAssumption
  <1> QED BY <1>1, ConstantsAssumption
          DEF BehindInv, ShutInv, GenInv, HandlerInv, ShutTyped, Callers, Enders, ConstantsAssumption

LEMMA BehindInit == Init => BehindInv
  <1> SUFFICES ASSUME Init PROVE Begun /\ (\A p \in Enders : TakersAt(p)) /\ Served /\ \A g \in Gens : DrainingAt(g)
    BY ShutInit DEF BehindInv
  <1>1. current = 0 /\ 1..0 = {} /\ 0 \in 0..0
    BY DEF Init
  <1>2. Begun
    BY <1>1 DEF Init, Begun
  <1> QED BY <1>2 DEF Init, TakersAt, Served, DrainingAt

LEMMA BegunStep == ASSUME BehindInv, [Next]_vars PROVE Begun'
  <1> USE BehindFacts
  <1>1. Begun /\ \A g \in Gens : serving[g] = "none" <=> g > current
    BY DEF BehindInv, ShutInv, GenInv
  <1>2. UNCHANGED <<gen, current, serving>> /\ stopping \subseteq stopping' => Begun'
    BY <1>1 DEF Begun
  <1>3. ASSUME NEW p, NEW label, Start(p, label) PROVE Begun'
    <2>1. current' = current + 1 /\ current + 1 \in Gens /\ UNCHANGED <<gen, stopping>>
      BY <1>3 DEF Start, calls, Gens
    <2>2. serving' = [serving EXCEPT ![current + 1] = "serving"]
      BY <1>3 DEF Start
    <2>3. gen' \in [Requests -> 0..current']
      BY <1>1, <2>1 DEF Begun
    <2>4. \A g \in 1..current' : g \in stopping' \/ serving'[g] = "serving"
      BY <1>1, <2>1, <2>2 DEF Begun, Gens
    <2> QED BY <2>3, <2>4 DEF Begun
  <1>4. CASE Script_
    BY <1>2, <1>3, <1>4 DEF Script_, Serve, Block, Unblock, CancelServe, ScriptEnds, Close, calls, server
  <1>5. CASE Interrupt \/ Terminated \/ UNCHANGED vars
    BY <1>2, <1>5 DEF Interrupt, Terminated, vars, calls, server
  <1>6. ASSUME NEW p \in Requests \cup {Script}, ShutdownMethod(p) \/ Start(p, pc[p]) PROVE Begun'
    BY <1>2, <1>3, <1>6 DEF ShutdownMethod, server
  <1>7. ASSUME NEW p \in Callers, Drain(p) PROVE Begun'
    BY <1>2, <1>7 DEF Drain, CallShutdown, Drained, TimeOut, calls, server
  <1>8. ASSUME NEW p \in Enders, End(p) PROVE Begun'
    BY <1>2, <1>8 DEF End, TakeCleanup, RunCleanup, Exit, calls, server
  <1>9. ASSUME NEW g \in Gens, Goroutine(g) PROVE Begun'
    <2>1. UNCHANGED <<gen, current, stopping>> /\ serving' = [serving EXCEPT ![g] = serving'[g]]
      BY <1>9 DEF Goroutine, ServeReturns, MarkStopped, CloseDone, calls
    <2>2. serving[g] # "none" /\ (serving[g] # "serving" \/ g \in stopping)
      BY <1>9 DEF Goroutine, ServeReturns, MarkStopped, CloseDone
    <2>3. g \in stopping
      BY <1>1, <2>2 DEF Begun, Gens
    <2> QED BY <1>1, <2>1, <2>3 DEF Begun, Gens
  <1>10. ASSUME NEW r \in Requests, Request(r) PROVE Begun'
    <2>1. CASE Handle(r)
      BY <1>2, <2>1 DEF Handle, calls, server
    <2>2. CASE Answer(r) \/ Refuse(r)
      <3>1. UNCHANGED <<current, serving, stopping>> /\ gen' = [gen EXCEPT ![r] = 0]
        BY <2>2 DEF Answer, Refuse, Reply, server
      <3> QED BY <1>1, <3>1 DEF Begun
    <2>3. ASSUME NEW g \in Gens, Accept(r, g) PROVE Begun'
      <3>1. UNCHANGED <<current, serving, stopping>> /\ gen' = [gen EXCEPT ![r] = g] /\ serving[g] = "serving"
        BY <2>3 DEF Accept, Accepting, server
      <3>2. g \in 0..current
        BY <1>1, <3>1 DEF Gens
      <3> QED BY <1>1, <3>1, <3>2 DEF Begun
    <2> QED BY <1>10, <2>1, <2>2, <2>3 DEF Request
  <1> QED BY <1>4, <1>5, <1>6, <1>7, <1>8, <1>9, <1>10 DEF Next

LEMMA TakersStep == ASSUME BehindInv, [Next]_vars, NEW p \in Enders PROVE TakersAt(p)'
  <1> USE BehindFacts DEF TakersAt, Goto, At
  <1>1. TakersAt(p)
    BY DEF BehindInv
  <1>2. UNCHANGED left /\ pc'[p] = pc[p] /\ after'[p] = after[p] => TakersAt(p)'
    BY <1>1
  <1>3. ASSUME NEW q \in Callers, NEW label, EnterShutdown(q, label), UNCHANGED left,
               q = p => pc[p] \notin {"cleaning", "shutdown", "draining"}
        PROVE  TakersAt(p)'
    BY <1>1, <1>3 DEF EnterShutdown
  <1>4. CASE Script_
    <2>1. CASE CancelServe
      BY <2>1, <1>3 DEF CancelServe, run, ending
    <2>2. CASE Close
      BY <2>2, <1>1 DEF Close, Cleaned, calls
    <2>3. CASE Serve \/ Block \/ Unblock \/ ScriptEnds
      BY <2>3, <1>1 DEF Serve, Start, Calling, Block, Unblock, ScriptEnds, calls, run, ending
    <2> QED BY <1>4, <2>1, <2>2, <2>3 DEF Script_
  <1>5. CASE Interrupt
    BY <1>1, <1>3, <1>5 DEF Interrupt, run, ending
  <1>6. CASE Terminated \/ UNCHANGED vars
    BY <1>2, <1>6 DEF Terminated, vars, calls, run, ending
  <1>7. ASSUME NEW q \in Requests \cup {Script}, ShutdownMethod(q) \/ Start(q, pc[q]) PROVE TakersAt(p)'
    BY <1>1, <1>3, <1>7 DEF ShutdownMethod, Start, Calling, calls, run, ending
  <1>8. ASSUME NEW q \in Callers, Drain(q) PROVE TakersAt(p)'
    BY <1>1, <1>8 DEF Drain, CallShutdown, Drained, TimeOut, Return, calls, run, ending
  <1>9. ASSUME NEW q \in Enders, End(q) PROVE TakersAt(p)'
    <2>1. CASE TakeCleanup(q)
      BY <1>1, <2>1 DEF TakeCleanup, calls
    <2>2. CASE RunCleanup(q)
      BY <1>1, <2>2 DEF RunCleanup, EnterShutdown
    <2>3. CASE Exit(q)
      BY <1>2, <2>3 DEF Exit, calls
    <2> QED BY <1>9, <2>1, <2>2, <2>3 DEF End
  <1>10. ASSUME NEW g \in Gens, Goroutine(g) PROVE TakersAt(p)'
    BY <1>2, <1>10 DEF Goroutine, ServeReturns, MarkStopped, CloseDone, calls, run, ending
  <1>11. ASSUME NEW r \in Requests, Request(r) PROVE TakersAt(p)'
    <2>1. r # p
      BY DEF Enders
    <2> QED BY <1>2, <1>11, <2>1 DEF Request, Handle, Answer, Refuse, Accept, Reply, calls, run, ending
  <1> QED BY <1>4, <1>5, <1>6, <1>7, <1>8, <1>9, <1>10, <1>11 DEF Next

\* The goroutine about to stop the server is still there after a step of another one,
\* or of its own that is not the call of srv.Shutdown.
LEMMA ServedKeep ==
  ASSUME BehindInv, running' => running, current' = current, stopping \subseteq stopping', Owed => Owed',
         \A p \in Callers : pc[p] = "shutdown" => pc'[p] = "shutdown" /\ target'[p] = target[p]
  PROVE  Served'
  BY DEF BehindInv, Served

LEMMA ServedEnters ==
  ASSUME BehindInv, NEW p \in Callers, NEW label, EnterShutdown(p, label), UNCHANGED server
  PROVE  Served'
  <1>1. CASE ~running
    BY <1>1 DEF Served, server
  <1>2. CASE running
    <2>1. pc'[p] = "shutdown" /\ target'[p] = current'
      BY <1>2, BehindFacts DEF EnterShutdown, Goto, server
    <2> QED BY <2>1 DEF Served
  <1> QED BY <1>1, <1>2

LEMMA ServedStep == ASSUME BehindInv, [Next]_vars PROVE Served'
  <1> USE BehindFacts DEF At, Goto
  <1>1. ASSUME NEW p, NEW label, Start(p, label) PROVE Served'
    BY <1>1 DEF Start, Served, Owed
  <1>2. CASE Script_
    <2>1. CASE Serve
      BY <2>1, <1>1 DEF Serve
    <2>2. CASE CancelServe
      BY <2>2, ServedEnters DEF CancelServe
    <2>3. CASE Close
      <3>1. Owed => Owed'
        BY <2>3 DEF Close, Cleaned, Owed
      <3> QED BY <2>3, <3>1, ServedKeep DEF Close, server, calls
    <2>4. CASE Block \/ Unblock \/ ScriptEnds
      <3>1. Owed => Owed'
        BY <2>4 DEF Block, Unblock, ScriptEnds, run, ending, Owed
      <3> QED BY <2>4, <3>1, ServedKeep DEF Block, Unblock, ScriptEnds, server, calls
    <2> QED BY <1>2, <2>1, <2>2, <2>3, <2>4 DEF Script_
  <1>3. CASE Interrupt
    <2>1. CASE EnterShutdown(Signal, "ending")
      BY <1>3, <2>1, ServedEnters DEF Interrupt
    <2>2. CASE Goto(Signal, "ending") /\ UNCHANGED <<target, after>>
      <3>1. Owed => Owed'
        BY <1>3 DEF Interrupt, run, ending, Owed
      <3> QED BY <1>3, <2>2, <3>1, ServedKeep DEF Interrupt, server
    <2> QED BY <1>3, <2>1, <2>2 DEF Interrupt
  <1>4. CASE Terminated \/ UNCHANGED vars
    <2>1. Owed => Owed'
      BY <1>4 DEF Terminated, vars, run, ending, Owed
    <2> QED BY <1>4, <2>1, ServedKeep DEF Terminated, vars, server, calls
  <1>5. ASSUME NEW p \in Requests \cup {Script}, ShutdownMethod(p) \/ Start(p, pc[p]) PROVE Served'
    BY <1>1, <1>5, ServedEnters DEF ShutdownMethod
  <1>6. ASSUME NEW p \in Callers, Drain(p) PROVE Served'
    <2>0. Owed => Owed'
      BY <1>6 DEF Drain, CallShutdown, Drained, TimeOut, run, ending, Owed
    <2>1. CASE CallShutdown(p)
      <3>1. /\ pc[p] = "shutdown" /\ stopping' = stopping \cup {target[p]}
            /\ pc' = [pc EXCEPT ![p] = "draining"] /\ UNCHANGED <<running, current, target>>
        BY <2>1 DEF CallShutdown, calls
      <3>2. CASE target[p] = current
        BY <3>1, <3>2 DEF Served
      <3>3. CASE target[p] # current
        BY <2>0, <3>1, <3>3 DEF BehindInv, Served
      <3> QED BY <3>2, <3>3
    <2>2. CASE Drained(p) \/ TimeOut(p)
      BY <2>0, <2>2, ServedKeep DEF Drained, TimeOut, Return, server
    <2> QED BY <1>6, <2>1, <2>2 DEF Drain
  <1>7. ASSUME NEW p \in Enders, End(p) PROVE Served'
    <2>1. CASE TakeCleanup(p)
      <3>0. pc[p] = "ending" /\ left[p] \in Nat
        BY <2>1 DEF TakeCleanup
      <3>1. left[p] = 0
        BY <1>7, <3>0 DEF BehindInv, TakersAt
      <3>2. Owed => Owed'
        BY <2>1, <3>1 DEF TakeCleanup, Owed
      <3> QED BY <2>1, <3>2, ServedKeep DEF TakeCleanup, server, calls
    <2>2. CASE RunCleanup(p)
      BY <1>7, <2>2, ServedEnters DEF RunCleanup
    <2>3. CASE Exit(p)
      <3>1. Owed => Owed'
        BY <2>3 DEF Exit, Owed
      <3> QED BY <2>3, <3>1, ServedKeep DEF Exit, server, calls
    <2> QED BY <1>7, <2>1, <2>2, <2>3 DEF End
  <1>8. ASSUME NEW g \in Gens, Goroutine(g) PROVE Served'
    <2>1. Owed => Owed'
      BY <1>8 DEF Goroutine, ServeReturns, MarkStopped, CloseDone, run, ending, Owed
    <2> QED BY <1>8, <2>1, ServedKeep DEF Goroutine, ServeReturns, MarkStopped, CloseDone, calls
  <1>9. ASSUME NEW r \in Requests, Request(r) PROVE Served'
    <2>1. Owed => Owed'
      BY <1>9 DEF Request, Handle, Answer, Refuse, Accept, run, ending, Owed
    <2> QED BY <1>9, <2>1, ServedKeep DEF Request, Handle, Answer, Refuse, Accept, Reply, server, calls
  <1> QED BY <1>2, <1>3, <1>4, <1>5, <1>6, <1>7, <1>8, <1>9 DEF Next

\* A step in which nobody stops waiting and no generation that is told to stop gets a
\* request.
LEMMA DrainingKeep ==
  ASSUME BehindInv, NEW g \in Gens, stopping' = stopping, forced \subseteq forced',
         g \in stopping => \A r \in Requests : gen'[r] = g => gen[r] = g,
         \A p \in Callers : pc[p] = "draining" => pc'[p] = "draining" /\ target'[p] = target[p]
  PROVE  DrainingAt(g)'
  BY DEF BehindInv, DrainingAt, Active

LEMMA DrainingStep == ASSUME BehindInv, [Next]_vars, NEW g \in Gens PROVE DrainingAt(g)'
  <1> USE BehindFacts DEF At, Goto
  <1>1. Begun /\ DrainingAt(g)
    BY DEF BehindInv
  <1>2. ASSUME NEW p \in Callers, NEW label, Start(p, label) PROVE DrainingAt(g)'
    BY <1>2, DrainingKeep DEF Start, Calling, calls
  <1>3. ASSUME NEW p \in Callers, NEW label, pc[p] # "draining", EnterShutdown(p, label), UNCHANGED <<server, gen>>
        PROVE  DrainingAt(g)'
    BY <1>3, DrainingKeep DEF EnterShutdown, server
  <1>4. CASE Script_
    <2>1. CASE Serve
      BY <2>1, <1>2 DEF Serve
    <2>2. CASE CancelServe
      BY <2>2, <1>3 DEF CancelServe
    <2>3. CASE Block \/ Unblock \/ ScriptEnds \/ Close
      BY <2>3, DrainingKeep DEF Block, Unblock, ScriptEnds, Close, calls, server
    <2> QED BY <1>4, <2>1, <2>2, <2>3 DEF Script_
  <1>5. CASE Interrupt
    <2>1. CASE EnterShutdown(Signal, "ending")
      BY <1>3, <1>5, <2>1 DEF Interrupt
    <2>2. CASE Goto(Signal, "ending") /\ UNCHANGED <<target, after>>
      BY <1>5, <2>2, DrainingKeep DEF Interrupt, server
    <2> QED BY <1>5, <2>1, <2>2 DEF Interrupt
  <1>6. CASE Terminated \/ UNCHANGED vars
    BY <1>6, DrainingKeep DEF Terminated, vars, server, calls
  <1>7. ASSUME NEW p \in Requests \cup {Script}, ShutdownMethod(p) \/ Start(p, pc[p]) PROVE DrainingAt(g)'
    BY <1>2, <1>3, <1>7 DEF ShutdownMethod, Calling
  <1>8. ASSUME NEW p \in Callers, Drain(p) PROVE DrainingAt(g)'
    <2>1. CASE CallShutdown(p)
      <3>1. /\ pc[p] = "shutdown" /\ stopping' = stopping \cup {target[p]}
            /\ pc' = [pc EXCEPT ![p] = "draining"] /\ UNCHANGED <<forced, gen, target>>
        BY <2>1 DEF CallShutdown, calls
      <3>2. CASE target[p] = g
        BY <3>1, <3>2 DEF DrainingAt
      <3>3. CASE target[p] # g
        BY <1>1, <3>1, <3>3 DEF DrainingAt, Active
      <3> QED BY <3>2, <3>3
    <2>2. CASE Drained(p) \/ TimeOut(p)
      <3>1. /\ UNCHANGED <<stopping, gen>> /\ forced \subseteq forced'
            /\ \A q \in Callers \ {p} : pc'[q] = pc[q] /\ target'[q] = target[q]
        BY <2>2 DEF Drained, TimeOut, Return, server
      <3>2. CASE target[p] = g
        <4>1. Active(g) = {} \/ g \in forced'
          BY <2>2, <3>2 DEF Drained, TimeOut
        <4> QED BY <3>1, <4>1 DEF DrainingAt, Active
      <3>3. CASE target[p] # g
        BY <1>1, <3>1, <3>3 DEF DrainingAt, Active
      <3> QED BY <3>2, <3>3
    <2> QED BY <1>8, <2>1, <2>2 DEF Drain
  <1>9. ASSUME NEW p \in Enders, End(p) PROVE DrainingAt(g)'
    <2>1. CASE RunCleanup(p)
      BY <1>3, <1>9, <2>1 DEF RunCleanup
    <2>2. CASE TakeCleanup(p) \/ Exit(p)
      BY <2>2, DrainingKeep DEF TakeCleanup, Exit, server, calls
    <2> QED BY <1>9, <2>1, <2>2 DEF End
  <1>10. ASSUME NEW h \in Gens, Goroutine(h) PROVE DrainingAt(g)'
    BY <1>10, DrainingKeep DEF Goroutine, ServeReturns, MarkStopped, CloseDone, calls
  <1>11. ASSUME NEW r \in Requests, Request(r) PROVE DrainingAt(g)'
    <2>0. g # 0 /\ r \in Callers /\ gen \in [Requests -> 0..current]
      BY <1>1 DEF Gens, Begun
    <2>1. CASE Handle(r) \/ Answer(r) \/ Refuse(r)
      BY <2>0, <2>1, DrainingKeep DEF Handle, Answer, Refuse, Reply, server, calls
    <2>2. ASSUME NEW h \in Gens, Accept(r, h) PROVE DrainingAt(g)'
      BY <2>0, <2>2, DrainingKeep DEF Accept, Accepting, server
    <2> QED BY <1>11, <2>1, <2>2 DEF Request
  <1> QED BY <1>4, <1>5, <1>6, <1>7, <1>8, <1>9, <1>10, <1>11 DEF Next

LEMMA BehindStep == BehindInv /\ [Next]_vars => BehindInv'
  BY ShutStep, BegunStep, TakersStep, ServedStep, DrainingStep DEF BehindInv

\* What serves or answers is being shut down or is owed it.
LEMMA BehindImplies == BehindInv => NeverLeftBehind
  <1> SUFFICES ASSUME BehindInv, NEW g \in Gens, Accepting(g) \/ (Active(g) # {} /\ g \notin forced)
               PROVE  \/ ShuttingDown(g) # {}
                      \/ g = current /\ (cleanup > 0 \/ \E p \in Enders : left[p] > 0)
    BY DEF NeverLeftBehind
  <1> USE BehindFacts
  <1>1. Begun /\ Served /\ DrainingAt(g) /\ RunningMeansServing /\ \A h \in Gens : serving[h] = "none" <=> h > current
    BY DEF BehindInv, ShutInv, GenInv
  <1>2. CASE g \in stopping
    BY <1>1, <1>2 DEF Accepting, DrainingAt, ShuttingDown
  <1>3. CASE g \notin stopping
    <2>1. g \in 1..current
      BY <1>1, <1>3 DEF Accepting, Active, Begun, Gens
    <2>2. serving[g] = "serving"
      BY <1>1, <1>3, <2>1 DEF Begun
    <2>3. running /\ g = current
      BY <1>1, <2>2 DEF RunningMeansServing
    <2> QED BY <1>1, <1>3, <2>3 DEF Served, Owed, ShuttingDown
  <1> QED BY <1>2, <1>3

\* No generation is left behind: while it takes connections or has a request in flight
\* that was not cut, somebody is shutting it down or its cleanup is still to come
\* (startInternal's RegisterCleanup, shutdownInternal, runGoCleanups).
THEOREM BehindCorrect == Spec => []NeverLeftBehind
  <1>1. Spec => []BehindInv
    BY BehindInit, BehindStep, PTL DEF Spec
  <1> QED BY <1>1, BehindImplies, PTL
=============================================================================
