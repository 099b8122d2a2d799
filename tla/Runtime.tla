------------------------------- MODULE Runtime -------------------------------
(***************************************************************************)
(* One run of a script (libkite/runtime.go, signals.go, builtins.go): the  *)
(* goroutine that executes the script and then its defer() functions and   *)
(* Go cleanups, the signal goroutine that may run the same lists and exit  *)
(* the process, and the callbacks of servers and controllers the script    *)
(* started, which take one of three mutexes around Starlark code.          *)
(***************************************************************************)
EXTENDS Naturals, FiniteSets, SequencesExt

CONSTANTS
  Defers,         \* Starlark functions given to defer()
  Cleanups,       \* Go functions given to AddCleanup (databases, servers)
  Signals,        \* signals that may arrive
  OnSignalNames,  \* names the script passes to on_signal()
  ToolCalls,      \* callbacks whose thread has a runtime: MCP tools, rt.Call
  ControlCalls,   \* callbacks whose thread has none: controllers, webhooks
  HttpCalls,      \* http.server handlers
  FilterCalls,    \* callbacks that call inventory.filter with a function
  MaxSignals      \* bound: signals sent

SignalNames == {"interrupt", "terminated", "hangup"}     \* os.Signal.String()
Tasks       == Defers \cup Cleanups
Calls       == ToolCalls \cup ControlCalls \cup HttpCalls
Runners     == {"main", "signals"}
Mutexes     == {"callMu", "fallbackCallMu", "handlerMu"}
Nobody      == "nobody"

ASSUME ConstantsAssumption ==
  /\ IsFiniteSet(Tasks) /\ Defers \cap Cleanups = {}
  /\ Signals \subseteq SignalNames
  /\ Calls \cap (Runners \cup {Nobody}) = {}
  /\ ToolCalls \cap (ControlCalls \cup HttpCalls) = {} /\ ControlCalls \cap HttpCalls = {}
  /\ FilterCalls \subseteq Calls /\ MaxSignals \in Nat

VARIABLES
  deferredFuncs, goCleanups,   \* lists of the runtime, oldest first
  pc,              \* where each runner is
  todo,            \* what a runner took off a list and has not finished, next first
  closing,         \* whether main has left Execute and is in Close
  hooked,          \* whether signalChan is set: signals go to the channel
  signalChan,      \* the channel, of capacity 1
  got,             \* the signal in the hands of the signal goroutine
  signalHandlers,  \* names on_signal() stored a handler under
  held,            \* who holds each mutex
  call,            \* state of each callback
  exit,            \* "running", or what ended the process
  sent,            \* signals sent so far
  \* history, read by the properties only
  registered,      \* tasks in the order they were registered
  runs,            \* how often each task was started
  ended,           \* tasks that were run to their end
  late             \* those registered after main took their list for the last time

lists   == <<deferredFuncs, goCleanups>>
hook    == <<hooked, signalChan, got, signalHandlers>>
history == <<registered, runs, ended, late>>
vars    == <<lists, pc, todo, closing, hook, held, call, exit, sent, history>>

Init ==
  /\ deferredFuncs = <<>> /\ goCleanups = <<>>
  /\ pc = [r \in Runners |-> IF r = "main" THEN "new" ELSE "none"]
  /\ todo = [r \in Runners |-> <<>>] /\ closing = FALSE
  /\ hooked = FALSE /\ signalChan = <<>> /\ got = "none" /\ signalHandlers = {}
  /\ held = [m \in Mutexes |-> Nobody] /\ call = [c \in Calls |-> "idle"]
  /\ exit = "running" /\ sent = 0
  /\ registered = <<>> /\ runs = [t \in Tasks |-> 0] /\ ended = {}
  /\ late = {}

At(r, label)   == exit = "running" /\ pc[r] = label
Goto(r, label) == pc' = [pc EXCEPT ![r] = label]
Lock(m, who)   == held[m] = Nobody /\ held' = [held EXCEPT ![m] = who]
Unlock(m)      == held' = [held EXCEPT ![m] = Nobody]

-----------------------------------------------------------------------------
(* The script.                                                             *)

\* setupSignalHandling, then the top-level code and main() run without a mutex.
Setup ==
  /\ At("main", "new")
  /\ pc' = [main |-> "body", signals |-> "idle"] /\ hooked' = TRUE
  /\ UNCHANGED <<lists, todo, closing, signalChan, got, signalHandlers, held, call, exit, sent, history>>

\* Starlark code runs in the script's body, in what a runner calls and in callbacks.
RunsCode  == At("main", "body") \/ \E r \in Runners : At(r, "inDefer") \/ At(r, "inHandler")
CallsBack(cs) == exit = "running" /\ \E c \in cs : call[c] \in {"running", "filtering"}

\* Main takes the deferred functions once, and the cleanups a second time in Close.
TooLate(t) ==
  IF t \in Defers THEN pc["main"] \notin {"body", "take"}
                  ELSE closing /\ pc["main"] # "close"

\* defer() works on every thread, for it is a closure over the runtime; a cleanup is
\* registered through the runtime of the thread, which controllers do not have.
Register(t) ==
  /\ RunsCode \/ CallsBack(IF t \in Defers THEN Calls ELSE Calls \ ControlCalls)
  /\ t \notin ToSet(registered) /\ registered' = Append(registered, t)
  /\ late' = IF TooLate(t) THEN late \cup {t} ELSE late
  /\ IF t \in Defers
     THEN deferredFuncs' = Append(deferredFuncs, t) /\ UNCHANGED goCleanups
     ELSE goCleanups' = Append(goCleanups, t) /\ UNCHANGED deferredFuncs
  /\ UNCHANGED <<pc, todo, closing, hook, held, call, exit, sent, runs, ended>>

\* The handler is stored under the name as the script spells it, on any thread.
OnSignal(n) ==
  /\ RunsCode \/ CallsBack(Calls)
  /\ n \notin signalHandlers /\ signalHandlers' = signalHandlers \cup {n}
  /\ UNCHANGED <<lists, pc, todo, closing, hooked, signalChan, got, held, call, exit, sent, history>>

\* The script returns, fails or calls exit(); the rest of Execute runs.
EndBody ==
  /\ At("main", "body") /\ Goto("main", "take")
  /\ UNCHANGED <<lists, todo, closing, hook, held, call, exit, sent, history>>

-----------------------------------------------------------------------------
(* runDeferred and runGoCleanups, on the script's goroutine or the signal's. *)

\* Mutants: the list stays in place, or is walked forwards.
TakeDeferredKeepsList(r) ==
  /\ At(r, "take") /\ Goto(r, "defers")
  /\ todo' = [todo EXCEPT ![r] = Reverse(deferredFuncs)]
  /\ UNCHANGED <<lists, closing, hook, held, call, exit, sent, history>>

TakeDeferredForwards(r) ==
  /\ At(r, "take") /\ Goto(r, "defers")
  /\ todo' = [todo EXCEPT ![r] = deferredFuncs]
  /\ deferredFuncs' = <<>>
  /\ UNCHANGED <<goCleanups, closing, hook, held, call, exit, sent, history>>

TakeDeferred(r) ==
  /\ At(r, "take") /\ Goto(r, "defers")
  /\ todo' = [todo EXCEPT ![r] = Reverse(deferredFuncs)]
  /\ deferredFuncs' = <<>>
  /\ UNCHANGED <<goCleanups, closing, hook, held, call, exit, sent, history>>

\* CallSafe on the "defer" thread, which has the runtime.
StartDefer(r) ==
  /\ At(r, "defers") /\ todo[r] # <<>>
  /\ Lock("callMu", r) /\ Goto(r, "inDefer")
  /\ runs' = [runs EXCEPT ![Head(todo[r])] = @ + 1]
  /\ UNCHANGED <<lists, todo, closing, hook, call, exit, sent, registered, ended, late>>

\* Mutant: the mutex is not released.
EndDeferKeepsMutex(r) ==
  /\ At(r, "inDefer") /\ Goto(r, "defers")
  /\ ended' = ended \cup {Head(todo[r])} /\ todo' = [todo EXCEPT ![r] = Tail(@)]
  /\ UNCHANGED <<lists, closing, hook, held, call, exit, sent, registered, runs, late>>

EndDefer(r) ==
  /\ At(r, "inDefer") /\ Unlock("callMu") /\ Goto(r, "defers")
  /\ ended' = ended \cup {Head(todo[r])} /\ todo' = [todo EXCEPT ![r] = Tail(@)]
  /\ UNCHANGED <<lists, closing, hook, call, exit, sent, registered, runs, late>>

TakeCleanups(r) ==
  /\ At(r, "close") \/ (At(r, "defers") /\ todo[r] = <<>>)
  /\ Goto(r, "cleanups")
  /\ todo' = [todo EXCEPT ![r] = Reverse(goCleanups)] /\ goCleanups' = <<>>
  /\ UNCHANGED <<deferredFuncs, closing, hook, held, call, exit, sent, history>>

StartCleanup(r) ==
  /\ At(r, "cleanups") /\ todo[r] # <<>> /\ Goto(r, "inCleanup")
  /\ runs' = [runs EXCEPT ![Head(todo[r])] = @ + 1]
  /\ UNCHANGED <<lists, todo, closing, hook, held, call, exit, sent, registered, ended, late>>

EndCleanup(r) ==
  /\ At(r, "inCleanup") /\ Goto(r, "cleanups")
  /\ ended' = ended \cup {Head(todo[r])} /\ todo' = [todo EXCEPT ![r] = Tail(@)]
  /\ UNCHANGED <<lists, closing, hook, held, call, exit, sent, registered, runs, late>>

AllTaken(r) == At(r, "cleanups") /\ todo[r] = <<>>

\* Execute returns: stopSignalHandling stops and closes the channel.  Then the
\* command's deferred Close runs what cleanups are left.
Stop ==
  /\ AllTaken("main") /\ ~closing /\ closing' = TRUE
  /\ hooked' = FALSE /\ Goto("main", "close")
  /\ UNCHANGED <<lists, todo, signalChan, got, signalHandlers, held, call, exit, sent, history>>

MainExits ==
  /\ AllTaken("main") /\ closing /\ exit' = "main"
  /\ UNCHANGED <<lists, pc, todo, closing, hook, held, call, sent, history>>

\* os.Exit for SIGINT and SIGTERM; after a SIGHUP the script goes on.
SignalDone ==
  /\ AllTaken("signals") /\ got' = "none"
  /\ IF got = "hangup"
     THEN Goto("signals", "idle") /\ UNCHANGED exit
     ELSE exit' = "signal" /\ UNCHANGED pc
  /\ UNCHANGED <<lists, todo, closing, hooked, signalChan, signalHandlers, held, call, sent, history>>

-----------------------------------------------------------------------------
(* Signals.                                                                *)

\* Mutant: the channel is unbounded.
SignalAlwaysQueued(s) ==
  /\ exit = "running" /\ sent < MaxSignals /\ sent' = sent + 1
  /\ IF hooked
     THEN signalChan' = Append(signalChan, s) /\ UNCHANGED exit
     ELSE exit' = "default" /\ UNCHANGED signalChan
  /\ UNCHANGED <<lists, pc, todo, closing, hooked, got, signalHandlers, held, call, history>>

\* The runtime's channel gets a signal if it has room; nothing is queued behind
\* it.  Without a channel the default action of all three ends the process.
Signal(s) ==
  /\ exit = "running" /\ sent < MaxSignals /\ sent' = sent + 1
  /\ IF hooked
     THEN /\ signalChan' = IF signalChan = <<>> THEN <<s>> ELSE signalChan
          /\ UNCHANGED exit
     ELSE exit' = "default" /\ UNCHANGED signalChan
  /\ UNCHANGED <<lists, pc, todo, closing, hooked, got, signalHandlers, held, call, history>>

\* handleSignal looks the handler up under the signal's String().
Receive ==
  /\ At("signals", "idle") /\ signalChan # <<>>
  /\ got' = Head(signalChan) /\ signalChan' = <<>>
  /\ Goto("signals", IF Head(signalChan) \in signalHandlers THEN "handler" ELSE "take")
  /\ UNCHANGED <<lists, todo, closing, hooked, signalHandlers, held, call, exit, sent, history>>

\* The channel was closed and is empty: the goroutine's loop ends.
SignalsEnd ==
  /\ At("signals", "idle") /\ ~hooked /\ signalChan = <<>> /\ Goto("signals", "none")
  /\ UNCHANGED <<lists, todo, closing, hook, held, call, exit, sent, history>>

\* Mutant: the handler is called with starlark.Call.
StartHandlerUnlocked ==
  /\ At("signals", "handler") /\ Goto("signals", "inHandler")
  /\ UNCHANGED <<lists, todo, closing, hook, held, call, exit, sent, history>>

StartHandler ==
  /\ At("signals", "handler") /\ Lock("callMu", "signals") /\ Goto("signals", "inHandler")
  /\ UNCHANGED <<lists, todo, closing, hook, call, exit, sent, history>>

\* Mutant: the mutex is not released.
EndHandlerKeepsMutex ==
  /\ At("signals", "inHandler") /\ Goto("signals", "take")
  /\ UNCHANGED <<lists, todo, closing, hook, held, call, exit, sent, history>>

EndHandler ==
  /\ At("signals", "inHandler") /\ Unlock("callMu") /\ Goto("signals", "take")
  /\ UNCHANGED <<lists, todo, closing, hook, call, exit, sent, history>>

-----------------------------------------------------------------------------
(* Callbacks.                                                              *)

\* The mutex CallSafe takes for a function called on the callback's thread.
CallSafeMutex(c) == IF c \in ControlCalls THEN "fallbackCallMu" ELSE "callMu"

\* http.server brings its own mutex and calls the handler with starlark.Call.
CallMutex(c) == IF c \in HttpCalls THEN "handlerMu" ELSE CallSafeMutex(c)

\* Servers and controllers call back from the moment the script starts them.
Enter(c) ==
  /\ exit = "running" /\ pc["main"] # "new" /\ call[c] = "idle"
  /\ Lock(CallMutex(c), c) /\ call' = [call EXCEPT ![c] = "running"]
  /\ UNCHANGED <<lists, pc, todo, closing, hook, exit, sent, history>>

Leave(c) ==
  /\ exit = "running" /\ call[c] = "running"
  /\ Unlock(CallMutex(c)) /\ call' = [call EXCEPT ![c] = "idle"]
  /\ UNCHANGED <<lists, pc, todo, closing, hook, exit, sent, history>>

\* inventory.filter(fn) goes through CallSafe again; a sync.Mutex is not
\* re-entrant, so a tool call waits here for itself.
CallFilter(c) ==
  /\ exit = "running" /\ c \in FilterCalls /\ call[c] = "running"
  /\ call' = [call EXCEPT ![c] = "waiting"]
  /\ UNCHANGED <<lists, pc, todo, closing, hook, held, exit, sent, history>>

StartFilter(c) ==
  /\ exit = "running" /\ call[c] = "waiting"
  /\ Lock(CallSafeMutex(c), c) /\ call' = [call EXCEPT ![c] = "filtering"]
  /\ UNCHANGED <<lists, pc, todo, closing, hook, exit, sent, history>>

EndFilter(c) ==
  /\ exit = "running" /\ call[c] = "filtering"
  /\ Unlock(CallSafeMutex(c)) /\ call' = [call EXCEPT ![c] = "running"]
  /\ UNCHANGED <<lists, pc, todo, closing, hook, exit, sent, history>>

-----------------------------------------------------------------------------
(* The specification.                                                      *)

\* The process is gone.
Terminated == exit # "running" /\ UNCHANGED vars

MainStep    == Stop \/ MainExits \/ Setup
SignalStep  == SignalDone \/ Receive \/ EndHandler \/ SignalsEnd
ListStep(r) == \/ TakeDeferred(r) \/ EndDefer(r)
               \/ TakeCleanups(r) \/ StartCleanup(r) \/ EndCleanup(r)
Environment == \/ \E t \in Tasks : Register(t)
               \/ \E n \in OnSignalNames : OnSignal(n)
               \/ EndBody
               \/ \E s \in Signals : Signal(s)
Callback(c) == Enter(c) \/ CallFilter(c) \/ StartFilter(c) \/ EndFilter(c) \/ Leave(c)

Next ==
  \/ MainStep \/ SignalStep \/ Environment \/ StartHandler
  \/ \E r \in Runners : ListStep(r) \/ StartDefer(r)
  \/ \E c \in Calls : Callback(c)
  \/ Terminated

\* Goroutines run, functions return, and sync.Mutex hands itself to a waiter it
\* has starved for a millisecond: a lock asked for again and again is granted.
Fairness ==
  /\ WF_vars(MainStep) /\ WF_vars(SignalStep) /\ SF_vars(StartHandler)
  /\ \A r \in Runners : WF_vars(ListStep(r)) /\ SF_vars(StartDefer(r))
  /\ \A c \in Calls : WF_vars(Leave(c)) /\ WF_vars(EndFilter(c)) /\ SF_vars(StartFilter(c))

Spec     == Init /\ [][Next]_vars
FairSpec == Spec /\ Fairness

-----------------------------------------------------------------------------
(* Properties.                                                             *)

Labels == {"new", "none", "idle", "body", "take", "defers", "inDefer", "close",
           "cleanups", "inCleanup", "handler", "inHandler"}

\* Type invariant; the channel holds at most one signal.
TypeOK ==
  /\ deferredFuncs \in Seq(Defers) /\ goCleanups \in Seq(Cleanups)
  /\ pc \in [Runners -> Labels] /\ todo \in [Runners -> Seq(Tasks)]
  /\ {closing, hooked} \subseteq BOOLEAN
  /\ signalChan \in {<<>>} \cup {<<s>> : s \in SignalNames}
  /\ got \in SignalNames \cup {"none"} /\ signalHandlers \subseteq OnSignalNames
  /\ held \in [Mutexes -> Calls \cup Runners \cup {Nobody}]
  /\ call \in [Calls -> {"idle", "running", "waiting", "filtering"}]
  /\ exit \in {"running", "main", "signal", "default"} /\ sent \in 0..MaxSignals
  /\ registered \in Seq(Tasks) /\ runs \in [Tasks -> Nat] /\ ended \subseteq Tasks
  /\ late \subseteq Tasks

Listed == ToSet(deferredFuncs) \cup ToSet(goCleanups)

\* However script end, signals and Close race for the lists, a registered task is
\* on a list, with one runner, or ended - never in two places, and never run twice.
TakenOnce ==
  /\ ToSet(registered) = Listed \cup ToSet(todo["main"]) \cup ToSet(todo["signals"]) \cup ended
  /\ Len(registered) = Len(deferredFuncs) + Len(goCleanups) + Len(todo["main"])
                       + Len(todo["signals"]) + Cardinality(ended)
  /\ \A t \in Tasks : runs[t] <= 1

\* Whoever is inside a function that CallSafe called on a thread of the runtime.
InCallSafe ==
  {r \in Runners : pc[r] \in {"inDefer", "inHandler"}}
  \cup {c \in ToolCalls : call[c] # "idle"}
  \cup {c \in HttpCalls : call[c] = "filtering"}

\* Deferred functions, signal handlers and tool calls never overlap (CallSafe).
RuntimeCallsExcluded == \A a, b \in InCallSafe : a = b

\* In a run without a signal everything that was registered in time is run, whichever
\* thread registered it: deferred functions last in, first out, cleanups after the body
\* and every deferred function, and all of them before the process ends.
UndisturbedRun ==
  sent = 0 =>
    /\ \A i, j \in 1..Len(registered) :
         LET a == registered[i]
             b == registered[j]
         IN  i < j /\ {a, b} \subseteq Defers \ late /\ runs[a] > 0 => b \in ended
    /\ \A t \in Cleanups :
         runs[t] > 0 => pc["main"] # "body" /\ (Defers \cap ToSet(registered)) \ late \subseteq ended
    /\ exit = "main" => ToSet(registered) \ late \subseteq ended

\* docs/references/embedding.md:321: "For `SIGINT` / `SIGTERM`, the process exits
\* with `ExitInterrupt` / `ExitTerminate`."
SignalEndsProcess == got \in {"interrupt", "terminated"} ~> exit # "running"

\* Once the script's body is over, the process ends.
RunEnds == pc["main"] = "take" ~> exit # "running"
=============================================================================
