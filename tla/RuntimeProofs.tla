---------------------------- MODULE RuntimeProofs ----------------------------
(***************************************************************************)
(* Whatever the numbers of tasks, callbacks and signals: callMu does what  *)
(* CallSafe wants of it (deferred functions, signal handlers and callbacks *)
(* on the runtime's threads never overlap), the two goroutines that take   *)
(* the lists of tasks lose none of them and run none twice, and a run      *)
(* without a signal runs all that was registered in time, in order.        *)
(***************************************************************************)
EXTENDS Runtime, FiniteSetTheorems, TLAPS

\* The mutexes and those who may hold them; the part of TypeOK the proof needs.
LockTypes ==
  /\ held \in [Mutexes -> Calls \cup Runners \cup {Nobody}]
  /\ call \in [Calls -> {"idle", "running", "waiting", "filtering"}]
  /\ pc \in [Runners -> Labels]

\* A runner inside a Starlark function holds callMu.
RunnersHold == \A r \in Runners : pc[r] \in {"inDefer", "inHandler"} => held["callMu"] = r

\* A callback holds the mutex it entered with, and only an http handler ever gets
\* into the function it gives to filter: the others wait for themselves.
CallsHold ==
  \A c \in Calls :
    /\ call[c] # "idle" => held[CallMutex(c)] = c
    /\ call[c] = "filtering" => c \in HttpCalls /\ held["callMu"] = c

HeldInv == LockTypes /\ RunnersHold /\ CallsHold

\* A runner is no callback, and each callback knows its mutexes.
LEMMA CallFacts ==
  /\ \A c \in Calls : c \notin Runners /\ c # Nobody
  /\ \A c \in Calls : CallMutex(c) \in Mutexes /\ CallSafeMutex(c) \in Mutexes
  /\ \A c \in HttpCalls : CallMutex(c) = "handlerMu" /\ CallSafeMutex(c) = "callMu"
  /\ \A c \in ToolCalls : CallMutex(c) = "callMu" /\ CallSafeMutex(c) = "callMu"
  /\ \A c \in ControlCalls : CallMutex(c) = "fallbackCallMu" /\ CallSafeMutex(c) = "fallbackCallMu"
  /\ Nobody \notin Runners
  BY ConstantsAssumption DEF ConstantsAssumption, CallMutex, CallSafeMutex, Calls, Mutexes, Runners, Nobody

LEMMA HeldInit == Init => HeldInv
  BY CallFacts DEF Init, HeldInv, LockTypes, RunnersHold, CallsHold, Runners, Labels

\* A step that only moves runners between labels outside Starlark code.
LEMMA HeldMove ==
  ASSUME HeldInv, UNCHANGED <<held, call>>,
         NEW r \in Runners, NEW l \in Labels \ {"inDefer", "inHandler"}, Goto(r, l)
  PROVE  HeldInv'
  BY DEF HeldInv, LockTypes, RunnersHold, CallsHold, Goto

\* A step that touches neither mutexes nor those who hold them.
LEMMA HeldStutter ==
  ASSUME HeldInv, UNCHANGED <<held, call, pc>>
  PROVE  HeldInv'
  BY DEF HeldInv, LockTypes, RunnersHold, CallsHold, CallMutex, CallSafeMutex

\* A runner enters a Starlark function through CallSafe.
LEMMA HeldRunnerEnters ==
  ASSUME HeldInv, UNCHANGED call, NEW r \in Runners, NEW l \in {"inDefer", "inHandler"},
         Lock("callMu", r), Goto(r, l)
  PROVE  HeldInv'
  <1>1. LockTypes'
    BY DEF HeldInv, LockTypes, Lock, Goto, Mutexes, Labels
  <1>2. RunnersHold'
    BY CallFacts DEF HeldInv, LockTypes, RunnersHold, Lock, Goto, Mutexes
  <1>3. CallsHold'
    BY CallFacts DEF HeldInv, LockTypes, CallsHold, Lock, Mutexes
  <1> QED BY <1>1, <1>2, <1>3 DEF HeldInv

\* A runner leaves it again.
LEMMA HeldRunnerLeaves ==
  ASSUME HeldInv, UNCHANGED call, NEW r \in Runners, pc[r] \in {"inDefer", "inHandler"},
         NEW l \in Labels \ {"inDefer", "inHandler"}, Unlock("callMu"), Goto(r, l)
  PROVE  HeldInv'
  <1>0. held["callMu"] = r
    BY DEF HeldInv, RunnersHold
  <1>1. LockTypes'
    BY DEF HeldInv, LockTypes, Unlock, Goto, Mutexes, Labels
  <1>2. RunnersHold'
    BY <1>0 DEF HeldInv, LockTypes, RunnersHold, Unlock, Goto, Mutexes
  <1>3. CallsHold'
    BY <1>0, CallFacts DEF HeldInv, LockTypes, CallsHold, Unlock, Mutexes
  <1> QED BY <1>1, <1>2, <1>3 DEF HeldInv

LEMMA HeldCallback ==
  ASSUME HeldInv, NEW c \in Calls, Callback(c)
  PROVE  HeldInv'
  <1> USE CallFacts DEF HeldInv, LockTypes
  <1>1. CASE Enter(c)
    <2>1. LockTypes'
      BY <1>1 DEF Enter, Lock
    <2>2. RunnersHold'
      BY <1>1 DEF Enter, Lock, RunnersHold, Mutexes
    <2>3. CallsHold'
      BY <1>1 DEF Enter, Lock, CallsHold, Mutexes, Calls
    <2> QED BY <2>1, <2>2, <2>3
  <1>2. CASE Leave(c)
    <2>1. LockTypes'
      BY <1>2 DEF Leave, Unlock
    <2>2. RunnersHold'
      BY <1>2 DEF Leave, Unlock, RunnersHold, CallsHold, Mutexes
    <2>3. CallsHold'
      BY <1>2 DEF Leave, Unlock, CallsHold, Mutexes, Calls
    <2> QED BY <2>1, <2>2, <2>3
  <1>3. CASE CallFilter(c)
    BY <1>3 DEF CallFilter, RunnersHold, CallsHold
  <1>4. CASE StartFilter(c)
    <2>0. c \in HttpCalls
      BY <1>4 DEF StartFilter, Lock, CallsHold, Calls
    <2>1. LockTypes'
      BY <1>4 DEF StartFilter, Lock
    <2>2. RunnersHold'
      BY <1>4 DEF StartFilter, Lock, RunnersHold, Mutexes
    <2>3. CallsHold'
      BY <1>4, <2>0 DEF StartFilter, Lock, CallsHold, Mutexes, Calls
    <2> QED BY <2>1, <2>2, <2>3
  <1>5. CASE EndFilter(c)
    <2>0. c \in HttpCalls /\ held["callMu"] = c
      BY <1>5 DEF EndFilter, CallsHold
    <2>1. LockTypes'
      BY <1>5 DEF EndFilter, Unlock
    <2>2. RunnersHold'
      BY <1>5, <2>0 DEF EndFilter, Unlock, RunnersHold, Mutexes
    <2>3. CallsHold'
      BY <1>5, <2>0 DEF EndFilter, Unlock, CallsHold, Mutexes, Calls
    <2> QED BY <2>1, <2>2, <2>3
  <1> QED BY <1>1, <1>2, <1>3, <1>4, <1>5 DEF Callback

LEMMA HeldStep == HeldInv /\ [Next]_vars => HeldInv'
  <1> SUFFICES ASSUME HeldInv, [Next]_vars PROVE HeldInv'
    OBVIOUS
  <1> USE DEF Runners, Labels
  <1>1. CASE MainStep
    <2>1. CASE Stop
      BY <2>1, HeldMove DEF Stop
    <2>2. CASE MainExits
      BY <2>2, HeldStutter DEF MainExits
    <2>3. CASE Setup
      BY <2>3 DEF Setup, HeldInv, LockTypes, RunnersHold, CallsHold
    <2> QED BY <1>1, <2>1, <2>2, <2>3 DEF MainStep
  <1>2. CASE SignalStep
    <2>1. CASE SignalDone
      BY <2>1, HeldMove, HeldStutter DEF SignalDone
    <2>2. CASE Receive
      BY <2>2, HeldMove DEF Receive
    <2>3. CASE EndHandler
      BY <2>3, HeldRunnerLeaves DEF EndHandler, At
    <2>4. CASE SignalsEnd
      BY <2>4, HeldMove DEF SignalsEnd
    <2> QED BY <1>2, <2>1, <2>2, <2>3, <2>4 DEF SignalStep
  <1>3. CASE Environment
    <2>1. CASE \E t \in Tasks : Register(t)
      BY <2>1, HeldStutter DEF Register
    <2>2. CASE \E n \in OnSignalNames : OnSignal(n)
      BY <2>2, HeldStutter DEF OnSignal
    <2>3. CASE EndBody
      BY <2>3, HeldMove DEF EndBody
    <2>4. CASE \E s \in Signals : Signal(s)
      BY <2>4, HeldStutter DEF Signal
    <2> QED BY <1>3, <2>1, <2>2, <2>3, <2>4 DEF Environment
  <1>4. CASE StartHandler
    BY <1>4, HeldRunnerEnters DEF StartHandler
  <1>5. ASSUME NEW r \in Runners, ListStep(r) \/ StartDefer(r) PROVE HeldInv'
    <2>1. CASE TakeDeferred(r)
      BY <2>1, HeldMove DEF TakeDeferred
    <2>2. CASE StartDefer(r)
      BY <2>2, HeldRunnerEnters DEF StartDefer
    <2>3. CASE EndDefer(r)
      BY <2>3, HeldRunnerLeaves DEF EndDefer, At
    <2>4. CASE TakeCleanups(r)
      BY <2>4, HeldMove DEF TakeCleanups
    <2>5. CASE StartCleanup(r)
      BY <2>5, HeldMove DEF StartCleanup
    <2>6. CASE EndCleanup(r)
      BY <2>6, HeldMove DEF EndCleanup
    <2> QED BY <1>5, <2>1, <2>2, <2>3, <2>4, <2>5, <2>6 DEF ListStep
  <1>6. ASSUME NEW c \in Calls, Callback(c) PROVE HeldInv'
    BY <1>6, HeldCallback
  <1>7. CASE Terminated \/ UNCHANGED vars
    BY <1>7, HeldStutter DEF Terminated, vars
  <1> QED BY <1>1, <1>2, <1>3, <1>4, <1>5, <1>6, <1>7 DEF Next

\* All of InCallSafe hold the same mutex.
LEMMA HeldExcludes == HeldInv => RuntimeCallsExcluded
  <1> SUFFICES ASSUME HeldInv, NEW a \in InCallSafe PROVE held["callMu"] = a
    BY DEF RuntimeCallsExcluded
  <1> QED BY CallFacts DEF InCallSafe, HeldInv, RunnersHold, CallsHold, Calls

\* Deferred functions, signal handlers and callbacks on the runtime's threads are
\* mutually exclusive in every run (CallSafe, runtime.go:435-449).
THEOREM CallSafeExcludes == Spec => []RuntimeCallsExcluded
  <1>1. Spec => []HeldInv
    BY HeldInit, HeldStep, PTL DEF Spec
  <1> QED BY <1>1, HeldExcludes, PTL

-----------------------------------------------------------------------------
(* Sequences without repetitions.                                          *)

\* No element twice.
Once(s) == \A i, j \in 1..Len(s) : s[i] = s[j] => i = j

LEMMA InSeq ==
  ASSUME NEW S, NEW s \in Seq(S)
  PROVE  /\ Len(s) \in Nat /\ DOMAIN s = 1..Len(s) /\ ToSet(s) \subseteq S
         /\ \A x : x \in ToSet(s) <=> \E i \in 1..Len(s) : s[i] = x
         /\ (s = <<>> <=> Len(s) = 0)
  BY DEF ToSet

LEMMA SeqAppend ==
  ASSUME NEW S, NEW s \in Seq(S), NEW x \in S
  PROVE  /\ Append(s, x) \in Seq(S) /\ Len(Append(s, x)) = Len(s) + 1
         /\ ToSet(Append(s, x)) = ToSet(s) \cup {x}
         /\ Once(s) /\ x \notin ToSet(s) => Once(Append(s, x))
  <1> DEFINE t == Append(s, x)
  <1>1. /\ t \in Seq(S) /\ Len(t) = Len(s) + 1 /\ Len(s) \in Nat
        /\ \A i \in 1..Len(s) + 1 : t[i] = IF i = Len(s) + 1 THEN x ELSE s[i]
    OBVIOUS
  <1> HIDE DEF t
  <1>2. \A y : y \in ToSet(t) <=> y \in ToSet(s) \/ y = x
    <2> SUFFICES ASSUME NEW y PROVE y \in ToSet(t) <=> y \in ToSet(s) \/ y = x
      OBVIOUS
    <2>1. y \in ToSet(t) <=> \E i \in 1..Len(s) + 1 : t[i] = y
      BY <1>1, InSeq
    <2>2. y \in ToSet(s) <=> \E i \in 1..Len(s) : s[i] = y
      BY InSeq
    <2>3. (\E i \in 1..Len(s) + 1 : t[i] = y) <=> (\E i \in 1..Len(s) : s[i] = y) \/ y = x
      BY <1>1
    <2> QED BY <2>1, <2>2, <2>3
  <1>3. Once(s) /\ x \notin ToSet(s) => Once(t)
    <2> SUFFICES ASSUME Once(s), x \notin ToSet(s), NEW i \in 1..Len(s) + 1, NEW j \in 1..Len(s) + 1,
                        t[i] = t[j]
                 PROVE  i = j
      BY <1>1 DEF Once
    <2>1. \A k \in 1..Len(s) : s[k] # x
      BY InSeq
    <2>2. \A k, l \in 1..Len(s) : s[k] = s[l] => k = l
      BY DEF Once
    <2> QED BY <1>1, <2>1, <2>2
  <1> QED BY <1>1, <1>2, <1>3 DEF t

LEMMA SeqReverse ==
  ASSUME NEW S, NEW s \in Seq(S)
  PROVE  /\ Reverse(s) \in Seq(S) /\ Len(Reverse(s)) = Len(s)
         /\ ToSet(Reverse(s)) = ToSet(s) /\ (Once(s) => Once(Reverse(s)))
  <1> DEFINE t == Reverse(s)
  <1>1. /\ Len(s) \in Nat /\ t \in Seq(S) /\ Len(t) = Len(s)
        /\ \A i \in 1..Len(s) : t[i] = s[(Len(s) - i) + 1] /\ (Len(s) - i) + 1 \in 1..Len(s)
    BY DEF Reverse
  <1> HIDE DEF t
  <1>2. \A y : y \in ToSet(t) <=> y \in ToSet(s)
    <2> SUFFICES ASSUME NEW y PROVE y \in ToSet(t) <=> y \in ToSet(s)
      OBVIOUS
    <2>1. y \in ToSet(t) <=> \E i \in 1..Len(s) : t[i] = y
      BY <1>1, InSeq
    <2>2. y \in ToSet(s) <=> \E i \in 1..Len(s) : s[i] = y
      BY InSeq
    <2>3. ASSUME NEW i \in 1..Len(s), s[i] = y PROVE \E j \in 1..Len(s) : t[j] = y
      <3>1. (Len(s) - i) + 1 \in 1..Len(s) /\ (Len(s) - ((Len(s) - i) + 1)) + 1 = i
        BY <1>1
      <3> QED BY <1>1, <2>3, <3>1
    <2>4. ASSUME NEW i \in 1..Len(s), t[i] = y PROVE \E j \in 1..Len(s) : s[j] = y
      BY <1>1, <2>4
    <2> QED BY <2>1, <2>2, <2>3, <2>4
  <1>3. Once(s) => Once(t)
    <2> SUFFICES ASSUME Once(s), NEW i \in 1..Len(s), NEW j \in 1..Len(s), t[i] = t[j] PROVE i = j
      BY <1>1 DEF Once
    <2>1. (Len(s) - i) + 1 = (Len(s) - j) + 1
      BY <1>1 DEF Once
    <2> QED BY <1>1, <2>1
  <1> QED BY <1>1, <1>2, <1>3 DEF t

LEMMA SeqTail ==
  ASSUME NEW S, NEW s \in Seq(S), s # <<>>
  PROVE  /\ Tail(s) \in Seq(S) /\ Len(Tail(s)) = Len(s) - 1
         /\ Head(s) \in S /\ Head(s) \in ToSet(s)
         /\ Once(s) => Once(Tail(s)) /\ ToSet(Tail(s)) = ToSet(s) \ {Head(s)}
  <1> DEFINE t == Tail(s)
  <1>1. /\ Len(s) \in Nat /\ Len(s) > 0 /\ t \in Seq(S) /\ Len(t) = Len(s) - 1 /\ Head(s) = s[1]
        /\ \A i \in 1..Len(t) : t[i] = s[i + 1] /\ i + 1 \in 1..Len(s)
    OBVIOUS
  <1> HIDE DEF t
  <1>2. Head(s) \in S /\ Head(s) \in ToSet(s)
    <2>1. 1 \in 1..Len(s)
      BY <1>1
    <2> QED BY <1>1, <2>1, InSeq
  <1>3. ASSUME Once(s) PROVE Once(t) /\ ToSet(t) = ToSet(s) \ {Head(s)}
    <2>1. Once(t)
      BY <1>1, <1>3 DEF Once
    <2>2. ASSUME NEW y PROVE y \in ToSet(t) <=> y \in ToSet(s) /\ y # s[1]
      <3>1. y \in ToSet(t) <=> \E i \in 1..Len(t) : t[i] = y
        BY <1>1, InSeq
      <3>2. y \in ToSet(s) <=> \E i \in 1..Len(s) : s[i] = y
        BY InSeq
      <3>3. ASSUME NEW i \in 1..Len(t), t[i] = y PROVE (\E j \in 1..Len(s) : s[j] = y) /\ y # s[1]
        <4>1. i + 1 # 1 /\ i + 1 \in 1..Len(s) /\ 1 \in 1..Len(s) /\ s[i + 1] = y
          BY <1>1, <3>3
        <4> QED BY <1>3, <4>1 DEF Once
      <3>4. ASSUME NEW i \in 1..Len(s), s[i] = y, y # s[1] PROVE \E j \in 1..Len(t) : t[j] = y
        <4>1. i - 1 \in 1..Len(t) /\ (i - 1) + 1 = i
          BY <1>1, <3>4
        <4> QED BY <1>1, <3>4, <4>1
      <3> QED BY <3>1, <3>2, <3>3, <3>4
    <2> QED BY <1>1, <2>1, <2>2
  <1> QED BY <1>1, <1>2, <1>3 DEF t

-----------------------------------------------------------------------------
(* Where the registered tasks are.                                         *)

\* The tasks of reg are spread over two lists, what two runners took, and a set of
\* ended ones, each in one place and there once.
Spread(d, c, m, g, e, reg) ==
  /\ Once(d) /\ Once(c) /\ Once(m) /\ Once(g)
  /\ ToSet(d) \cap ToSet(c) = {} /\ ToSet(m) \cap ToSet(g) = {}
  /\ (ToSet(d) \cup ToSet(c)) \cap (ToSet(m) \cup ToSet(g)) = {}
  /\ e \cap (ToSet(d) \cup ToSet(c) \cup ToSet(m) \cup ToSet(g)) = {}
  /\ ToSet(reg) = ToSet(d) \cup ToSet(c) \cup ToSet(m) \cup ToSet(g) \cup e
  /\ Len(reg) = Len(d) + Len(c) + Len(m) + Len(g) + Cardinality(e)

LEMMA EmptyList ==
  ASSUME NEW s, s = <<>>
  PROVE  Once(s) /\ ToSet(s) = {} /\ Len(s) = 0 /\ (\A S : s \in Seq(S))
  <1>1. Len(s) = 0
    OBVIOUS
  <1>2. \A S : s \in Seq(S)
    OBVIOUS
  <1>3. Once(s)
    BY <1>1 DEF Once
  <1>4. \A i \in DOMAIN s : FALSE
    BY <1>1
  <1>5. ToSet(s) = {}
    BY <1>4 DEF ToSet
  <1>6. QED
    BY <1>1, <1>2, <1>3, <1>5

LEMMA SpreadTake ==
  ASSUME NEW d \in Seq(Tasks), NEW c \in Seq(Tasks), NEW g \in Seq(Tasks),
         NEW e \in SUBSET Tasks, NEW reg \in Seq(Tasks)
  PROVE  /\ Spread(d, c, <<>>, g, e, reg) => Spread(<<>>, c, Reverse(d), g, e, reg)
         /\ Spread(d, c, <<>>, g, e, reg) => Spread(d, <<>>, Reverse(c), g, e, reg)
         /\ Spread(d, c, <<>>, g, e, reg) => Spread(d, c, g, <<>>, e, reg)
         /\ Spread(d, c, g, <<>>, e, reg) => Spread(d, c, <<>>, g, e, reg)
  <1> DEFINE rd == Reverse(d)
             rc == Reverse(c)
  <1>1. /\ Len(rd) = Len(d) /\ ToSet(rd) = ToSet(d) /\ (Once(d) => Once(rd))
        /\ Len(rc) = Len(c) /\ ToSet(rc) = ToSet(c) /\ (Once(c) => Once(rc))
    BY SeqReverse
  <1>2. e \subseteq Tasks /\ Cardinality(e) \in Nat
    BY ConstantsAssumption, FS_Subset, FS_CardinalityType DEF ConstantsAssumption
  <1>3. Len(d) \in Nat /\ Len(c) \in Nat /\ Len(g) \in Nat /\ Len(reg) \in Nat
    BY InSeq
  <1> HIDE DEF rd, rc
  <1>4. Spread(d, c, <<>>, g, e, reg) => Spread(<<>>, c, rd, g, e, reg)
    BY <1>1, <1>2, <1>3, EmptyList DEF Spread
  <1>5. Spread(d, c, <<>>, g, e, reg) => Spread(d, <<>>, rc, g, e, reg)
    BY <1>1, <1>2, <1>3, EmptyList DEF Spread
  <1>6. Spread(d, c, <<>>, g, e, reg) <=> Spread(d, c, g, <<>>, e, reg)
    BY <1>2, <1>3, EmptyList DEF Spread
  <1> QED BY <1>4, <1>5, <1>6 DEF rd, rc

LEMMA SpreadSwap ==
  ASSUME NEW d \in Seq(Tasks), NEW c \in Seq(Tasks), NEW m \in Seq(Tasks), NEW g \in Seq(Tasks),
         NEW e \in SUBSET Tasks, NEW reg
  PROVE  Spread(d, c, m, g, e, reg) <=> Spread(d, c, g, m, e, reg)
  <1>1. Cardinality(e) \in Nat
    BY ConstantsAssumption, FS_Subset, FS_CardinalityType DEF ConstantsAssumption
  <1>2. Len(d) \in Nat /\ Len(c) \in Nat /\ Len(g) \in Nat /\ Len(m) \in Nat
    BY InSeq
  <1> QED BY <1>1, <1>2 DEF Spread

LEMMA SpreadEnd ==
  ASSUME NEW d \in Seq(Tasks), NEW c \in Seq(Tasks), NEW m \in Seq(Tasks), NEW g \in Seq(Tasks),
         NEW e \in SUBSET Tasks, NEW reg \in Seq(Tasks),
         m # <<>>, Spread(d, c, m, g, e, reg)
  PROVE  Spread(d, c, Tail(m), g, e \cup {Head(m)}, reg)
  <1> DEFINE t == Tail(m)
             h == Head(m)
             f == e \cup {h}
  <1>1. /\ Len(t) = Len(m) - 1 /\ Len(m) \in Nat /\ h \in ToSet(m)
        /\ Once(t) /\ ToSet(t) = ToSet(m) \ {h}
    BY SeqTail, InSeq DEF Spread
  <1>2. /\ Len(d) \in Nat /\ Len(c) \in Nat /\ Len(g) \in Nat
    BY InSeq
  <1>3. IsFiniteSet(e)
    BY ConstantsAssumption, FS_Subset DEF ConstantsAssumption
  <1> HIDE DEF t, h
  <1>4. h \notin e
    BY <1>1 DEF Spread
  <1>5. Cardinality(f) = Cardinality(e) + 1 /\ Cardinality(e) \in Nat
    BY <1>3, <1>4, FS_AddElement, FS_CardinalityType
  <1>6. ToSet(reg) = ToSet(d) \cup ToSet(c) \cup ToSet(t) \cup ToSet(g) \cup f
    BY <1>1 DEF Spread
  <1>7. Len(reg) = Len(d) + Len(c) + Len(t) + Len(g) + Cardinality(f)
    <2> HIDE DEF f
    <2> QED BY <1>1, <1>2, <1>5 DEF Spread
  <1>8. /\ Once(d) /\ Once(c) /\ Once(t) /\ Once(g)
        /\ ToSet(d) \cap ToSet(c) = {} /\ ToSet(t) \cap ToSet(g) = {}
        /\ (ToSet(d) \cup ToSet(c)) \cap (ToSet(t) \cup ToSet(g)) = {}
        /\ f \cap (ToSet(d) \cup ToSet(c) \cup ToSet(t) \cup ToSet(g)) = {}
    BY <1>1 DEF Spread
  <1> HIDE DEF f
  <1>9. Spread(d, c, t, g, f, reg)
    BY <1>6, <1>7, <1>8 DEF Spread
  <1> QED BY <1>9 DEF t, h, f

LEMMA SpreadRegister ==
  ASSUME NEW d \in Seq(Tasks), NEW c \in Seq(Tasks), NEW m \in Seq(Tasks), NEW g \in Seq(Tasks),
         NEW e \in SUBSET Tasks, NEW reg \in Seq(Tasks), NEW t \in Tasks,
         t \notin ToSet(reg), Spread(d, c, m, g, e, reg)
  PROVE  /\ Spread(Append(d, t), c, m, g, e, Append(reg, t))
         /\ Spread(d, Append(c, t), m, g, e, Append(reg, t))
  <1> DEFINE dt == Append(d, t)
             ct == Append(c, t)
             rt == Append(reg, t)
  <1>1. /\ Len(dt) = Len(d) + 1 /\ ToSet(dt) = ToSet(d) \cup {t} /\ Len(d) \in Nat
        /\ Len(ct) = Len(c) + 1 /\ ToSet(ct) = ToSet(c) \cup {t} /\ Len(c) \in Nat
        /\ Len(rt) = Len(reg) + 1 /\ ToSet(rt) = ToSet(reg) \cup {t} /\ Len(reg) \in Nat
        /\ Len(m) \in Nat /\ Len(g) \in Nat
    BY SeqAppend, InSeq
  <1>2. t \notin ToSet(d) \cup ToSet(c) \cup ToSet(m) \cup ToSet(g) \cup e
    BY DEF Spread
  <1>3. Once(dt) /\ Once(ct)
    BY <1>2, SeqAppend DEF Spread
  <1>4. Cardinality(e) \in Nat
    BY ConstantsAssumption, FS_Subset, FS_CardinalityType DEF ConstantsAssumption
  <1> HIDE DEF dt, ct, rt
  <1>5. Spread(dt, c, m, g, e, rt)
    <2>1. Len(rt) = Len(dt) + Len(c) + Len(m) + Len(g) + Cardinality(e)
      BY <1>1, <1>4 DEF Spread
    <2>2. ToSet(rt) = ToSet(dt) \cup ToSet(c) \cup ToSet(m) \cup ToSet(g) \cup e
      BY <1>1 DEF Spread
    <2> QED BY <1>1, <1>2, <1>3, <2>1, <2>2 DEF Spread
  <1>6. Spread(d, ct, m, g, e, rt)
    <2>1. Len(rt) = Len(d) + Len(ct) + Len(m) + Len(g) + Cardinality(e)
      BY <1>1, <1>4 DEF Spread
    <2>2. ToSet(rt) = ToSet(d) \cup ToSet(ct) \cup ToSet(m) \cup ToSet(g) \cup e
      BY <1>1 DEF Spread
    <2> QED BY <1>1, <1>2, <1>3, <2>1, <2>2 DEF Spread
  <1> QED BY <1>5, <1>6 DEF dt, ct, rt

InTask(r) == pc[r] \in {"inDefer", "inCleanup"}

\* The variables the proof is about have their types.
TaskTypes ==
  /\ deferredFuncs \in Seq(Defers) /\ goCleanups \in Seq(Cleanups)
  /\ pc \in [Runners -> Labels] /\ todo \in [Runners -> Seq(Tasks)]
  /\ registered \in Seq(Tasks) /\ runs \in [Tasks -> Nat] /\ ended \subseteq Tasks

\* A runner has tasks in hand only while it walks a list, and one while it runs it.
Walking ==
  \A r \in Runners :
    /\ pc[r] \in Labels \ {"defers", "inDefer", "cleanups", "inCleanup"} => todo[r] = <<>>
    /\ InTask(r) => todo[r] # <<>>

TasksSpread ==
  Spread(deferredFuncs, goCleanups, todo["main"], todo["signals"], ended, registered)

\* The tasks started so far, each once, are the ended ones and those being run.
StartedOnce ==
  \A t \in Tasks :
    runs[t] = IF t \in ended \/ \E r \in Runners : InTask(r) /\ t = Head(todo[r]) THEN 1 ELSE 0

TaskInv == TaskTypes /\ Walking /\ TasksSpread /\ StartedOnce

LEMMA TaskSeq == /\ \A s \in Seq(Defers) : s \in Seq(Tasks)
                 /\ \A s \in Seq(Cleanups) : s \in Seq(Tasks)
  BY DEF Tasks

\* The two runners, whichever of them moves.
LEMMA OtherRunner ==
  ASSUME NEW r \in Runners
  PROVE  \E o \in Runners : o # r /\ Runners = {r, o} /\ {r, o} = {"main", "signals"}
  <1>1. CASE r = "main"
    BY <1>1 DEF Runners
  <1>2. CASE r = "signals"
    BY <1>2 DEF Runners
  <1> QED BY <1>1, <1>2 DEF Runners

LEMMA SpreadView ==
  ASSUME NEW d \in Seq(Tasks), NEW c \in Seq(Tasks), NEW hand \in [Runners -> Seq(Tasks)],
         NEW e \in SUBSET Tasks, NEW reg, NEW r \in Runners, NEW o \in Runners, o # r
  PROVE  Spread(d, c, hand["main"], hand["signals"], e, reg) <=> Spread(d, c, hand[r], hand[o], e, reg)
  <1>1. hand["main"] \in Seq(Tasks) /\ hand["signals"] \in Seq(Tasks)
    BY DEF Runners
  <1>2. Spread(d, c, hand["main"], hand["signals"], e, reg) <=> Spread(d, c, hand["signals"], hand["main"], e, reg)
    BY <1>1, SpreadSwap
  <1>3. (r = "main" /\ o = "signals") \/ (r = "signals" /\ o = "main")
    BY DEF Runners
  <1> QED BY <1>2, <1>3

LEMMA SpreadPrime ==
  TasksSpread' <=> Spread(deferredFuncs', goCleanups', todo'["main"], todo'["signals"], ended', registered')
  BY DEF TasksSpread, Spread, Once, ToSet

LEMMA TaskInit == Init => TaskInv
  <1> SUFFICES ASSUME Init PROVE TaskInv
    OBVIOUS
  <1>0. Cardinality({}) = 0
    BY FS_EmptySet
  <1>1. TaskTypes
    BY DEF Init, TaskTypes, Runners, Labels
  <1>2. Walking
    BY DEF Init, Walking, InTask
  <1>3. TasksSpread
    <2>1. /\ deferredFuncs = <<>> /\ goCleanups = <<>> /\ todo["main"] = <<>> /\ todo["signals"] = <<>>
          /\ ended = {} /\ registered = <<>>
      BY DEF Init, Runners
    <2> QED
      <3>1. Once(<<>>) /\ ToSet(<<>>) = {} /\ Len(<<>>) = 0
        BY EmptyList
      <3>2. Spread(<<>>, <<>>, <<>>, <<>>, {}, <<>>)
        BY <1>0, <3>1 DEF Spread
      <3> QED BY <2>1, <3>2 DEF TasksSpread
  <1>4. StartedOnce
    BY DEF Init, StartedOnce, InTask, Runners
  <1> QED BY <1>1, <1>2, <1>3, <1>4 DEF TaskInv

\* A step that moves at most one runner, between labels outside a task.
LEMMA TaskQuiet ==
  ASSUME TaskInv, UNCHANGED <<lists, todo, registered, runs, ended>>,
         pc' = pc \/ \E r \in Runners, l \in Labels :
                       /\ Goto(r, l) /\ ~InTask(r) /\ l \notin {"inDefer", "inCleanup"}
                       /\ l \notin {"defers", "cleanups"} => todo[r] = <<>>
  PROVE  TaskInv'
  <1> USE DEF TaskInv
  <1>1. /\ pc' \in [Runners -> Labels]
        /\ \A r \in Runners : InTask(r)' <=> InTask(r)
        /\ Walking'
    <2>1. CASE pc' = pc
      BY <2>1 DEF TaskTypes, InTask, Walking, lists
    <2>2. ASSUME NEW r \in Runners, NEW l \in Labels, Goto(r, l), ~InTask(r), l \notin {"inDefer", "inCleanup"},
                 l \notin {"defers", "cleanups"} => todo[r] = <<>>
          PROVE  <1>1!1 /\ <1>1!2 /\ <1>1!3
      BY <2>2 DEF TaskTypes, InTask, Walking, Goto, lists
    <2> QED BY <2>1, <2>2
  <1>2. TaskTypes'
    BY <1>1 DEF TaskTypes, lists
  <1>3. TasksSpread'
    BY DEF TasksSpread, lists
  <1>4. StartedOnce'
    BY <1>1 DEF StartedOnce
  <1> QED BY <1>1, <1>2, <1>3, <1>4

LEMMA TaskRegister ==
  ASSUME TaskInv, NEW t \in Tasks, Register(t)
  PROVE  TaskInv'
  <1> USE DEF TaskInv
  <1>0. /\ deferredFuncs \in Seq(Tasks) /\ goCleanups \in Seq(Tasks)
        /\ todo["main"] \in Seq(Tasks) /\ todo["signals"] \in Seq(Tasks) /\ ended \in SUBSET Tasks
        /\ registered \in Seq(Tasks) /\ t \notin ToSet(registered)
    BY TaskSeq DEF TaskTypes, Runners, Register
  <1>1. TaskTypes'
    <2>1. Append(registered, t) \in Seq(Tasks)
      BY <1>0, SeqAppend
    <2>2. t \in Defers => Append(deferredFuncs, t) \in Seq(Defers)
      BY SeqAppend DEF TaskTypes
    <2>3. t \in Cleanups => Append(goCleanups, t) \in Seq(Cleanups)
      BY SeqAppend DEF TaskTypes
    <2> QED BY <2>1, <2>2, <2>3 DEF TaskTypes, Register, Tasks
  <1>2. Walking'
    BY DEF Walking, Register, InTask
  <1>3. TasksSpread'
    <2>1. Spread(deferredFuncs', goCleanups', todo["main"], todo["signals"], ended, registered')
      <3>1. Spread(deferredFuncs, goCleanups, todo["main"], todo["signals"], ended, registered)
        BY DEF TasksSpread
      <3>2. /\ registered' = Append(registered, t)
            /\ \/ deferredFuncs' = Append(deferredFuncs, t) /\ goCleanups' = goCleanups
               \/ goCleanups' = Append(goCleanups, t) /\ deferredFuncs' = deferredFuncs
        BY DEF Register
      <3>3. /\ Spread(Append(deferredFuncs, t), goCleanups, todo["main"], todo["signals"], ended, Append(registered, t))
            /\ Spread(deferredFuncs, Append(goCleanups, t), todo["main"], todo["signals"], ended, Append(registered, t))
        BY <1>0, <3>1, SpreadRegister
      <3> QED BY <3>2, <3>3
    <2>2. UNCHANGED <<todo, ended>>
      BY DEF Register
    <2> QED BY <2>1, <2>2, SpreadPrime
  <1>4. StartedOnce'
    BY DEF StartedOnce, Register, InTask
  <1> QED BY <1>1, <1>2, <1>3, <1>4

\* A runner takes a whole list, reversed, when it has nothing in hand.
LEMMA TaskTake ==
  ASSUME TaskInv, NEW r \in Runners, TakeDeferred(r) \/ TakeCleanups(r)
  PROVE  TaskInv'
  <1> USE DEF TaskInv
  <1>0. PICK o \in Runners : o # r /\ Runners = {r, o}
    BY OtherRunner
  <1>1. todo[r] = <<>> /\ ~InTask(r)
    BY DEF TakeDeferred, TakeCleanups, At, Walking, Labels, InTask
  <1>2. /\ deferredFuncs \in Seq(Tasks) /\ goCleanups \in Seq(Tasks)
        /\ todo[o] \in Seq(Tasks) /\ ended \in SUBSET Tasks
        /\ registered \in Seq(Tasks)
    BY TaskSeq DEF TaskTypes
  <1>3. /\ Reverse(deferredFuncs) \in Seq(Tasks) /\ Reverse(goCleanups) \in Seq(Tasks)
    BY <1>2, SeqReverse
  <1>4. /\ todo' = [todo EXCEPT ![r] = todo'[r]] /\ todo'[r] \in Seq(Tasks)
        /\ \/ todo'[r] = Reverse(deferredFuncs) /\ deferredFuncs' = <<>> /\ goCleanups' = goCleanups
           \/ todo'[r] = Reverse(goCleanups) /\ goCleanups' = <<>> /\ deferredFuncs' = deferredFuncs
        /\ Goto(r, "defers") \/ Goto(r, "cleanups")
        /\ UNCHANGED <<registered, runs, ended>>
    BY <1>3 DEF TakeDeferred, TakeCleanups, TaskTypes, history
  <1>5. TaskTypes'
    BY <1>4, EmptyList DEF TaskTypes, Goto, Labels
  <1>6. todo'[o] = todo[o] /\ pc'[o] = pc[o] /\ ~InTask(r)'
    BY <1>0, <1>4 DEF TaskTypes, Goto, InTask
  <1>7. Walking'
    BY <1>0, <1>4, <1>6 DEF Walking, InTask, TaskTypes, Goto
  <1>8. TasksSpread'
    <2>1. Spread(deferredFuncs, goCleanups, <<>>, todo[o], ended, registered)
      BY <1>0, <1>1, <1>2, SpreadView DEF TaskTypes, TasksSpread
    <2>2. Spread(deferredFuncs', goCleanups', todo'[r], todo[o], ended, registered)
      BY <1>2, <1>4, <2>1, SpreadTake
    <2>3. deferredFuncs' \in Seq(Tasks) /\ goCleanups' \in Seq(Tasks) /\ todo' \in [Runners -> Seq(Tasks)]
      BY <1>5, TaskSeq DEF TaskTypes
    <2>4. Spread(deferredFuncs', goCleanups', todo'["main"], todo'["signals"], ended, registered)
      BY <1>0, <1>2, <1>6, <2>2, <2>3, SpreadView
    <2> QED BY <1>4, <2>4, SpreadPrime
  <1>9. StartedOnce'
    BY <1>0, <1>1, <1>4, <1>6 DEF StartedOnce, InTask
  <1> QED BY <1>5, <1>7, <1>8, <1>9

-----------------------------------------------------------------------------
(* Each kind of step.                                                      *)

\* The first task in a runner's hands is not yet run, and in no other place.
LEMMA HeadFresh ==
  ASSUME TaskInv, NEW r \in Runners, todo[r] # <<>>
  PROVE  /\ Head(todo[r]) \in Tasks /\ Head(todo[r]) \notin ended
         /\ \A o \in Runners : o # r /\ InTask(o) => Head(todo[o]) # Head(todo[r])
  <1> USE DEF TaskInv
  <1>1. todo[r] \in Seq(Tasks) /\ deferredFuncs \in Seq(Tasks) /\ goCleanups \in Seq(Tasks) /\ ended \in SUBSET Tasks
    BY TaskSeq DEF TaskTypes
  <1>2. Head(todo[r]) \in Tasks /\ Head(todo[r]) \in ToSet(todo[r])
    BY <1>1, SeqTail
  <1>3. PICK o \in Runners : o # r /\ Runners = {r, o}
    BY OtherRunner
  <1>4. Spread(deferredFuncs, goCleanups, todo[r], todo[o], ended, registered)
    BY <1>1, <1>3, SpreadView DEF TaskTypes, TasksSpread
  <1>5. InTask(o) => Head(todo[o]) \in ToSet(todo[o])
    <2>1. InTask(o) => todo[o] # <<>> /\ todo[o] \in Seq(Tasks)
      BY DEF Walking, TaskTypes
    <2> QED BY <2>1, SeqTail
  <1> QED BY <1>2, <1>3, <1>4, <1>5 DEF Spread

LEMMA TaskStart ==
  ASSUME TaskInv, NEW r \in Runners, StartDefer(r) \/ StartCleanup(r)
  PROVE  TaskInv'
  <1> USE DEF TaskInv
  <1> DEFINE h == Head(todo[r])
  <1>0. PICK o \in Runners : o # r /\ Runners = {r, o}
    BY OtherRunner
  <1>1. todo[r] # <<>> /\ ~InTask(r)
    BY DEF StartDefer, StartCleanup, At, InTask
  <1>2. /\ runs' = [runs EXCEPT ![h] = @ + 1]
        /\ Goto(r, "inDefer") \/ Goto(r, "inCleanup")
        /\ UNCHANGED <<deferredFuncs, goCleanups, todo, registered, ended>>
    BY DEF StartDefer, StartCleanup, lists
  <1>3. /\ h \in Tasks /\ h \notin ended
        /\ InTask(o) => Head(todo[o]) # h
    BY <1>0, <1>1, HeadFresh
  <1>4. InTask(r)' /\ (InTask(o)' <=> InTask(o)) /\ pc'[o] = pc[o]
    BY <1>0, <1>2 DEF InTask, Goto, TaskTypes
  <1>5. runs[h] = 0
    BY <1>0, <1>1, <1>3 DEF StartedOnce
  <1> HIDE DEF h
  <1>6. TaskTypes'
    <2>1. runs[h] + 1 \in Nat
      BY <1>5
    <2>2. runs' \in [Tasks -> Nat] /\ pc' \in [Runners -> Labels]
      BY <1>2, <1>3, <2>1 DEF TaskTypes, Goto, Labels
    <2> QED BY <1>2, <2>2 DEF TaskTypes
  <1>7. Walking'
    <2>1. pc'[r] \in {"inDefer", "inCleanup"}
      BY <1>4 DEF InTask
    <2> QED BY <1>0, <1>1, <1>2, <1>4, <2>1 DEF Walking, Labels
  <1>8. TasksSpread'
    BY <1>2 DEF TasksSpread
  <1>9. StartedOnce'
    <2>1. runs'[h] = 1 /\ \A t \in Tasks \ {h} : runs'[t] = runs[t]
      BY <1>2, <1>3, <1>5 DEF TaskTypes
    <2>2. \A t \in Tasks :
            (\E q \in Runners : InTask(q)' /\ t = Head(todo[q]))
            <=> t = h \/ (\E q \in Runners : InTask(q) /\ t = Head(todo[q]))
      BY <1>0, <1>1, <1>4 DEF h
    <2>3. \A t \in Tasks :
            runs'[t] = IF t \in ended' \/ \E q \in Runners : InTask(q)' /\ t = Head(todo'[q]) THEN 1 ELSE 0
      BY <1>2, <2>1, <2>2 DEF StartedOnce
    <2> QED BY <2>3 DEF StartedOnce
  <1> QED BY <1>6, <1>7, <1>8, <1>9

LEMMA TaskEnd ==
  ASSUME TaskInv, NEW r \in Runners, EndDefer(r) \/ EndCleanup(r)
  PROVE  TaskInv'
  <1> USE DEF TaskInv
  <1> DEFINE h == Head(todo[r])
  <1>0. PICK o \in Runners : o # r /\ Runners = {r, o}
    BY OtherRunner
  <1>1. InTask(r) /\ todo[r] # <<>>
    BY DEF EndDefer, EndCleanup, At, InTask, Walking
  <1>2. /\ ended' = ended \cup {h} /\ todo' = [todo EXCEPT ![r] = Tail(@)]
        /\ Goto(r, "defers") \/ Goto(r, "cleanups")
        /\ UNCHANGED <<deferredFuncs, goCleanups, registered, runs>>
    BY DEF EndDefer, EndCleanup, lists
  <1>3. /\ h \in Tasks /\ h \notin ended
        /\ InTask(o) => Head(todo[o]) # h
    BY <1>0, <1>1, HeadFresh
  <1>4. ~InTask(r)' /\ (InTask(o)' <=> InTask(o)) /\ pc'[o] = pc[o]
    BY <1>0, <1>2 DEF InTask, Goto, TaskTypes
  <1>5. /\ todo[r] \in Seq(Tasks) /\ todo[o] \in Seq(Tasks) /\ Tail(todo[r]) \in Seq(Tasks)
        /\ deferredFuncs \in Seq(Tasks) /\ goCleanups \in Seq(Tasks)
        /\ ended \in SUBSET Tasks /\ registered \in Seq(Tasks)
    BY <1>1, TaskSeq, SeqTail DEF TaskTypes
  <1>6. todo' \in [Runners -> Seq(Tasks)] /\ todo'[r] = Tail(todo[r]) /\ todo'[o] = todo[o]
    BY <1>0, <1>2, <1>5 DEF TaskTypes
  <1>7. TaskTypes'
    BY <1>2, <1>3, <1>6 DEF TaskTypes, Goto, Labels
  <1>8. Walking'
    <2>1. pc'[r] \in {"defers", "cleanups"}
      BY <1>2 DEF Goto, TaskTypes
    <2> QED BY <1>0, <1>2, <1>4, <1>6, <2>1 DEF Walking, Labels, InTask
  <1>9. TasksSpread'
    <2>1. Spread(deferredFuncs, goCleanups, todo[r], todo[o], ended, registered)
      BY <1>0, <1>5, SpreadView DEF TaskTypes, TasksSpread
    <2>2. Spread(deferredFuncs, goCleanups, Tail(todo[r]), todo[o], ended \cup {Head(todo[r])}, registered)
      BY <1>1, <1>5, <2>1, SpreadEnd
    <2>3. Spread(deferredFuncs', goCleanups', todo'[r], todo'[o], ended', registered')
      BY <1>2, <1>6, <2>2
    <2>4. ended' \in SUBSET Tasks /\ UNCHANGED <<deferredFuncs, goCleanups, registered>>
      BY <1>2, <1>3, <1>5
    <2>5. Spread(deferredFuncs', goCleanups', todo'["main"], todo'["signals"], ended', registered')
      BY <1>0, <1>5, <1>6, <2>3, <2>4, SpreadView
    <2> QED BY <2>5, SpreadPrime
  <1>10. StartedOnce'
    <2>1. \A t \in Tasks :
            t \in ended' \/ (\E q \in Runners : InTask(q)' /\ t = Head(todo'[q]))
            <=> t \in ended \/ (\E q \in Runners : InTask(q) /\ t = Head(todo[q]))
      BY <1>0, <1>1, <1>2, <1>4, <1>6
    <2> QED BY <1>2, <2>1 DEF StartedOnce
  <1> QED BY <1>7, <1>8, <1>9, <1>10

\* The signal goroutine is started by the setup.
SetupFirst == pc["main"] = "new" => pc["signals"] = "none"

LEMMA SetupStep == TaskTypes /\ SetupFirst /\ [Next]_vars => SetupFirst'
  <1> SUFFICES ASSUME TaskTypes, SetupFirst, [Next]_vars PROVE SetupFirst'
    OBVIOUS
  <1>1. \/ pc' = pc \/ Setup
        \/ \E r \in Runners, l \in Labels \ {"new"} : Goto(r, l) /\ pc[r] # "none"
    <2> USE DEF At, Runners, Labels
    <2>1. CASE MainStep \/ SignalStep
      BY <2>1 DEF MainStep, SignalStep, Stop, MainExits, SignalDone, Receive, EndHandler, SignalsEnd, AllTaken
    <2>2. CASE Environment \/ StartHandler
      BY <2>2 DEF Environment, StartHandler, Register, OnSignal, EndBody, Signal
    <2>3. ASSUME NEW r \in Runners, ListStep(r) \/ StartDefer(r) PROVE <1>1
      BY <2>3 DEF ListStep, TakeDeferred, StartDefer, EndDefer, TakeCleanups, StartCleanup, EndCleanup
    <2>4. ASSUME NEW c \in Calls, Callback(c) PROVE <1>1
      BY <2>4 DEF Callback, Enter, Leave, CallFilter, StartFilter, EndFilter
    <2>5. CASE Terminated \/ UNCHANGED vars
      BY <2>5 DEF Terminated, vars
    <2> QED BY <2>1, <2>2, <2>3, <2>4, <2>5 DEF Next
  <1>2. CASE pc' = pc
    BY <1>2 DEF SetupFirst
  <1>3. CASE Setup
    BY <1>3 DEF Setup, SetupFirst
  <1>4. ASSUME NEW r \in Runners, NEW l \in Labels \ {"new"}, Goto(r, l), pc[r] # "none" PROVE SetupFirst'
    BY <1>4 DEF Goto, SetupFirst, TaskTypes, Runners
  <1> QED BY <1>1, <1>2, <1>3, <1>4

LEMMA TaskStep == TaskInv /\ SetupFirst /\ [Next]_vars => TaskInv'
  <1> SUFFICES ASSUME TaskInv, SetupFirst, [Next]_vars PROVE TaskInv'
    OBVIOUS
  <1> USE DEF At, Walking, InTask, history
  <1>1. CASE MainStep
    <2>1. CASE Stop
      BY <2>1, TaskQuiet DEF Stop, TaskInv, AllTaken, Runners, Labels
    <2>2. CASE MainExits
      BY <2>2, TaskQuiet DEF MainExits
    <2>3. CASE Setup
      <3>1. pc'["main"] = "body" /\ pc'["signals"] = "idle" /\ pc' \in [Runners -> Labels]
            /\ UNCHANGED <<lists, todo, history>>
        BY <2>3 DEF Setup, Runners, Labels
      <3>2. /\ \A r \in Runners : ~InTask(r) /\ todo[r] = <<>>
            /\ \A r \in Runners : ~InTask(r)'
        BY <2>3, <3>1 DEF Setup, SetupFirst, TaskInv, Runners, Labels
      <3>3. TaskTypes' /\ Walking'
        BY <3>1, <3>2 DEF TaskInv, TaskTypes, lists
      <3>4. TasksSpread' /\ StartedOnce'
        BY <3>1, <3>2 DEF TaskInv, TasksSpread, StartedOnce, lists
      <3> QED BY <3>3, <3>4 DEF TaskInv
    <2> QED BY <1>1, <2>1, <2>2, <2>3 DEF MainStep
  <1>2. CASE SignalStep
    <2>1. CASE SignalDone
      BY <2>1, TaskQuiet DEF SignalDone, TaskInv, AllTaken, Runners, Labels
    <2>2. CASE Receive
      BY <2>2, TaskQuiet DEF Receive, TaskInv, Runners, Labels
    <2>3. CASE EndHandler
      BY <2>3, TaskQuiet DEF EndHandler, TaskInv, Runners, Labels
    <2>4. CASE SignalsEnd
      BY <2>4, TaskQuiet DEF SignalsEnd, TaskInv, Runners, Labels
    <2> QED BY <1>2, <2>1, <2>2, <2>3, <2>4 DEF SignalStep
  <1>3. CASE Environment
    <2>1. CASE \E t \in Tasks : Register(t)
      BY <2>1, TaskRegister
    <2>2. CASE \E n \in OnSignalNames : OnSignal(n)
      BY <2>2, TaskQuiet DEF OnSignal
    <2>3. CASE EndBody
      BY <2>3, TaskQuiet DEF EndBody, TaskInv, Runners, Labels
    <2>4. CASE \E s \in Signals : Signal(s)
      BY <2>4, TaskQuiet DEF Signal
    <2> QED BY <1>3, <2>1, <2>2, <2>3, <2>4 DEF Environment
  <1>4. CASE StartHandler
    BY <1>4, TaskQuiet DEF StartHandler, TaskInv, Runners, Labels
  <1>5. ASSUME NEW r \in Runners, ListStep(r) \/ StartDefer(r) PROVE TaskInv'
    BY <1>5, TaskTake, TaskStart, TaskEnd DEF ListStep
  <1>6. ASSUME NEW c \in Calls, Callback(c) PROVE TaskInv'
    BY <1>6, TaskQuiet DEF Callback, Enter, Leave, CallFilter, StartFilter, EndFilter
  <1>7. CASE Terminated \/ UNCHANGED vars
    BY <1>7, TaskQuiet DEF Terminated, vars
  <1> QED BY <1>1, <1>2, <1>3, <1>4, <1>5, <1>6, <1>7 DEF Next

LEMMA TaskTakenOnce == TaskInv => TakenOnce
  <1> SUFFICES ASSUME TaskInv PROVE TakenOnce
    OBVIOUS
  <1>1. \A t \in Tasks : runs[t] <= 1
    BY DEF TaskInv, StartedOnce
  <1> QED BY <1>1 DEF TaskInv, TasksSpread, Spread, TakenOnce, Listed

-----------------------------------------------------------------------------
(* The other variables, and the theorems.                                  *)

\* The signal channel and what else is under nobody's lock.
HookTypes ==
  /\ closing \in BOOLEAN /\ hooked \in BOOLEAN /\ late \subseteq Tasks
  /\ signalChan \in {<<>>} \cup {<<s>> : s \in SignalNames}
  /\ got \in SignalNames \cup {"none"} /\ signalHandlers \subseteq OnSignalNames
  /\ exit \in {"running", "main", "signal", "default"} /\ sent \in 0..MaxSignals

LEMMA HookStep == HookTypes /\ [Next]_vars => HookTypes'
  <1> SUFFICES ASSUME HookTypes, [Next]_vars PROVE HookTypes'
    OBVIOUS
  <1> USE DEF HookTypes, hook
  <1>0. MaxSignals \in Nat /\ Signals \subseteq SignalNames
    BY ConstantsAssumption DEF ConstantsAssumption
  <1>1. CASE MainStep
    BY <1>1 DEF MainStep, Stop, MainExits, Setup, history
  <1>2. CASE SignalStep
    <2>1. CASE Receive
      <3>1. signalChan # <<>> => Head(signalChan) \in SignalNames
        OBVIOUS
      <3> QED BY <2>1, <3>1 DEF Receive, history
    <2>2. CASE SignalDone \/ EndHandler \/ SignalsEnd
      BY <2>2 DEF SignalDone, EndHandler, SignalsEnd, history
    <2> QED BY <1>2, <2>1, <2>2 DEF SignalStep
  <1>3. CASE Environment
    <2>1. ASSUME NEW s \in Signals, Signal(s) PROVE HookTypes'
      <3>1. sent + 1 \in 0..MaxSignals /\ s \in SignalNames
        BY <1>0, <2>1 DEF Signal
      <3> QED BY <2>1, <3>1 DEF Signal, history
    <2>2. CASE EndBody \/ (\E t \in Tasks : Register(t)) \/ (\E n \in OnSignalNames : OnSignal(n))
      BY <2>2 DEF Register, OnSignal, EndBody, history
    <2> QED BY <1>3, <2>1, <2>2 DEF Environment
  <1>4. CASE StartHandler
    BY <1>4 DEF StartHandler, history
  <1>5. ASSUME NEW r \in Runners, ListStep(r) \/ StartDefer(r) PROVE HookTypes'
    BY <1>5 DEF ListStep, TakeDeferred, StartDefer, EndDefer, TakeCleanups, StartCleanup, EndCleanup, history
  <1>6. ASSUME NEW c \in Calls, Callback(c) PROVE HookTypes'
    BY <1>6 DEF Callback, Enter, Leave, CallFilter, StartFilter, EndFilter, history
  <1>7. CASE Terminated \/ UNCHANGED vars
    BY <1>7 DEF Terminated, vars, history
  <1> QED BY <1>1, <1>2, <1>3, <1>4, <1>5, <1>6, <1>7 DEF Next

RunInv == HeldInv /\ TaskInv /\ SetupFirst /\ HookTypes

LEMMA RunInit == Init => RunInv
  <1> SUFFICES ASSUME Init PROVE RunInv
    OBVIOUS
  <1>1. SetupFirst
    BY DEF Init, SetupFirst, Runners
  <1>2. HookTypes
    <2>1. 0 \in 0..MaxSignals
      BY ConstantsAssumption DEF ConstantsAssumption
    <2>2. /\ closing = FALSE /\ hooked = FALSE /\ late = {} /\ signalChan = <<>>
          /\ got = "none" /\ signalHandlers = {} /\ exit = "running" /\ sent = 0
      BY DEF Init
    <2> QED BY <2>1, <2>2 DEF HookTypes
  <1> QED BY <1>1, <1>2, HeldInit, TaskInit DEF RunInv

LEMMA RunStep == RunInv /\ [Next]_vars => RunInv'
  <1> SUFFICES ASSUME RunInv, [Next]_vars PROVE RunInv'
    OBVIOUS
  <1>1. HeldInv'
    BY HeldStep DEF RunInv
  <1>2. TaskInv'
    BY TaskStep DEF RunInv
  <1>3. SetupFirst'
    BY SetupStep DEF RunInv, TaskInv
  <1>4. HookTypes'
    BY HookStep DEF RunInv
  <1> QED BY <1>1, <1>2, <1>3, <1>4 DEF RunInv

LEMMA RunAlways == Spec => []RunInv
  BY RunInit, RunStep, PTL DEF Spec

\* However the script's end, signals and Close race for the lists, every task stays
\* in one place and is started at most once (runDeferred, runGoCleanups).
THEOREM TakenCorrect == Spec => []TakenOnce
  <1>1. RunInv => TakenOnce
    BY TaskTakenOnce DEF RunInv
  <1> QED BY <1>1, RunAlways, PTL

\* The variables keep their types, and the signal channel holds at most one signal.
THEOREM TypeCorrect == Spec => []TypeOK
  <1>1. RunInv => TypeOK
    BY DEF RunInv, HeldInv, LockTypes, TaskInv, TaskTypes, HookTypes, TypeOK
  <1> QED BY <1>1, RunAlways, PTL

-----------------------------------------------------------------------------
(* UndisturbedRun.  The order in which tasks were registered is carried from the    *)
(* list to main's hands, reversed, and from there to what has ended: whatever main   *)
(* still has in hand was registered before everything that has ended.               *)

Before(reg, a, b) == \E i, j \in 1..Len(reg) : i < j /\ reg[i] = a /\ reg[j] = b
Rising(s, reg)    == \A i, j \in 1..Len(s) : i < j => Before(reg, s[i], s[j])
Falling(s, reg)   == \A i, j \in 1..Len(s) : i < j => Before(reg, s[j], s[i])

\* Nothing comes both before and after another.
LEMMA BeforeOnce ==
  ASSUME NEW reg \in Seq(Tasks), Once(reg), NEW a, NEW b, Before(reg, a, b)
  PROVE  ~Before(reg, b, a) /\ a # b
<1>1. PICK i, j \in 1..Len(reg) : i < j /\ reg[i] = a /\ reg[j] = b
  BY DEF Before
<1>2. \A k, l \in 1..Len(reg) : reg[k] = reg[l] => k = l
  BY DEF Once
<1>3. a # b
  BY <1>1, <1>2
<1>4. ASSUME NEW k \in 1..Len(reg), NEW l \in 1..Len(reg), k < l, reg[k] = b, reg[l] = a
      PROVE  FALSE
  <2>1. k = j /\ l = i
    BY <1>1, <1>2, <1>4
  <2>2. Len(reg) \in Nat
    OBVIOUS
  <2> QED BY <1>1, <1>4, <2>1, <2>2
<1> QED BY <1>3, <1>4 DEF Before

LEMMA BeforeAppend ==
  ASSUME NEW reg \in Seq(Tasks), NEW t \in Tasks
  PROVE  /\ \A a, b : Before(reg, a, b) => Before(Append(reg, t), a, b)
         /\ \A a \in ToSet(reg) : Before(Append(reg, t), a, t)
<1> DEFINE new == Append(reg, t)
<1>1. /\ Len(reg) \in Nat /\ Len(new) = Len(reg) + 1
      /\ \A i \in 1..Len(reg) + 1 : new[i] = IF i = Len(reg) + 1 THEN t ELSE reg[i]
  OBVIOUS
<1> HIDE DEF new
<1>2. ASSUME NEW a, NEW b, Before(reg, a, b) PROVE Before(new, a, b)
  <2>1. PICK i, j \in 1..Len(reg) : i < j /\ reg[i] = a /\ reg[j] = b
    BY <1>2 DEF Before
  <2>2. i \in 1..Len(new) /\ j \in 1..Len(new) /\ new[i] = a /\ new[j] = b
    BY <1>1, <2>1
  <2> QED BY <2>1, <2>2 DEF Before
<1>3. ASSUME NEW a \in ToSet(reg) PROVE Before(new, a, t)
  <2>1. PICK i \in 1..Len(reg) : reg[i] = a
    BY <1>3, InSeq
  <2>2. /\ i \in 1..Len(new) /\ Len(new) \in 1..Len(new) /\ i < Len(new)
        /\ new[i] = a /\ new[Len(new)] = t
    BY <1>1, <2>1
  <2> QED BY <2>2 DEF Before
<1> QED BY <1>2, <1>3 DEF new

\* What defer() does to the order, what taking the list and running its head do.
LEMMA RisingAppend ==
  ASSUME NEW s \in Seq(Tasks), NEW reg \in Seq(Tasks), NEW t \in Tasks,
         Rising(s, reg), ToSet(s) \subseteq ToSet(reg)
  PROVE  Rising(s, Append(reg, t)) /\ Rising(Append(s, t), Append(reg, t))
<1> DEFINE u   == Append(s, t)
           new == Append(reg, t)
<1>1. /\ Len(s) \in Nat /\ Len(u) = Len(s) + 1
      /\ \A i \in 1..Len(s) + 1 : u[i] = IF i = Len(s) + 1 THEN t ELSE s[i]
  OBVIOUS
<1>2. /\ \A a, b : Before(reg, a, b) => Before(new, a, b)
      /\ \A a \in ToSet(reg) : Before(new, a, t)
  BY BeforeAppend
<1>3. \A i \in 1..Len(s) : s[i] \in ToSet(reg)
  BY InSeq
<1> HIDE DEF u, new
<1>4. Rising(s, new)
  BY <1>2 DEF Rising
<1>5. ASSUME NEW i \in 1..Len(u), NEW j \in 1..Len(u), i < j PROVE Before(new, u[i], u[j])
  <2>1. i \in 1..Len(s) /\ u[i] = s[i]
    BY <1>1, <1>5
  <2>2. CASE j = Len(s) + 1
    BY <1>1, <1>2, <1>3, <2>1, <2>2
  <2>3. CASE j # Len(s) + 1
    <3>1. j \in 1..Len(s) /\ u[j] = s[j]
      BY <1>1, <2>3
    <3> QED BY <1>4, <1>5, <2>1, <3>1 DEF Rising
  <2> QED BY <2>2, <2>3
<1> QED BY <1>4, <1>5 DEF Rising, u, new

LEMMA RisingReverse ==
  ASSUME NEW s \in Seq(Tasks), NEW reg, Rising(s, reg)
  PROVE  Falling(Reverse(s), reg)
<1> DEFINE t == Reverse(s)
<1>1. /\ Len(s) \in Nat /\ Len(t) = Len(s)
      /\ \A i \in 1..Len(s) : t[i] = s[(Len(s) - i) + 1] /\ (Len(s) - i) + 1 \in 1..Len(s)
  BY DEF Reverse
<1> HIDE DEF t
<1>2. ASSUME NEW i \in 1..Len(t), NEW j \in 1..Len(t), i < j PROVE Before(reg, t[j], t[i])
  <2>1. (Len(s) - j) + 1 < (Len(s) - i) + 1
    BY <1>1, <1>2
  <2> QED BY <1>1, <2>1 DEF Rising
<1> QED BY <1>2 DEF Falling, t

LEMMA FallingTail ==
  ASSUME NEW s \in Seq(Tasks), s # <<>>, NEW reg, Falling(s, reg)
  PROVE  /\ Falling(Tail(s), reg)
         /\ \A x \in ToSet(Tail(s)) : Before(reg, x, Head(s))
         /\ ToSet(s) = ToSet(Tail(s)) \cup {Head(s)}
<1> DEFINE t == Tail(s)
<1>1. /\ Len(s) \in Nat /\ Len(s) > 0 /\ t \in Seq(Tasks) /\ Len(t) = Len(s) - 1 /\ Head(s) = s[1]
      /\ \A i \in 1..Len(t) : t[i] = s[i + 1] /\ i + 1 \in 1..Len(s)
  OBVIOUS
<1> HIDE DEF t
<1>2. ASSUME NEW i \in 1..Len(t), NEW j \in 1..Len(t), i < j PROVE Before(reg, t[j], t[i])
  <2>1. i + 1 < j + 1
    BY <1>1, <1>2
  <2> QED BY <1>1, <2>1 DEF Falling
<1>3. \A x \in ToSet(t) : \E i \in 1..Len(t) : t[i] = x
  BY <1>1, InSeq
<1>4. ASSUME NEW x \in ToSet(t) PROVE Before(reg, x, s[1])
  <2>1. PICK i \in 1..Len(t) : t[i] = x
    BY <1>3
  <2>2. 1 \in 1..Len(s) /\ 1 < i + 1
    BY <1>1
  <2> QED BY <1>1, <2>1, <2>2 DEF Falling
<1>5. ASSUME NEW x PROVE x \in ToSet(s) <=> x \in ToSet(t) \/ x = s[1]
  <2>1. x \in ToSet(s) <=> \E i \in 1..Len(s) : s[i] = x
    BY InSeq
  <2>2. x \in ToSet(t) <=> \E i \in 1..Len(t) : t[i] = x
    BY <1>1, InSeq
  <2>3. ASSUME NEW i \in 1..Len(s), s[i] = x, x # s[1] PROVE \E j \in 1..Len(t) : t[j] = x
    <3>1. i - 1 \in 1..Len(t) /\ (i - 1) + 1 = i
      BY <1>1, <2>3
    <3> QED BY <1>1, <2>3, <3>1
  <2>4. 1 \in 1..Len(s)
    BY <1>1
  <2> QED BY <1>1, <2>1, <2>2, <2>3, <2>4
<1> QED BY <1>1, <1>2, <1>4, <1>5 DEF Falling, t

\* What main has done with the tasks, by the label it is at: in its body nothing is run;
\* then the deferred functions are run, the later registered before the earlier; then none
\* of them is left but late ones, and at last no cleanup but late ones.
Orderly(p, d, c, m, e, reg, l, last) ==
  \/ /\ p \in {"new", "body", "take"}
     /\ e = {} /\ Rising(d, reg)
  \/ /\ p \in {"defers", "inDefer"}
     /\ ToSet(d) \subseteq l /\ ToSet(m) \cup e \subseteq Defers /\ Falling(m, reg)
     /\ \A x \in ToSet(m), y \in e : Before(reg, x, y)
  \/ /\ p \in {"cleanups", "inCleanup", "close"}
     /\ ToSet(d) \subseteq l /\ ToSet(m) \subseteq Cleanups
     /\ last /\ p # "close" => ToSet(c) \subseteq l

Calm ==
  /\ signalChan = <<>> /\ pc["signals"] \in {"none", "idle"}
  /\ exit = "main" => pc["main"] = "cleanups" /\ todo["main"] = <<>> /\ closing

OrderInv ==
  /\ Once(registered)
  /\ sent = 0 =>
       /\ Calm
       /\ Orderly(pc["main"], deferredFuncs, goCleanups, todo["main"], ended, registered, late, closing)

LEMMA OrderInit == Init => OrderInv
<1> SUFFICES ASSUME Init PROVE OrderInv
  OBVIOUS
<1>1. Once(<<>>) /\ Len(<<>>) = 0
  BY EmptyList
<1>2. Rising(<<>>, <<>>)
  BY <1>1 DEF Rising
<1> QED BY <1>1, <1>2 DEF Init, OrderInv, Calm, Orderly, Runners

LEMMA OrderPrime ==
  OrderInv' <=>
    /\ Once(registered')
    /\ sent' = 0 => /\ Calm'
                    /\ Orderly(pc'["main"], deferredFuncs', goCleanups', todo'["main"], ended', registered', late', closing')
  BY DEF OrderInv, Once, Calm, Orderly, Rising, Falling, Before, ToSet

LEMMA OnceStep == ASSUME TaskTypes, Once(registered), [Next]_vars PROVE Once(registered')
<1> USE DEF history
<1>1. registered' = registered \/ \E t \in Tasks : /\ registered' = Append(registered, t)
                                                   /\ t \notin ToSet(registered)
  <2>1. CASE MainStep \/ SignalStep \/ StartHandler
    BY <2>1 DEF MainStep, SignalStep, Stop, MainExits, Setup, SignalDone, Receive, EndHandler,
           SignalsEnd, StartHandler
  <2>2. CASE Environment
    <3>1. ASSUME NEW t \in Tasks, Register(t) PROVE <1>1
      BY <3>1 DEF Register
    <3>2. CASE EndBody
      BY <3>2 DEF EndBody
    <3>3. ASSUME NEW n, OnSignal(n) PROVE registered' = registered
      BY <3>3 DEF OnSignal
    <3>4. ASSUME NEW s, Signal(s) PROVE registered' = registered
      BY <3>4 DEF Signal
    <3> QED BY <2>2, <3>1, <3>2, <3>3, <3>4 DEF Environment
  <2>3. ASSUME NEW r \in Runners, ListStep(r) \/ StartDefer(r) PROVE registered' = registered
    BY <2>3 DEF ListStep, TakeDeferred, StartDefer, EndDefer, TakeCleanups, StartCleanup, EndCleanup
  <2>4. ASSUME NEW c \in Calls, Callback(c) PROVE registered' = registered
    BY <2>4 DEF Callback, Enter, Leave, CallFilter, StartFilter, EndFilter
  <2>5. CASE Terminated \/ UNCHANGED vars
    BY <2>5 DEF Terminated, vars
  <2> QED BY <2>1, <2>2, <2>3, <2>4, <2>5 DEF Next
<1>2. registered \in Seq(Tasks)
  BY DEF TaskTypes
<1>3. ASSUME NEW t \in Tasks, t \notin ToSet(registered) PROVE Once(Append(registered, t))
  BY <1>2, <1>3, SeqAppend
<1> QED BY <1>1, <1>3

\* Without a signal only main has tasks.
LEMMA MainAlone ==
  ASSUME TaskInv, Calm
  PROVE  /\ ToSet(registered) = ToSet(deferredFuncs) \cup ToSet(goCleanups)
                                \cup ToSet(todo["main"]) \cup ended
         /\ todo["main"] \in Seq(Tasks) /\ pc["main"] \in Labels
         /\ deferredFuncs \in Seq(Tasks) /\ registered \in Seq(Tasks)
         /\ ToSet(deferredFuncs) \subseteq Defers /\ ToSet(goCleanups) \subseteq Cleanups
<1>1. "signals" \in Runners /\ "main" \in Runners
  BY DEF Runners
<1>2. todo["signals"] = <<>>
  BY <1>1 DEF TaskInv, Walking, Calm, Labels
<1>3. ToSet(todo["signals"]) = {}
  BY <1>2, EmptyList
<1> QED BY <1>1, <1>3, TaskSeq, InSeq DEF TaskInv, TaskTypes, TasksSpread, Spread

\* Any thread registers a task, at any time.
LEMMA OrderRegister ==
  ASSUME TaskInv, OrderInv, sent = 0, NEW t \in Tasks, Register(t)
  PROVE  /\ Calm'
         /\ Orderly(pc'["main"], deferredFuncs', goCleanups', todo'["main"], ended', registered', late', closing')
<1> DEFINE m == todo["main"]
<1>1. /\ registered' = Append(registered, t) /\ exit = "running"
      /\ late' = IF TooLate(t) THEN late \cup {t} ELSE late
      /\ IF t \in Defers THEN deferredFuncs' = Append(deferredFuncs, t) /\ goCleanups' = goCleanups
                        ELSE goCleanups' = Append(goCleanups, t) /\ deferredFuncs' = deferredFuncs
      /\ UNCHANGED <<pc, todo, closing, hook, exit, ended>>
  BY DEF Register, RunsCode, CallsBack, At
<1>2. /\ Calm /\ Orderly(pc["main"], deferredFuncs, goCleanups, m, ended, registered, late, closing)
      /\ deferredFuncs \in Seq(Tasks) /\ goCleanups \in Seq(Tasks) /\ registered \in Seq(Tasks)
      /\ ToSet(deferredFuncs) \subseteq ToSet(registered) /\ m \in Seq(Tasks)
  BY MainAlone, TaskSeq DEF OrderInv, TaskInv, TaskTypes
<1>3. Calm'
  BY <1>1, <1>2 DEF Calm, hook
<1>4. \A a, b : Before(registered, a, b) => Before(registered', a, b)
  BY <1>1, <1>2, BeforeAppend
<1>5. /\ ToSet(Append(deferredFuncs, t)) = ToSet(deferredFuncs) \cup {t}
      /\ ToSet(Append(goCleanups, t)) = ToSet(goCleanups) \cup {t}
  BY <1>2, SeqAppend
<1>6. late \subseteq late'
  BY <1>1
<1>7. CASE pc["main"] \in {"new", "body", "take"}
  <2>1. ended = {} /\ Rising(deferredFuncs, registered)
    BY <1>2, <1>7 DEF Orderly
  <2>2. Rising(deferredFuncs', registered')
    BY <1>1, <1>2, <2>1, RisingAppend
  <2> QED BY <1>1, <1>3, <1>7, <2>1, <2>2 DEF Orderly
<1>8. CASE pc["main"] \in {"defers", "inDefer"}
  <2>1. /\ ToSet(deferredFuncs) \subseteq late /\ ToSet(m) \cup ended \subseteq Defers
        /\ Falling(m, registered) /\ \A x \in ToSet(m), y \in ended : Before(registered, x, y)
    BY <1>2, <1>8 DEF Orderly
  <2>2. ToSet(deferredFuncs') \subseteq late'
    BY <1>1, <1>5, <1>6, <1>8, <2>1 DEF TooLate
  <2>3. Falling(m, registered')
    BY <1>4, <2>1 DEF Falling
  <2> QED BY <1>1, <1>3, <1>4, <1>8, <2>1, <2>2, <2>3 DEF Orderly
<1>9. CASE pc["main"] \in {"cleanups", "inCleanup", "close"}
  <2>1. /\ ToSet(deferredFuncs) \subseteq late /\ ToSet(m) \subseteq Cleanups
        /\ closing /\ pc["main"] # "close" => ToSet(goCleanups) \subseteq late
    BY <1>2, <1>9 DEF Orderly
  <2>2. ToSet(deferredFuncs') \subseteq late'
    BY <1>1, <1>5, <1>6, <1>9, <2>1 DEF TooLate
  <2>3. closing /\ pc["main"] # "close" => ToSet(goCleanups') \subseteq late'
    BY <1>1, <1>5, <1>6, <1>9, <2>1 DEF TooLate
  <2> QED BY <1>1, <1>3, <1>9, <2>1, <2>2, <2>3 DEF Orderly
<1> QED BY <1>2, <1>7, <1>8, <1>9 DEF Orderly

\* The steps of main and of the lists it walks.
LEMMA OrderMain ==
  ASSUME TaskInv, OrderInv, sent = 0,
         \/ MainStep \/ EndBody \/ ListStep("main") \/ StartDefer("main")
  PROVE  /\ Calm'
         /\ Orderly(pc'["main"], deferredFuncs', goCleanups', todo'["main"], ended', registered', late', closing')
<1> DEFINE m == todo["main"]
<1>0. /\ Calm /\ Orderly(pc["main"], deferredFuncs, goCleanups, m, ended, registered, late, closing)
      /\ pc \in [Runners -> Labels] /\ todo \in [Runners -> Seq(Tasks)]
      /\ "main" \in Runners /\ "signals" \in Runners
  BY DEF OrderInv, TaskInv, TaskTypes, Runners
<1>1. /\ m \in Seq(Tasks) /\ deferredFuncs \in Seq(Tasks)
      /\ ToSet(deferredFuncs) \subseteq Defers /\ ToSet(goCleanups) \subseteq Cleanups
  BY <1>0, MainAlone
<1>2. /\ pc["main"] = "inDefer" => m # <<>>
      /\ pc["main"] = "inCleanup" => m # <<>>
      /\ pc["main"] \in {"new", "body", "take", "close"} => m = <<>>
  BY <1>0 DEF TaskInv, Walking, InTask, Labels
<1>3. CASE Setup
  BY <1>0, <1>3 DEF Setup, Calm, Orderly, At, lists, history
<1>4. CASE EndBody
  BY <1>0, <1>4 DEF EndBody, Calm, Orderly, At, Goto, lists, hook, history
<1>5. CASE TakeDeferred("main")
  <2>1. /\ pc["main"] = "take" /\ pc' = [pc EXCEPT !["main"] = "defers"] /\ exit = "running"
        /\ todo' = [todo EXCEPT !["main"] = Reverse(deferredFuncs)] /\ deferredFuncs' = <<>>
        /\ UNCHANGED <<hook, exit, closing, history>>
    BY <1>5 DEF TakeDeferred, At, Goto
  <2>2. ended = {} /\ Rising(deferredFuncs, registered)
    BY <1>0, <2>1 DEF Orderly
  <2>3. Falling(Reverse(deferredFuncs), registered) /\ ToSet(Reverse(deferredFuncs)) \subseteq Defers
    BY <1>1, <2>2, RisingReverse, SeqReverse
  <2>4. Calm'
    BY <1>0, <2>1 DEF Calm, hook
  <2> QED BY <1>0, <2>1, <2>2, <2>3, <2>4, EmptyList DEF Orderly, history
<1>6. CASE StartDefer("main")
  <2>1. /\ pc["main"] = "defers" /\ pc' = [pc EXCEPT !["main"] = "inDefer"] /\ exit = "running"
        /\ UNCHANGED <<lists, todo, hook, exit, closing, registered, ended, late>>
    BY <1>6 DEF StartDefer, At, Goto
  <2> QED BY <1>0, <2>1 DEF Calm, Orderly, lists, hook
<1>7. CASE EndDefer("main")
  <2>1. /\ pc["main"] = "inDefer" /\ pc' = [pc EXCEPT !["main"] = "defers"] /\ exit = "running"
        /\ ended' = ended \cup {Head(m)} /\ todo' = [todo EXCEPT !["main"] = Tail(m)]
        /\ UNCHANGED <<lists, hook, exit, closing, registered, late>>
    BY <1>7 DEF EndDefer, At, Goto
  <2>2. /\ ToSet(deferredFuncs) \subseteq late /\ ToSet(m) \cup ended \subseteq Defers /\ Falling(m, registered)
        /\ \A x \in ToSet(m), y \in ended : Before(registered, x, y)
    BY <1>0, <2>1 DEF Orderly
  <2>3. /\ Falling(Tail(m), registered) /\ ToSet(m) = ToSet(Tail(m)) \cup {Head(m)}
        /\ \A x \in ToSet(Tail(m)) : Before(registered, x, Head(m))
    BY <1>1, <1>2, <2>1, <2>2, FallingTail
  <2>4. Calm'
    BY <1>0, <2>1 DEF Calm, hook
  <2>5. todo'["main"] = Tail(m) /\ pc'["main"] = "defers" /\ UNCHANGED <<deferredFuncs, late, registered>>
    BY <1>0, <2>1 DEF lists
  <2> QED BY <2>1, <2>2, <2>3, <2>4, <2>5 DEF Orderly
<1>8. CASE TakeCleanups("main")
  <2>1. /\ pc["main"] = "close" \/ (pc["main"] = "defers" /\ m = <<>>)
        /\ pc' = [pc EXCEPT !["main"] = "cleanups"] /\ exit = "running"
        /\ todo' = [todo EXCEPT !["main"] = Reverse(goCleanups)] /\ goCleanups' = <<>>
        /\ UNCHANGED <<deferredFuncs, hook, exit, closing, late>>
    BY <1>8 DEF TakeCleanups, At, Goto, history
  <2>2. goCleanups \in Seq(Cleanups)
    BY DEF TaskInv, TaskTypes
  <2>3. ToSet(Reverse(goCleanups)) \subseteq Cleanups
    BY <1>1, <2>2, SeqReverse
  <2>4. ToSet(deferredFuncs) \subseteq late
    BY <1>0, <2>1 DEF Orderly
  <2>5. Calm'
    BY <1>0, <2>1 DEF Calm, hook
  <2> QED BY <1>0, <2>1, <2>3, <2>4, <2>5, EmptyList DEF Orderly
<1>9. CASE StartCleanup("main")
  <2>1. /\ pc["main"] = "cleanups" /\ pc' = [pc EXCEPT !["main"] = "inCleanup"] /\ exit = "running"
        /\ UNCHANGED <<lists, todo, hook, exit, closing, late>>
    BY <1>9 DEF StartCleanup, At, Goto
  <2> QED BY <1>0, <2>1 DEF Calm, Orderly, lists, hook
<1>10. CASE EndCleanup("main")
  <2>1. /\ pc["main"] = "inCleanup" /\ pc' = [pc EXCEPT !["main"] = "cleanups"] /\ exit = "running"
        /\ todo' = [todo EXCEPT !["main"] = Tail(m)]
        /\ UNCHANGED <<lists, hook, exit, closing, late>>
    BY <1>10 DEF EndCleanup, At, Goto
  <2>2. /\ ToSet(deferredFuncs) \subseteq late /\ ToSet(m) \subseteq Cleanups
        /\ closing => ToSet(goCleanups) \subseteq late
    BY <1>0, <2>1 DEF Orderly
  <2>3. m \in Seq(Cleanups)
    BY <1>1, <2>2, InSeq
  <2>4. Tail(m) \in Seq(Cleanups)
    BY <1>2, <2>1, <2>3, SeqTail
  <2>5. ToSet(Tail(m)) \subseteq Cleanups
    BY <2>4, InSeq
  <2>6. Calm'
    BY <1>0, <2>1 DEF Calm, hook
  <2> QED BY <1>0, <2>1, <2>2, <2>5, <2>6 DEF Orderly, lists
<1>11. CASE Stop
  <2>1. /\ pc["main"] = "cleanups" /\ pc' = [pc EXCEPT !["main"] = "close"] /\ exit = "running"
        /\ UNCHANGED <<lists, todo, signalChan, exit, late>>
    BY <1>11 DEF Stop, AllTaken, At, Goto, history
  <2> QED BY <1>0, <2>1 DEF Calm, Orderly, lists
<1>12. CASE MainExits
  <2>1. /\ pc["main"] = "cleanups" /\ m = <<>> /\ closing
        /\ UNCHANGED <<lists, pc, todo, closing, hook, history>>
    BY <1>12 DEF MainExits, AllTaken, At
  <2> QED BY <1>0, <2>1 DEF Calm, Orderly, lists, hook, history
<1> QED BY <1>3, <1>4, <1>5, <1>6, <1>7, <1>8, <1>9, <1>10, <1>11, <1>12 DEF MainStep, ListStep

LEMMA OrderStep == ASSUME RunInv, OrderInv, [Next]_vars PROVE OrderInv'
<1> TaskInv
  BY DEF RunInv
<1>1. Once(registered')
  BY OnceStep DEF OrderInv, TaskInv
<1>2. ASSUME sent' = 0
      PROVE  /\ Calm'
             /\ Orderly(pc'["main"], deferredFuncs', goCleanups', todo'["main"], ended', registered', late', closing')
  <2>1. sent = 0 /\ ~\E s \in Signals : Signal(s)
    <3>1. sent \in Nat
      BY ConstantsAssumption DEF RunInv, HookTypes, ConstantsAssumption
    <3>2. sent' = sent \/ \E s \in Signals : Signal(s)
      <4>1. CASE MainStep \/ SignalStep \/ StartHandler
        BY <4>1 DEF MainStep, SignalStep, Stop, MainExits, Setup, SignalDone, Receive, EndHandler,
               SignalsEnd, StartHandler
      <4>2. CASE Environment
        BY <4>2 DEF Environment, Register, OnSignal, EndBody
      <4>3. ASSUME NEW r \in Runners, ListStep(r) \/ StartDefer(r) PROVE sent' = sent
        BY <4>3 DEF ListStep, TakeDeferred, StartDefer, EndDefer, TakeCleanups, StartCleanup, EndCleanup
      <4>4. ASSUME NEW c \in Calls, Callback(c) PROVE sent' = sent
        BY <4>4 DEF Callback, Enter, Leave, CallFilter, StartFilter, EndFilter
      <4>5. CASE Terminated \/ UNCHANGED vars
        BY <4>5 DEF Terminated, vars
      <4> QED BY <4>1, <4>2, <4>3, <4>4, <4>5 DEF Next
    <3>3. ASSUME NEW s \in Signals, Signal(s) PROVE sent' = sent + 1
      BY <3>3 DEF Signal
    <3> QED BY <1>2, <3>1, <3>2, <3>3
  <2>2. CASE \E t \in Tasks : Register(t)
    BY <2>1, <2>2, OrderRegister
  <2>3. CASE ~\E t \in Tasks : Register(t)
    <3>1. /\ Calm /\ Orderly(pc["main"], deferredFuncs, goCleanups, todo["main"], ended, registered, late, closing)
          /\ pc \in [Runners -> Labels] /\ "main" \in Runners /\ "signals" \in Runners
      BY <2>1 DEF OrderInv, TaskInv, TaskTypes, Runners
    \* the other steps leave main and the tasks alone
    <3>2. ASSUME UNCHANGED <<lists, todo, closing, registered, ended, late, signalChan, exit>>, pc'["main"] = pc["main"],
                 pc'["signals"] \in {"none", "idle"}
          PROVE  <1>2!2
      BY <3>1, <3>2 DEF Calm, lists
    <3>3. CASE MainStep \/ EndBody \/ ListStep("main") \/ StartDefer("main")
      BY <2>1, <3>3, OrderMain
    <3>4. CASE SignalStep \/ StartHandler
      <4>1. SignalsEnd
        BY <3>1, <3>4 DEF SignalStep, SignalDone, AllTaken, Receive, EndHandler, StartHandler, Calm, At
      <4>2. /\ UNCHANGED <<lists, todo, closing, signalChan, exit, registered, ended, late>>
            /\ pc' = [pc EXCEPT !["signals"] = "none"]
        BY <4>1 DEF SignalsEnd, Goto, hook, history
      <4> QED BY <3>1, <3>2, <4>2
    <3>6. CASE \E n \in OnSignalNames : OnSignal(n)
      BY <3>1, <3>2, <3>6 DEF OnSignal, Calm, history
    <3>7. CASE ListStep("signals") \/ StartDefer("signals")
      BY <3>1, <3>7 DEF ListStep, TakeDeferred, StartDefer, EndDefer, TakeCleanups, StartCleanup,
             EndCleanup, Calm, At
    <3>8. ASSUME NEW c \in Calls, Callback(c) PROVE <1>2!2
      <4>1. UNCHANGED <<lists, todo, closing, pc, hook, exit, history>>
        BY <3>8 DEF Callback, Enter, Leave, CallFilter, StartFilter, EndFilter
      <4> QED BY <3>1, <3>2, <4>1 DEF Calm, hook, history
    <3>9. CASE Terminated \/ UNCHANGED vars
      <4>1. UNCHANGED vars
        BY <3>9 DEF Terminated
      <4> QED BY <3>1, <3>2, <4>1 DEF Calm, vars, hook, history
    <3> QED BY <2>1, <2>3, <3>3, <3>4, <3>6, <3>7, <3>8, <3>9 DEF Next, Environment, Runners
  <2> QED BY <2>1, <2>2, <2>3
<1> QED BY <1>1, <1>2, OrderPrime

\* What has run, under the invariant.
LEMMA OrderedRun == ASSUME RunInv, OrderInv, sent = 0 PROVE UndisturbedRun
<1> DEFINE m == todo["main"]
<1>1. /\ Calm /\ Orderly(pc["main"], deferredFuncs, goCleanups, m, ended, registered, late, closing)
      /\ Once(registered) /\ TaskInv
  BY DEF OrderInv, RunInv
<1>2. /\ ToSet(registered) = ToSet(deferredFuncs) \cup ToSet(goCleanups) \cup ToSet(m) \cup ended
      /\ m \in Seq(Tasks) /\ registered \in Seq(Tasks)
      /\ ToSet(goCleanups) \subseteq Cleanups /\ Defers \cap Cleanups = {}
  BY <1>1, MainAlone, ConstantsAssumption
<1>3. ToSet(<<>>) = {}
  BY EmptyList
\* A task that was started is ended or in main's hands.
<1>4. ASSUME NEW t \in Tasks, runs[t] > 0
      PROVE  /\ t \in ended \/ (t \in ToSet(m) /\ m # <<>> /\ t = Head(m))
             /\ pc["main"] \notin {"new", "body", "take"}
  <2>1. t \in ended \/ \E r \in Runners : InTask(r) /\ t = Head(todo[r])
    BY <1>1, <1>4 DEF TaskInv, StartedOnce
  <2>2. ~InTask("signals")
    BY <1>1 DEF Calm, InTask
  <2>3. InTask("main") => m # <<>>
    BY <1>1 DEF TaskInv, Walking, Runners
  <2>4. m # <<>> => Head(m) \in ToSet(m)
    BY <1>2, SeqTail
  <2>5. pc["main"] \in {"new", "body", "take"} => ended = {} /\ ~InTask("main")
    BY <1>1 DEF Orderly, InTask
  <2> QED BY <2>1, <2>2, <2>3, <2>4, <2>5 DEF Runners
\* Once main runs cleanups, all deferred functions but the late ones have ended.
<1>5. pc["main"] \in {"cleanups", "inCleanup", "close"}
      => (Defers \cap ToSet(registered)) \ late \subseteq ended
  BY <1>1, <1>2, <1>3 DEF Orderly
<1>6. ASSUME NEW i \in 1..Len(registered), NEW j \in 1..Len(registered), i < j,
             registered[i] \in Defers \ late, registered[j] \in Defers \ late, runs[registered[i]] > 0
      PROVE  registered[j] \in ended
  <2> DEFINE a == registered[i]
             b == registered[j]
  <2>1. a \in Tasks /\ b \in ToSet(registered) /\ Before(registered, a, b)
    BY <1>2, <1>6, InSeq DEF Before, Tasks
  <2>2. ~Before(registered, b, a) /\ a # b
    BY <1>1, <1>2, <2>1, BeforeOnce
  <2>3. a \in ended \/ (m # <<>> /\ a = Head(m))
    BY <1>4, <1>6, <2>1
  <2>4. CASE pc["main"] \in {"defers", "inDefer"}
    <3>1. /\ ToSet(deferredFuncs) \subseteq late /\ Falling(m, registered)
          /\ \A x \in ToSet(m), y \in ended : Before(registered, x, y)
      BY <1>1, <2>4 DEF Orderly
    <3>2. b \in ToSet(m) \cup ended
      BY <1>2, <1>3, <1>6, <2>1, <3>1
    <3>3. CASE b \in ToSet(m) /\ a \in ended
      BY <2>2, <3>1, <3>3
    <3>4. CASE b \in ToSet(m) /\ m # <<>> /\ a = Head(m)
      BY <1>2, <2>2, <3>1, <3>4, FallingTail
    <3> QED BY <2>3, <3>2, <3>3, <3>4
  <2>5. CASE pc["main"] \in {"cleanups", "inCleanup", "close"}
    BY <1>5, <1>6, <2>1, <2>5
  <2> QED BY <1>1, <1>4, <1>6, <2>1, <2>4, <2>5 DEF Orderly
<1>7. ASSUME NEW t \in Cleanups, runs[t] > 0
      PROVE  pc["main"] # "body" /\ (Defers \cap ToSet(registered)) \ late \subseteq ended
  <2>1. t \in Tasks /\ t \notin Defers
    BY <1>2 DEF Tasks
  <2>2. t \in ended \cup ToSet(m) /\ pc["main"] \notin {"new", "body", "take"}
    BY <1>4, <1>7, <2>1
  <2>3. pc["main"] \notin {"defers", "inDefer"}
    BY <1>1, <2>1, <2>2 DEF Orderly
  <2> QED BY <1>1, <1>5, <2>2, <2>3 DEF Orderly
<1>8. exit = "main" => ToSet(registered) \ late \subseteq ended
  BY <1>1, <1>2, <1>3 DEF Calm, Orderly
<1> QED BY <1>6, <1>7, <1>8 DEF UndisturbedRun

\* In a run without a signal what was registered in time is run, last in first out and
\* cleanups last, for every number of tasks and whichever threads register them.
THEOREM UndisturbedCorrect == Spec => []UndisturbedRun
<1>1. RunInv /\ OrderInv /\ [Next]_vars => OrderInv'
  BY OrderStep
<1>2. RunInv /\ OrderInv => UndisturbedRun
  BY OrderedRun DEF UndisturbedRun
<1> QED BY <1>1, <1>2, OrderInit, RunAlways, PTL DEF Spec

=============================================================================
