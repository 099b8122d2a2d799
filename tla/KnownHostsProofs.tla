--------------------------- MODULE KnownHostsProofs ---------------------------
(***************************************************************************)
(* known_hosts within one process, for any number of goroutines, hosts,    *)
(* keys, calls and faults: whoever changes the file owns the lock file,    *)
(* and, where saves and removals keep apart, the file is the store of      *)
(* KnownHostsStore.                                                        *)
(***************************************************************************)
EXTENDS KnownHosts, TLAPS

OneProcess == \A t, u \in Tasks : ProcessOf[t] = ProcessOf[u]

-----------------------------------------------------------------------------
(* The file as a set of pairs.                                             *)

\* Appending the line of a pair trusts that pair.
LEMMA PairsOfAppend ==
  ASSUME NEW lines, NEW pair, pair = <<pair[1], pair[2]>>, NEW hash
  PROVE  PairsOf(lines \cup {Line(pair, hash)}) = PairsOf(lines) \cup {pair}
  <1>1. {<<Line(pair, hash).hosts[i], Line(pair, hash).key>> : i \in DOMAIN Line(pair, hash).hosts} = {pair}
    BY DEF Line
  <1> QED BY <1>1 DEF PairsOf

\* A line that is there already is trusted.
LEMMA ContainsPair ==
  ASSUME NEW lines, NEW pair, pair = <<pair[1], pair[2]>>, NEW hash, Contains(lines, Line(pair, hash))
  PROVE  pair \in PairsOf(lines)
  <1>1. PICK l \in lines : /\ l.key = Line(pair, hash).key
                           /\ \E i \in DOMAIN l.hosts : l.hosts[i] = Line(pair, hash).hosts[1]
    BY DEF Contains
  <1>2. PICK i \in DOMAIN l.hosts : l.hosts[i] = pair[1] /\ l.key = pair[2]
    BY <1>1 DEF Line
  <1>3. pair \in {<<l.hosts[j], l.key>> : j \in DOMAIN l.hosts}
    BY <1>2
  <1> QED BY <1>3 DEF PairsOf

\* Pruning a host takes away its pairs and no others.
LEMMA PairsOfPrune ==
  ASSUME NEW lines, NEW host
  PROVE  PairsOf(Prune(lines, host)) = {pair \in PairsOf(lines) : pair[1] # host}
  <1>1. ASSUME NEW pair \in PairsOf(Prune(lines, host))
        PROVE  pair \in PairsOf(lines) /\ pair[1] # host
    <2>1. PICK l \in lines : \E i \in DOMAIN Without(l, host).hosts :
                               pair = <<Without(l, host).hosts[i], Without(l, host).key>>
      BY DEF PairsOf, Prune
    <2>2. PICK i \in Keeps(l, host) : pair = <<l.hosts[i], l.key>>
      BY <2>1 DEF Without
    <2>3. i \in DOMAIN l.hosts /\ l.hosts[i] # host
      BY <2>2 DEF Keeps
    <2> QED BY <2>2, <2>3 DEF PairsOf
  <1>2. ASSUME NEW pair \in PairsOf(lines), pair[1] # host
        PROVE  pair \in PairsOf(Prune(lines, host))
    <2>1. PICK l \in lines : \E i \in DOMAIN l.hosts : pair = <<l.hosts[i], l.key>>
      BY DEF PairsOf
    <2>2. PICK i \in DOMAIN l.hosts : pair = <<l.hosts[i], l.key>>
      BY <2>1
    <2>3. i \in Keeps(l, host)
      BY <1>2, <2>2 DEF Keeps
    <2>4. Without(l, host) \in Prune(lines, host)
      BY <2>3 DEF Prune
    <2>5. pair \in {<<Without(l, host).hosts[j], Without(l, host).key>> : j \in DOMAIN Without(l, host).hosts}
      BY <2>2, <2>3 DEF Without
    <2> QED BY <2>4, <2>5 DEF PairsOf
  <1> QED BY <1>1, <1>2

-----------------------------------------------------------------------------
(* Types.                                                                  *)

LEMMA LineTyped ==
  ASSUME NEW r \in Requests, NEW pair \in r.pairs
  PROVE  IsLine(Line(pair, r.hash))
  <1>1. pair[1] \in Hosts /\ pair[2] \in Keys /\ r.hash \in BOOLEAN
    BY ConstantsAssumption DEF Hosts, Keys, Pairs, ConstantsAssumption
  <1>2. <<pair[1]>> \in [{1} -> Hosts] /\ DOMAIN <<pair[1]>> = {1}
    BY <1>1
  <1> QED BY <1>1, <1>2 DEF IsLine, Line

LEMMA WithoutTyped ==
  ASSUME NEW l, IsLine(l), NEW host, Keeps(l, host) # {}
  PROVE  IsLine(Without(l, host))
  BY DEF IsLine, Without, Keeps

LEMMA PruneTyped ==
  ASSUME NEW lines, \A l \in lines : IsLine(l), NEW host
  PROVE  \A l \in Prune(lines, host) : IsLine(l)
  BY WithoutTyped DEF Prune

\* What an addition writes is the line of the pair it was asked for.
LEMMA NewLineIs ==
  ASSUME NEW t \in Tasks, request[t] \in Requests, request[t].kind = "add"
  PROVE  \E pair \in request[t].pairs :
           request[t].pairs = {pair} /\ NewLine(t) = Line(pair, request[t].hash)
  BY ConstantsAssumption DEF ConstantsAssumption, NewLine

-----------------------------------------------------------------------------
(* The part of TypeOK without the lines, and what each place in the code   *)
(* says about its call.                                                    *)

Busy     == {"locked", "appending", "releasing"}
Critical == Busy \cup {"reading", "waiting", "breaking", "unlocking"}
Places   == Critical \cup {"idle", "add", "remove", "save", "saving"}

ControlTyped ==
  /\ lock \in Tasks \cup {Nobody, Orphan, Stale, Stuck}
  /\ knownHostsMu \in [Procs -> Tasks \cup {Nobody}]
  /\ pc \in [Tasks -> Places]
  /\ request \in [Tasks -> Requests \cup {NoCall}]
  /\ content = [t \in Tasks |-> content[t]] /\ toAppend = [t \in Tasks |-> toAppend[t]]
  /\ result \in [Tasks -> {"none", "ok", "error"}]
  /\ calls \in 0..MaxCalls /\ faults \in 0..MaxFaults

LinesTyped ==
  /\ \A l \in file : IsLine(l)
  /\ \A t \in Tasks : \A l \in content[t] \cup toAppend[t] : IsLine(l)

CallAt(t) ==
  /\ pc[t] = "idle" => result[t] = "none" /\ request[t] = NoCall
  /\ pc[t] # "idle" => request[t] \in Requests
  /\ pc[t] \in {"add", "appending"} => request[t].kind = "add"
  /\ pc[t] \in {"remove", "reading"} => request[t].kind = "remove"
  /\ pc[t] \in {"save", "saving"} => request[t].kind = "save"
  /\ pc[t] \in Critical => request[t].kind \in {"add", "remove"}
  /\ pc[t] \in {"add", "remove", "reading", "waiting", "breaking", "locked", "appending", "save"}
       => result[t] = "none"
  /\ pc[t] \in {"releasing", "unlocking"} => result[t] # "none"
CallsAt == \A t \in Tasks : CallAt(t)

BaseInv == ControlTyped /\ LinesTyped /\ CallsAt

LEMMA BaseType == BaseInv => TypeOK
  BY DEF BaseInv, ControlTyped, LinesTyped, TypeOK, Places, Critical, Busy

LEMMA BaseInit == Init => BaseInv
  <1> SUFFICES ASSUME Init PROVE BaseInv
    OBVIOUS
  <1>1. ControlTyped
    BY ConstantsAssumption DEF Init, ControlTyped, Places, ConstantsAssumption
  <1>2. LinesTyped
    BY ConstantsAssumption DEF Init, LinesTyped, ConstantsAssumption
  <1>3. CallsAt
    BY DEF Init, CallsAt, CallAt, Critical, Busy
  <1> QED BY <1>1, <1>2, <1>3 DEF BaseInv

\* Steps of one goroutine that leave the lines where they are.
Quiet(t) ==
  \/ \E r \in Requests : Call(t, r)
  \/ LockMutex(t) \/ AcquireLock(t) \/ FindStale(t) \/ BreakLock(t) \/ GiveUp(t)
  \/ ReleaseLock(t) \/ ReleaseFails(t) \/ ReadToAdd(t) \/ ReadFails(t) \/ IOError(t)
  \/ SaveDone(t) \/ SaveReturns(t)

LEMMA QuietLines ==
  ASSUME NEW t \in Tasks, Quiet(t)
  PROVE  UNCHANGED <<file, content, toAppend>>
  BY DEF Quiet, Call, LockMutex, AcquireLock, FindStale, BreakLock, GiveUp, ReleaseLock, ReleaseFails, ReadFails,
         ReadToAdd, IOError, SaveDone, SaveReturns, disk, locals

LEMMA QuietControl ==
  ASSUME BaseInv, NEW t \in Tasks, Quiet(t)
  PROVE  ControlTyped' /\ CallsAt'
  <1> USE ConstantsAssumption DEF BaseInv, ControlTyped, CallsAt, CallAt, Places, Critical, Busy,
          At, Goto, Ends, Fault, disk, locals, bounds, ConstantsAssumption
  <1>1. ASSUME NEW r \in Requests, Call(t, r) PROVE ControlTyped' /\ CallsAt'
    BY <1>1 DEF Call
  <1>2. CASE LockMutex(t)
    BY <1>2 DEF LockMutex
  <1>3. CASE AcquireLock(t)
    BY <1>3 DEF AcquireLock
  <1>4. CASE FindStale(t)
    BY <1>4 DEF FindStale
  <1>5. CASE BreakLock(t)
    BY <1>5 DEF BreakLock
  <1>6. CASE GiveUp(t)
    BY <1>6 DEF GiveUp
  <1>7. CASE ReleaseLock(t)
    BY <1>7 DEF ReleaseLock
  <1>8. CASE ReadToAdd(t)
    BY <1>8 DEF ReadToAdd
  <1>9. CASE IOError(t)
    BY <1>9 DEF IOError
  <1>10. CASE SaveDone(t)
    BY <1>10 DEF SaveDone
  <1>11. CASE SaveReturns(t)
    BY <1>11 DEF SaveReturns
  <1>12. CASE ReleaseFails(t)
    BY <1>12 DEF ReleaseFails
  <1>13. CASE ReadFails(t)
    BY <1>13 DEF ReadFails
  <1> QED BY <1>1, <1>2, <1>3, <1>4, <1>5, <1>6, <1>7, <1>8, <1>9, <1>10, <1>11, <1>12, <1>13 DEF Quiet

\* Steps of one goroutine that read or write lines.
Moving(t) ==
  \/ ReadToRemove(t) \/ Unlock(t) \/ AppendLine(t) \/ ReplaceFile(t)
  \/ ReadToSave(t) \/ SaveLine(t) \/ SaveFails(t)

LEMMA MovingControl ==
  ASSUME BaseInv, NEW t \in Tasks, Moving(t)
  PROVE  ControlTyped' /\ CallsAt'
  <1> USE ConstantsAssumption DEF BaseInv, ControlTyped, CallsAt, CallAt, Places, Critical, Busy,
          At, Goto, Ends, Fault, disk, locals, bounds, ConstantsAssumption
  <1>1. CASE ReadToRemove(t)
    <2>1. content' = [u \in Tasks |-> content'[u]] /\ UNCHANGED toAppend
      BY <1>1 DEF ReadToRemove
    <2>2. /\ UNCHANGED <<lock, knownHostsMu, request, calls, faults>>
          /\ pc' \in [Tasks -> Places] /\ result' \in [Tasks -> {"none", "ok", "error"}]
      BY <1>1 DEF ReadToRemove
    <2>3. CallsAt'
      BY <1>1 DEF ReadToRemove
    <2> QED BY <2>1, <2>2, <2>3
  <1>2. CASE Unlock(t)
    BY <1>2 DEF Unlock
  <1>3. CASE AppendLine(t)
    BY <1>3 DEF AppendLine
  <1>4. CASE ReplaceFile(t)
    BY <1>4 DEF ReplaceFile
  <1>5. CASE ReadToSave(t)
    BY <1>5 DEF ReadToSave
  <1>6. CASE SaveLine(t)
    BY <1>6 DEF SaveLine
  <1>7. CASE SaveFails(t)
    <2>1. toAppend' = [u \in Tasks |-> toAppend'[u]] /\ UNCHANGED content
      BY <1>7 DEF SaveFails
    <2>2. /\ UNCHANGED <<lock, knownHostsMu, request, calls>> /\ faults' \in 0..MaxFaults
          /\ pc' \in [Tasks -> Places] /\ result' \in [Tasks -> {"none", "ok", "error"}]
      BY <1>7 DEF SaveFails
    <2>3. CallsAt'
      BY <1>7 DEF SaveFails
    <2> QED BY <2>1, <2>2, <2>3
  <1> QED BY <1>1, <1>2, <1>3, <1>4, <1>5, <1>6, <1>7 DEF Moving

LEMMA MovingLines ==
  ASSUME BaseInv, NEW t \in Tasks, Moving(t)
  PROVE  LinesTyped'
  <1> USE DEF BaseInv, LinesTyped, At, disk, locals
  <1>1. CASE ReadToRemove(t)
    BY <1>1 DEF ReadToRemove, ControlTyped
  <1>2. CASE Unlock(t)
    BY <1>2 DEF Unlock, ControlTyped
  <1>3. CASE AppendLine(t)
    <2>1. request[t] \in Requests /\ request[t].kind = "add"
      BY <1>3 DEF AppendLine, CallsAt, CallAt
    <2>2. IsLine(NewLine(t))
      BY <2>1, NewLineIs, LineTyped
    <2> QED BY <1>3, <2>2 DEF AppendLine
  <1>4. CASE ReplaceFile(t)
    BY <1>4, PruneTyped DEF ReplaceFile
  <1>5. CASE ReadToSave(t)
    <2>1. request[t] \in Requests
      BY <1>5 DEF ReadToSave, CallsAt, CallAt
    <2>2. \A l \in toAppend'[t] : IsLine(l)
      BY <1>5, <2>1, LineTyped DEF ReadToSave, ControlTyped
    <2>3. \A u \in Tasks : u # t => toAppend'[u] = toAppend[u]
      BY <1>5 DEF ReadToSave, ControlTyped
    <2> QED BY <1>5, <2>2, <2>3 DEF ReadToSave
  <1>6. CASE SaveLine(t)
    BY <1>6 DEF SaveLine, ControlTyped
  <1>7. CASE SaveFails(t)
    BY <1>7 DEF SaveFails, ControlTyped
  <1> QED BY <1>1, <1>2, <1>3, <1>4, <1>5, <1>6, <1>7 DEF Moving

LEMMA CrashBase ==
  ASSUME BaseInv, NEW p \in Procs, Crash(p)
  PROVE  BaseInv'
  <1>1. ControlTyped'
    BY ConstantsAssumption DEF BaseInv, ControlTyped, Crash, Fault, Places, Critical, Busy, ConstantsAssumption
  <1>2. LinesTyped'
    BY DEF BaseInv, LinesTyped, Crash
  <1>3. CallsAt'
    BY DEF BaseInv, CallsAt, CallAt, Crash, Critical, Busy
  <1> QED BY <1>1, <1>2, <1>3 DEF BaseInv

LEMMA NextCases ==
  ASSUME [Next]_vars
  PROVE  \/ \E t \in Tasks : Quiet(t) \/ Moving(t)
         \/ \E p \in Procs : Crash(p)
         \/ Age \/ UNCHANGED vars
  BY DEF Next, Step, Quiet, Moving

LEMMA BaseStep == BaseInv /\ [Next]_vars => BaseInv'
  <1> SUFFICES ASSUME BaseInv, [Next]_vars PROVE BaseInv'
    OBVIOUS
  <1>1. ASSUME NEW t \in Tasks, Quiet(t) PROVE BaseInv'
    <2>1. LinesTyped'
      BY <1>1, QuietLines DEF BaseInv, LinesTyped
    <2> QED BY <1>1, <2>1, QuietControl DEF BaseInv
  <1>2. ASSUME NEW t \in Tasks, Moving(t) PROVE BaseInv'
    BY <1>2, MovingControl, MovingLines DEF BaseInv
  <1>3. CASE Age
    BY <1>3 DEF Age, BaseInv, ControlTyped, LinesTyped, CallsAt, CallAt, locals, bounds
  <1>4. CASE UNCHANGED vars
    BY <1>4 DEF BaseInv, ControlTyped, LinesTyped, CallsAt, CallAt, vars, disk, locals, bounds
  <1> QED BY <1>1, <1>2, <1>3, <1>4, NextCases, CrashBase

\* The type invariant of the file, the locks and the calls, with every goroutine's
\* result in step with the place it has reached (known_hosts.go, keyscan.go).
THEOREM TypeCorrect == Spec => []TypeOK
  <1>1. Spec => []BaseInv
    BY BaseInit, BaseStep, PTL DEF Spec
  <1> QED BY <1>1, BaseType, PTL

-----------------------------------------------------------------------------
(* The locks.                                                              *)

\* Everybody between Lock and Unlock holds the mutex of the process.
MutexHeld == \A t \in Tasks : pc[t] \in Critical => Mutex(t) = t

LockInv == BaseInv /\ MutexHeld /\ LockOwned

LEMMA OneInside ==
  ASSUME OneProcess, MutexHeld, NEW t \in Tasks, NEW u \in Tasks, pc[t] \in Critical, pc[u] \in Critical
  PROVE  t = u
  BY DEF OneProcess, MutexHeld, Mutex

LEMMA LockInit == Init => LockInv
  <1> SUFFICES ASSUME Init PROVE LockInv
    OBVIOUS
  <1>1. MutexHeld /\ LockOwned
    BY DEF Init, MutexHeld, LockOwned, InFile, Critical, Busy
  <1> QED BY <1>1, BaseInit DEF LockInv

\* A goroutine that is outside, or has just taken or left the mutex.
LEMMA LockStepOf ==
  ASSUME OneProcess, LockInv, NEW t \in Tasks, Quiet(t) \/ Moving(t)
  PROVE  MutexHeld' /\ LockOwned'
  <1>0. /\ ProcessOf \in [Tasks -> Procs] /\ {Nobody, Orphan, Stale, Stuck} \cap Tasks = {}
        /\ \A r \in Requests : r.kind \in {"add", "remove", "save"}
    BY ConstantsAssumption DEF ConstantsAssumption
  <1> USE <1>0 DEF LockInv, BaseInv, ControlTyped, At, Goto, disk, locals, InFile, Critical, Busy, Places
  <1>1. \A u \in Tasks : pc[t] \in Critical /\ pc[u] \in Critical => t = u
    BY OneInside DEF LockInv
  <1>2. ASSUME UNCHANGED <<lock, knownHostsMu>>, \A u \in Tasks \ {t} : pc'[u] = pc[u],
               pc'[t] \in Critical => pc[t] \in Critical, pc'[t] \in Busy => pc[t] \in Busy
        PROVE  MutexHeld' /\ LockOwned'
    BY <1>2 DEF MutexHeld, LockOwned, Mutex
  <1>3. CASE LockMutex(t)
    <2>1. \A u \in Tasks : pc[u] \notin Critical
      BY <1>3 DEF LockMutex, MutexHeld, Mutex, OneProcess
    <2> QED BY <1>3, <2>1 DEF LockMutex, MutexHeld, LockOwned, Mutex
  <1>4. CASE AcquireLock(t)
    BY <1>1, <1>4 DEF AcquireLock, MutexHeld, LockOwned, Mutex
  <1>5. CASE BreakLock(t) \/ ReleaseLock(t) \/ ReleaseFails(t)
    BY <1>1, <1>5 DEF BreakLock, ReleaseLock, ReleaseFails, MutexHeld, LockOwned, Mutex
  <1>6. CASE Unlock(t)
    BY <1>1, <1>6 DEF Unlock, MutexHeld, LockOwned, Mutex
  <1>7. CASE (\E r \in Requests : Call(t, r)) \/ SaveReturns(t) \/ SaveDone(t)
             \/ ReadToSave(t) \/ SaveLine(t) \/ SaveFails(t)
    BY <1>2, <1>7 DEF Call, SaveReturns, SaveDone, ReadToSave, SaveLine, SaveFails
  <1>8. CASE FindStale(t) \/ GiveUp(t) \/ ReadToRemove(t)
    BY <1>2, <1>8 DEF FindStale, GiveUp, ReadToRemove
  <1>9. CASE ReadToAdd(t) \/ ReadFails(t) \/ IOError(t) \/ AppendLine(t) \/ ReplaceFile(t)
    BY <1>2, <1>9 DEF ReadToAdd, ReadFails, IOError, AppendLine, ReplaceFile
  <1> QED BY <1>3, <1>4, <1>5, <1>6, <1>7, <1>8, <1>9 DEF Quiet, Moving

LEMMA LockStep ==
  ASSUME OneProcess
  PROVE  LockInv /\ [Next]_vars => LockInv'
  <1> SUFFICES ASSUME LockInv, [Next]_vars PROVE LockInv'
    OBVIOUS
  <1>0. BaseInv'
    BY BaseStep DEF LockInv
  <1>1. ASSUME NEW p \in Procs, Crash(p) PROVE MutexHeld' /\ LockOwned'
    BY <1>1 DEF Crash, LockInv, BaseInv, ControlTyped, MutexHeld, LockOwned, InFile, Mutex, Critical, Busy
  <1>2. CASE Age
    BY <1>0, <1>2, ConstantsAssumption DEF ConstantsAssumption, Age, LockInv, MutexHeld, LockOwned, InFile, Mutex, locals, bounds
  <1>3. CASE UNCHANGED vars
    BY <1>0, <1>3 DEF vars, disk, LockInv, MutexHeld, LockOwned, InFile, Mutex
  <1> QED BY <1>0, <1>1, <1>2, <1>3, LockStepOf, NextCases DEF LockInv

\* In one process, whoever changes known_hosts owns the lock file: neither breaking a
\* stale lock nor releasing one takes away another goroutine's (acquireFileLock,
\* releaseFileLock). Between processes this does not hold.
THEOREM LockCorrect ==
  ASSUME OneProcess
  PROVE  Spec => []LockOwned
  <1>1. Spec => []LockInv
    BY LockInit, LockStep, PTL DEF Spec
  <1>2. LockInv => LockOwned
    BY DEF LockInv
  <1> QED BY <1>1, <1>2, PTL

-----------------------------------------------------------------------------
(* The store.                                                              *)

\* Saves and removals keep apart.
Apart == \A t, u \in Tasks : ~(request[t].kind = "save" /\ request[u].kind = "remove")

\* What a removal has read is what the file holds until it replaces it.
Fresh ==
  \A t \in Tasks :
    pc[t] \in {"waiting", "breaking", "locked"} /\ request[t].kind = "remove" => content[t] = file

\* What a save was asked for is in the file or still to be written.
Saving ==
  \A t \in Tasks :
    pc[t] = "saving" /\ result[t] = "none" =>
      /\ \A pair \in request[t].pairs :
           pair \in PairsOf(file) \/ Line(pair, request[t].hash) \in toAppend[t]
      /\ \A l \in toAppend[t] : \E pair \in request[t].pairs : l = Line(pair, request[t].hash)

StoreInv == LockInv /\ Apart /\ Fresh /\ Saving

LEMMA NoCallKind == NoCall.kind = "none"
  BY DEF NoCall

LEMMA StoreInvInit == Init => StoreInv
  <1> SUFFICES ASSUME Init PROVE StoreInv
    OBVIOUS
  <1>1. \A t \in Tasks : request[t] = NoCall /\ pc[t] = "idle"
    BY DEF Init
  <1>2. Apart
    BY <1>1, NoCallKind DEF Apart
  <1>3. Fresh /\ Saving
    BY <1>1 DEF Fresh, Saving
  <1> QED BY <1>2, <1>3, LockInit DEF StoreInv

LEMMA ApartStep ==
  ASSUME SaveBesideRemove = FALSE, StoreInv, [Next]_vars
  PROVE  Apart'
  <1> USE DEF StoreInv, LockInv, BaseInv, ControlTyped, Apart
  <1>1. ASSUME NEW t \in Tasks, NEW r \in Requests, Call(t, r) PROVE Apart'
    <2>1. \A u \in Tasks : ~(r.kind = "save" /\ request[u].kind = "remove")
                           /\ ~(r.kind = "remove" /\ request[u].kind = "save")
      BY <1>1 DEF Call
    <2>2. request' = [request EXCEPT ![t] = r]
      BY <1>1 DEF Call
    <2> QED BY <2>1, <2>2
  <1>2. ASSUME \A u \in Tasks : request'[u] \in {request[u], NoCall} PROVE Apart'
    <2> SUFFICES ASSUME NEW t \in Tasks, NEW u \in Tasks,
                        request'[t].kind = "save", request'[u].kind = "remove"
                 PROVE  FALSE
      BY DEF Apart
    <2>1. request'[t] = request[t] /\ request'[u] = request[u]
      BY <1>2, NoCallKind
    <2> QED BY <2>1
  <1>3. ASSUME NEW t \in Tasks, Quiet(t) \/ Moving(t), \A r \in Requests : ~Call(t, r) PROVE Apart'
    <2>1. \A u \in Tasks : request'[u] \in {request[u], NoCall}
      BY <1>3 DEF Quiet, Moving, LockMutex, AcquireLock, FindStale, BreakLock, GiveUp, ReleaseLock, ReleaseFails, ReadFails,
                  ReadToAdd, IOError, SaveDone, SaveReturns, ReadToRemove, Unlock, AppendLine,
                  ReplaceFile, ReadToSave, SaveLine, SaveFails, locals
    <2> QED BY <2>1, <1>2
  <1>4. ASSUME NEW p \in Procs, Crash(p) PROVE Apart'
    BY <1>2, <1>4 DEF Crash
  <1>5. CASE Age \/ UNCHANGED vars
    BY <1>2, <1>5 DEF Age, vars, locals
  <1> QED BY <1>1, <1>3, <1>4, <1>5, NextCases

\* How the file changes, and who may see it change.
LEMMA FileChanges ==
  ASSUME BaseInv, [Next]_vars
  PROVE  \/ UNCHANGED file
         \/ \E t \in Tasks : AppendLine(t) \/ ReplaceFile(t) \/ SaveLine(t)
  <1>1. ASSUME NEW t \in Tasks, Quiet(t) PROVE UNCHANGED file
    BY <1>1, QuietLines
  <1>2. ASSUME NEW t \in Tasks, Moving(t), ~(AppendLine(t) \/ ReplaceFile(t) \/ SaveLine(t))
        PROVE  UNCHANGED file
    BY <1>2 DEF Moving, ReadToRemove, Unlock, ReadToSave, SaveFails, disk
  <1> QED BY <1>1, <1>2, NextCases DEF Crash, Age, vars, disk

\* A goroutine's step leaves the others' places and locals alone.
LEMMA OnlyMover ==
  ASSUME BaseInv, NEW t \in Tasks, Quiet(t) \/ Moving(t), NEW u \in Tasks \ {t}
  PROVE  /\ pc'[u] = pc[u] /\ request'[u] = request[u] /\ result'[u] = result[u]
         /\ content'[u] = content[u] /\ toAppend'[u] = toAppend[u]
  <1> USE DEF BaseInv, ControlTyped, Goto, Ends, locals
  <1>1. CASE Quiet(t)
    BY <1>1 DEF Quiet, Call, LockMutex, AcquireLock, FindStale, BreakLock, GiveUp, ReleaseLock, ReleaseFails, ReadFails,
                ReadToAdd, IOError, SaveDone, SaveReturns
  <1>2. CASE Moving(t)
    BY <1>2 DEF Moving, ReadToRemove, Unlock, AppendLine, ReplaceFile, ReadToSave, SaveLine, SaveFails
  <1> QED BY <1>1, <1>2

\* Nobody else changes the file while a removal waits for the lock file.
LEMMA RemovalAlone ==
  ASSUME OneProcess, StoreInv, NEW u \in Tasks, request[u].kind = "remove", pc[u] \in Critical,
         NEW t \in Tasks \ {u}
  PROVE  ~AppendLine(t) /\ ~ReplaceFile(t) /\ ~SaveLine(t)
  <1>1. pc[t] \notin Critical
    BY OneInside DEF StoreInv, LockInv
  <1>2. ~AppendLine(t) /\ ~ReplaceFile(t)
    BY <1>1 DEF AppendLine, ReplaceFile, At, Critical, Busy
  <1>3. request[t].kind # "save"
    BY DEF StoreInv, Apart
  <1>4. ~SaveLine(t)
    BY <1>3 DEF SaveLine, At, StoreInv, LockInv, BaseInv, CallsAt, CallAt
  <1> QED BY <1>2, <1>4

LEMMA FreshStep ==
  ASSUME OneProcess, StoreInv, [Next]_vars
  PROVE  Fresh'
  <1> DEFINE Waits == {"waiting", "breaking", "locked"}
  <1> SUFFICES ASSUME NEW u \in Tasks, pc'[u] \in Waits, request'[u].kind = "remove"
               PROVE  content'[u] = file'
    BY DEF Fresh
  <1>0. BaseInv
    BY DEF StoreInv, LockInv
  <1>1. ASSUME NEW t \in Tasks \ {u}, Quiet(t) \/ Moving(t) PROVE content'[u] = file'
    <2>1. pc[u] \in Waits /\ request[u].kind = "remove" /\ content'[u] = content[u]
      BY <1>0, <1>1, OnlyMover
    <2>2. content[u] = file
      BY <2>1 DEF StoreInv, Fresh
    <2>3. ~AppendLine(t) /\ ~ReplaceFile(t) /\ ~SaveLine(t)
      BY <2>1, RemovalAlone DEF Critical, Busy
    <2>4. file' = file
      BY <1>1, <2>3, QuietLines DEF Moving, ReadToRemove, Unlock, ReadToSave, SaveFails, disk
    <2> QED BY <2>1, <2>2, <2>4
  <1>2. ASSUME Quiet(u) PROVE content'[u] = file'
    <2>1. UNCHANGED <<file, content>>
      BY <1>2, QuietLines
    <2>2. pc[u] \in Waits /\ request[u].kind = "remove"
      BY <1>0, <1>2 DEF Quiet, Call, LockMutex, AcquireLock, FindStale, BreakLock, GiveUp, ReleaseLock, ReleaseFails, ReadFails,
                ReadToAdd, IOError, SaveDone, SaveReturns, Goto, At, locals, BaseInv, CallsAt, CallAt,
                ControlTyped, ConstantsAssumption
    <2> QED BY <2>1, <2>2 DEF StoreInv, Fresh
  <1>3. ASSUME Moving(u) PROVE content'[u] = file'
    <2>1. ReadToRemove(u)
      BY <1>0, <1>3 DEF Moving, Unlock, AppendLine, ReplaceFile, ReadToSave, SaveLine, SaveFails,
                Goto, At, BaseInv, ControlTyped
    <2> QED BY <1>0, <2>1 DEF ReadToRemove, disk, BaseInv, ControlTyped
  <1>4. ASSUME NEW p \in Procs, Crash(p) PROVE content'[u] = file'
    <2>1. UNCHANGED file /\ pc'[u] = pc[u] /\ request'[u] = request[u] /\ content'[u] = content[u]
      BY <1>4 DEF Crash
    <2> QED BY <2>1 DEF StoreInv, Fresh
  <1>5. CASE Age \/ UNCHANGED vars
    BY <1>5 DEF Age, vars, disk, locals, StoreInv, Fresh
  <1> QED BY <1>1, <1>2, <1>3, <1>4, <1>5, NextCases

LEMMA SavingStep ==
  ASSUME StoreInv, [Next]_vars
  PROVE  Saving'
  <1> DEFINE Kept(u) == /\ \A pair \in request[u].pairs :
                             pair \in PairsOf(file) \/ Line(pair, request[u].hash) \in toAppend[u]
                        /\ \A l \in toAppend[u] : \E pair \in request[u].pairs : l = Line(pair, request[u].hash)
  <1> SUFFICES ASSUME NEW u \in Tasks, pc'[u] = "saving", result'[u] = "none" PROVE Kept(u)'
    BY DEF Saving
  <1>0. BaseInv /\ Apart
    BY DEF StoreInv, LockInv
  <1>1. pc[u] = "saving" /\ result[u] = "none" => Kept(u)
    BY DEF StoreInv, Saving
  <1> HIDE DEF Kept
  <1>2. ASSUME pc[u] = "saving", result[u] = "none", request'[u] = request[u], toAppend'[u] = toAppend[u],
               PairsOf(file) \subseteq PairsOf(file')
        PROVE  Kept(u)'
    <2>1. PairsOf(file)' = PairsOf(file')
      BY DEF PairsOf
    <2> QED BY <1>1, <1>2, <2>1 DEF Kept
  <1>3. ASSUME NEW t \in Tasks \ {u}, Quiet(t) \/ Moving(t) PROVE Kept(u)'
    <2>1. /\ pc[u] = "saving" /\ result[u] = "none"
          /\ request'[u] = request[u] /\ toAppend'[u] = toAppend[u]
      BY <1>0, <1>3, OnlyMover
    <2>2. request[u].kind = "save"
      BY <1>0, <2>1 DEF BaseInv, CallsAt, CallAt
    <2>3. ~ReplaceFile(t)
      BY <1>0, <2>2 DEF ReplaceFile, Apart
    <2>4. file \subseteq file'
      BY <1>3, <2>3, QuietLines DEF Moving, ReadToRemove, Unlock, AppendLine, SaveLine, ReadToSave, SaveFails, disk
    <2>5. PairsOf(file) \subseteq PairsOf(file')
      BY <2>4 DEF PairsOf
    <2> QED BY <2>1, <2>5, <1>2
  <1>4. ASSUME Quiet(u) PROVE Kept(u)'
    <2>1. UNCHANGED <<file, toAppend>>
      BY <1>4, QuietLines
    <2>2. pc[u] = "saving" /\ result[u] = "none" /\ request'[u] = request[u]
      BY <1>0, <1>4, ConstantsAssumption
         DEF Quiet, Call, LockMutex, AcquireLock, FindStale, BreakLock, GiveUp, ReleaseLock, ReleaseFails, ReadFails, ReadToAdd,
             IOError, SaveDone, SaveReturns, Goto, Ends, At, locals, BaseInv, ControlTyped, ConstantsAssumption
    <2> QED BY <1>2, <2>1, <2>2
  <1>5. CASE ReadToSave(u)
    <2>1. /\ request'[u] = request[u]
          /\ toAppend'[u] = {Line(pair, request[u].hash) :
               pair \in {q \in request[u].pairs : ~Contains(file, Line(q, request[u].hash))}}
      BY <1>0, <1>5 DEF ReadToSave, Ends, BaseInv, ControlTyped
    <2>2. request[u] \in Requests /\ file' = file
      BY <1>0, <1>5 DEF ReadToSave, At, BaseInv, CallsAt, CallAt, disk
    <2>3. \A pair \in request[u].pairs : pair = <<pair[1], pair[2]>>
      BY <2>2, ConstantsAssumption DEF ConstantsAssumption
    <2>4. \A pair \in request[u].pairs :
            Contains(file, Line(pair, request[u].hash)) => pair \in PairsOf(file)
      BY <2>3, ContainsPair
    <2>5. PairsOf(file)' = PairsOf(file)
      BY <2>2
    <2> QED BY <2>1, <2>4, <2>5 DEF Kept
  <1>6. CASE SaveLine(u)
    <2>1. PICK l \in toAppend[u] : file' = file \cup {l} /\ toAppend'[u] = toAppend[u] \ {l}
      BY <1>0, <1>6 DEF SaveLine, BaseInv, ControlTyped
    <2>2. Kept(u) /\ request'[u] = request[u] /\ request[u] \in Requests
      BY <1>0, <1>1, <1>6 DEF SaveLine, At, BaseInv, CallsAt, CallAt
    <2>3. \A pair \in request[u].pairs : pair = <<pair[1], pair[2]>>
      BY <2>2, ConstantsAssumption DEF ConstantsAssumption
    <2>4. ASSUME NEW pair \in request[u].pairs, pair \notin PairsOf(file')
          PROVE  Line(pair, request[u].hash) \in toAppend'[u]
      <3>1. pair \notin PairsOf(file)
        BY <2>1, <2>4 DEF PairsOf
      <3>2. Line(pair, request[u].hash) \in toAppend[u]
        BY <2>2, <3>1 DEF Kept
      <3>3. Line(pair, request[u].hash) # l
        BY <2>1, <2>3, <2>4, PairsOfAppend
      <3> QED BY <2>1, <3>2, <3>3
    <2>5. PairsOf(file)' = PairsOf(file')
      BY DEF PairsOf
    <2> QED BY <2>1, <2>2, <2>4, <2>5 DEF Kept
  <1>7. ASSUME Moving(u), ~ReadToSave(u), ~SaveLine(u) PROVE FALSE
    BY <1>0, <1>7 DEF Moving, ReadToRemove, Unlock, AppendLine, ReplaceFile, SaveFails, Goto, Ends, At,
              BaseInv, ControlTyped
  <1>8. ASSUME NEW p \in Procs, Crash(p) PROVE Kept(u)'
    <2>1. /\ UNCHANGED file /\ pc'[u] = pc[u] /\ result'[u] = result[u]
          /\ request'[u] = request[u] /\ toAppend'[u] = toAppend[u]
      BY <1>8 DEF Crash
    <2> QED BY <1>2, <2>1
  <1>9. CASE Age \/ UNCHANGED vars
    BY <1>2, <1>9 DEF Age, vars, disk, locals
  <1> QED BY <1>3, <1>4, <1>5, <1>6, <1>7, <1>8, <1>9, NextCases DEF Moving

LEMMA StoreInvStep ==
  ASSUME OneProcess, SaveBesideRemove = FALSE
  PROVE  StoreInv /\ [Next]_vars => StoreInv'
  BY LockStep, ApartStep, FreshStep, SavingStep DEF StoreInv

-----------------------------------------------------------------------------
(* The refinement: every step is one of the store's or none.               *)

LEMMA StatusChanges ==
  ASSUME BaseInv, NEW t \in Tasks, Quiet(t) \/ Moving(t)
  PROVE  /\ Status' = [Status EXCEPT ![t] = Status'[t]]
         /\ Status'[t] = Status[t] => Status' = Status
         /\ Status[t] = IF pc[t] = "idle" THEN "idle"
                        ELSE IF result[t] = "none" THEN "called" ELSE result[t]
         /\ Status'[t] = IF pc'[t] = "idle" THEN "idle"
                         ELSE IF result'[t] = "none" THEN "called" ELSE result'[t]
  BY OnlyMover DEF Status

\* The steps that the store does not see.
Hidden(t) ==
  \/ LockMutex(t) \/ AcquireLock(t) \/ FindStale(t) \/ BreakLock(t) \/ ReleaseLock(t)
  \/ ReleaseFails(t) \/ ReadFails(t)
  \/ (ReadToRemove(t) /\ UNCHANGED result)
  \/ (ReadToAdd(t) /\ UNCHANGED result)
  \/ (ReadToSave(t) /\ UNCHANGED result)

LEMMA HiddenStep ==
  ASSUME BaseInv, NEW t \in Tasks, Hidden(t)
  PROVE  UNCHANGED <<PairsOf(file), Status, request>>
  <1> USE DEF Hidden, BaseInv, ControlTyped, CallsAt, CallAt, At, Goto, Ends, locals, disk, Critical, Busy
  <1>1. UNCHANGED <<file, result, request>>
    BY DEF LockMutex, AcquireLock, FindStale, BreakLock, ReleaseLock, ReleaseFails, ReadFails, ReadToRemove, ReadToAdd, ReadToSave
  <1>2. pc[t] # "idle" /\ pc'[t] # "idle"
    BY DEF LockMutex, AcquireLock, FindStale, BreakLock, ReleaseLock, ReleaseFails, ReadFails, ReadToRemove, ReadToAdd, ReadToSave
  <1>3. Quiet(t) \/ Moving(t)
    BY DEF Quiet, Moving
  <1>4. Status' = Status
    BY <1>1, <1>2, <1>3, StatusChanges
  <1>5. PairsOf(file)' = PairsOf(file)
    BY <1>1
  <1> QED BY <1>1, <1>4, <1>5

\* A call begins, ends, or fails.
LEMMA CallStep ==
  ASSUME BaseInv, NEW t \in Tasks, NEW r \in Requests, Call(t, r)
  PROVE  Store!Ask(t)
  <1>1. pc[t] = "idle" /\ result[t] = "none" /\ pc'[t] # "idle" /\ result'[t] = "none"
    BY ConstantsAssumption DEF ConstantsAssumption, Call, At, Goto, BaseInv, ControlTyped, CallsAt, CallAt
  <1>2. Status[t] = "idle" /\ Status' = [Status EXCEPT ![t] = "called"]
    BY <1>1, StatusChanges DEF Quiet
  <1>3. UNCHANGED PairsOf(file) /\ request' = [request EXCEPT ![t] = r]
    <2>1. UNCHANGED file
      BY DEF Call, disk
    <2> QED BY <2>1 DEF Call
  <1> QED BY <1>2, <1>3 DEF Store!Ask

LEMMA ReturnStep ==
  ASSUME BaseInv, NEW t \in Tasks, Unlock(t) \/ SaveReturns(t)
  PROVE  Store!Return(t)
  <1>1. pc[t] # "idle" /\ result[t] \in {"ok", "error"} /\ pc'[t] = "idle"
    BY DEF Unlock, SaveReturns, At, Goto, BaseInv, ControlTyped, CallsAt, CallAt
  <1>2. Status[t] \in {"ok", "error"} /\ Status' = [Status EXCEPT ![t] = "idle"]
    BY <1>1, StatusChanges DEF Quiet, Moving
  <1>3. UNCHANGED PairsOf(file) /\ request' = [request EXCEPT ![t] = NoCall]
    <2>1. UNCHANGED file
      BY DEF Unlock, SaveReturns, disk
    <2> QED BY <2>1 DEF Unlock, SaveReturns
  <1> QED BY <1>2, <1>3 DEF Store!Return

\* What a call looks like when it takes effect or fails.
Effects(t) ==
  \/ (ReadToRemove(t) /\ Ends(t, "ok")) \/ (ReadToAdd(t) /\ Ends(t, "ok")) \/ AppendLine(t)
  \/ ReplaceFile(t) \/ SaveDone(t)
Failures(t) == GiveUp(t) \/ IOError(t) \/ SaveFails(t) \/ (ReadToSave(t) /\ Ends(t, "error"))

LEMMA AnswerStep ==
  ASSUME BaseInv, NEW t \in Tasks
  PROVE  /\ Effects(t) => Store!Answer(t, "ok")
         /\ Failures(t) => Store!Answer(t, "error")
  <1> USE DEF BaseInv, ControlTyped, CallsAt, CallAt, At, Goto, Ends, locals, Critical, Busy
  <1>1. ASSUME Effects(t) PROVE Store!Answer(t, "ok")
    <2>1. /\ pc[t] # "idle" /\ result[t] = "none" /\ pc'[t] # "idle"
          /\ result'[t] = "ok" /\ request' = request
      BY <1>1 DEF Effects, ReadToRemove, ReadToAdd, AppendLine, ReplaceFile, SaveDone
    <2>2. Quiet(t) \/ Moving(t)
      BY <1>1 DEF Effects, Quiet, Moving
    <2>3. Status[t] = "called" /\ Status' = [Status EXCEPT ![t] = "ok"]
      BY <2>1, <2>2, StatusChanges
    <2> QED BY <2>1, <2>3 DEF Store!Answer
  <1>2. ASSUME Failures(t) PROVE Store!Answer(t, "error")
    <2>1. /\ pc[t] # "idle" /\ result[t] = "none" /\ pc'[t] # "idle"
          /\ result'[t] = "error" /\ request' = request
      BY <1>2 DEF Failures, GiveUp, IOError, SaveFails, ReadToSave
    <2>2. Quiet(t) \/ Moving(t)
      BY <1>2 DEF Failures, Quiet, Moving
    <2>3. Status[t] = "called" /\ Status' = [Status EXCEPT ![t] = "error"]
      BY <2>1, <2>2, StatusChanges
    <2> QED BY <2>1, <2>3 DEF Store!Answer
  <1> QED BY <1>1, <1>2

LEMMA FailedStep ==
  ASSUME BaseInv, NEW t \in Tasks, Failures(t)
  PROVE  Store!Failed(t)
  <1>1. UNCHANGED file
    BY DEF Failures, GiveUp, IOError, SaveFails, ReadToSave, disk
  <1> QED BY <1>1, AnswerStep DEF Store!Failed

LEMMA AddedStep ==
  ASSUME BaseInv, NEW t \in Tasks, AppendLine(t) \/ (ReadToAdd(t) /\ Ends(t, "ok"))
  PROVE  Store!Added(t)
  <1>1. request[t] \in Requests /\ request[t].kind = "add"
    BY DEF AppendLine, ReadToAdd, At, BaseInv, CallsAt, CallAt
  <1>2. PICK pair \in request[t].pairs :
          request[t].pairs = {pair} /\ NewLine(t) = Line(pair, request[t].hash)
    BY <1>1, NewLineIs
  <1>3. pair = <<pair[1], pair[2]>>
    BY <1>1, ConstantsAssumption DEF ConstantsAssumption
  <1>4. CASE AppendLine(t)
    <2>1. file' = file \cup {Line(pair, request[t].hash)}
      BY <1>2, <1>4 DEF AppendLine
    <2>2. PairsOf(file') = PairsOf(file) \cup {pair}
      BY <1>3, <2>1, PairsOfAppend
    <2>3. PairsOf(file)' = PairsOf(file')
      BY DEF PairsOf
    <2>4. Store!Answer(t, "ok")
      BY <1>4, AnswerStep DEF Effects
    <2> QED BY <1>1, <1>2, <2>2, <2>3, <2>4 DEF Store!Added
  <1>5. CASE ReadToAdd(t) /\ Ends(t, "ok")
    <2>1. result[t] = "none" /\ UNCHANGED file
      BY <1>5 DEF ReadToAdd, At, BaseInv, CallsAt, CallAt, disk
    <2>2. Contains(file, NewLine(t))
      BY <1>5, <2>1 DEF ReadToAdd, Ends, BaseInv, ControlTyped
    <2>3. pair \in PairsOf(file)
      BY <1>2, <1>3, <2>2, ContainsPair
    <2>4. PairsOf(file)' = PairsOf(file)
      BY <2>1
    <2>5. Store!Answer(t, "ok")
      BY <1>5, AnswerStep DEF Effects
    <2> QED BY <1>1, <1>2, <2>3, <2>4, <2>5 DEF Store!Added
  <1> QED BY <1>4, <1>5

LEMMA RemovedStep ==
  ASSUME StoreInv, NEW t \in Tasks, ReplaceFile(t) \/ (ReadToRemove(t) /\ Ends(t, "ok"))
  PROVE  Store!Removed(t)
  <1>0. BaseInv
    BY DEF StoreInv, LockInv
  <1>1. request[t].kind = "remove" /\ Store!Answer(t, "ok")
    BY <1>0, AnswerStep DEF Effects, ReplaceFile, ReadToRemove, At, BaseInv, CallsAt, CallAt
  <1>2. file' = Prune(file, request[t].host)
    <2>1. CASE ReplaceFile(t)
      BY <2>1 DEF ReplaceFile, At, StoreInv, Fresh
    <2>2. CASE ReadToRemove(t) /\ Ends(t, "ok")
      <3>1. result[t] = "none" /\ UNCHANGED file
        BY <1>0, <2>2 DEF ReadToRemove, At, BaseInv, CallsAt, CallAt, disk
      <3> QED BY <1>0, <2>2, <3>1 DEF ReadToRemove, Ends, BaseInv, ControlTyped
    <2> QED BY <2>1, <2>2
  <1>3. PairsOf(file)' = {pair \in PairsOf(file) : pair[1] # request[t].host}
    <2>1. PairsOf(file)' = PairsOf(file')
      BY DEF PairsOf
    <2> QED BY <1>2, <2>1, PairsOfPrune
  <1> QED BY <1>1, <1>3 DEF Store!Removed

LEMMA SavedStep ==
  ASSUME StoreInv, NEW t \in Tasks
  PROVE  /\ SaveLine(t) => Store!SavedOne(t)
         /\ SaveDone(t) => Store!SavedAll(t)
  <1>0. BaseInv
    BY DEF StoreInv, LockInv
  <1>1. ASSUME SaveLine(t) PROVE Store!SavedOne(t)
    <2>1. /\ pc[t] = "saving" /\ result[t] = "none" /\ request[t] \in Requests
          /\ request[t].kind = "save" /\ UNCHANGED <<pc, result, request>>
      BY <1>0, <1>1 DEF SaveLine, At, BaseInv, CallsAt, CallAt
    <2>2. PICK l \in toAppend[t] : file' = file \cup {l}
      BY <1>1 DEF SaveLine
    <2>3. PICK pair \in request[t].pairs : l = Line(pair, request[t].hash)
      BY <2>1, <2>2 DEF StoreInv, Saving
    <2>4. pair = <<pair[1], pair[2]>>
      BY <2>1, ConstantsAssumption DEF ConstantsAssumption
    <2>5. PairsOf(file)' = PairsOf(file) \cup {pair}
      <3>1. PairsOf(file)' = PairsOf(file')
        BY DEF PairsOf
      <3> QED BY <2>2, <2>3, <2>4, <3>1, PairsOfAppend
    <2>6. Status[t] = "called" /\ Status' = Status
      BY <2>1 DEF Status
    <2> QED BY <2>1, <2>5, <2>6 DEF Store!SavedOne
  <1>2. ASSUME SaveDone(t) PROVE Store!SavedAll(t)
    <2>1. /\ pc[t] = "saving" /\ result[t] = "none" /\ toAppend[t] = {}
          /\ request[t].kind = "save" /\ UNCHANGED file
      BY <1>0, <1>2 DEF SaveDone, At, BaseInv, CallsAt, CallAt, disk
    <2>2. request[t].pairs \subseteq PairsOf(file)
      BY <2>1 DEF StoreInv, Saving
    <2>3. PairsOf(file)' = PairsOf(file)
      BY <2>1
    <2>4. Store!Answer(t, "ok")
      BY <1>0, <1>2, AnswerStep DEF Effects
    <2> QED BY <2>1, <2>2, <2>3, <2>4 DEF Store!SavedAll
  <1> QED BY <1>1, <1>2

LEMMA CrashStep ==
  ASSUME BaseInv, NEW p \in Procs, Crash(p)
  PROVE  Store!Crash(p)
  <1>1. UNCHANGED file /\ request' = [t \in Tasks |-> IF ProcessOf[t] = p THEN NoCall ELSE request[t]]
    BY DEF Crash
  <1>2. Status' = [t \in Tasks |-> IF ProcessOf[t] = p THEN "idle" ELSE Status[t]]
    BY DEF Crash, Status
  <1>3. PairsOf(file)' = PairsOf(file)
    BY <1>1
  <1> QED BY <1>1, <1>2, <1>3 DEF Store!Crash

LEMMA RefinedStep ==
  ASSUME StoreInv, [Next]_vars
  PROVE  Store!Next \/ UNCHANGED Store!vars
  <1>0. BaseInv
    BY DEF StoreInv, LockInv
  <1>1. ASSUME NEW t \in Tasks, Quiet(t) \/ Moving(t), ~Hidden(t)
        PROVE  \/ Store!Ask(t) \/ Store!Added(t) \/ Store!Removed(t) \/ Store!SavedOne(t)
               \/ Store!SavedAll(t) \/ Store!Failed(t) \/ Store!Return(t)
    <2>1. ASSUME NEW r \in Requests, Call(t, r) PROVE Store!Ask(t)
      BY <1>0, <2>1, CallStep
    <2>2. CASE GiveUp(t) \/ IOError(t) \/ SaveFails(t)
      BY <1>0, <2>2, FailedStep DEF Failures
    <2>3. CASE Unlock(t) \/ SaveReturns(t)
      BY <1>0, <2>3, ReturnStep
    <2>4. CASE ReadToAdd(t) \/ AppendLine(t)
      BY <1>0, <1>1, <2>4, AddedStep DEF Hidden, ReadToAdd
    <2>5. CASE ReadToRemove(t) \/ ReplaceFile(t)
      BY <1>1, <2>5, RemovedStep DEF Hidden, ReadToRemove
    <2>6. CASE ReadToSave(t)
      BY <1>0, <1>1, <2>6, FailedStep DEF Hidden, ReadToSave, Failures
    <2>7. CASE SaveLine(t) \/ SaveDone(t)
      BY <2>7, SavedStep
    <2> QED BY <1>1, <2>1, <2>2, <2>3, <2>4, <2>5, <2>6, <2>7 DEF Quiet, Moving, Hidden
  <1>2. ASSUME NEW t \in Tasks, Hidden(t) PROVE UNCHANGED Store!vars
    BY <1>0, <1>2, HiddenStep DEF Store!vars
  <1>3. ASSUME NEW p \in Procs, Crash(p) PROVE Store!Crash(p)
    BY <1>0, <1>3, CrashStep
  <1>4. CASE Age \/ UNCHANGED vars
    <2>1. UNCHANGED <<file, pc, result, request>>
      BY <1>4 DEF Age, vars, disk, locals
    <2>2. Status' = Status /\ PairsOf(file)' = PairsOf(file)
      BY <2>1 DEF Status
    <2> QED BY <2>1, <2>2 DEF Store!vars
  <1> QED BY <1>1, <1>2, <1>3, <1>4, NextCases DEF Store!Next

LEMMA RefinedInit == Init => Store!Init
  BY DEF Init, Store!Init, Status

\* In one process, and as long as saves and removals do not overlap, every behaviour of
\* the known_hosts functions is one of the documented store: additions and removals
\* take effect at once, a save adds its pairs one by one, and neither I/O errors nor a
\* crash at any step leave half of a change.
THEOREM StoreImplemented ==
  ASSUME OneProcess, SaveBesideRemove = FALSE
  PROVE  Spec => ImplementsStore
  <1>1. Spec => []StoreInv
    BY StoreInvInit, StoreInvStep, PTL DEF Spec
  <1>2. StoreInv /\ [Next]_vars => [Store!Next]_(Store!vars)
    BY RefinedStep
  <1> QED BY <1>1, <1>2, RefinedInit, PTL DEF Spec, Store!Spec, ImplementsStore
=============================================================================
