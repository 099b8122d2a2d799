------------------------------ MODULE KnownHosts ------------------------------
(***************************************************************************)
(* A known_hosts file and the scripts that maintain it                     *)
(* (libkite/modules/ssh/known_hosts.go, keyscan.go): goroutines of one or  *)
(* more processes add and remove entries under a mutex of their process    *)
(* and a lock file, and save scanned keys under neither.                   *)
(*                                                                         *)
(* A line is its host patterns, in order, its key, and whether the hosts   *)
(* are hashed; the file is the set of its lines, whose order and           *)
(* repetitions nothing depends on. Every read, write, rename and lock-file *)
(* operation is a step.                                                    *)
(***************************************************************************)
EXTENDS Naturals

CONSTANTS
  Tasks,      \* goroutines
  Procs,      \* processes
  ProcessOf,  \* the process of each goroutine
  Requests,   \* calls a script may make: [kind, host, pairs, hash]
  InitFile,   \* the lines of the file at first
  SaveBesideRemove,   \* whether saves and removals may overlap
  MaxCalls,   \* bound: calls
  MaxFaults   \* bound: I/O errors and crashes

Nobody == "nobody"
NoCall == [kind |-> "none", host |-> "", pairs |-> {}, hash |-> FALSE]
Orphan == "orphan"   \* a lock file that was left behind, by a crash or a failed removal
Stale  == "stale"    \* one of those, 30 seconds later
Stuck  == "stuck"    \* the same where os.Remove fails: whoever finds it cannot break it

Pairs  == UNION {r.pairs : r \in Requests}
Hosts  == {pair[1] : pair \in Pairs} \cup UNION {{l.hosts[i] : i \in DOMAIN l.hosts} : l \in InitFile}
Keys   == {pair[2] : pair \in Pairs} \cup {l.key : l \in InitFile}

\* hosts gives the pattern at each position; removing one leaves its position empty.
IsLine(l) ==
  /\ l = [hosts |-> l.hosts, key |-> l.key, hashed |-> l.hashed]
  /\ l.hosts \in [DOMAIN l.hosts -> Hosts] /\ DOMAIN l.hosts \subseteq Nat \ {0}
  /\ l.key \in Keys /\ l.hashed \in BOOLEAN

ASSUME ConstantsAssumption ==
  /\ ProcessOf \in [Tasks -> Procs]
  /\ {Nobody, Orphan, Stale, Stuck} \cap Tasks = {}
  /\ \A r \in Requests :
       /\ r.kind \in {"add", "remove", "save"} /\ r.hash \in BOOLEAN
       /\ \A pair \in r.pairs : pair = <<pair[1], pair[2]>>
       /\ r.kind = "add" => \E pair \in r.pairs : r.pairs = {pair}
  /\ \A l \in InitFile : IsLine(l)
  /\ SaveBesideRemove \in BOOLEAN /\ MaxCalls \in Nat /\ MaxFaults \in Nat

VARIABLES
  file,       \* the lines of known_hosts
  lock,       \* known_hosts.lock: the goroutine that created it
  knownHostsMu,   \* the holder of each process's mutex
  pc,         \* where each goroutine is in its call
  request,    \* the call
  content,    \* what the call has read of the file
  toAppend,   \* lines a save has still to write
  result,     \* "none" until the call has taken effect or failed
  calls, faults

disk   == <<file, lock>>
locals == <<request, content, toAppend>>
bounds == <<calls, faults>>
vars   == <<disk, knownHostsMu, pc, locals, result, bounds>>

\* Mutant: host and key in the wrong order.
LineSwapped(pair, hash) == [hosts |-> <<pair[2]>>, key |-> pair[1], hashed |-> hash]

Line(pair, hash) == [hosts |-> <<pair[1]>>, key |-> pair[2], hashed |-> hash]

\* The pairs that lines trust.
PairsOf(lines) == UNION {{<<l.hosts[i], l.key>> : i \in DOMAIN l.hosts} : l \in lines}

\* bytes.Contains: the text of a plain line also ends a line with more patterns;
\* a hashed line is salted, so its text is never there.
Contains(lines, line) ==
  /\ ~line.hashed
  /\ \E l \in lines :
       /\ ~l.hashed /\ l.key = line.key
       /\ \E i \in DOMAIN l.hosts : l.hosts[i] = line.hosts[1] /\ \A j \in DOMAIN l.hosts : j <= i

Keeps(l, host) == {i \in DOMAIN l.hosts : l.hosts[i] # host}
Without(l, host) ==
  [hosts |-> [i \in Keeps(l, host) |-> l.hosts[i]], key |-> l.key, hashed |-> l.hashed]

\* Mutant: a line that has lost a pattern is dropped whole.
PruneWholeLines(lines, host) == {l \in lines : Keeps(l, host) = DOMAIN l.hosts}

\* The lines without a host: patterns go one by one, a line without patterns goes too.
Prune(lines, host) == {Without(l, host) : l \in {k \in lines : Keeps(k, host) # {}}}

Init ==
  /\ file = InitFile /\ lock = Nobody
  /\ knownHostsMu = [p \in Procs |-> Nobody]
  /\ pc = [t \in Tasks |-> "idle"] /\ request = [t \in Tasks |-> NoCall]
  /\ content = [t \in Tasks |-> {}] /\ toAppend = [t \in Tasks |-> {}]
  /\ result = [t \in Tasks |-> "none"]
  /\ calls = 0 /\ faults = 0

At(t, label)   == pc[t] = label
Goto(t, label) == pc' = [pc EXCEPT ![t] = label]
Ends(t, r)     == result' = [result EXCEPT ![t] = r]
Fault          == faults < MaxFaults /\ faults' = faults + 1
Mutex(t)       == knownHostsMu[ProcessOf[t]]

Call(t, r) ==
  /\ At(t, "idle") /\ calls < MaxCalls /\ calls' = calls + 1
  /\ SaveBesideRemove \/ \A u \in Tasks : {r.kind, request[u].kind} # {"save", "remove"}
  /\ request' = [request EXCEPT ![t] = r] /\ Goto(t, r.kind)
  /\ UNCHANGED <<disk, knownHostsMu, content, toAppend, result, faults>>

\* Mutant: only additions take the mutex.
LockMutexUnlessRemoving(t) ==
  /\ pc[t] \in {"add", "remove"} /\ (At(t, "add") => Mutex(t) = Nobody)
  /\ knownHostsMu' = [knownHostsMu EXCEPT ![ProcessOf[t]] = t]
  /\ Goto(t, IF At(t, "add") THEN "waiting" ELSE "reading")
  /\ UNCHANGED <<disk, locals, result, bounds>>

LockMutex(t) ==
  /\ pc[t] \in {"add", "remove"} /\ Mutex(t) = Nobody
  /\ knownHostsMu' = [knownHostsMu EXCEPT ![ProcessOf[t]] = t]
  /\ Goto(t, IF At(t, "add") THEN "waiting" ELSE "reading")
  /\ UNCHANGED <<disk, locals, result, bounds>>

\* removeKnownHost reads the file before it takes the lock file, and takes it
\* only when there is something to remove.
ReadToRemove(t) ==
  /\ At(t, "reading") /\ content' = [content EXCEPT ![t] = file]
  /\ IF Prune(file, request[t].host) = file
       THEN Goto(t, "unlocking") /\ Ends(t, "ok")
       ELSE Goto(t, "waiting") /\ UNCHANGED result
  /\ UNCHANGED <<disk, knownHostsMu, request, toAppend, bounds>>

-----------------------------------------------------------------------------
(* acquireFileLock and releaseFileLock.                                    *)

AcquireLock(t) ==
  /\ At(t, "waiting") /\ lock = Nobody /\ lock' = t
  /\ Goto(t, "locked") /\ UNCHANGED <<file, knownHostsMu, locals, result, bounds>>

\* Only a lock file left behind stays for more than 30 seconds.
Age ==
  /\ lock = Orphan /\ lock' \in {Stale, Stuck}
  /\ UNCHANGED <<file, knownHostsMu, pc, locals, result, bounds>>

FindStale(t) ==
  /\ At(t, "waiting") /\ lock \in {Stale, Stuck} /\ Goto(t, "breaking")
  /\ UNCHANGED <<disk, knownHostsMu, locals, result, bounds>>

\* Whatever lock file is there by now is removed; a failure goes unnoticed, and the
\* loop starts again without a look at the deadline.
BreakLock(t) ==
  /\ At(t, "breaking") /\ Goto(t, "waiting")
  /\ lock' = IF lock = Stuck THEN Stuck ELSE Nobody
  /\ UNCHANGED <<file, knownHostsMu, locals, result, bounds>>

\* The five seconds pass before the lock file goes or is stale.
GiveUp(t) ==
  /\ At(t, "waiting") /\ lock \notin {Nobody, Stale, Stuck} /\ Ends(t, "error") /\ Goto(t, "unlocking")
  /\ UNCHANGED <<disk, knownHostsMu, locals, bounds>>

\* The deferred calls: the lock file is removed, if that works, then the mutex unlocked.
ReleaseLock(t) ==
  /\ At(t, "releasing") /\ lock' = Nobody /\ Goto(t, "unlocking")
  /\ UNCHANGED <<file, knownHostsMu, locals, result, bounds>>

ReleaseFails(t) ==
  /\ At(t, "releasing") /\ Fault /\ Goto(t, "unlocking")
  /\ lock' = IF lock = t THEN Orphan ELSE lock
  /\ UNCHANGED <<file, knownHostsMu, locals, result, calls>>

\* Mutant: a call that fails returns without unlocking the mutex.
UnlockUnlessFailed(t) ==
  /\ At(t, "unlocking") /\ Goto(t, "idle") /\ Ends(t, "none")
  /\ knownHostsMu' = [knownHostsMu EXCEPT ![ProcessOf[t]] = IF result[t] = "error" THEN @ ELSE Nobody]
  /\ content' = [content EXCEPT ![t] = {}] /\ request' = [request EXCEPT ![t] = NoCall]
  /\ UNCHANGED <<disk, toAppend, bounds>>

Unlock(t) ==
  /\ At(t, "unlocking") /\ Goto(t, "idle") /\ Ends(t, "none")
  /\ knownHostsMu' = [knownHostsMu EXCEPT ![ProcessOf[t]] = Nobody]
  /\ content' = [content EXCEPT ![t] = {}] /\ request' = [request EXCEPT ![t] = NoCall]
  /\ UNCHANGED <<disk, toAppend, bounds>>

-----------------------------------------------------------------------------
(* The effects, and keyscan's save.                                        *)

NewLine(t) == Line(CHOOSE pair \in request[t].pairs : TRUE, request[t].hash)

\* addKnownHost reads under the lock file and does not repeat a line.
ReadToAdd(t) ==
  /\ At(t, "locked") /\ request[t].kind = "add"
  /\ IF Contains(file, NewLine(t))
       THEN Goto(t, "releasing") /\ Ends(t, "ok")
       ELSE Goto(t, "appending") /\ UNCHANGED result
  /\ UNCHANGED <<disk, knownHostsMu, locals, bounds>>

\* A file that addKnownHost cannot read has no lines, as far as it is concerned.
ReadFails(t) ==
  /\ At(t, "locked") /\ request[t].kind = "add" /\ Fault /\ Goto(t, "appending")
  /\ UNCHANGED <<disk, knownHostsMu, locals, result, calls>>

AppendLine(t) ==
  /\ At(t, "appending") /\ file' = file \cup {NewLine(t)}
  /\ Ends(t, "ok") /\ Goto(t, "releasing")
  /\ UNCHANGED <<lock, knownHostsMu, locals, bounds>>

\* A temporary file with the lines that stay is renamed over known_hosts.
ReplaceFile(t) ==
  /\ At(t, "locked") /\ request[t].kind = "remove"
  /\ file' = Prune(content[t], request[t].host)
  /\ Ends(t, "ok") /\ Goto(t, "releasing")
  /\ UNCHANGED <<lock, knownHostsMu, locals, bounds>>

\* A read, the lock file's creation, a write, the temporary file or the rename fails.
IOError(t) ==
  /\ pc[t] \in {"reading", "waiting", "locked", "appending"} /\ Fault
  /\ At(t, "locked") => request[t].kind = "remove"
  /\ Ends(t, "error")
  /\ Goto(t, IF pc[t] \in {"locked", "appending"} THEN "releasing" ELSE "unlocking")
  /\ UNCHANGED <<disk, knownHostsMu, locals, calls>>

\* A plain scanned key differs from the one the file holds for its host.
Conflict(pair, lines) ==
  \E l \in lines : /\ ~l.hashed /\ l.key # pair[2]
                   /\ \E i \in DOMAIN l.hosts : l.hosts[i] = pair[1]

\* saveHostKeys decides from one read of the file what it will write.
ReadToSave(t) ==
  LET new == {pair \in request[t].pairs : ~Contains(file, Line(pair, request[t].hash))} IN
  /\ At(t, "save")
  /\ IF ~request[t].hash /\ \E pair \in new : Conflict(pair, file)
       THEN Ends(t, "error") /\ UNCHANGED toAppend
       ELSE /\ toAppend' = [toAppend EXCEPT ![t] = {Line(pair, request[t].hash) : pair \in new}]
            /\ UNCHANGED result
  /\ Goto(t, "saving")
  /\ UNCHANGED <<disk, knownHostsMu, request, content, bounds>>

SaveLine(t) ==
  /\ At(t, "saving") /\ result[t] = "none"
  /\ \E l \in toAppend[t] :
       /\ file' = file \cup {l} /\ toAppend' = [toAppend EXCEPT ![t] = @ \ {l}]
  /\ UNCHANGED <<lock, knownHostsMu, pc, request, content, result, bounds>>

SaveFails(t) ==
  /\ pc[t] \in {"save", "saving"} /\ result[t] = "none" /\ (At(t, "saving") => toAppend[t] # {}) /\ Fault
  /\ Ends(t, "error") /\ toAppend' = [toAppend EXCEPT ![t] = {}] /\ Goto(t, "saving")
  /\ UNCHANGED <<disk, knownHostsMu, request, content, calls>>

SaveDone(t) ==
  /\ At(t, "saving") /\ result[t] = "none" /\ toAppend[t] = {} /\ Ends(t, "ok")
  /\ UNCHANGED <<disk, knownHostsMu, pc, locals, bounds>>

SaveReturns(t) ==
  /\ At(t, "saving") /\ result[t] # "none" /\ Goto(t, "idle") /\ Ends(t, "none")
  /\ request' = [request EXCEPT ![t] = NoCall]
  /\ UNCHANGED <<disk, knownHostsMu, content, toAppend, bounds>>

\* A process dies and is started again; its lock file stays.
Crash(p) ==
  LET dead == {t \in Tasks : ProcessOf[t] = p} IN
  /\ Fault /\ lock' = IF lock \in dead THEN Orphan ELSE lock
  /\ pc' = [t \in Tasks |-> IF t \in dead THEN "idle" ELSE pc[t]]
  /\ result' = [t \in Tasks |-> IF t \in dead THEN "none" ELSE result[t]]
  /\ content' = [t \in Tasks |-> IF t \in dead THEN {} ELSE content[t]]
  /\ toAppend' = [t \in Tasks |-> IF t \in dead THEN {} ELSE toAppend[t]]
  /\ knownHostsMu' = [knownHostsMu EXCEPT ![p] = Nobody]
  /\ request' = [t \in Tasks |-> IF t \in dead THEN NoCall ELSE request[t]]
  /\ UNCHANGED <<file, calls>>

\* Every step of a call that its goroutine takes without being asked.
Step(t) ==
  \/ LockMutex(t) \/ ReadToRemove(t) \/ AcquireLock(t) \/ FindStale(t) \/ BreakLock(t) \/ GiveUp(t)
  \/ ReadToAdd(t) \/ AppendLine(t) \/ ReplaceFile(t) \/ ReleaseLock(t) \/ Unlock(t)
  \/ ReadToSave(t) \/ SaveLine(t) \/ SaveDone(t) \/ SaveReturns(t)

Next ==
  \/ \E t \in Tasks : \/ Step(t) \/ IOError(t) \/ ReadFails(t) \/ ReleaseFails(t) \/ SaveFails(t)
                      \/ \E r \in Requests : Call(t, r)
  \/ \E p \in Procs : Crash(p)
  \/ Age

Spec == Init /\ [][Next]_vars

\* Goroutines run; sync.Mutex hands itself to a waiter in the end.
FairSpec == Spec /\ \A t \in Tasks : WF_vars(Step(t)) /\ SF_vars(LockMutex(t))

-----------------------------------------------------------------------------
(* Properties.                                                             *)

\* The type of the variables.
TypeOK ==
  /\ \A l \in file : IsLine(l)
  /\ lock \in Tasks \cup {Nobody, Orphan, Stale, Stuck}
  /\ knownHostsMu \in [Procs -> Tasks \cup {Nobody}]
  /\ pc \in [Tasks -> {"idle", "add", "remove", "reading", "waiting", "breaking", "locked",
                       "appending", "releasing", "unlocking", "save", "saving"}]
  /\ request \in [Tasks -> Requests \cup {NoCall}]
  /\ content = [t \in Tasks |-> content[t]] /\ toAppend = [t \in Tasks |-> toAppend[t]]
  /\ \A t \in Tasks : \A l \in content[t] \cup toAppend[t] : IsLine(l)
  /\ result \in [Tasks -> {"none", "ok", "error"}]
  /\ calls \in 0..MaxCalls /\ faults \in 0..MaxFaults

InFile(t) == pc[t] \in {"locked", "appending", "releasing"}

\* The lock file belongs to the goroutine that is changing the file: nobody is
\* in there without one, and breaking or releasing never takes away somebody
\* else's (acquireFileLock removes a stale file without looking again, and
\* releaseFileLock removes whatever file has the name).
LockOwned == \A t \in Tasks : InFile(t) => lock = t

\* How far a call is, to its caller.
Status == [t \in Tasks |-> IF pc[t] = "idle" THEN "idle"
                          ELSE IF result[t] = "none" THEN "called" ELSE result[t]]
Store == INSTANCE KnownHostsStore WITH
  Known <- PairsOf(InitFile), trusted <- PairsOf(file), status <- Status

\* known_hosts implements the store its documentation describes: additions and
\* removals are atomic, whoever else is at it, and a crash leaves no half of one.
ImplementsStore == Store!Spec

\* Every call comes back, whatever fails and whatever lock files are left behind - until
\* one of them turns out to be too old and impossible to remove.
CallsReturn == \A t \in Tasks : pc[t] # "idle" ~> pc[t] = "idle" \/ lock = Stuck
=============================================================================
