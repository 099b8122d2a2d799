----------------------------- MODULE ModuleStore -----------------------------
(***************************************************************************)
(* The module cache ~/.starkite/modules (basekite/manager), the resolver   *)
(* that pins it in mod.lock (basekite/resolver) and the loader that reads  *)
(* it (libkite/loader.go): processes install, update and remove revisions  *)
(* of one module, sync a project's lock and load the module. No lock file  *)
(* protects the cache: a process may do anything beside any other, die     *)
(* between two file-system calls, or give up when one of them fails.       *)
(*                                                                         *)
(* A tree is the state of each file. Hashing a tree is reading it: two     *)
(* trees have the same hash when they are the same.                        *)
(***************************************************************************)
EXTENDS Naturals, FiniteSets

CONSTANTS
  Procs,      \* kite processes
  Revs,       \* revisions of the module (commits or content hashes)
  NumFiles,   \* files of a revision; the first stands for mod.yaml and main.star
  MaxOps,     \* bound: commands
  MaxCrashes, \* bound: processes that die
  MaxFails    \* bound: copies and removals that fail

Files  == 1..NumFiles
States == {"none", "torn", "full"}
Tree   == [Files -> States]
Full   == [f \in Files |-> "full"]
Empty  == [f \in Files |-> "none"]
NoTree == [f \in Files |-> "unread"]   \* no receipt, no hash
NoRev  == "no revision"
NoLock == [rev |-> NoRev, hash |-> NoTree]

ASSUME ConstantsAssumption ==
  /\ NumFiles \in Nat \ {0} /\ MaxOps \in Nat /\ MaxCrashes \in Nat /\ MaxFails \in Nat
  /\ NoRev \notin Revs /\ IsFiniteSet(Revs)

VARIABLES
  cross,      \* whether the temporary directory is on another file system
  alone,      \* whether commands that change the cache run one at a time
  dir,        \* <name>@<rev>: [there, files, receipt]
  latest,     \* the revision the source is at
  modLock,    \* mod.lock of the project: [rev, hash] or NoLock
  pc, job,    \* what each process does, and its locals
  unlinked,   \* the processes that copy into a file that has been removed meanwhile
  touched,    \* history: the loads whose directory has been changed since they began
  broken,     \* history: the revisions whose copy or removal has broken off
  ops, crashes, fails

fixed  == <<cross, alone>>
bounds == <<ops, crashes, fails>>
vars   == <<fixed, dir, latest, modLock, pc, job, unlinked, touched, broken, bounds>>

\* A process's locals: the revision in hand, those still to remove, --force, the next
\* file to copy or read, the tree it has hashed or read, the hash it verified, and
\* what it does after Install returns.
NoJob == [rev |-> NoRev, rest |-> {}, force |-> FALSE, next |-> 1, tree |-> NoTree,
          hash |-> NoTree, after |-> "done"]

Gone == [there |-> FALSE, files |-> Empty, receipt |-> NoTree]

Init ==
  /\ cross \in BOOLEAN /\ alone \in BOOLEAN
  /\ dir = [r \in Revs |-> Gone] /\ latest \in Revs /\ modLock = NoLock
  /\ pc = [p \in Procs |-> "idle"] /\ job = [p \in Procs |-> NoJob]
  /\ unlinked = {} /\ touched = {} /\ broken = {}
  /\ ops = 0 /\ crashes = 0 /\ fails = 0

At(p, label)   == pc[p] = label
Goto(p, label) == pc' = [pc EXCEPT ![p] = label]
Rev(p)         == job[p].rev
Dir(p)         == dir[job[p].rev]

Ends(p)     == Goto(p, "idle") /\ job' = [job EXCEPT ![p] = NoJob]
Loading(p)  == pc[p] \in {"reading", "verify", "loading"}
Changing(p) == ~Loading(p) /\ pc[p] \notin {"idle", "loaded"}
Copying(p, r, f) == At(p, "copying") /\ Rev(p) = r /\ job[p].next = f
Touch(p)    == touched' = touched \cup {q \in Procs : Loading(q) /\ Rev(q) = Rev(p)}

\* A command begins; where they run alone, one that changes the cache waits for its turn.
Command(p, changes) ==
  /\ At(p, "idle") /\ ops < MaxOps /\ ops' = ops + 1
  /\ changes /\ alone => \A q \in Procs : ~Changing(q)

\* Somebody pushes to the source.
Publish(r) ==
  /\ latest' = r /\ r # latest /\ ops < MaxOps /\ ops' = ops + 1
  /\ UNCHANGED <<fixed, dir, modLock, pc, job, unlinked, touched, broken, crashes, fails>>

-----------------------------------------------------------------------------
(* Install.                                                                *)

\* The source is cloned to a private directory; its commit becomes the revision.
Stage(p, force, after) ==
  /\ Goto(p, "staged")
  /\ job' = [job EXCEPT ![p] = [NoJob EXCEPT !.rev = latest, !.force = force, !.after = after]]

Install(p, force) ==
  /\ Command(p, TRUE) /\ Stage(p, force, "done")
  /\ UNCHANGED <<fixed, dir, latest, modLock, unlinked, touched, broken, crashes, fails>>

\* update: the source is that of the first receipt there is.
Update(p) ==
  /\ Command(p, TRUE) /\ \E r \in Revs : dir[r].there /\ dir[r].receipt # NoTree
  /\ Stage(p, FALSE, "done")
  /\ UNCHANGED <<fixed, dir, latest, modLock, unlinked, touched, broken, crashes, fails>>

\* A revision whose directory exists is kept as it is, unless --force.
Stat(p) ==
  /\ At(p, "staged")
  /\ \/ ~Dir(p).there /\ Goto(p, "moving") /\ UNCHANGED job
     \/ Dir(p).there /\ job[p].force /\ Goto(p, "removing") /\ UNCHANGED job
     \/ /\ Dir(p).there /\ ~job[p].force
        /\ IF job[p].after = "lock"
             THEN Goto(p, "locking") /\ job' = [job EXCEPT ![p].tree = Dir(p).receipt]
             ELSE Ends(p)
  /\ UNCHANGED <<fixed, dir, latest, modLock, unlinked, touched, broken, bounds>>

\* os.RemoveAll, one entry after the other in the order the directory gives.
RemoveEntry(p) ==
  /\ At(p, "removing") /\ Dir(p).there
  /\ \/ \E f \in Files : /\ Dir(p).files[f] # "none"
                         /\ dir' = [dir EXCEPT ![Rev(p)].files[f] = "none"]
                         /\ unlinked' = unlinked \cup {q \in Procs : Copying(q, Rev(p), f)}
     \/ /\ Dir(p).receipt # NoTree
        /\ dir' = [dir EXCEPT ![Rev(p)].receipt = NoTree] /\ UNCHANGED unlinked
  /\ Touch(p) /\ UNCHANGED <<fixed, latest, modLock, pc, job, broken, bounds>>

\* The empty directory goes; the next revision to remove, or the move.
RemoveDir(p) ==
  /\ At(p, "removing") /\ (Dir(p).there => Dir(p).files = Empty /\ Dir(p).receipt = NoTree)
  /\ dir' = [dir EXCEPT ![Rev(p)] = Gone]
  /\ \/ job[p].rest = {} /\ job[p].force /\ Goto(p, "moving") /\ UNCHANGED job
     \/ job[p].rest = {} /\ ~job[p].force /\ Ends(p)
     \/ \E r \in job[p].rest :
          /\ job' = [job EXCEPT ![p].rev = r, ![p].rest = @ \ {r}] /\ UNCHANGED pc
  /\ broken' = broken \ {Rev(p)}
  /\ Touch(p) /\ UNCHANGED <<fixed, latest, modLock, unlinked, bounds>>

\* The rename puts the whole tree there, if it can: not across file systems and
\* not onto a directory that has entries. Otherwise copyDir makes the directory.
Rename(p) ==
  /\ At(p, "moving")
  /\ IF ~cross /\ Dir(p).files = Empty /\ Dir(p).receipt = NoTree
       THEN dir' = [dir EXCEPT ![Rev(p)] = [Gone EXCEPT !.there = TRUE, !.files = Full]]
            /\ Goto(p, "hashing")
       ELSE dir' = [dir EXCEPT ![Rev(p)].there = TRUE] /\ Goto(p, "creating")
  /\ Touch(p) /\ UNCHANGED <<fixed, latest, modLock, job, unlinked, broken, bounds>>

\* os.Create truncates; it fails when the directory has been removed meanwhile.
CreateFile(p) ==
  /\ At(p, "creating")
  /\ IF Dir(p).there
       THEN dir' = [dir EXCEPT ![Rev(p)].files[job[p].next] = "torn"]
            /\ Goto(p, "copying") /\ UNCHANGED job
       ELSE Ends(p) /\ UNCHANGED dir
  /\ Touch(p) /\ UNCHANGED <<fixed, latest, modLock, unlinked, broken, bounds>>

\* Mutant: the error of io.Copy is dropped.
CopyFileHalf(p) ==
  /\ At(p, "copying") /\ unlinked' = unlinked \ {p}
  /\ Goto(p, IF job[p].next = NumFiles THEN "hashing" ELSE "creating")
  /\ job' = [job EXCEPT ![p].next = IF @ = NumFiles THEN 1 ELSE @ + 1]
  /\ UNCHANGED <<fixed, dir, latest, modLock, touched, broken, bounds>>

\* Mutant: one entry too many.
CopyFileOneMore(p) ==
  /\ At(p, "copying") /\ unlinked' = unlinked \ {p}
  /\ dir' = IF p \in unlinked THEN dir ELSE [dir EXCEPT ![Rev(p)].files[job[p].next] = "full"]
  /\ Goto(p, IF job[p].next > NumFiles THEN "hashing" ELSE "creating")
  /\ job' = [job EXCEPT ![p].next = IF @ > NumFiles THEN 1 ELSE @ + 1]
  /\ Touch(p) /\ UNCHANGED <<fixed, latest, modLock, broken, bounds>>

\* io.Copy into the open file. The file may have been removed, and where another process
\* has truncated it and is still copying, it may have a hole until that one is done.
CopyFile(p) ==
  /\ At(p, "copying") /\ unlinked' = unlinked \ {p}
  /\ \/ p \in unlinked /\ UNCHANGED dir
     \/ p \notin unlinked /\ dir' = [dir EXCEPT ![Rev(p)].files[job[p].next] = "full"]
     \/ /\ p \notin unlinked
        /\ \E q \in Procs \ ({p} \cup unlinked) : Copying(q, Rev(p), job[p].next)
        /\ dir' = [dir EXCEPT ![Rev(p)].files[job[p].next] = "torn"]
  /\ Goto(p, IF job[p].next = NumFiles THEN "hashing" ELSE "creating")
  /\ job' = [job EXCEPT ![p].next = IF @ = NumFiles THEN 1 ELSE @ + 1]
  /\ Touch(p) /\ UNCHANGED <<fixed, latest, modLock, broken, bounds>>

\* HashModuleTree of what is at the destination by now.
Hash(p) ==
  /\ At(p, "hashing")
  /\ IF Dir(p).there
       THEN job' = [job EXCEPT ![p].tree = Dir(p).files] /\ Goto(p, "recording")
       ELSE Ends(p)
  /\ UNCHANGED <<fixed, dir, latest, modLock, unlinked, touched, broken, bounds>>

\* The receipt comes last; Install succeeds without it.
WriteReceipt(p) ==
  /\ At(p, "recording")
  /\ dir' = IF Dir(p).there THEN [dir EXCEPT ![Rev(p)].receipt = job[p].tree] ELSE dir
  /\ IF job[p].after = "lock" THEN Goto(p, "locking") /\ UNCHANGED job ELSE Ends(p)
  /\ UNCHANGED <<fixed, latest, modLock, unlinked, touched, broken, bounds>>

\* remove: one revision, or all that are there at the start, one by one.
Remove(p, revs) ==
  /\ Command(p, TRUE) /\ \A r \in revs : dir[r].there
  /\ \E r \in revs : job' = [job EXCEPT ![p] = [NoJob EXCEPT !.rev = r, !.rest = revs \ {r}]]
  /\ Goto(p, "removing")
  /\ UNCHANGED <<fixed, dir, latest, modLock, unlinked, touched, broken, crashes, fails>>

-----------------------------------------------------------------------------
(* sync and load.                                                          *)

\* resolveOne: a pinned revision that verifies is kept, anything else is installed.
Sync(p) ==
  /\ Command(p, TRUE)
  /\ IF modLock # NoLock /\ dir[modLock.rev].there /\ dir[modLock.rev].files = modLock.hash
       THEN UNCHANGED <<pc, job>>
       ELSE Stage(p, FALSE, "lock")
  /\ UNCHANGED <<fixed, dir, latest, modLock, unlinked, touched, broken, crashes, fails>>

\* The hash is that of the receipt, or the tree's own when there is none; then the
\* module's manifest must parse, for its own dependencies.
WriteLock(p) ==
  LET hash == IF job[p].tree # NoTree THEN job[p].tree ELSE Dir(p).files IN
  /\ At(p, "locking")
  /\ modLock' = IF Dir(p).files[1] = "full" THEN [rev |-> Rev(p), hash |-> hash] ELSE modLock
  /\ Ends(p) /\ UNCHANGED <<fixed, dir, latest, unlinked, touched, broken, bounds>>

\* The pinned directory, if it has a manifest: its manifest is read and its files are
\* listed. One that is not there by now is no part of the module.
Load(p) ==
  LET files == dir[modLock.rev].files IN
  /\ Command(p, FALSE) /\ modLock # NoLock /\ files[1] # "none"
  /\ job' = [job EXCEPT ![p] = [NoJob EXCEPT
               !.rev = modLock.rev, !.hash = modLock.hash,
               !.tree = [f \in Files |-> IF f # 1 /\ files[f] # "none" THEN "unread" ELSE files[f]]]]
  /\ touched' = touched \ {p} /\ Goto(p, IF NumFiles = 1 THEN "verify" ELSE "reading")
  /\ UNCHANGED <<fixed, dir, latest, modLock, unlinked, broken, crashes, fails>>

\* The listed files are read one by one; one that is gone again is left for later.
ReadFile(p) ==
  LET f == job[p].next + 1 IN
  /\ At(p, "reading")
  /\ job' = [job EXCEPT ![p].next = IF f = NumFiles THEN 1 ELSE f,
                        ![p].tree[f] = IF @ = "unread" /\ Dir(p).files[f] # "none"
                                       THEN Dir(p).files[f] ELSE @]
  /\ Goto(p, IF f = NumFiles THEN "verify" ELSE "reading")
  /\ UNCHANGED <<fixed, dir, latest, modLock, unlinked, touched, broken, bounds>>

\* Mutant: a directory that has a receipt is trusted.
VerifyReceiptOnly(p) ==
  /\ At(p, "verify")
  /\ IF Dir(p).receipt = job[p].hash THEN Goto(p, "loading") /\ UNCHANGED job ELSE Ends(p)
  /\ UNCHANGED <<fixed, dir, latest, modLock, unlinked, touched, broken, bounds>>

\* VerifyTree: what is in the cache now, not what has been read, has the locked hash.
Verify(p) ==
  /\ At(p, "verify")
  /\ IF Dir(p).files = job[p].hash THEN Goto(p, "loading") /\ UNCHANGED job ELSE Ends(p)
  /\ UNCHANGED <<fixed, dir, latest, modLock, unlinked, touched, broken, bounds>>

\* A listed file that could not be read is opened now, and missing it fails the load.
Finish(p) ==
  /\ At(p, "loading")
  /\ IF \E f \in Files : job[p].tree[f] = "unread" /\ Dir(p).files[f] = "none"
       THEN Ends(p)
       ELSE /\ job' = [job EXCEPT ![p].tree = [f \in Files |->
                         IF @[f] = "unread" THEN Dir(p).files[f] ELSE @[f]]]
            /\ Goto(p, "loaded")
  /\ UNCHANGED <<fixed, dir, latest, modLock, unlinked, touched, broken, bounds>>

Return(p) ==
  /\ At(p, "loaded") /\ Ends(p) /\ touched' = touched \ {p}
  /\ UNCHANGED <<fixed, dir, latest, modLock, unlinked, broken, bounds>>

-----------------------------------------------------------------------------
(* What goes wrong.                                                        *)

\* A process leaves what it is doing as it is.
Leave(p) ==
  /\ Ends(p) /\ unlinked' = unlinked \ {p}
  /\ broken' = IF pc[p] \in {"creating", "copying", "removing"} THEN broken \cup {Rev(p)} ELSE broken
  /\ UNCHANGED <<fixed, dir, latest, modLock, touched, ops>>

\* It is killed.
Crash(p) ==
  /\ ~At(p, "idle") /\ crashes < MaxCrashes /\ crashes' = crashes + 1
  /\ Leave(p) /\ UNCHANGED fails

\* A copy fails, at a symbolic link, which copyDir refuses, or for an I/O error; or a
\* removal does, also because somebody has put an entry into the directory behind it.
\* Install and Remove return the error and clean nothing up.
Fail(p) ==
  /\ pc[p] \in {"creating", "copying", "removing"} /\ fails < MaxFails /\ fails' = fails + 1
  /\ Leave(p) /\ UNCHANGED crashes

Next ==
  \/ \E r \in Revs : Publish(r)
  \/ \E p \in Procs :
       \/ \E force \in BOOLEAN : Install(p, force)
       \/ Update(p) \/ Stat(p) \/ RemoveEntry(p) \/ RemoveDir(p) \/ Rename(p)
       \/ CreateFile(p) \/ CopyFile(p) \/ Hash(p) \/ WriteReceipt(p)
       \/ \E revs \in SUBSET Revs : Remove(p, revs)
       \/ Sync(p) \/ WriteLock(p) \/ Load(p) \/ ReadFile(p) \/ Verify(p) \/ Finish(p) \/ Return(p)
       \/ Crash(p) \/ Fail(p)

Spec == Init /\ [][Next]_vars

-----------------------------------------------------------------------------
(* Properties.                                                             *)

Trees == Tree \cup {NoTree}
Jobs  == [rev : Revs \cup {NoRev}, rest : SUBSET Revs, force : BOOLEAN, next : Files,
          tree : [Files -> States \cup {"unread"}], hash : Trees, after : {"done", "lock"}]

\* The type of the variables.
TypeOK ==
  /\ cross \in BOOLEAN /\ alone \in BOOLEAN
  /\ dir \in [Revs -> [there : BOOLEAN, files : Tree, receipt : Trees]]
  /\ \A r \in Revs : ~dir[r].there => dir[r] = Gone
  /\ latest \in Revs
  /\ modLock \in [rev : Revs, hash : Trees] \cup {NoLock}
  /\ pc \in [Procs -> {"idle", "staged", "removing", "moving", "creating", "copying", "hashing",
                       "recording", "locking", "reading", "verify", "loading", "loaded"}]
  /\ job \in [Procs -> Jobs]
  /\ unlinked \subseteq Procs /\ touched \subseteq Procs /\ broken \subseteq Revs
  /\ ops \in 0..MaxOps /\ crashes \in 0..MaxCrashes /\ fails \in 0..MaxFails

\* kite module verify never passes an incomplete revision: as long as commands that
\* change the cache run one at a time, a receipt that matches its tree was written
\* for the whole tree, whatever crashed in between and however it was moved.
VerifyTells ==
  alone => \A r \in Revs : dir[r].there /\ dir[r].receipt = dir[r].files => dir[r].files = Full

\* A load that nobody disturbed runs the tree that was locked, whatever crashed before:
\* the files are read first and the cache is verified afterwards, so only a removal and
\* a reinstallation in between may slip an incomplete tree past the check
\* (ResolveStaticLoadClosure, resolveInstalledModule).
LoadIsWhatWasLocked ==
  \A p \in Procs : At(p, "loaded") /\ p \notin touched => job[p].tree = job[p].hash

\* When everybody is done, a revision in the cache is complete, although installs copy
\* over each other and removals delete under them, file by file, in any interleaving:
\* only a copy or a removal that has broken off, because its process died or it failed,
\* leaves an incomplete one, until the revision is removed (Install, Remove, copyDir).
QuietMeansComplete ==
  (\A p \in Procs : At(p, "idle")) =>
    \A r \in Revs \ broken : dir[r].there => dir[r].files = Full
=============================================================================
