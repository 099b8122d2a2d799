--------------------------- MODULE ModuleStoreProofs ---------------------------
(***************************************************************************)
(* The module cache for any number of processes, revisions, files,         *)
(* commands, crashes and failures: what a receipt and a verified load are  *)
(* worth, and what is left in the cache when everybody is done.            *)
(***************************************************************************)
EXTENDS ModuleStore, TLAPS

-----------------------------------------------------------------------------
(* Types.                                                                  *)

Places  == {"idle", "staged", "removing", "moving", "creating", "copying", "hashing",
            "recording", "locking", "reading", "verify", "loading", "loaded"}
AnyTree == [Files -> States \cup {"unread"}]

DirTyped ==
  /\ dir \in [Revs -> [there : BOOLEAN, files : Tree, receipt : Trees]]
  /\ \A r \in Revs : ~dir[r].there => dir[r] = Gone

\* What the places of a command say about its locals.
JobAt(p) ==
  /\ pc[p] \in Places /\ job[p] \in Jobs
  /\ pc[p] # "idle" => job[p].rev \in Revs
  /\ pc[p] \in {"recording", "locking"} => job[p].tree \in Trees
  /\ pc[p] \in {"staged", "removing", "moving"} => job[p].next = 1
  /\ pc[p] = "reading" => job[p].next < NumFiles

BooksTyped ==
  /\ unlinked \subseteq Procs /\ touched \subseteq Procs /\ broken \subseteq Revs
  /\ ops \in 0..MaxOps /\ crashes \in 0..MaxCrashes /\ fails \in 0..MaxFails

RestTyped ==
  /\ cross \in BOOLEAN /\ alone \in BOOLEAN /\ latest \in Revs
  /\ modLock \in [rev : Revs, hash : Trees] \cup {NoLock}
  /\ pc \in [Procs -> Places] /\ job \in [Procs -> Jobs] /\ BooksTyped

Typed == DirTyped /\ RestTyped /\ \A p \in Procs : JobAt(p)

\* The file a process copies into is in the directory, unless it has been unlinked.
OpenAt(p) ==
  /\ p \in unlinked => pc[p] = "copying"
  /\ pc[p] = "copying" /\ p \notin unlinked => Dir(p).there /\ Dir(p).files[job[p].next] # "none"

TypeInv == DirTyped /\ RestTyped /\ \A p \in Procs : JobAt(p) /\ OpenAt(p)

LEMMA TreeFacts ==
  /\ Full \in Tree /\ Empty \in Tree /\ NoTree \notin Tree /\ NoTree \in Trees /\ Tree \subseteq Trees
  /\ Gone \in [there : BOOLEAN, files : Tree, receipt : Trees]
  /\ NoJob \in Jobs /\ 1 \in Files
  /\ Trees \subseteq [Files -> States \cup {"unread"}]
  <1>1. 1 \in Files
    BY ConstantsAssumption DEF ConstantsAssumption, Files
  <1>2. NoTree[1] = "unread"
    BY <1>1 DEF NoTree
  <1>3. NoTree \notin Tree
    BY <1>1, <1>2 DEF Tree, States
  <1>4. /\ Full \in Tree /\ Empty \in Tree /\ NoTree \in Trees /\ Tree \subseteq Trees
        /\ NoTree \in [Files -> States \cup {"unread"}]
        /\ Trees \subseteq [Files -> States \cup {"unread"}]
    BY DEF Full, Empty, Tree, Trees, NoTree, States
  <1>5. Gone \in [there : BOOLEAN, files : Tree, receipt : Trees]
    BY <1>4 DEF Gone
  <1>6. NoJob \in Jobs
    BY <1>1, <1>4 DEF NoJob, Jobs
  <1> QED BY <1>1, <1>3, <1>4, <1>5, <1>6

LEMMA TypeInit == Init => TypeInv
  <1> SUFFICES ASSUME Init PROVE TypeInv
    OBVIOUS
  <1>1. DirTyped
    BY TreeFacts DEF Init, DirTyped
  <1>2. RestTyped
    BY TreeFacts, ConstantsAssumption DEF Init, RestTyped, BooksTyped, ConstantsAssumption, Places
  <1>3. \A p \in Procs : JobAt(p) /\ OpenAt(p)
    BY TreeFacts DEF Init, JobAt, OpenAt, Places
  <1> QED BY <1>1, <1>2, <1>3 DEF TypeInv

LEMMA TypeFollows == TypeInv => TypeOK
  BY DEF TypeInv, TypeOK, DirTyped, RestTyped, BooksTyped, Places

\* A step of one process, by its effect on the process.
LEMMA TypeOf ==
  ASSUME TypeInv, NEW p \in Procs, UNCHANGED <<fixed, latest>>, NEW place \in Places, NEW j \in Jobs,
         pc' = [pc EXCEPT ![p] = place], job' = [job EXCEPT ![p] = j],
         place # "idle" => j.rev \in Revs,
         place \in {"recording", "locking"} => j.tree \in Trees,
         place \in {"staged", "removing", "moving"} => j.next = 1,
         place = "reading" => j.next < NumFiles,
         DirTyped', modLock' \in [rev : Revs, hash : Trees] \cup {NoLock}, BooksTyped'
  PROVE  Typed'
  <1>1. RestTyped'
    BY DEF TypeInv, RestTyped, fixed
  <1>2. \A q \in Procs : JobAt(q)'
    BY DEF TypeInv, RestTyped, JobAt
  <1> QED BY <1>1, <1>2 DEF Typed

\* The typical command: it begins or ends, or goes on with the locals it has.
LEMMA TypeBegins ==
  ASSUME TypeInv, NEW p \in Procs, NEW changes, Command(p, changes)
  PROVE  ops' \in 0..MaxOps
  BY ConstantsAssumption DEF TypeInv, RestTyped, BooksTyped, Command, ConstantsAssumption

LEMMA TypeEnds ==
  ASSUME TypeInv, NEW p \in Procs, Ends(p), UNCHANGED <<fixed, latest>>, DirTyped',
         modLock' \in [rev : Revs, hash : Trees] \cup {NoLock}, BooksTyped'
  PROVE  Typed'
  BY TypeOf, TreeFacts DEF Ends, Goto, Places

LEMMA TypeGoes ==
  ASSUME TypeInv, NEW p \in Procs, NEW place \in Places, Goto(p, place), UNCHANGED <<fixed, latest, job, modLock>>,
         pc[p] # "idle", DirTyped', BooksTyped',
         place \in {"recording", "locking"} => job[p].tree \in Trees,
         place \in {"staged", "removing", "moving"} => job[p].next = 1,
         place = "reading" => job[p].next < NumFiles
  PROVE  Typed'
  <1>1. job' = [job EXCEPT ![p] = job[p]] /\ job[p] \in Jobs /\ job[p].rev \in Revs
    BY DEF TypeInv, RestTyped, JobAt
  <1> QED BY <1>1, TypeOf DEF Goto, TypeInv, RestTyped

LEMMA StageTyped ==
  ASSUME TypeInv, NEW p \in Procs, NEW force \in BOOLEAN, NEW after \in {"done", "lock"},
         Stage(p, force, after), UNCHANGED <<fixed, latest, dir, unlinked, touched, broken, modLock, crashes, fails>>, ops' \in 0..MaxOps
  PROVE  Typed'
  <1> DEFINE j == [NoJob EXCEPT !.rev = latest, !.force = force, !.after = after]
  <1>1. j \in Jobs /\ j.rev = latest /\ j.next = 1 /\ latest \in Revs
    BY TreeFacts DEF TypeInv, RestTyped, NoJob, Jobs
  <1>2. DirTyped' /\ RestTyped /\ BooksTyped'
    BY DEF TypeInv, DirTyped, RestTyped, BooksTyped
  <1>3. pc' = [pc EXCEPT ![p] = "staged"] /\ job' = [job EXCEPT ![p] = j]
    BY DEF Stage, Goto
  <1> HIDE DEF j
  <1> QED BY <1>1, <1>2, <1>3, TypeOf DEF RestTyped, Places

\* A step that changes one revision's directory.
LEMMA DirOf ==
  ASSUME DirTyped, NEW r \in Revs, NEW d \in [there : BOOLEAN, files : Tree, receipt : Trees],
         ~d.there => d = Gone, dir' = [dir EXCEPT ![r] = d]
  PROVE  DirTyped'
  BY DEF DirTyped

\* Writing one file of a directory that is there.
LEMMA WriteFile ==
  ASSUME DirTyped, NEW r \in Revs, dir[r].there, NEW f \in Files, NEW state \in States,
         dir' = [dir EXCEPT ![r].files[f] = state]
  PROVE  DirTyped'
  <1> DEFINE files == [dir[r].files EXCEPT ![f] = state]
             d == [dir[r] EXCEPT !.files = files]
  <1>1. files \in Tree
    BY DEF DirTyped, Tree
  <1>2. d \in [there : BOOLEAN, files : Tree, receipt : Trees] /\ d.there
    BY <1>1 DEF DirTyped
  <1>3. dir' = [dir EXCEPT ![r] = d]
    OBVIOUS
  <1> HIDE DEF d
  <1> QED BY <1>2, <1>3, DirOf

\* Steps of install and remove.
LEMMA TypeInstall ==
  ASSUME TypeInv, NEW p \in Procs,
         \/ \E force \in BOOLEAN : Install(p, force)
         \/ Update(p) \/ Stat(p) \/ RemoveEntry(p) \/ RemoveDir(p) \/ Rename(p)
         \/ CreateFile(p) \/ CopyFile(p) \/ Hash(p) \/ WriteReceipt(p)
         \/ \E revs \in SUBSET Revs : Remove(p, revs)
  PROVE  Typed'
  <1>0. DirTyped /\ RestTyped /\ JobAt(p) /\ (pc[p] = "copying" /\ p \notin unlinked => Dir(p).there)
    BY DEF TypeInv, OpenAt
  <1> USE DEF RestTyped, JobAt
  <1>a. pc[p] # "idle" => Dir(p) \in [there : BOOLEAN, files : Tree, receipt : Trees] /\ Rev(p) \in Revs
    BY <1>0 DEF DirTyped, Dir, Rev
  <1>b. BooksTyped'
    <2>1. Touch(p) => touched' \subseteq Procs
      BY <1>0 DEF Touch, BooksTyped
    <2>2. \A force \in BOOLEAN : Install(p, force) => ops' \in 0..MaxOps
      BY TypeBegins DEF Install
    <2>3. \A revs \in SUBSET Revs : Remove(p, revs) => ops' \in 0..MaxOps
      BY TypeBegins DEF Remove
    <2>4. Update(p) => ops' \in 0..MaxOps
      BY TypeBegins DEF Update
    <2>5. \A force \in BOOLEAN : Install(p, force) => BooksTyped'
      BY <1>0, <2>2 DEF Install, BooksTyped
    <2>6. \A revs \in SUBSET Revs : Remove(p, revs) => BooksTyped'
      BY <1>0, <2>3 DEF Remove, BooksTyped
    <2>7. Update(p) => BooksTyped'
      BY <1>0, <2>4 DEF Update, BooksTyped
    <2>8. Stat(p) \/ Hash(p) \/ WriteReceipt(p) => BooksTyped'
      BY <1>0 DEF Stat, Hash, WriteReceipt, BooksTyped, bounds
    <2>9. RemoveDir(p) \/ Rename(p) \/ CreateFile(p) \/ CopyFile(p) => BooksTyped'
      BY <1>0, <2>1 DEF RemoveDir, Rename, CreateFile, CopyFile, BooksTyped, bounds
    <2>10. RemoveEntry(p) => BooksTyped'
      <3>1. RemoveEntry(p) => unlinked' \subseteq Procs
        BY <1>0 DEF RemoveEntry, BooksTyped
      <3> QED BY <1>0, <2>1, <3>1 DEF RemoveEntry, BooksTyped, bounds
    <2> QED BY <2>5, <2>6, <2>7, <2>8, <2>9, <2>10
  <1>c. UNCHANGED dir => DirTyped'
    BY <1>0 DEF DirTyped
  <1>1. ASSUME NEW force \in BOOLEAN, Install(p, force) PROVE Typed'
    BY <1>0, <1>1, TypeBegins, StageTyped DEF Install
  <1>2. CASE Update(p)
    BY <1>0, <1>2, TypeBegins, StageTyped DEF Update
  <1>3. CASE Stat(p)
    <2>1. ASSUME NEW place \in {"moving", "removing"}, Goto(p, place), UNCHANGED job PROVE Typed'
      BY <1>0, <1>b, <1>3, <1>c, <2>1, TypeGoes DEF Stat, At, Places
    <2>2. CASE Ends(p)
      BY <1>0, <1>b, <1>3, <1>c, <2>2, TypeEnds DEF Stat
    <2>3. CASE Goto(p, "locking") /\ job' = [job EXCEPT ![p].tree = Dir(p).receipt]
      <3>1. pc[p] = "staged"
        BY <1>3 DEF Stat, At
      <3>2. Dir(p).receipt \in Trees
        BY <1>a, <3>1
      <3> DEFINE j == [job[p] EXCEPT !.tree = Dir(p).receipt]
      <3>3. j \in Jobs /\ j.rev \in Revs /\ j.tree \in Trees
        BY <1>0, <3>1, <3>2, TreeFacts DEF Jobs
      <3>4. job' = [job EXCEPT ![p] = j] /\ pc' = [pc EXCEPT ![p] = "locking"]
        BY <2>3 DEF Goto
      <3> HIDE DEF j
      <3> QED BY <1>0, <1>b, <1>3, <1>c, <3>3, <3>4, TypeOf DEF Stat, Places
    <2> QED BY <1>3, <2>1, <2>2, <2>3 DEF Stat
  <1>4. CASE RemoveEntry(p)
    <2>1. pc[p] = "removing" /\ Dir(p).there
      BY <1>4 DEF RemoveEntry, At
    <2>2. DirTyped'
      <3>1. ASSUME NEW f \in Files, dir' = [dir EXCEPT ![Rev(p)].files[f] = "none"] PROVE DirTyped'
        BY <1>0, <1>a, <2>1, <3>1, WriteFile DEF Dir, Rev, States
      <3>2. CASE dir' = [dir EXCEPT ![Rev(p)].receipt = NoTree]
        BY <1>0, <1>a, <2>1, <3>2, TreeFacts DEF DirTyped, Dir, Rev
      <3> QED BY <1>4, <3>1, <3>2 DEF RemoveEntry
    <2>3. Goto(p, "removing")
      BY <1>0, <1>4, <2>1 DEF RemoveEntry, Goto
    <2> QED BY <1>0, <1>4, <1>b, <2>1, <2>2, <2>3, TypeGoes DEF RemoveEntry, Places
  <1>5. CASE RemoveDir(p)
    <2>1. pc[p] = "removing"
      BY <1>5 DEF RemoveDir, At
    <2>2. DirTyped'
      BY <1>0, <1>5, <1>a, <2>1, TreeFacts DEF RemoveDir, DirTyped, Gone
    <2>3. CASE Goto(p, "moving") /\ UNCHANGED job
      BY <1>0, <1>5, <1>b, <2>1, <2>2, <2>3, TypeGoes DEF RemoveDir, Places
    <2>4. CASE Ends(p)
      BY <1>0, <1>5, <1>b, <2>2, <2>4, TypeEnds DEF RemoveDir
    <2>5. ASSUME NEW r \in job[p].rest, job' = [job EXCEPT ![p].rev = r, ![p].rest = @ \ {r}], UNCHANGED pc
          PROVE  Typed'
      <3> DEFINE j == [job[p] EXCEPT !.rev = r, !.rest = @ \ {r}]
      <3>1. job' = [job EXCEPT ![p] = j] /\ pc' = [pc EXCEPT ![p] = "removing"]
        BY <1>0, <2>1, <2>5
      <3>2. j \in Jobs /\ j.rev \in Revs /\ j.next = 1
        BY <1>0, <2>1 DEF Jobs
      <3> HIDE DEF j
      <3> QED BY <1>0, <1>5, <1>b, <2>2, <3>1, <3>2, TypeOf DEF RemoveDir, Places
    <2> QED BY <1>5, <2>3, <2>4, <2>5 DEF RemoveDir
  <1>6. CASE Rename(p)
    <2>1. pc[p] = "moving"
      BY <1>6 DEF Rename, At
    <2>2. DirTyped'
      <3> DEFINE d == IF ~cross /\ Dir(p).files = Empty /\ Dir(p).receipt = NoTree
                      THEN [Gone EXCEPT !.there = TRUE, !.files = Full]
                      ELSE [Dir(p) EXCEPT !.there = TRUE]
      <3>1. dir' = [dir EXCEPT ![Rev(p)] = d]
        BY <1>0, <1>6 DEF Rename, Dir, Rev
      <3>2. d \in [there : BOOLEAN, files : Tree, receipt : Trees] /\ d.there
        BY <1>a, <2>1, TreeFacts DEF Gone
      <3> HIDE DEF d
      <3> QED BY <1>0, <1>a, <2>1, <3>1, <3>2, DirOf
    <2> QED BY <1>0, <1>6, <1>b, <2>1, <2>2, TypeGoes DEF Rename, Places
  <1>7. CASE CreateFile(p)
    <2>1. pc[p] = "creating"
      BY <1>7 DEF CreateFile, At
    <2>2. DirTyped'
      <3>1. CASE Dir(p).there
        BY <1>0, <1>7, <1>a, <2>1, <3>1, WriteFile DEF CreateFile, Dir, Rev, States, Jobs
      <3>2. CASE ~Dir(p).there
        BY <1>7, <1>c, <3>2 DEF CreateFile
      <3> QED BY <3>1, <3>2
    <2> QED BY <1>0, <1>7, <1>b, <2>1, <2>2, TypeGoes, TypeEnds DEF CreateFile, Places
  <1>8. CASE CopyFile(p)
    <2>1. pc[p] = "copying"
      BY <1>8 DEF CopyFile, At
    <2>2. DirTyped'
      <3>1. CASE UNCHANGED dir
        BY <1>c, <3>1
      <3>2. ASSUME NEW state \in States, dir' = [dir EXCEPT ![Rev(p)].files[job[p].next] = state]
            PROVE  DirTyped'
        <4>1. CASE Dir(p).there
          BY <1>0, <1>a, <2>1, <3>2, <4>1, WriteFile DEF Dir, Rev, Jobs
        <4>2. CASE ~Dir(p).there
          BY <1>0, <1>8, <1>c, <2>1, <4>2 DEF CopyFile
        <4> QED BY <4>1, <4>2
      <3> QED BY <1>8, <3>1, <3>2 DEF CopyFile, States
    <2> DEFINE n == IF job[p].next = NumFiles THEN 1 ELSE job[p].next + 1
               j == [job[p] EXCEPT !.next = n]
    <2>3. n \in Files
      BY <1>0, ConstantsAssumption, TreeFacts DEF ConstantsAssumption, Jobs, Files
    <2>4. j \in Jobs /\ j.rev \in Revs
      BY <1>0, <2>1, <2>3 DEF Jobs
    <2>5. job' = [job EXCEPT ![p] = j]
      BY <1>0, <1>8 DEF CopyFile
    <2> HIDE DEF j
    <2>6. \E place \in {"hashing", "creating"} : pc' = [pc EXCEPT ![p] = place]
      BY <1>8 DEF CopyFile, Goto
    <2>7. UNCHANGED <<fixed, latest>> /\ modLock' \in [rev : Revs, hash : Trees] \cup {NoLock}
      BY <1>0, <1>8 DEF CopyFile
    <2> QED BY <1>b, <2>2, <2>4, <2>5, <2>6, <2>7, TypeOf DEF Places
  <1>9. CASE Hash(p)
    <2>1. CASE Ends(p)
      BY <1>0, <1>b, <1>9, <1>c, <2>1, TypeEnds DEF Hash
    <2>2. CASE job' = [job EXCEPT ![p].tree = Dir(p).files] /\ Goto(p, "recording")
      <3>1. pc[p] = "hashing"
        BY <1>9 DEF Hash, At
      <3> DEFINE j == [job[p] EXCEPT !.tree = Dir(p).files]
      <3>2. j \in Jobs /\ j.rev \in Revs /\ j.tree \in Trees
        BY <1>0, <1>a, <3>1, TreeFacts DEF Jobs
      <3>3. job' = [job EXCEPT ![p] = j] /\ pc' = [pc EXCEPT ![p] = "recording"]
        BY <2>2 DEF Goto
      <3> HIDE DEF j
      <3> QED BY <1>0, <1>b, <1>9, <1>c, <3>2, <3>3, TypeOf DEF Hash, Places
    <2> QED BY <1>9, <2>1, <2>2 DEF Hash
  <1>10. CASE WriteReceipt(p)
    <2>1. pc[p] = "recording"
      BY <1>10 DEF WriteReceipt, At
    <2>2. DirTyped'
      BY <1>0, <1>10, <1>a, <2>1 DEF WriteReceipt, DirTyped, Dir, Rev
    <2> QED BY <1>0, <1>b, <1>10, <2>1, <2>2, TypeGoes, TypeEnds DEF WriteReceipt, Places
  <1>11. ASSUME NEW revs \in SUBSET Revs, Remove(p, revs) PROVE Typed'
    <2>1. PICK r \in revs : job' = [job EXCEPT ![p] = [NoJob EXCEPT !.rev = r, !.rest = revs \ {r}]]
      BY <1>11 DEF Remove
    <2> DEFINE j == [NoJob EXCEPT !.rev = r, !.rest = revs \ {r}]
    <2>2. j \in Jobs /\ j.rev \in Revs /\ j.next = 1
      BY TreeFacts DEF Jobs, NoJob
    <2>3. job' = [job EXCEPT ![p] = j] /\ pc' = [pc EXCEPT ![p] = "removing"]
      BY <1>11, <2>1 DEF Remove, Goto
    <2>4. ops' \in 0..MaxOps
      BY <1>11, TypeBegins DEF Remove
    <2> HIDE DEF j
    <2> QED BY <1>0, <1>b, <1>11, <1>c, <2>2, <2>3, <2>4, TypeOf DEF Remove, Places
  <1> QED BY <1>1, <1>2, <1>3, <1>4, <1>5, <1>6, <1>7, <1>8, <1>9, <1>10, <1>11

\* Steps of sync and load.
LEMMA TypeLoad ==
  ASSUME TypeInv, NEW p \in Procs,
         \/ Sync(p) \/ WriteLock(p) \/ Load(p) \/ ReadFile(p) \/ Verify(p) \/ Finish(p)
         \/ Return(p) \/ Crash(p) \/ Fail(p)
  PROVE  Typed'
  <1>0. DirTyped /\ RestTyped /\ JobAt(p)
    BY DEF TypeInv
  <1> USE DEF RestTyped, JobAt
  <1>a. pc[p] # "idle" => Dir(p) \in [there : BOOLEAN, files : Tree, receipt : Trees] /\ Rev(p) \in Revs
    BY <1>0 DEF DirTyped, Dir, Rev
  <1>c. UNCHANGED dir => DirTyped'
    BY <1>0 DEF DirTyped
  <1>b. BooksTyped'
    <2>1. Load(p) \/ Sync(p) => ops' \in 0..MaxOps
      BY TypeBegins DEF Load, Sync
    <2>2. Load(p) \/ Sync(p) => BooksTyped'
      BY <1>0, <2>1 DEF Load, Sync, BooksTyped
    <2>3. WriteLock(p) \/ ReadFile(p) \/ Verify(p) \/ Finish(p) \/ Return(p) => BooksTyped'
      BY <1>0 DEF WriteLock, ReadFile, Verify, Finish, Return, BooksTyped, bounds
    <2>4. Leave(p) => unlinked' \subseteq Procs /\ touched' \subseteq Procs /\ broken' \subseteq Revs
      BY <1>0 DEF Leave, BooksTyped, Rev
    <2>5. Crash(p) \/ Fail(p) => ops' = ops /\ crashes' \in 0..MaxCrashes /\ fails' \in 0..MaxFails
      BY <1>0, ConstantsAssumption DEF Crash, Fail, Leave, BooksTyped, ConstantsAssumption
    <2> QED BY <1>0, <2>2, <2>3, <2>4, <2>5 DEF Crash, Fail, BooksTyped
  <1>1. CASE Sync(p)
    <2>1. ops' \in 0..MaxOps
      BY <1>1, TypeBegins DEF Sync
    <2>2. CASE UNCHANGED <<pc, job>>
      <3>1. UNCHANGED <<fixed, dir, latest, modLock, pc, job>>
        BY <1>1, <2>2 DEF Sync
      <3> QED BY <1>b, <3>1 DEF TypeInv, Typed, DirTyped, fixed
    <2>3. CASE Stage(p, FALSE, "lock")
      BY <1>1, <2>1, <2>3, StageTyped DEF Sync
    <2> QED BY <1>1, <2>2, <2>3 DEF Sync
  <1>2. CASE WriteLock(p)
    <2>1. pc[p] = "locking"
      BY <1>2 DEF WriteLock, At
    <2> DEFINE hash == IF job[p].tree # NoTree THEN job[p].tree ELSE Dir(p).files
    <2>2. hash \in Trees /\ Rev(p) \in Revs
      BY <1>0, <1>a, <2>1, TreeFacts
    <2>3. modLock' = IF Dir(p).files[1] = "full" THEN [rev |-> Rev(p), hash |-> hash] ELSE modLock
      BY <1>2 DEF WriteLock
    <2> HIDE DEF hash
    <2>4. modLock' \in [rev : Revs, hash : Trees] \cup {NoLock}
      BY <1>0, <2>2, <2>3
    <2> QED BY <1>0, <1>b, <1>2, <1>c, <2>4, TypeEnds DEF WriteLock
  <1>3. CASE Load(p)
    <2>1. modLock \in [rev : Revs, hash : Trees]
      BY <1>0, <1>3 DEF Load
    <2> DEFINE files == dir[modLock.rev].files
               tree == [f \in Files |-> IF f # 1 /\ files[f] # "none" THEN "unread" ELSE files[f]]
               j == [NoJob EXCEPT !.rev = modLock.rev, !.hash = modLock.hash, !.tree = tree]
    <2>2. files \in Tree
      BY <1>0, <2>1 DEF DirTyped
    <2>3. tree \in AnyTree
      BY <2>2 DEF Tree, AnyTree
    <2>4. j \in Jobs /\ j.rev \in Revs /\ j.next = 1
      BY <2>1, <2>3, TreeFacts DEF Jobs, NoJob, AnyTree
    <2>5. job' = [job EXCEPT ![p] = j]
      BY <1>3 DEF Load
    <2>6. pc' = [pc EXCEPT ![p] = IF NumFiles = 1 THEN "verify" ELSE "reading"]
      BY <1>3 DEF Load, Goto
    <2>7. ops' \in 0..MaxOps
      BY <1>3, TypeBegins DEF Load
    <2>8. NumFiles # 1 => 1 < NumFiles
      BY ConstantsAssumption DEF ConstantsAssumption
    <2> HIDE DEF j
    <2> QED BY <1>0, <1>b, <1>3, <1>c, <2>1, <2>4, <2>5, <2>6, <2>7, <2>8, TypeOf DEF Load, Places
  <1>4. CASE ReadFile(p)
    <2>1. pc[p] = "reading"
      BY <1>4 DEF ReadFile, At
    <2> DEFINE f == job[p].next + 1
               n == IF f = NumFiles THEN 1 ELSE f
               state == IF job[p].tree[f] = "unread" /\ Dir(p).files[f] # "none"
                        THEN Dir(p).files[f] ELSE job[p].tree[f]
               tree == [job[p].tree EXCEPT ![f] = state]
               j == [job[p] EXCEPT !.next = n, !.tree = tree]
    <2>2. f \in Files /\ n \in Files /\ (f # NumFiles => n < NumFiles)
      BY <1>0, <2>1, ConstantsAssumption, TreeFacts DEF ConstantsAssumption, Jobs, Files
    <2>3. tree \in AnyTree
      BY <1>0, <1>a, <2>1, <2>2 DEF Jobs, AnyTree, Tree
    <2>4. j \in Jobs /\ j.rev \in Revs /\ j.next = n
      BY <1>0, <2>1, <2>2, <2>3 DEF Jobs, AnyTree
    <2>5. job' = [job EXCEPT ![p] = j]
      BY <1>0, <1>4 DEF ReadFile, Jobs
    <2>6. pc' = [pc EXCEPT ![p] = IF f = NumFiles THEN "verify" ELSE "reading"]
      BY <1>4 DEF ReadFile, Goto
    <2> HIDE DEF j, n, f
    <2> QED BY <1>0, <1>b, <1>4, <1>c, <2>2, <2>4, <2>5, <2>6, TypeOf DEF ReadFile, Places
  <1>5. CASE Verify(p)
    BY <1>0, <1>b, <1>5, <1>c, TypeGoes, TypeEnds DEF Verify, At, Places
  <1>6. CASE Finish(p)
    <2>1. pc[p] = "loading"
      BY <1>6 DEF Finish, At
    <2>2. CASE Ends(p)
      BY <1>0, <1>b, <1>6, <1>c, <2>2, TypeEnds DEF Finish
    <2> DEFINE tree == [f \in Files |-> IF job[p].tree[f] = "unread" THEN Dir(p).files[f] ELSE job[p].tree[f]]
               j == [job[p] EXCEPT !.tree = tree]
    <2>3. CASE job' = [job EXCEPT ![p] = j] /\ Goto(p, "loaded")
      <3>1. tree \in AnyTree
        BY <1>0, <1>a, <2>1 DEF Jobs, AnyTree, Tree
      <3>2. j \in Jobs /\ j.rev \in Revs
        BY <1>0, <2>1, <3>1 DEF Jobs, AnyTree
      <3> HIDE DEF j
      <3> QED BY <1>0, <1>b, <1>6, <1>c, <2>3, <3>2, TypeOf DEF Finish, Places, Goto
    <2>4. Ends(p) \/ (job' = [job EXCEPT ![p] = j] /\ Goto(p, "loaded"))
      BY <1>0, <1>6 DEF Finish
    <2> QED BY <2>2, <2>3, <2>4
  <1>7. CASE Return(p)
    BY <1>0, <1>b, <1>7, <1>c, TypeEnds DEF Return
  <1>8. CASE Crash(p) \/ Fail(p)
    BY <1>0, <1>8, <1>b, <1>c, TypeEnds DEF Crash, Fail, Leave
  <1> QED BY <1>1, <1>2, <1>3, <1>4, <1>5, <1>6, <1>7, <1>8

-----------------------------------------------------------------------------
(* Who changes what.                                                       *)

\* Steps of one process, by what they do to the cache.
Begins(p) ==
  \/ \E force \in BOOLEAN : Install(p, force)
  \/ Update(p) \/ Sync(p) \/ \E revs \in SUBSET Revs : Remove(p, revs)
Writes(p) ==
  \/ RemoveEntry(p) \/ RemoveDir(p) \/ Rename(p) \/ CreateFile(p) \/ CopyFile(p)
  \/ WriteReceipt(p)
Prepares(p) == Stat(p) \/ Hash(p) \/ WriteLock(p)
Breaks(p)   == Crash(p) \/ Fail(p)
Loads(p)    == Load(p) \/ ReadFile(p) \/ Verify(p) \/ Finish(p) \/ Return(p)

LEMMA NextCases ==
  ASSUME [Next]_vars
  PROVE  \/ \E p \in Procs : Begins(p) \/ Writes(p) \/ Prepares(p) \/ Loads(p) \/ Breaks(p)
         \/ \E r \in Revs : Publish(r)
         \/ UNCHANGED vars
  BY DEF Next, Begins, Writes, Prepares, Loads, Breaks

LEMMA OthersStay ==
  ASSUME TypeInv, NEW p \in Procs, Begins(p) \/ Writes(p) \/ Prepares(p) \/ Loads(p) \/ Breaks(p),
         NEW q \in Procs \ {p}
  PROVE  pc'[q] = pc[q] /\ job'[q] = job[q]
  <1> USE DEF TypeInv, RestTyped, Goto, Ends
  <1>1. CASE Begins(p)
    BY <1>1 DEF Begins, Install, Update, Sync, Remove, Stage
  <1>2. CASE Writes(p)
    BY <1>2 DEF Writes, RemoveEntry, RemoveDir, Rename, CreateFile, CopyFile, WriteReceipt
  <1>3. CASE Prepares(p)
    BY <1>3 DEF Prepares, Stat, Hash, WriteLock
  <1>4. CASE Loads(p)
    BY <1>4 DEF Loads, Load, ReadFile, Verify, Finish, Return
  <1>5. CASE Breaks(p)
    BY <1>5 DEF Breaks, Crash, Fail, Leave
  <1> QED BY <1>1, <1>2, <1>3, <1>4, <1>5

\* Only writers change the cache, and a load under way notices.
LEMMA OnlyWriters ==
  ASSUME TypeInv, NEW p \in Procs, Begins(p) \/ Prepares(p) \/ Loads(p) \/ Breaks(p)
  PROVE  UNCHANGED dir /\ touched \ {p} \subseteq touched'
  BY DEF Begins, Install, Update, Sync, Remove, Prepares, Stat, Hash, WriteLock,
         Loads, Load, ReadFile, Verify, Finish, Return, Breaks, Crash, Fail, Leave

\* Only a removal unlinks a file that somebody else has open.
LEMMA SameUnlinked ==
  ASSUME NEW p \in Procs, Begins(p) \/ Prepares(p) \/ Loads(p) \/ Breaks(p), NEW q \in Procs \ {p}
  PROVE  q \in unlinked' <=> q \in unlinked
  BY DEF Begins, Install, Update, Sync, Remove, Prepares, Stat, Hash, WriteLock,
         Loads, Load, ReadFile, Verify, Finish, Return, Breaks, Crash, Fail, Leave

LEMMA WritersTouch ==
  ASSUME TypeInv, NEW p \in Procs, Writes(p)
  PROVE  /\ touched \subseteq touched'
         /\ \A r \in Revs \ {Rev(p)} : dir'[r] = dir[r]
         /\ \A q \in Procs : Loading(q) /\ q \notin touched' => dir'[Rev(q)].files = dir[Rev(q)].files
  <1> USE DEF TypeInv, DirTyped
  <1>1. \A r \in Revs \ {Rev(p)} : dir'[r] = dir[r]
    BY DEF Writes, RemoveEntry, RemoveDir, Rename, CreateFile, CopyFile, WriteReceipt
  <1>2. CASE WriteReceipt(p)
    <2>1. pc[p] # "idle" /\ Rev(p) \in Revs
      BY <1>2 DEF WriteReceipt, At, JobAt, Rev
    <2>2. dir'[Rev(p)].files = dir[Rev(p)].files /\ touched' = touched
      BY <1>2, <2>1 DEF WriteReceipt, Dir, Rev
    <2>3. \A q \in Procs : Loading(q) => Rev(q) \in Revs
      BY DEF Loading, JobAt, Rev
    <2> QED BY <1>1, <2>2, <2>3
  <1>3. CASE Touch(p)
    <2>1. touched \subseteq touched' /\ \A q \in Procs : Loading(q) /\ q \notin touched' => Rev(q) # Rev(p)
      BY <1>3 DEF Touch
    <2>2. \A q \in Procs : Loading(q) => Rev(q) \in Revs
      BY DEF Loading, JobAt, Rev
    <2> QED BY <1>1, <2>1, <2>2
  <1>4. WriteReceipt(p) \/ Touch(p)
    BY DEF Writes, RemoveEntry, RemoveDir, Rename, CreateFile, CopyFile
  <1> QED BY <1>2, <1>3, <1>4

\* What others do leaves the open files where they are, or unlinks them.
LEMMA OpenStep ==
  ASSUME TypeInv, NEW p \in Procs, Begins(p) \/ Writes(p) \/ Prepares(p) \/ Loads(p) \/ Breaks(p)
  PROVE  \A q \in Procs : OpenAt(q)'
  <1>0. DirTyped /\ RestTyped /\ JobAt(p) /\ OpenAt(p)
    BY DEF TypeInv
  <1>1. OpenAt(p)'
    <2>1. pc'[p] = "copying" => CreateFile(p) \/ (Sync(p) /\ UNCHANGED <<pc, job>>) \/ RemoveDir(p) \/ RemoveEntry(p)
      BY <1>0 DEF Begins, Install, Update, Sync, Remove, Stage, Writes, Rename, CopyFile,
                WriteReceipt, Prepares, Stat, Hash, WriteLock, Loads, Load, ReadFile, Verify, Finish, Return,
                Breaks, Crash, Fail, Leave, Ends, Goto, RestTyped
    <2>2. ~(RemoveDir(p) \/ RemoveEntry(p) \/ Sync(p)) \/ pc'[p] # "copying"
      BY <1>0 DEF RemoveDir, RemoveEntry, Sync, Stage, Command, At, Ends, Goto, RestTyped
    <2>3. p \in unlinked' => pc'[p] = "copying"
      <3>1. CASE CopyFile(p) \/ Breaks(p)
        BY <3>1 DEF CopyFile, Breaks, Crash, Fail, Leave
      <3>2. CASE RemoveEntry(p)
        BY <1>0, <3>2 DEF RemoveEntry, Copying, At, OpenAt
      <3>3. CASE CreateFile(p)
        BY <1>0, <3>3 DEF CreateFile, OpenAt, At
      <3>4. CASE Begins(p) \/ Prepares(p) \/ Loads(p) \/ RemoveDir(p) \/ Rename(p) \/ WriteReceipt(p)
        BY <1>0, <3>4 DEF Begins, Install, Update, Sync, Remove, Command, Prepares, Stat, Hash, WriteLock,
                  Loads, Load, ReadFile, Verify, Finish, Return, RemoveDir, Rename, WriteReceipt, OpenAt, At
      <3> QED BY <3>1, <3>2, <3>3, <3>4 DEF Writes
    <2>4. CASE CreateFile(p) /\ pc'[p] = "copying"
      <3>0. Rev(p) \in Revs /\ job[p].next \in Files /\ DOMAIN Dir(p).files = Files
        BY <1>0, <2>4 DEF CreateFile, At, JobAt, Jobs, Rev, Dir, DirTyped, Tree
      <3>1. Dir(p).there /\ job' = job /\ dir' = [dir EXCEPT ![Rev(p)].files[job[p].next] = "torn"]
        BY <1>0, <2>4 DEF CreateFile, Ends, Goto, RestTyped
      <3>2. Dir(p)'.there /\ Dir(p)'.files = [Dir(p).files EXCEPT ![job[p].next] = "torn"]
        BY <1>0, <3>0, <3>1 DEF Dir, Rev, DirTyped
      <3>3. Dir(p)'.files[job'[p].next] = "torn"
        BY <3>0, <3>1, <3>2
      <3> QED BY <2>3, <3>2, <3>3 DEF OpenAt
    <2>5. CASE pc'[p] # "copying"
      BY <2>3, <2>5 DEF OpenAt
    <2> QED BY <2>1, <2>2, <2>4, <2>5
  <1>2. ASSUME NEW q \in Procs \ {p}, Begins(p) \/ Prepares(p) \/ Loads(p) \/ Breaks(p) PROVE OpenAt(q)'
    <2>1. UNCHANGED dir /\ pc'[q] = pc[q] /\ job'[q] = job[q]
      BY <1>2, OnlyWriters, OthersStay
    <2>2. q \in unlinked' <=> q \in unlinked
      BY <1>2, SameUnlinked
    <2> QED BY <2>1, <2>2 DEF TypeInv, OpenAt, Dir
  <1>3. ASSUME NEW q \in Procs \ {p}, Writes(p) PROVE OpenAt(q)'
    <2>0. JobAt(q) /\ OpenAt(q) /\ pc'[q] = pc[q] /\ job'[q] = job[q]
      BY <1>3, OthersStay DEF TypeInv
    <2>1. (q \in unlinked => q \in unlinked') /\ (q \in unlinked' => pc[q] = "copying")
      BY <1>3, <2>0 DEF Writes, RemoveEntry, RemoveDir, Rename, CreateFile, CopyFile, WriteReceipt, OpenAt,
                Copying, At
    <2> SUFFICES ASSUME pc[q] = "copying", q \notin unlinked'
                 PROVE  dir'[Rev(q)].there /\ dir'[Rev(q)].files[job[q].next] # "none"
      BY <2>0, <2>1 DEF OpenAt, Dir, Rev
    <2>2. /\ Rev(q) \in Revs /\ job[q].next \in Files /\ q \notin unlinked
          /\ dir[Rev(q)].there /\ dir[Rev(q)].files[job[q].next] # "none"
          /\ dir[Rev(q)] \in [there : BOOLEAN, files : Tree, receipt : Trees]
      BY <1>0, <2>0, <2>1 DEF OpenAt, JobAt, Jobs, Dir, Rev, DirTyped
    <2>3. DOMAIN dir[Rev(q)].files = Files
      BY <2>2 DEF Tree
    <2>4. CASE Rev(q) # Rev(p)
      BY <1>3, <2>2, <2>4, WritersTouch
    <2>5. CASE Rev(q) = Rev(p)
      <3>0. Dir(p) = dir[Rev(q)]
        BY <2>5 DEF Dir, Rev
      <3>1. CASE RemoveEntry(p)
        <4>1. ASSUME NEW f \in Files, dir' = [dir EXCEPT ![Rev(p)].files[f] = "none"],
                     unlinked' = unlinked \cup {x \in Procs : Copying(x, Rev(p), f)}
              PROVE  dir'[Rev(q)].there /\ dir'[Rev(q)].files[job[q].next] # "none"
          <5>1. f # job[q].next
            BY <2>5, <4>1 DEF Copying, At
          <5>2. /\ dir'[Rev(q)].there = dir[Rev(q)].there
                /\ dir'[Rev(q)].files = [dir[Rev(q)].files EXCEPT ![f] = "none"]
            BY <1>0, <2>2, <2>5, <4>1 DEF DirTyped
          <5> QED BY <2>2, <2>3, <5>1, <5>2
        <4>2. CASE dir' = [dir EXCEPT ![Rev(p)].receipt = NoTree]
          <5>1. /\ dir'[Rev(q)].there = dir[Rev(q)].there
                /\ dir'[Rev(q)].files = dir[Rev(q)].files
            BY <1>0, <2>2, <2>5, <4>2 DEF DirTyped
          <5> QED BY <2>2, <5>1
        <4> QED BY <3>1, <4>1, <4>2 DEF RemoveEntry
      <3>2. CASE RemoveDir(p)
        BY <2>2, <3>0, <3>2 DEF RemoveDir, Empty
      <3>3. CASE Rename(p)
        <4>1. CASE dir' = [dir EXCEPT ![Rev(p)] = [Gone EXCEPT !.there = TRUE, !.files = Full]]
          <5>1. dir'[Rev(q)].there /\ dir'[Rev(q)].files = Full
            BY <1>0, <2>2, <2>5, <4>1 DEF DirTyped, Gone
          <5> QED BY <2>2, <5>1 DEF Full
        <4>2. CASE dir' = [dir EXCEPT ![Rev(p)].there = TRUE]
          <5>1. dir'[Rev(q)].there /\ dir'[Rev(q)].files = dir[Rev(q)].files
            BY <1>0, <2>2, <2>5, <4>2 DEF DirTyped
          <5> QED BY <2>2, <5>1
        <4> QED BY <3>3, <4>1, <4>2 DEF Rename
      <3>4. CASE CreateFile(p) \/ CopyFile(p)
        <4>1. dir' = dir \/ \E state \in {"torn", "full"} : dir' = [dir EXCEPT ![Rev(p)].files[job[p].next] = state]
          BY <3>4 DEF CreateFile, CopyFile
        <4>2. ASSUME NEW state \in {"torn", "full"}, dir' = [dir EXCEPT ![Rev(p)].files[job[p].next] = state]
              PROVE  dir'[Rev(q)].there /\ dir'[Rev(q)].files[job[q].next] # "none"
          <5>1. /\ dir'[Rev(q)].there = dir[Rev(q)].there
                /\ dir'[Rev(q)].files = [dir[Rev(q)].files EXCEPT ![job[p].next] = state]
            BY <1>0, <2>2, <2>5, <4>2 DEF DirTyped
          <5> QED BY <2>2, <2>3, <5>1
        <4> QED BY <2>2, <4>1, <4>2
      <3>5. CASE WriteReceipt(p)
        <4>1. /\ dir'[Rev(q)].there = dir[Rev(q)].there
              /\ dir'[Rev(q)].files = dir[Rev(q)].files
          BY <1>0, <2>2, <2>5, <3>5 DEF WriteReceipt, DirTyped
        <4> QED BY <2>2, <4>1
      <3> QED BY <1>3, <3>1, <3>2, <3>3, <3>4, <3>5 DEF Writes
    <2> QED BY <2>4, <2>5
  <1> QED BY <1>1, <1>2, <1>3

LEMMA TypeStep == TypeInv /\ [Next]_vars => TypeInv'
  <1> SUFFICES ASSUME TypeInv, [Next]_vars PROVE TypeInv'
    OBVIOUS
  <1>1. ASSUME NEW r \in Revs, Publish(r) PROVE TypeInv'
    BY <1>1, ConstantsAssumption
       DEF Publish, TypeInv, DirTyped, RestTyped, BooksTyped, JobAt, OpenAt, Dir, fixed, ConstantsAssumption
  <1>2. CASE UNCHANGED vars
    BY <1>2 DEF vars, fixed, bounds, TypeInv, DirTyped, RestTyped, BooksTyped, JobAt, OpenAt, Dir
  <1>3. ASSUME NEW p \in Procs, Begins(p) \/ Writes(p) \/ Prepares(p) \/ Loads(p) \/ Breaks(p) PROVE TypeInv'
    <2>1. Typed'
      BY <1>3, TypeInstall, TypeLoad DEF Begins, Writes, Prepares, Loads, Breaks
    <2>2. \A q \in Procs : OpenAt(q)'
      BY <1>3, OpenStep
    <2> QED BY <2>1, <2>2 DEF Typed, TypeInv
  <1> QED BY <1>1, <1>2, <1>3, NextCases

\* The type invariant of the cache, the lock and the commands (manager.go, loader.go).
THEOREM TypeCorrect == Spec => []TypeOK
  <1>1. Spec => []TypeInv
    BY TypeInit, TypeStep, PTL DEF Spec
  <1> QED BY <1>1, TypeFollows, PTL

-----------------------------------------------------------------------------
(* Loads.                                                                  *)

\* A load that nobody has disturbed has read what is in the cache, and from the
\* verification on the cache is what was locked.
LoadAt(p) ==
  p \notin touched =>
    /\ Loading(p) => \A f \in Files : job[p].tree[f] # "unread" => job[p].tree[f] = Dir(p).files[f]
    /\ pc[p] = "loading" => Dir(p).files = job[p].hash
    /\ pc[p] = "loaded" => job[p].tree = job[p].hash

LoadInv == TypeInv /\ \A p \in Procs : LoadAt(p)

LEMMA LoadInit == Init => LoadInv
  BY TypeInit DEF LoadInv, LoadAt, Init, Loading

LEMMA LoadOther ==
  ASSUME LoadInv, NEW p \in Procs, NEW q \in Procs, pc'[q] = pc[q], job'[q] = job[q],
         q \notin touched' => q \notin touched,
         Loading(q) /\ q \notin touched' => dir'[Rev(q)].files = dir[Rev(q)].files
  PROVE  LoadAt(q)'
  BY DEF LoadInv, LoadAt, Loading, Dir, Rev

LEMMA LoadOwn ==
  ASSUME LoadInv, NEW p \in Procs, Loads(p)
  PROVE  LoadAt(p)'
  <1>0. DirTyped /\ RestTyped /\ JobAt(p) /\ LoadAt(p)
    BY DEF LoadInv, TypeInv
  <1> USE DEF RestTyped, JobAt
  <1>a. pc[p] # "idle" => Dir(p).files \in Tree
    BY <1>0 DEF DirTyped, Dir
  <1>1. CASE Load(p)
    <2>1. modLock \in [rev : Revs, hash : Trees] /\ dir' = dir
      BY <1>0, <1>1 DEF Load
    <2> DEFINE files == dir[modLock.rev].files
    <2>2. files \in Tree
      BY <1>0, <2>1 DEF DirTyped
    <2>3. /\ job'[p].tree = [f \in Files |-> IF f # 1 /\ files[f] # "none" THEN "unread" ELSE files[f]]
          /\ job'[p].rev = modLock.rev
      BY <1>0, <1>1, TreeFacts DEF Load, NoJob
    <2>4. pc'[p] \in {"verify", "reading"}
      BY <1>0, <1>1 DEF Load, Goto
    <2> QED BY <2>1, <2>3, <2>4 DEF LoadAt, Dir, Rev
  <1>2. CASE ReadFile(p)
    <2>1. pc[p] = "reading" /\ pc'[p] \in {"reading", "verify"} /\ dir' = dir /\ touched' = touched
      BY <1>0, <1>2 DEF ReadFile, At, Goto
    <2> DEFINE f == job[p].next + 1
    <2>2. job[p].tree \in [Files -> States \cup {"unread"}]
      BY <1>0 DEF Jobs
    <2>3. /\ job'[p].rev = job[p].rev
          /\ job'[p].tree = [job[p].tree EXCEPT ![f] =
               IF job[p].tree[f] = "unread" /\ Dir(p).files[f] # "none" THEN Dir(p).files[f] ELSE job[p].tree[f]]
      BY <1>0, <1>2, <2>2 DEF ReadFile, Jobs
    <2> HIDE DEF f
    <2>4. p \notin touched => \A g \in Files : job[p].tree[g] # "unread" => job[p].tree[g] = Dir(p).files[g]
      BY <1>0, <2>1 DEF LoadAt, Loading
    <2>5. p \notin touched => \A g \in Files : job'[p].tree[g] # "unread" => job'[p].tree[g] = Dir(p).files[g]
      BY <2>2, <2>3, <2>4
    <2> QED BY <2>1, <2>3, <2>5 DEF LoadAt, Dir, Rev
  <1>3. CASE Verify(p)
    <2>1. CASE Dir(p).files = job[p].hash
      BY <1>0, <1>3, <2>1 DEF Verify, LoadAt, Loading, At, Goto, Dir, Rev
    <2>2. CASE Dir(p).files # job[p].hash
      BY <1>0, <1>3, <2>2 DEF Verify, LoadAt, Loading, Ends, Goto
    <2> QED BY <2>1, <2>2
  <1>4. CASE Finish(p)
    <2>1. pc[p] = "loading" /\ touched' = touched
      BY <1>4 DEF Finish, At
    <2>2. CASE Ends(p)
      BY <1>0, <2>2 DEF LoadAt, Loading, Ends, Goto
    <2> DEFINE tree == [f \in Files |-> IF job[p].tree[f] = "unread" THEN Dir(p).files[f] ELSE job[p].tree[f]]
    <2>3. CASE job' = [job EXCEPT ![p].tree = tree] /\ Goto(p, "loaded")
      <3>1. p \notin touched => /\ \A f \in Files : tree[f] = Dir(p).files[f]
                                /\ Dir(p).files = job[p].hash
        BY <1>0, <2>1 DEF LoadAt, Loading
      <3>2. Dir(p).files \in Tree
        BY <1>a, <2>1
      <3>3. p \notin touched => tree = job[p].hash
        BY <3>1, <3>2 DEF Tree
      <3>4. job'[p].tree = tree /\ job'[p].hash = job[p].hash /\ pc'[p] = "loaded"
        BY <1>0, <2>3 DEF Goto, Jobs
      <3> QED BY <2>1, <3>3, <3>4 DEF LoadAt, Loading
    <2>4. Ends(p) \/ (job' = [job EXCEPT ![p].tree = tree] /\ Goto(p, "loaded"))
      BY <1>0, <1>4 DEF Finish
    <2> QED BY <2>2, <2>3, <2>4
  <1>5. CASE Return(p)
    BY <1>0, <1>5 DEF Return, Ends, Goto, LoadAt, Loading
  <1> QED BY <1>1, <1>2, <1>3, <1>4, <1>5 DEF Loads

LEMMA LoadStep == LoadInv /\ [Next]_vars => LoadInv'
  <1> SUFFICES ASSUME LoadInv, [Next]_vars PROVE LoadInv'
    OBVIOUS
  <1>0. TypeInv /\ TypeInv'
    BY TypeStep DEF LoadInv
  <1>1. ASSUME NEW p \in Procs, Begins(p) \/ Prepares(p) \/ Breaks(p) PROVE \A q \in Procs : LoadAt(q)'
    <2>1. UNCHANGED dir /\ touched \ {p} \subseteq touched'
      BY <1>0, <1>1, OnlyWriters
    <2>2. LoadAt(p)'
      <3>1. pc'[p] \notin {"reading", "verify", "loading", "loaded"} \/ (pc'[p] = pc[p] /\ job'[p] = job[p])
        BY <1>0, <1>1 DEF Begins, Install, Update, Sync, Remove, Stage, Prepares, Stat, Hash, WriteLock,
                  Breaks, Crash, Fail, Leave, Ends, Goto, TypeInv, RestTyped
      <3>2. touched' = touched
        BY <1>1 DEF Begins, Install, Update, Sync, Remove, Prepares, Stat, Hash, WriteLock, Breaks, Crash, Fail, Leave
      <3> QED BY <2>1, <3>1, <3>2, LoadOther DEF LoadAt, Loading
    <2> QED BY <1>0, <1>1, <2>1, <2>2, OthersStay, LoadOther
  <1>2. ASSUME NEW p \in Procs, Writes(p) PROVE \A q \in Procs : LoadAt(q)'
    <2>1. LoadAt(p)'
      <3>1. pc'[p] \notin {"reading", "verify", "loading", "loaded"}
        BY <1>0, <1>2 DEF Writes, RemoveEntry, RemoveDir, Rename, CreateFile, CopyFile, WriteReceipt,
                  Ends, Goto, At, TypeInv, RestTyped
      <3> QED BY <3>1 DEF LoadAt, Loading
    <2> QED BY <1>0, <1>2, <2>1, OthersStay, WritersTouch, LoadOther
  <1>3. ASSUME NEW p \in Procs, Loads(p) PROVE \A q \in Procs : LoadAt(q)'
    <2>1. UNCHANGED dir /\ touched \ {p} \subseteq touched'
      BY <1>0, <1>3, OnlyWriters
    <2> QED BY <1>0, <1>3, <2>1, LoadOwn, OthersStay, LoadOther
  <1>4. ASSUME (\E r \in Revs : Publish(r)) \/ UNCHANGED vars PROVE \A q \in Procs : LoadAt(q)'
    <2>1. UNCHANGED <<dir, pc, job, touched>>
      BY <1>4 DEF Publish, vars
    <2> QED BY <2>1, LoadOther
  <1> QED BY <1>0, <1>1, <1>2, <1>3, <1>4, NextCases DEF LoadInv

\* A load that nobody disturbed runs the tree that mod.lock records, although the files
\* are read before they are verified and processes die anywhere (ResolveStaticLoadClosure,
\* resolveInstalledModule).
THEOREM LoadCorrect == Spec => []LoadIsWhatWasLocked
  <1>1. Spec => []LoadInv
    BY LoadInit, LoadStep, PTL DEF Spec
  <1>2. LoadInv => LoadIsWhatWasLocked
    BY DEF LoadInv, LoadAt, LoadIsWhatWasLocked, At
  <1> QED BY <1>1, <1>2, PTL

-----------------------------------------------------------------------------
(* Receipts.                                                               *)

\* What a command that changes the cache, alone at it, has achieved so far.
ProgressAt(p) ==
  /\ pc[p] \in {"creating", "copying"} =>
       Dir(p).there /\ \A f \in Files : f < job[p].next => Dir(p).files[f] = "full"
  /\ pc[p] = "copying" => p \notin unlinked
  /\ pc[p] = "hashing" => Dir(p).there /\ Dir(p).files = Full
  /\ pc[p] = "recording" => job[p].tree = Full

AloneInv ==
  alone =>
    /\ \A p, q \in Procs : Changing(p) /\ Changing(q) => p = q
    /\ \A r \in Revs : dir[r].receipt \in {NoTree, Full}
    /\ \A p \in Procs : ProgressAt(p)

ReceiptInv == TypeInv /\ AloneInv

LEMMA ReceiptInit == Init => ReceiptInv
  <1> SUFFICES ASSUME Init PROVE AloneInv
    BY TypeInit DEF ReceiptInv
  <1>1. \A r \in Revs : dir[r].receipt = NoTree
    BY DEF Init, Gone
  <1>2. \A p \in Procs : pc[p] = "idle"
    BY DEF Init
  <1> QED BY <1>1, <1>2 DEF AloneInv, Changing, ProgressAt

\* Nobody begins to change the cache while somebody does.
LEMMA OneChanger ==
  ASSUME ReceiptInv, [Next]_vars, alone
  PROVE  \A p, q \in Procs : Changing(p)' /\ Changing(q)' => p = q
  <1>0. TypeInv /\ AloneInv
    BY DEF ReceiptInv
  <1>1. ASSUME NEW p \in Procs, Begins(p) PROVE \A q \in Procs : ~Changing(q)
    BY <1>1 DEF Begins, Install, Update, Sync, Remove, Command
  <1>2. ASSUME NEW p \in Procs, Writes(p) \/ Prepares(p) PROVE Changing(p)
    BY <1>2 DEF Writes, RemoveEntry, RemoveDir, Rename, CreateFile, CopyFile, WriteReceipt,
              Prepares, Stat, Hash, WriteLock, At, Changing, Loading
  <1>3. ASSUME NEW p \in Procs, Loads(p) \/ Breaks(p) PROVE ~Changing(p)'
    BY <1>0, <1>3 DEF Loads, Load, ReadFile, Verify, Finish, Return, Breaks, Crash, Fail, Leave, Ends, Goto, Changing, Loading,
              TypeInv, RestTyped
  <1>4. ASSUME NEW p \in Procs, Begins(p) \/ Writes(p) \/ Prepares(p) \/ Loads(p) \/ Breaks(p)
        PROVE  \A q \in Procs \ {p} : Changing(q)' <=> Changing(q)
    BY <1>0, <1>4, OthersStay DEF Changing, Loading
  <1>5. ASSUME (\E r \in Revs : Publish(r)) \/ UNCHANGED vars PROVE UNCHANGED pc
    BY <1>5 DEF Publish, vars
  <1> USE DEF AloneInv
  <1>6. ASSUME NEW p \in Procs, Begins(p)
        PROVE  \A a, b \in Procs : Changing(a)' /\ Changing(b)' => a = b
    BY <1>1, <1>4, <1>6
  <1>7. ASSUME NEW p \in Procs, Writes(p) \/ Prepares(p) \/ Loads(p) \/ Breaks(p)
        PROVE  \A a, b \in Procs : Changing(a)' /\ Changing(b)' => a = b
    BY <1>0, <1>2, <1>3, <1>4, <1>7
  <1> QED BY <1>0, <1>5, <1>6, <1>7, NextCases DEF Changing, Loading

LEMMA WriterProgress ==
  ASSUME ReceiptInv, alone, NEW p \in Procs, Writes(p)
  PROVE  ProgressAt(p)' /\ \A r \in Revs : dir'[r].receipt \in {NoTree, Full}
  <1>0. /\ DirTyped /\ RestTyped /\ JobAt(p) /\ OpenAt(p) /\ ProgressAt(p)
        /\ \A r \in Revs : dir[r].receipt \in {NoTree, Full}
    BY DEF ReceiptInv, TypeInv, AloneInv
  <1>a. Dir(p) \in [there : BOOLEAN, files : Tree, receipt : Trees] /\ Rev(p) \in Revs
    BY <1>0 DEF DirTyped, Dir, Rev, JobAt, Writes, RemoveEntry, RemoveDir, Rename, CreateFile, CopyFile,
                WriteReceipt, At
  <1> USE DEF Goto, Ends, At
  <1>1. CASE RemoveEntry(p)
    <2>1. pc'[p] = "removing"
      BY <1>0, <1>1 DEF RemoveEntry
    <2>2. \A r \in Revs : dir'[r].receipt \in {dir[r].receipt, NoTree}
      BY <1>0, <1>1, <1>a DEF RemoveEntry, DirTyped
    <2> QED BY <1>0, <2>1, <2>2 DEF ProgressAt
  <1>2. CASE RemoveDir(p)
    <2>1. pc'[p] \in {"removing", "moving", "idle"}
      BY <1>0, <1>2 DEF RemoveDir, RestTyped
    <2>2. \A r \in Revs : dir'[r].receipt \in {dir[r].receipt, NoTree}
      BY <1>0, <1>2, <1>a DEF RemoveDir, DirTyped, Gone
    <2> QED BY <1>0, <2>1, <2>2 DEF ProgressAt
  <1>3. CASE Rename(p)
    <2>0. pc[p] = "moving" /\ job[p].next = 1 /\ job' = job
      BY <1>0, <1>3 DEF Rename, JobAt
    <2>1. CASE ~cross /\ Dir(p).files = Empty /\ Dir(p).receipt = NoTree
      <3>1. /\ pc'[p] = "hashing"
            /\ dir' = [dir EXCEPT ![Rev(p)] = [Gone EXCEPT !.there = TRUE, !.files = Full]]
        BY <1>0, <1>3, <2>1 DEF Rename, RestTyped
      <3>2. Dir(p)'.there /\ Dir(p)'.files = Full /\ \A r \in Revs : dir'[r].receipt \in {dir[r].receipt, NoTree}
        BY <1>0, <1>a, <2>0, <3>1 DEF Dir, Rev, DirTyped, Gone
      <3> QED BY <1>0, <3>1, <3>2 DEF ProgressAt
    <2>2. CASE ~(~cross /\ Dir(p).files = Empty /\ Dir(p).receipt = NoTree)
      <3>1. pc'[p] = "creating" /\ dir' = [dir EXCEPT ![Rev(p)].there = TRUE]
        BY <1>0, <1>3, <2>2 DEF Rename, RestTyped
      <3>2. Dir(p)'.there /\ \A r \in Revs : dir'[r].receipt = dir[r].receipt
        BY <1>0, <1>a, <2>0, <3>1 DEF Dir, Rev, DirTyped
      <3>3. \A f \in Files : ~(f < 1)
        BY DEF Files
      <3> QED BY <1>0, <2>0, <3>1, <3>2, <3>3 DEF ProgressAt
    <2> QED BY <2>1, <2>2
  <1>4. CASE CreateFile(p)
    <2>0. pc[p] = "creating" /\ Dir(p).there /\ job[p].next \in Files
      BY <1>0, <1>4 DEF CreateFile, ProgressAt, JobAt, Jobs
    <2>1. /\ pc'[p] = "copying" /\ job' = job
          /\ dir' = [dir EXCEPT ![Rev(p)].files[job[p].next] = "torn"]
      BY <1>0, <1>4, <2>0 DEF CreateFile, RestTyped
    <2>2. Dir(p)'.there /\ \A r \in Revs : dir'[r].receipt = dir[r].receipt
      BY <1>0, <1>a, <2>0, <2>1 DEF Dir, Rev, DirTyped
    <2>3. Dir(p)'.files = [Dir(p).files EXCEPT ![job[p].next] = "torn"]
      BY <1>0, <1>a, <2>0, <2>1 DEF Dir, Rev, DirTyped
    <2>4. /\ \A f \in Files : f < job[p].next => Dir(p)'.files[f] = "full"
          /\ p \notin unlinked'
      <3>1. DOMAIN Dir(p).files = Files
        BY <1>a DEF Tree
      <3>2. \A f \in Files : f < job[p].next => f # job[p].next /\ Dir(p).files[f] = "full"
        BY <1>0, <2>0, ConstantsAssumption DEF ProgressAt, Files
      <3>3. p \notin unlinked'
        BY <1>0, <1>4, <2>0 DEF CreateFile, OpenAt
      <3> QED BY <2>0, <2>3, <3>1, <3>2, <3>3
    <2> QED BY <1>0, <2>1, <2>2, <2>4 DEF ProgressAt
  <1>5. CASE CopyFile(p)
    <2>0. /\ pc[p] = "copying" /\ Dir(p).there /\ job[p].next \in Files
          /\ p \notin unlinked
      BY <1>0, <1>5 DEF CopyFile, ProgressAt, JobAt, Jobs
    <2>a. \A q \in Procs \ {p} : ~Copying(q, Rev(p), job[p].next)
      BY <2>0 DEF ReceiptInv, AloneInv, Changing, Loading, Copying
    <2>1. /\ pc'[p] = IF job[p].next = NumFiles THEN "hashing" ELSE "creating"
          /\ dir' = [dir EXCEPT ![Rev(p)].files[job[p].next] = "full"]
          /\ job'[p].rev = job[p].rev
          /\ job'[p].next = IF job[p].next = NumFiles THEN 1 ELSE job[p].next + 1
      BY <1>0, <1>5, <2>0, <2>a DEF CopyFile, RestTyped, Jobs
    <2>2. Dir(p)'.there /\ \A r \in Revs : dir'[r].receipt = dir[r].receipt
      BY <1>0, <1>a, <2>0, <2>1 DEF Dir, Rev, DirTyped
    <2>3. Dir(p)'.files = [Dir(p).files EXCEPT ![job[p].next] = "full"]
      BY <1>0, <1>a, <2>0, <2>1 DEF Dir, Rev, DirTyped
    <2>4. \A f \in Files : f <= job[p].next => Dir(p)'.files[f] = "full"
      <3>1. DOMAIN Dir(p).files = Files
        BY <1>a DEF Tree
      <3>2. \A f \in Files : f <= job[p].next => f = job[p].next \/ Dir(p).files[f] = "full"
        BY <1>0, <2>0, ConstantsAssumption DEF ProgressAt, Files
      <3> QED BY <2>0, <2>3, <3>1, <3>2
    <2>5. CASE job[p].next = NumFiles
      <3>1. Dir(p)'.files = Full
        <4>1. \A f \in Files : Dir(p)'.files[f] = "full"
          BY <2>4, <2>5, ConstantsAssumption DEF Files
        <4>2. Dir(p)'.files = [f \in Files |-> Dir(p)'.files[f]]
          BY <1>a, <2>3 DEF Tree
        <4> QED BY <4>1, <4>2 DEF Full
      <3> QED BY <1>0, <2>1, <2>2, <2>5, <3>1 DEF ProgressAt
    <2>6. CASE job[p].next # NumFiles
      <3>1. \A f \in Files : f < job'[p].next => Dir(p)'.files[f] = "full"
        BY <2>0, <2>1, <2>4, <2>6 DEF Files
      <3> QED BY <1>0, <2>1, <2>2, <2>6, <3>1 DEF ProgressAt
    <2> QED BY <2>5, <2>6
  <1>6. CASE WriteReceipt(p)
    <2>1. job[p].tree = Full /\ pc'[p] \in {"locking", "idle"}
      BY <1>0, <1>6 DEF WriteReceipt, ProgressAt, RestTyped
    <2>2. \A r \in Revs : dir'[r].receipt \in {dir[r].receipt, Full}
      BY <1>0, <1>6, <1>a, <2>1 DEF WriteReceipt, DirTyped
    <2> QED BY <1>0, <2>1, <2>2 DEF ProgressAt
  <1> QED BY <1>1, <1>2, <1>3, <1>4, <1>5, <1>6 DEF Writes

LEMMA AloneStays ==
  ASSUME [Next]_vars
  PROVE  alone' = alone
  <1> USE DEF fixed
  <1>1. ASSUME NEW p \in Procs, Begins(p) PROVE alone' = alone
    BY <1>1 DEF Begins, Install, Update, Sync, Remove, Load
  <1>2. ASSUME NEW p \in Procs, Writes(p) PROVE alone' = alone
    BY <1>2 DEF Writes, RemoveEntry, RemoveDir, Rename, CreateFile, CopyFile, WriteReceipt
  <1>3. ASSUME NEW p \in Procs, Prepares(p) PROVE alone' = alone
    BY <1>3 DEF Prepares, Stat, Hash, WriteLock
  <1>4. ASSUME NEW p \in Procs, Loads(p) PROVE alone' = alone
    BY <1>4 DEF Loads, Load, ReadFile, Verify, Finish, Return
  <1>5. ASSUME NEW p \in Procs, Breaks(p) PROVE alone' = alone
    BY <1>5 DEF Breaks, Crash, Fail, Leave
  <1>6. ASSUME (\E r \in Revs : Publish(r)) \/ UNCHANGED vars PROVE alone' = alone
    BY <1>6 DEF Publish, vars
  <1> QED BY <1>1, <1>2, <1>3, <1>4, <1>5, <1>6, NextCases

LEMMA AloneStep ==
  ASSUME ReceiptInv, [Next]_vars, alone
  PROVE  /\ \A r \in Revs : dir'[r].receipt \in {NoTree, Full}
         /\ \A q \in Procs : ProgressAt(q)'
  <1>0. TypeInv /\ AloneInv /\ alone
    BY DEF ReceiptInv
  <1>1. ASSUME NEW q \in Procs, UNCHANGED dir, pc'[q] = pc[q], job'[q] = job[q], q \in unlinked' => q \in unlinked
        PROVE  ProgressAt(q)'
    BY <1>0, <1>1 DEF AloneInv, ProgressAt, Dir
  <1>2. ASSUME NEW p \in Procs, Begins(p) \/ Loads(p) \/ Breaks(p) PROVE ProgressAt(p)'
    <2> USE <1>0 DEF Ends, Goto, At, TypeInv, RestTyped
    <2>a. CASE Begins(p)
      <3>1. pc'[p] \in {pc[p], "staged", "removing"} /\ pc[p] = "idle"
        BY <2>a DEF Begins, Install, Update, Sync, Remove, Stage, Command
      <3> QED BY <3>1 DEF ProgressAt
    <2>b. CASE Loads(p) \/ Breaks(p)
      <3>1. pc'[p] \in {"idle", "reading", "verify", "loading", "loaded"}
        BY <2>b DEF Loads, Load, ReadFile, Verify, Finish, Return, Breaks, Crash, Fail, Leave
      <3> QED BY <3>1 DEF ProgressAt
    <2> QED BY <1>2, <2>a, <2>b
  <1>3. ASSUME NEW p \in Procs, Prepares(p) PROVE ProgressAt(p)'
    <2>1. CASE Stat(p) \/ WriteLock(p)
      BY <1>0, <2>1 DEF Stat, WriteLock, Ends, Goto, TypeInv, RestTyped, ProgressAt
    <2>2. CASE Hash(p)
      <3>1. Dir(p).there /\ Dir(p).files = Full
        BY <1>0, <2>2 DEF Hash, At, AloneInv, ProgressAt
      <3>2. pc'[p] = "recording" /\ job'[p].tree = Full
        BY <1>0, <2>2, <3>1 DEF Hash, Goto, TypeInv, RestTyped, Jobs
      <3> QED BY <3>2 DEF ProgressAt
    <2> QED BY <1>3, <2>1, <2>2 DEF Prepares
  <1>4. ASSUME NEW p \in Procs, Begins(p) \/ Prepares(p) \/ Loads(p) \/ Breaks(p)
        PROVE  /\ \A r \in Revs : dir'[r].receipt \in {NoTree, Full}
               /\ \A q \in Procs : ProgressAt(q)'
    <2>1. UNCHANGED dir
      BY <1>0, <1>4, OnlyWriters
    <2>2. \A q \in Procs \ {p} : ProgressAt(q)'
      BY <1>0, <1>1, <1>4, <2>1, OthersStay, SameUnlinked
    <2> QED BY <1>0, <1>2, <1>3, <1>4, <2>1, <2>2 DEF AloneInv
  <1>5. ASSUME NEW p \in Procs, Writes(p)
        PROVE  /\ \A r \in Revs : dir'[r].receipt \in {NoTree, Full}
               /\ \A q \in Procs : ProgressAt(q)'
    <2>1. Changing(p)
      BY <1>5 DEF Writes, RemoveEntry, RemoveDir, Rename, CreateFile, CopyFile, WriteReceipt, At, Changing, Loading
    <2>2. ASSUME NEW q \in Procs \ {p} PROVE ProgressAt(q)'
      <3>1. ~Changing(q) /\ pc'[q] = pc[q]
        BY <1>0, <1>5, <2>1, OthersStay DEF AloneInv
      <3> QED BY <3>1 DEF Changing, Loading, ProgressAt
    <2> QED BY <1>0, <1>5, <2>2, WriterProgress DEF ReceiptInv
  <1>6. ASSUME (\E r \in Revs : Publish(r)) \/ UNCHANGED vars
        PROVE  /\ \A r \in Revs : dir'[r].receipt \in {NoTree, Full}
               /\ \A q \in Procs : ProgressAt(q)'
    <2>1. UNCHANGED <<dir, pc, job, unlinked>>
      BY <1>6 DEF Publish, vars
    <2> QED BY <1>0, <1>1, <2>1 DEF AloneInv
  <1> QED BY <1>4, <1>5, <1>6, NextCases

LEMMA ReceiptStep == ReceiptInv /\ [Next]_vars => ReceiptInv'
  <1> SUFFICES ASSUME ReceiptInv, [Next]_vars PROVE ReceiptInv'
    OBVIOUS
  <1>1. TypeInv'
    BY TypeStep DEF ReceiptInv
  <1>2. CASE ~alone
    <2>1. ~alone'
      BY <1>2, AloneStays
    <2> QED BY <1>1, <2>1 DEF ReceiptInv, AloneInv
  <1>3. CASE alone
    <2>1. AloneInv'
      BY <1>3, OneChanger, AloneStep DEF AloneInv
    <2> QED BY <1>1, <2>1 DEF ReceiptInv
  <1> QED BY <1>2, <1>3

\* As long as commands that change the cache run one at a time, a revision that kite
\* module verify passes is complete, whatever crashed and however it was moved there
\* (Install, writeReceipt, Verify).
THEOREM VerifyCorrect == Spec => []VerifyTells
  <1>1. Spec => []ReceiptInv
    BY ReceiptInit, ReceiptStep, PTL DEF Spec
  <1>2. ReceiptInv => VerifyTells
    BY TreeFacts DEF ReceiptInv, TypeInv, DirTyped, AloneInv, VerifyTells
  <1> QED BY <1>1, <1>2, PTL

-----------------------------------------------------------------------------
(* What is left when everybody is done.                                    *)

\* A file of a revision that is not complete is owed by a process that will still write
\* it, or by one that is removing the revision.
Owes(p, r, f) ==
  /\ job[p].rev = r
  /\ \/ pc[p] = "removing"
     \/ pc[p] = "creating" /\ job[p].next <= f
     \/ pc[p] = "copying" /\ job[p].next < f
     \/ pc[p] = "copying" /\ job[p].next = f /\ p \notin unlinked

OwedInv ==
  \A r \in Revs \ broken, f \in Files :
    dir[r].there /\ dir[r].files[f] # "full" => \E p \in Procs : Owes(p, r, f)

QuietInv == TypeInv /\ OwedInv

LEMMA QuietInit == Init => QuietInv
  BY TypeInit DEF Init, Gone, QuietInv, OwedInv

\* What others owe they still owe.
LEMMA OwedByOthers ==
  ASSUME NEW q \in Procs, NEW r \in Revs, NEW f \in Files, Owes(q, r, f),
         pc'[q] = pc[q], job'[q] = job[q], q \in unlinked' => q \in unlinked
  PROVE  Owes(q, r, f)'
  BY DEF Owes

\* Except for a removal of this very revision, a writer unlinks nothing.
LEMMA WritersUnlink ==
  ASSUME NEW p \in Procs, Writes(p), NEW q \in Procs \ {p}, RemoveEntry(p) => job[q].rev # Rev(p)
  PROVE  q \in unlinked' => q \in unlinked
  BY DEF Writes, RemoveEntry, RemoveDir, Rename, CreateFile, CopyFile, WriteReceipt, Copying, Rev

\* A directory is only taken off the broken ones when it is gone.
LEMMA WritersMend ==
  ASSUME TypeInv, NEW p \in Procs, Writes(p), NEW r \in Revs \ broken', dir'[r].there
  PROVE  r \notin broken
  <1>1. CASE RemoveDir(p)
    <2>1. broken' = broken \ {Rev(p)} /\ dir' = [dir EXCEPT ![Rev(p)] = Gone]
      BY <1>1 DEF RemoveDir
    <2>2. r # Rev(p)
      BY <2>1 DEF TypeInv, DirTyped, Gone
    <2> QED BY <2>1, <2>2
  <1>2. CASE ~RemoveDir(p)
    BY <1>2 DEF Writes, RemoveEntry, Rename, CreateFile, CopyFile, WriteReceipt
  <1> QED BY <1>1, <1>2

\* What a writer leaves undone in its own revision is owed, by itself or by others.
LEMMA WriterOwes ==
  ASSUME QuietInv, NEW p \in Procs, Writes(p), NEW r \in Revs \ broken', r = Rev(p), NEW f \in Files,
         dir'[r].there, dir'[r].files[f] # "full"
  PROVE  \E q \in Procs : Owes(q, r, f)'
  <1>0. TypeInv /\ DirTyped /\ RestTyped /\ JobAt(p) /\ OpenAt(p) /\ OwedInv
    BY DEF QuietInv, TypeInv
  <1>a. /\ dir[r] \in [there : BOOLEAN, files : Tree, receipt : Trees] /\ r \notin broken
        /\ Dir(p) = dir[r] /\ job[p].rev = r /\ job[p].next \in Files
    BY <1>0, WritersMend DEF DirTyped, Dir, Rev, JobAt, Jobs
  <1>b. DOMAIN dir[r].files = Files
    BY <1>a DEF Tree
  <1>c. ASSUME dir[r].there, dir[r].files[f] # "full", ~Owes(p, r, f), ~RemoveEntry(p)
        PROVE  \E q \in Procs : Owes(q, r, f)'
    <2>1. PICK q \in Procs : Owes(q, r, f)
      BY <1>0, <1>a, <1>c DEF OwedInv
    <2>2. q # p
      BY <1>c, <2>1
    <2>3. pc'[q] = pc[q] /\ job'[q] = job[q] /\ (q \in unlinked' => q \in unlinked)
      BY <1>0, <1>c, <2>2, OthersStay, WritersUnlink
    <2> QED BY <2>1, <2>3, OwedByOthers
  <1> USE DEF Goto, Ends, At
  <1>1. CASE RemoveEntry(p)
    <2>1. pc'[p] = "removing" /\ job'[p].rev = r
      BY <1>0, <1>1, <1>a DEF RemoveEntry
    <2> QED BY <2>1 DEF Owes
  <1>2. CASE RemoveDir(p)
    <2>1. dir' = [dir EXCEPT ![r] = Gone]
      BY <1>2 DEF RemoveDir
    <2>2. dir'[r] = Gone
      BY <1>0, <2>1 DEF DirTyped
    <2> QED BY <2>2 DEF Gone
  <1>3. CASE Rename(p)
    <2>0. pc[p] = "moving" /\ job[p].next = 1 /\ job' = job
      BY <1>0, <1>3 DEF Rename, JobAt
    <2>1. CASE ~cross /\ Dir(p).files = Empty /\ Dir(p).receipt = NoTree
      <3>1. dir' = [dir EXCEPT ![r] = [Gone EXCEPT !.there = TRUE, !.files = Full]]
        BY <1>3, <2>1 DEF Rename
      <3>2. dir'[r].files = Full
        BY <1>0, <3>1 DEF DirTyped, Gone
      <3> QED BY <3>2 DEF Full
    <2>2. CASE ~(~cross /\ Dir(p).files = Empty /\ Dir(p).receipt = NoTree)
      <3>1. pc'[p] = "creating"
        BY <1>0, <1>3, <2>2 DEF Rename, RestTyped
      <3>2. 1 <= f
        BY DEF Files
      <3> QED BY <1>a, <2>0, <3>1, <3>2 DEF Owes
    <2> QED BY <2>1, <2>2
  <1>4. CASE CreateFile(p)
    <2>0. pc[p] = "creating" /\ p \notin unlinked'
      BY <1>0, <1>4 DEF CreateFile, OpenAt
    <2>1. dir[r].there
      BY <1>4, <1>a DEF CreateFile
    <2>2. /\ pc'[p] = "copying" /\ job' = job
          /\ dir' = [dir EXCEPT ![r].files[job[p].next] = "torn"]
      BY <1>0, <1>4, <1>a, <2>1 DEF CreateFile, RestTyped
    <2>3. CASE f = job[p].next
      BY <1>a, <2>0, <2>2, <2>3 DEF Owes
    <2>4. CASE f # job[p].next
      <3>1. dir'[r].files = [dir[r].files EXCEPT ![job[p].next] = "torn"]
        BY <1>0, <1>a, <2>2 DEF DirTyped
      <3>2. dir[r].files[f] # "full"
        BY <2>4, <3>1
      <3>3. job[p].next <= f => job[p].next < f
        BY <1>a, <2>4 DEF Files
      <3>4. Owes(p, r, f) => Owes(p, r, f)'
        BY <2>0, <2>2, <3>3 DEF Owes
      <3>5. ~RemoveEntry(p)
        BY <2>0 DEF RemoveEntry
      <3> QED BY <1>c, <2>1, <3>2, <3>4, <3>5
    <2> QED BY <2>3, <2>4
  <1>5. CASE CopyFile(p)
    <2>0. pc[p] = "copying" /\ ~RemoveEntry(p)
      BY <1>5 DEF CopyFile, RemoveEntry
    <2>1. pc'[p] = IF job[p].next = NumFiles THEN "hashing" ELSE "creating"
      BY <1>0, <1>5 DEF CopyFile, RestTyped
    <2>2. job'[p].rev = r /\ job'[p].next = IF job[p].next = NumFiles THEN 1 ELSE job[p].next + 1
      BY <1>0, <1>5, <1>a DEF CopyFile, RestTyped, Jobs
    <2>3. job[p].next < f => job[p].next # NumFiles /\ job[p].next + 1 <= f
      BY <1>a, ConstantsAssumption DEF ConstantsAssumption, Files
    <2>4. job[p].next < f => Owes(p, r, f)'
      BY <2>1, <2>2, <2>3 DEF Owes
    <2>5. CASE p \in unlinked
      <3>1. dir' = dir
        BY <1>5, <2>5 DEF CopyFile
      <3>2. Owes(p, r, f) => job[p].next < f
        BY <2>0, <2>5 DEF Owes
      <3> QED BY <1>c, <2>0, <2>4, <3>1, <3>2
    <2>6. CASE p \notin unlinked
      <3>0. dir[r].there
        BY <1>0, <1>a, <2>0, <2>6 DEF OpenAt
      <3>1. PICK state \in {"full", "torn"} :
              /\ dir' = [dir EXCEPT ![r].files[job[p].next] = state]
              /\ state = "torn" => \E q \in Procs \ ({p} \cup unlinked) : Copying(q, Rev(p), job[p].next)
        BY <1>5, <2>6 DEF CopyFile
      <3>2. dir'[r].files = [dir[r].files EXCEPT ![job[p].next] = state]
        BY <1>0, <1>a, <3>1 DEF DirTyped
      <3>3. CASE f = job[p].next
        <4>1. state = "torn"
          BY <1>b, <3>2, <3>3
        <4>2. PICK q \in Procs \ ({p} \cup unlinked) : Copying(q, Rev(p), job[p].next)
          BY <3>1, <4>1
        <4>3. Owes(q, r, f)
          BY <3>3, <4>2 DEF Copying, Owes, Rev
        <4>4. pc'[q] = pc[q] /\ job'[q] = job[q] /\ (q \in unlinked' => q \in unlinked)
          BY <1>0, <2>0, <4>2, OthersStay, WritersUnlink
        <4> QED BY <4>2, <4>3, <4>4, OwedByOthers
      <3>4. CASE f # job[p].next
        <4>1. dir[r].files[f] # "full"
          BY <3>2, <3>4
        <4>2. Owes(p, r, f) => job[p].next < f
          BY <2>0, <3>4 DEF Owes
        <4> QED BY <1>c, <2>0, <2>4, <3>0, <4>1, <4>2
      <3> QED BY <3>3, <3>4
    <2> QED BY <2>5, <2>6
  <1>6. CASE WriteReceipt(p)
    <2>1. dir'[r].there = dir[r].there /\ dir'[r].files = dir[r].files
      BY <1>0, <1>6, <1>a DEF WriteReceipt, DirTyped
    <2>2. ~Owes(p, r, f) /\ ~RemoveEntry(p)
      BY <1>6 DEF WriteReceipt, RemoveEntry, Owes
    <2> QED BY <1>c, <2>1, <2>2
  <1> QED BY <1>1, <1>2, <1>3, <1>4, <1>5, <1>6 DEF Writes

LEMMA OwedStep ==
  ASSUME QuietInv, [Next]_vars
  PROVE  OwedInv'
  <1>0. TypeInv /\ OwedInv
    BY DEF QuietInv
  <1> SUFFICES ASSUME NEW r \in Revs \ broken', NEW f \in Files, dir'[r].there, dir'[r].files[f] # "full"
               PROVE  \E q \in Procs : Owes(q, r, f)'
    BY DEF OwedInv
  <1>2. ASSUME NEW p \in Procs, Begins(p) \/ Prepares(p) \/ Loads(p) \/ Breaks(p) PROVE \E q \in Procs : Owes(q, r, f)'
    <2>1. UNCHANGED dir
      BY <1>0, <1>2, OnlyWriters
    <2>2. r \notin broken /\ ~Owes(p, r, f)
      <3>1. CASE Begins(p) \/ Prepares(p) \/ Loads(p)
        <4>1. pc[p] \notin {"removing", "creating", "copying"} /\ broken' = broken
          BY <3>1 DEF Begins, Install, Update, Sync, Remove, Command, Prepares, Stat, Hash, WriteLock,
                    Loads, Load, ReadFile, Verify, Finish, Return, At
        <4> QED BY <4>1 DEF Owes
      <3>2. CASE Breaks(p)
        <4>1. broken' = IF pc[p] \in {"creating", "copying", "removing"} THEN broken \cup {Rev(p)} ELSE broken
          BY <3>2 DEF Breaks, Crash, Fail, Leave
        <4> QED BY <4>1 DEF Owes, Rev
      <3> QED BY <1>2, <3>1, <3>2
    <2>3. PICK q \in Procs : Owes(q, r, f)
      BY <1>0, <2>1, <2>2 DEF OwedInv
    <2>4. q # p
      BY <2>2, <2>3
    <2>5. pc'[q] = pc[q] /\ job'[q] = job[q] /\ (q \in unlinked' => q \in unlinked)
      BY <1>0, <1>2, <2>4, OthersStay, SameUnlinked
    <2> QED BY <2>3, <2>5, OwedByOthers
  <1>3. ASSUME NEW p \in Procs, Writes(p) PROVE \E q \in Procs : Owes(q, r, f)'
    <2>1. CASE r = Rev(p)
      BY <1>3, <2>1, WriterOwes
    <2>2. CASE r # Rev(p)
      <3>1. dir'[r] = dir[r] /\ r \notin broken
        BY <1>0, <1>3, <2>2, WritersTouch, WritersMend
      <3>2. PICK q \in Procs : Owes(q, r, f)
        BY <1>0, <3>1 DEF OwedInv
      <3>3. q # p /\ job[q].rev # Rev(p)
        BY <2>2, <3>2 DEF Owes, Rev
      <3>4. pc'[q] = pc[q] /\ job'[q] = job[q] /\ (q \in unlinked' => q \in unlinked)
        BY <1>0, <1>3, <3>3, OthersStay, WritersUnlink
      <3> QED BY <3>2, <3>4, OwedByOthers
    <2> QED BY <2>1, <2>2
  <1>4. ASSUME (\E x \in Revs : Publish(x)) \/ UNCHANGED vars PROVE \E q \in Procs : Owes(q, r, f)'
    <2>1. UNCHANGED <<dir, pc, job, unlinked, broken>>
      BY <1>4 DEF Publish, vars
    <2>2. PICK q \in Procs : Owes(q, r, f)
      BY <1>0, <2>1 DEF OwedInv
    <2> QED BY <2>1, <2>2, OwedByOthers
  <1> QED BY <1>2, <1>3, <1>4, NextCases

LEMMA QuietStep == QuietInv /\ [Next]_vars => QuietInv'
  BY TypeStep, OwedStep DEF QuietInv

\* When everybody is done, a revision in the cache is complete unless a copy or a removal
\* of it has broken off, although installs copy over each other and removals delete under
\* them, file by file, in any interleaving (Manager.Install, Manager.Remove, copyDir).
THEOREM QuietCorrect == Spec => []QuietMeansComplete
  <1>1. Spec => []QuietInv
    BY QuietInit, QuietStep, PTL DEF Spec
  <1>2. QuietInv => QuietMeansComplete
    <2> SUFFICES ASSUME QuietInv, \A p \in Procs : pc[p] = "idle", NEW r \in Revs \ broken, dir[r].there
                 PROVE  dir[r].files = Full
      BY DEF QuietMeansComplete, At
    <2>1. \A f \in Files : dir[r].files[f] = "full"
      BY DEF QuietInv, OwedInv, Owes
    <2>2. dir[r].files \in Tree
      BY DEF QuietInv, TypeInv, DirTyped
    <2> QED BY <2>1, <2>2 DEF Tree, Full
  <1> QED BY <1>1, <1>2, PTL
=============================================================================
