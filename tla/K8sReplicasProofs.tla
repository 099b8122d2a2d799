--------------------------- MODULE K8sReplicasProofs ---------------------------
(***************************************************************************)
(* Proofs about K8sReplicas, for any number of replicas, children, kinds,   *)
(* edits and faults: nobody works on after losing the Lease, and a child    *)
(* always asked for is never pruned.                                        *)
(***************************************************************************)
EXTENDS K8sReplicas, TLAPS

-----------------------------------------------------------------------------
(* One writer.                                                             *)

\* What makes OneWriter inductive: workers are only ever started by an election that was
\* won, an election that has ended has cancelled the context, and a leader holds the
\* Lease unless it stood still while it ran out.
ElectionInv ==
  /\ holder \subseteq Replicas /\ expired \in BOOLEAN /\ done \subseteq Replicas
  /\ le \in [Replicas -> {"standby", "leading", "released", "ended"}]
  /\ workers \in [Replicas -> {"none", "pending", "running"}]
  /\ \A r \in Replicas :
       /\ workers[r] # "none" => le[r] # "standby"
       /\ le[r] = "ended" => r \in done
       /\ le[r] = "leading" => r \in paused \/ (holder = {r} /\ ~expired)

LEMMA ElectionInit == Init => ElectionInv
  BY DEF Init, ElectionInv

\* Steps that have nothing to do with the election.
LEMMA ElectionFrame ==
  ASSUME ElectionInv, UNCHANGED election
  PROVE  ElectionInv'
  BY DEF ElectionInv, election

LEMMA ElectionElect ==
  ASSUME ElectionInv, NEW r \in Replicas, Elect(r)
  PROVE  ElectionInv'
<1>1. CASE Acquire(r)
  BY <1>1 DEF ElectionInv, Acquire
<1>2. CASE Renew(r)
  BY <1>2 DEF ElectionInv, Renew
<1>3. CASE Release(r)
  <2>1. holder' \in {holder, holder \ {r}} /\ expired' = (expired /\ holder' # {})
    BY <1>3 DEF Release
  <2>2. ASSUME NEW q \in Replicas, le'[q] = "leading"
        PROVE  q \in paused \/ (holder' = {q} /\ ~expired')
    <3>1. q # r /\ le[q] = "leading"
      BY <1>3, <2>2 DEF Release, ElectionInv
    <3> QED BY <2>1, <3>1 DEF ElectionInv
  <2> QED BY <1>3, <2>1, <2>2 DEF ElectionInv, Release
<1>4. CASE OnStoppedLeading(r)
  BY <1>4 DEF ElectionInv, OnStoppedLeading, Cancel
<1> QED BY <1>1, <1>2, <1>3, <1>4 DEF Elect

LEMMA ElectionAgain ==
  ASSUME ElectionInv, NEW r \in Replicas, Again(r)
  PROVE  ElectionInv'
  BY DEF ElectionInv, Again

LEMMA ElectionRunOut ==
  ASSUME ElectionInv, RunOut
  PROVE  ElectionInv'
<1>1. ASSUME NEW q \in Replicas, le[q] = "leading"
      PROVE  q \in paused'
  <2>1. CASE q \in holder
    BY <1>1, <2>1 DEF RunOut
  <2>2. CASE q \notin holder
    <3>1. q \in paused
      BY <1>1, <2>2 DEF ElectionInv
    <3>2. PICK p \in holder : TRUE
      BY DEF RunOut
    <3> QED BY <3>1, <3>2 DEF RunOut
  <2> QED BY <2>1, <2>2
<1> QED BY <1>1 DEF ElectionInv, RunOut

LEMMA ElectionNext ==
  ASSUME ElectionInv, [Next]_vars
  PROVE  ElectionInv'
<1>1. CASE User
  BY <1>1, ElectionFrame DEF User, Edit, Meddle
<1>2. CASE RunOut
  BY <1>2, ElectionRunOut
<1>3. ASSUME NEW r \in Replicas, Watch(r) \/ Elect(r) \/ Live(r) \/ Work(r) \/ Breaks(r)
      PROVE  ElectionInv'
  <2>1. CASE Watch(r)
    BY <2>1, ElectionFrame DEF Watch, Observe, OpenWatch
  <2>2. CASE Elect(r)
    BY <2>2, ElectionElect
  <2>3. CASE StartWorkers(r)
    BY <2>3 DEF StartWorkers, ElectionInv
  <2>4. CASE Exit(r)
    BY <2>4, ElectionAgain DEF Exit
  <2>5. CASE Work(r)
    BY <2>5, ElectionFrame DEF Work, Begin, Apply, Delete, Reconciled, Abort, List
  <2>6. CASE Crash(r)
    BY <2>6, ElectionAgain DEF Crash
  <2>7. CASE Terminate(r)
    BY <2>7 DEF Terminate, Cancel, ElectionInv
  <2>8. CASE \E k \in Kinds : CloseWatch(r, k)
    BY <2>8, ElectionFrame DEF CloseWatch
  <2> QED BY <1>3, <2>1, <2>2, <2>3, <2>4, <2>5, <2>6, <2>7, <2>8 DEF Live, Breaks
<1>4. CASE UNCHANGED vars
  BY <1>4, ElectionFrame DEF vars
<1> QED BY <1>1, <1>2, <1>3, <1>4 DEF Next

\* A replica whose worker may start something new holds the Lease, or has just stopped
\* leading, or stood still while the Lease ran out (runWithLeaderElection): for any
\* number of replicas, crashes and terminations.
THEOREM OneWriterCorrect == Spec => []OneWriter
<1>1. ElectionInv => OneWriter
  BY DEF ElectionInv, OneWriter, Working
<1> QED BY <1>1, ElectionInit, ElectionNext, PTL DEF Spec

-----------------------------------------------------------------------------
(* Types, and children always asked for.                                   *)

\* A job is about a version that exists, and what it has found to delete is not asked
\* for by that version.
JobsOK ==
  /\ Len(log) >= 1
  /\ \A r \in Replicas :
       /\ seen[r] <= Len(log)
       /\ job[r] # Idle => job[r].v \in DOMAIN log
       /\ job[r].victims # {} => job[r].victims \cap Want(job[r].v) = {}

IInv == TypeOK /\ JobsOK

Jobs == [v : 0..Len(log), todo : SUBSET Children, listed : SUBSET Kinds, victims : SUBSET Children]

LEMMA IdleType == Len(log) \in Nat => Idle \in Jobs
  BY DEF Idle, Job, Jobs

LEMMA InvInit == Init => IInv
<1> SUFFICES ASSUME Init PROVE IInv
  OBVIOUS
<1>1. log \in Seq(SUBSET Children) /\ Len(log) = 1
  BY DEF Init
<1>2. NumChildren \in Nat /\ MaxEdits \in Nat /\ MaxMeddles \in Nat /\ MaxFaults \in Nat
  BY K8sReplicasAssumption
<1>4. job \in [Replicas -> Jobs]
  BY <1>1, IdleType DEF Init
<1>5. WatchOwned \subseteq Kinds
  BY K8sReplicasAssumption
<1>6. TypeOK
  <2>1. log \in Seq(SUBSET Children) /\ Len(log) <= MaxEdits + 1
    BY <1>1, <1>2
  <2>2. child \in [Children -> {"none", "owned", "foreign"}]
    BY DEF Init
  <2>3. holder \in {{}} \cup {{r} : r \in Replicas} /\ expired \in BOOLEAN
    BY DEF Init
  <2>4. /\ le \in [Replicas -> {"standby", "leading", "released", "ended"}]
        /\ workers \in [Replicas -> {"none", "pending", "running"}]
    BY DEF Init
  <2>5. /\ done \subseteq Replicas /\ inflight \subseteq done /\ paused \subseteq Replicas
        /\ queued \subseteq Replicas /\ open \subseteq Replicas \X Kinds
    BY DEF Init
  <2>6. seen \in [Replicas -> 0..MaxEdits + 1] /\ watched \in [Replicas -> SUBSET Kinds]
    BY <1>2, <1>5 DEF Init
  <2>7. \A r \in Replicas : job[r] = Idle
    BY DEF Init
  <2>8. meddles \in 0..MaxMeddles /\ faults \in 0..MaxFaults
    BY <1>2 DEF Init
  <2> QED BY <2>1, <2>2, <2>3, <2>4, <2>5, <2>6, <2>7, <2>8, <1>4 DEF TypeOK, Jobs
<1>7. JobsOK
  BY <1>1 DEF Init, JobsOK, Idle, Job
<1> QED BY <1>6, <1>7 DEF IInv

\* Steps that leave the job of every worker, the versions and the counters alone.
LEMMA ServerStep ==
  ASSUME IInv, UNCHANGED <<log, job, workers, watched, seen, meddles>>,
         holder' \in {{}} \cup {{r} : r \in Replicas}, expired' \in BOOLEAN,
         le' \in [Replicas -> {"standby", "leading", "released", "ended"}],
         child' \in [Children -> {"none", "owned", "foreign"}],
         done' \subseteq Replicas, inflight' \subseteq done', paused' \subseteq Replicas,
         queued' \subseteq Replicas, open' \subseteq Replicas \X Kinds,
         faults' \in 0..MaxFaults
  PROVE  IInv'
<1>1. TypeOK'
  BY DEF IInv, TypeOK
<1>2. JobsOK'
  BY DEF IInv, JobsOK, Want
<1> QED BY <1>1, <1>2 DEF IInv

LEMMA FaultType == TypeOK /\ Fault => faults' \in 0..MaxFaults /\ meddles' = meddles
<1>1. MaxFaults \in Nat
  BY K8sReplicasAssumption
<1> QED BY <1>1 DEF TypeOK, Fault

LEMMA SetType ==
  ASSUME TypeOK, NEW c \in Children, NEW state \in {"none", "owned", "foreign"}, Set(c, state)
  PROVE  child' \in [Children -> {"none", "owned", "foreign"}] /\ queued' \subseteq Replicas
  BY DEF TypeOK, Set, Notified

\* A worker moves on: its job is another one about the same version.
LEMMA JobStep ==
  ASSUME IInv, NEW r \in Replicas, NEW j \in Jobs,
         job[r] # Idle, j = Idle \/ j.v = job[r].v,
         j.victims # {} => j.victims \cap Want(j.v) = {},
         j.listed \subseteq watched'[r],
         job' = [job EXCEPT ![r] = j],
         UNCHANGED <<log, holder, expired, le, workers, done, paused, seen, open, meddles>>,
         watched' \in [Replicas -> SUBSET Kinds],
         \A q \in Replicas : watched[q] \subseteq watched'[q],
         child' \in [Children -> {"none", "owned", "foreign"}],
         inflight' \subseteq done, queued' \subseteq Replicas, faults' \in 0..MaxFaults
  PROVE  IInv'
<1>1. job' \in [Replicas -> Jobs]
  BY DEF IInv, TypeOK, Jobs
<1>2. \A q \in Replicas : job'[q] = IF q = r THEN j ELSE job[q]
  BY DEF IInv, TypeOK
<1>3. \A q \in Replicas : job'[q] # Idle => workers'[q] = "running" /\ job'[q].listed \subseteq watched'[q]
  <2>1. TAKE q \in Replicas
  <2>2. CASE q = r
    BY <1>2, <2>2 DEF IInv, TypeOK
  <2>3. CASE q # r
    <3>1. watched[q] \subseteq watched'[q]
      OBVIOUS
    <3>2. job'[q] = job[q]
      BY <1>2, <2>3
    <3>3. job[q] # Idle => workers[q] = "running" /\ job[q].listed \subseteq watched[q]
      BY DEF IInv, TypeOK
    <3> QED BY <3>1, <3>2, <3>3
  <2> QED BY <2>2, <2>3
<1>4. TypeOK'
  BY <1>1, <1>3 DEF IInv, TypeOK, Jobs
<1>5. JobsOK'
  BY <1>2 DEF IInv, JobsOK, Want
<1> QED BY <1>4, <1>5 DEF IInv

-----------------------------------------------------------------------------
(* The steps, one lemma per group.                                         *)

LEMMA InvUser ==
  ASSUME IInv, User
  PROVE  IInv'
<1>1. CASE Edit
  <2>1. PICK want \in SUBSET Children : log' = Append(log, want)
    BY <1>1 DEF Edit
  <2>2. /\ log' \in Seq(SUBSET Children) /\ Len(log') = Len(log) + 1
        /\ \A v \in DOMAIN log : v \in DOMAIN log' /\ log'[v] = log[v]
    BY <2>1 DEF IInv, TypeOK
  <2>3. MaxEdits \in Nat /\ Len(log) \in Nat /\ Len(log') <= MaxEdits + 1
    BY <1>1, <2>2, K8sReplicasAssumption DEF Edit, IInv, TypeOK
  <2>4. job' \in [Replicas -> [v : 0..Len(log'), todo : SUBSET Children,
                               listed : SUBSET Kinds, victims : SUBSET Children]]
    <3>1. 0..Len(log) \subseteq 0..Len(log')
      BY <2>2, <2>3
    <3>2. Jobs \subseteq [v : 0..Len(log'), todo : SUBSET Children,
                          listed : SUBSET Kinds, victims : SUBSET Children]
      BY <3>1 DEF Jobs
    <3>3. job' = job /\ job \in [Replicas -> Jobs]
      BY <1>1 DEF Edit, IInv, TypeOK, Jobs
    <3> QED BY <3>2, <3>3
  <2>5. TypeOK'
    BY <1>1, <2>2, <2>3, <2>4 DEF Edit, IInv, TypeOK, election, watches, env
  <2>6. ASSUME NEW r \in Replicas
        PROVE  /\ seen'[r] <= Len(log')
               /\ job'[r] # Idle => job'[r].v \in DOMAIN log'
               /\ job'[r].victims # {} => job'[r].victims \cap Want(job[r].v)' = {}
    <3>1. seen'[r] = seen[r] /\ job'[r] = job[r] /\ seen[r] \in Nat /\ seen[r] <= Len(log)
      BY <1>1 DEF Edit, watches, IInv, TypeOK, JobsOK
    <3>2. job[r].victims # {} => job[r] # Idle
      BY DEF Idle, Job
    <3>3. job[r] # Idle => job[r].v \in DOMAIN log
      BY DEF IInv, JobsOK
    <3>4. job[r].victims # {} => job[r].victims \cap Want(job[r].v) = {}
      BY DEF IInv, JobsOK
    <3> QED BY <2>2, <2>3, <3>1, <3>2, <3>3, <3>4 DEF Want
  <2>7. Len(log') >= 1
    BY <2>2, <2>3
  <2>8. JobsOK'
    BY <1>1, <2>6, <2>7 DEF JobsOK, Want, Edit
  <2> QED BY <2>5, <2>8 DEF IInv
<1>2. ASSUME NEW c \in Children, Meddle(c)
      PROVE  IInv'
  <2>1. child' \in [Children -> {"none", "owned", "foreign"}] /\ queued' \subseteq Replicas
    BY <1>2, SetType DEF Meddle, IInv
  <2>2. meddles' \in 0..MaxMeddles
    <3>1. MaxMeddles \in Nat
      BY K8sReplicasAssumption
    <3> QED BY <1>2, <3>1 DEF Meddle, IInv, TypeOK
  <2>3. TypeOK'
    BY <1>2, <2>1, <2>2 DEF Meddle, IInv, TypeOK, election
  <2>4. JobsOK'
    BY <1>2 DEF Meddle, IInv, JobsOK, Want
  <2> QED BY <2>3, <2>4 DEF IInv
<1> QED BY <1>1, <1>2 DEF User

LEMMA InvWatch ==
  ASSUME IInv, NEW r \in Replicas, Watch(r)
  PROVE  IInv'
<1>1. CASE Observe(r)
  <2>1. seen[r] \in Nat /\ Len(log) \in Nat /\ MaxEdits \in Nat /\ Len(log) <= MaxEdits + 1
    BY K8sReplicasAssumption DEF IInv, TypeOK
  <2>2. /\ seen'[r] <= Len(log) /\ seen'[r] \in 0..MaxEdits + 1
        /\ \A q \in Replicas : q # r => seen'[q] = seen[q]
    BY <1>1, <2>1 DEF Observe, IInv, TypeOK
  <2>3. seen' \in [Replicas -> 0..MaxEdits + 1]
    BY <1>1, <2>2 DEF Observe, IInv, TypeOK
  <2>4. TypeOK'
    BY <1>1, <2>3 DEF Observe, IInv, TypeOK, election, env
  <2>5. JobsOK'
    BY <1>1, <2>2 DEF Observe, IInv, JobsOK, Want
  <2> QED BY <2>4, <2>5 DEF IInv
<1>2. ASSUME NEW k \in Kinds, OpenWatch(r, k)
      PROVE  IInv'
  <2>1. open' \subseteq Replicas \X Kinds /\ queued' \subseteq Replicas
    BY <1>2 DEF OpenWatch, IInv, TypeOK
  <2> QED BY <1>2, <2>1, ServerStep DEF OpenWatch, IInv, TypeOK, election, env
<1> QED BY <1>1, <1>2 DEF Watch

LEMMA CancelType ==
  ASSUME IInv, NEW r \in Replicas, Cancel(r)
  PROVE  done' \subseteq Replicas /\ inflight' \subseteq done'
  BY DEF IInv, TypeOK, Cancel

LEMMA InvElect ==
  ASSUME IInv, ElectionInv, NEW r \in Replicas, Elect(r)
  PROVE  IInv'
<1>1. CASE Acquire(r)
  <2>1. workers' \in [Replicas -> {"none", "pending", "running"}]
    BY <1>1 DEF Acquire, IInv, TypeOK
  <2>2. job[r] = Idle
    BY <1>1 DEF Acquire, ElectionInv, IInv, TypeOK
  <2>3. \A q \in Replicas : job'[q] # Idle => workers'[q] = "running" /\ job'[q].listed \subseteq watched'[q]
    BY <1>1, <2>2 DEF Acquire, watches, IInv, TypeOK
  <2>4. le' \in [Replicas -> {"standby", "leading", "released", "ended"}]
    BY <1>1 DEF Acquire, IInv, TypeOK
  <2>5. TypeOK'
    BY <1>1, <2>1, <2>3, <2>4 DEF Acquire, watches, env, IInv, TypeOK
  <2>6. JobsOK'
    BY <1>1 DEF Acquire, watches, IInv, JobsOK, Want
  <2> QED BY <2>5, <2>6 DEF IInv
<1>2. CASE Renew(r)
  <2>1. paused' \subseteq Replicas
    BY <1>2 DEF Renew, IInv, TypeOK
  <2> QED BY <1>2, <2>1, ServerStep DEF Renew, IInv, TypeOK, watches, env
<1>3. CASE Release(r)
  <2>1. holder' \in {{}} \cup {{q} : q \in Replicas}
    BY <1>3 DEF Release, IInv, TypeOK
  <2>2. le' \in [Replicas -> {"standby", "leading", "released", "ended"}]
    BY <1>3 DEF Release, IInv, TypeOK
  <2>3. faults' \in 0..MaxFaults /\ meddles' = meddles
    BY <1>3, FaultType DEF Release, IInv, TypeOK, env
  <2>4. expired' \in BOOLEAN
    BY <1>3 DEF Release
  <2> QED BY <1>3, <2>1, <2>2, <2>3, <2>4, ServerStep DEF Release, IInv, TypeOK, watches
<1>4. CASE OnStoppedLeading(r)
  <2>1. le' \in [Replicas -> {"standby", "leading", "released", "ended"}]
    BY <1>4 DEF OnStoppedLeading, IInv, TypeOK
  <2> QED BY <1>4, <2>1, CancelType, ServerStep DEF OnStoppedLeading, IInv, TypeOK, watches, env
<1> QED BY <1>1, <1>2, <1>3, <1>4 DEF Elect

LEMMA InvRunOut ==
  ASSUME IInv, RunOut
  PROVE  IInv'
<1>1. PICK q \in Replicas : holder = {q}
  BY DEF RunOut, IInv, TypeOK
<1>2. faults' \in 0..MaxFaults /\ meddles' = meddles /\ paused' \subseteq Replicas
  BY <1>1, FaultType DEF RunOut, IInv, TypeOK, env
<1> QED BY <1>2, ServerStep DEF RunOut, IInv, TypeOK, watches

LEMMA InvAgain ==
  ASSUME IInv, NEW r \in Replicas, Again(r), faults' \in 0..MaxFaults, meddles' = meddles
  PROVE  IInv'
<1>1. WatchOwned \subseteq Kinds /\ MaxEdits \in Nat
  BY K8sReplicasAssumption
<1>2. /\ le' \in [Replicas -> {"standby", "leading", "released", "ended"}]
      /\ workers' \in [Replicas -> {"none", "pending", "running"}]
      /\ done' \subseteq Replicas /\ inflight' \subseteq done' /\ paused' \subseteq Replicas
      /\ queued' \subseteq Replicas /\ open' \subseteq Replicas \X Kinds
  BY DEF Again, IInv, TypeOK
<1>3. /\ seen' \in [Replicas -> 0..MaxEdits + 1]
      /\ watched' \in [Replicas -> SUBSET Kinds]
  BY <1>1 DEF Again, IInv, TypeOK
<1>4. job' \in [Replicas -> Jobs]
  BY IdleType DEF Again, IInv, TypeOK, Jobs
<1>5. \A q \in Replicas :
        IF q = r THEN job'[q] = Idle /\ seen'[q] = 0
        ELSE /\ job'[q] = job[q] /\ seen'[q] = seen[q]
             /\ workers'[q] = workers[q] /\ watched'[q] = watched[q]
  BY DEF Again, IInv, TypeOK
<1>6. TypeOK'
  BY <1>2, <1>3, <1>4, <1>5 DEF Again, IInv, TypeOK, Jobs
<1>7. JobsOK'
  <2>1. Idle.victims = {} /\ Len(log) >= 0
    BY DEF Idle, Job, IInv, TypeOK
  <2> QED BY <1>5, <2>1 DEF Again, IInv, JobsOK, Want
<1> QED BY <1>6, <1>7 DEF IInv

LEMMA InvLive ==
  ASSUME IInv, NEW r \in Replicas, Live(r)
  PROVE  IInv'
<1>1. CASE StartWorkers(r)
  <2>1. /\ workers' \in [Replicas -> {"none", "pending", "running"}]
        /\ \A q \in Replicas : workers[q] = "running" => workers'[q] = "running"
    BY <1>1 DEF StartWorkers, IInv, TypeOK
  <2>2. TypeOK'
    BY <1>1, <2>1 DEF StartWorkers, IInv, TypeOK, watches, env
  <2>3. JobsOK'
    BY <1>1 DEF StartWorkers, IInv, JobsOK, Want, watches
  <2> QED BY <2>2, <2>3 DEF IInv
<1>2. CASE Exit(r)
  BY <1>2, InvAgain DEF Exit, env, IInv, TypeOK
<1> QED BY <1>1, <1>2 DEF Live

LEMMA InvBreaks ==
  ASSUME IInv, NEW r \in Replicas, Breaks(r)
  PROVE  IInv'
<1>1. CASE Crash(r)
  BY <1>1, FaultType, InvAgain DEF Crash, IInv
<1>2. CASE Terminate(r)
  <2>1. faults' \in 0..MaxFaults /\ meddles' = meddles
    BY <1>2, FaultType DEF Terminate, IInv
  <2> QED BY <1>2, <2>1, CancelType, ServerStep DEF Terminate, IInv, TypeOK, watches
<1>3. ASSUME NEW k \in Kinds, CloseWatch(r, k)
      PROVE  IInv'
  <2>1. faults' \in 0..MaxFaults /\ meddles' = meddles
    BY <1>3, FaultType DEF CloseWatch, IInv
  <2>2. open' \subseteq Replicas \X Kinds
    BY <1>3 DEF CloseWatch, IInv, TypeOK
  <2> QED BY <1>3, <2>1, <2>2, ServerStep DEF CloseWatch, IInv, TypeOK, election
<1> QED BY <1>1, <1>2, <1>3 DEF Breaks

\* What a worker knows of its own job, and of the one it goes on with.
LEMMA JobFacts ==
  ASSUME IInv, NEW r \in Replicas
  PROVE  /\ job[r] \in Jobs
         /\ job[r] # Idle => job[r].v \in DOMAIN log /\ job[r].listed \subseteq watched[r]
         /\ job[r].victims # {} => job[r].victims \cap Want(job[r].v) = {}
  BY DEF IInv, TypeOK, JobsOK, Jobs

LEMMA JobType ==
  ASSUME NEW v \in 0..Len(log), NEW todo, NEW listed, NEW victims,
         todo \subseteq Children, listed \subseteq Kinds, victims \subseteq Children
  PROVE  /\ Job(v, todo, listed, victims) \in Jobs
         /\ Job(v, todo, listed, victims).v = v
         /\ Job(v, todo, listed, victims).todo = todo
         /\ Job(v, todo, listed, victims).listed = listed
         /\ Job(v, todo, listed, victims).victims = victims
  BY DEF Job, Jobs

LEMMA IdleJob == IInv => Idle \in Jobs /\ Idle.victims = {} /\ Idle.listed = {} /\ Idle.todo = {}
  BY IdleType DEF IInv, TypeOK, Idle, Job

LEMMA BeginStep ==
  ASSUME IInv, NEW r \in Replicas, Begin(r)
  PROVE  IInv'
<1>1. queued' \subseteq Replicas /\ workers[r] = "running"
  BY DEF Begin, Working, IInv, TypeOK
<1>2. CASE UNCHANGED job /\ Fault
  BY <1>1, <1>2, FaultType, ServerStep DEF Begin, IInv, TypeOK, election
<1>3. ASSUME NEW v, v = IF seen[r] = 0 THEN Len(log) ELSE seen[r],
             job' = [job EXCEPT ![r] = Job(v, Want(v), {}, {})], UNCHANGED env
      PROVE  IInv'
  <2> DEFINE j == Job(v, Want(v), {}, {})
  <2>1. Len(log) \in Nat /\ v \in 1..Len(log)
    BY <1>3 DEF IInv, TypeOK, JobsOK
  <2>2. v \in DOMAIN log /\ Want(v) \subseteq Children
    BY <2>1 DEF IInv, TypeOK, Want
  <2>3. j \in Jobs /\ j.v = v /\ j.listed = {} /\ j.victims = {}
    BY <2>1, <2>2, JobType
  <2>4. job' = [job EXCEPT ![r] = j]
    BY <1>3
  <2> HIDE DEF j
  <2>5. job' \in [Replicas -> Jobs] /\ \A q \in Replicas : job'[q] = IF q = r THEN j ELSE job[q]
    BY <2>3, <2>4 DEF IInv, TypeOK, Jobs
  <2>6. TypeOK'
    BY <1>1, <1>3, <2>3, <2>5 DEF Begin, IInv, TypeOK, Jobs, election, env
  <2>7. JobsOK'
    BY <2>2, <2>3, <2>5 DEF Begin, IInv, JobsOK, Want, election
  <2> QED BY <2>6, <2>7 DEF IInv
<1> QED BY <1>2, <1>3 DEF Begin

LEMMA ApplyStep ==
  ASSUME IInv, NEW r \in Replicas, Apply(r)
  PROVE  IInv'
<1>1. PICK c \in Children :
        /\ First(c, job[r].todo) /\ watched' = [watched EXCEPT ![r] = @ \cup {KindOf[c]}]
        /\ \/ /\ Set(c, "owned") /\ Goes(r, Job(job[r].v, job[r].todo \ {c}, {}, {}))
              /\ Landed(r) /\ UNCHANGED env
           \/ /\ r \notin done /\ Fault /\ job' = [job EXCEPT ![r] = Idle]
              /\ queued' = queued \cup {r} /\ UNCHANGED <<child, inflight>>
  BY DEF Apply
<1>2. job[r] # Idle
  BY <1>1, IdleJob DEF First
<1>3. KindOf[c] \in Kinds
  BY K8sReplicasAssumption
<1>4. /\ watched' \in [Replicas -> SUBSET Kinds]
      /\ \A q \in Replicas : watched[q] \subseteq watched'[q]
  BY <1>1, <1>3 DEF IInv, TypeOK
<1>5. UNCHANGED <<log, holder, expired, le, workers, done, paused, seen, open>>
  BY DEF Apply, election
<1>6. CASE /\ Set(c, "owned") /\ Goes(r, Job(job[r].v, job[r].todo \ {c}, {}, {}))
           /\ Landed(r) /\ UNCHANGED env
  <2> DEFINE j == IF r \in done THEN Idle ELSE Job(job[r].v, job[r].todo \ {c}, {}, {})
  <2>1. job[r].v \in 0..Len(log) /\ job[r].todo \ {c} \subseteq Children
    BY JobFacts DEF Jobs
  <2>2. /\ j \in Jobs
        /\ j = Idle \/ j.v = job[r].v
        /\ j.victims = {} /\ j.listed = {}
    BY <2>1, JobType, IdleJob
  <2>3. job' = [job EXCEPT ![r] = j]
    BY <1>6 DEF Goes
  <2>4. child' \in [Children -> {"none", "owned", "foreign"}] /\ queued' \subseteq Replicas
    BY <1>6, SetType DEF IInv
  <2>5. inflight' \subseteq done /\ meddles' = meddles /\ faults' \in 0..MaxFaults
    BY <1>6 DEF Landed, IInv, TypeOK, env
  <2> HIDE DEF j
  <2> QED BY <1>2, <1>4, <1>5, <2>2, <2>3, <2>4, <2>5, JobStep
<1>7. CASE /\ r \notin done /\ Fault /\ job' = [job EXCEPT ![r] = Idle]
           /\ queued' = queued \cup {r} /\ UNCHANGED <<child, inflight>>
  <2>1. meddles' = meddles /\ faults' \in 0..MaxFaults
    BY <1>7, FaultType DEF IInv
  <2>2. child' \in [Children -> {"none", "owned", "foreign"}] /\ inflight' \subseteq done /\ queued' \subseteq Replicas
    BY <1>7 DEF IInv, TypeOK
  <2>3. Idle.listed \subseteq watched'[r] /\ Idle.victims = {} /\ Idle \in Jobs
    BY IdleJob
  <2> QED BY <1>2, <1>4, <1>5, <1>7, <2>1, <2>2, <2>3, JobStep
<1> QED BY <1>1, <1>6, <1>7

LEMMA ListStep ==
  ASSUME IInv, NEW r \in Replicas, NEW k \in Kinds, List(r, k)
  PROVE  IInv'
<1>1. PICK victims \in {Victims(job[r], k), {}} :
        job' = [job EXCEPT ![r] = Listed(job[r], k, victims)]
  BY DEF List
<1> DEFINE j == Listed(job[r], k, victims)
<1>2. job[r] # Idle /\ k \in watched[r]
  BY DEF List, Applied
<1>3. victims \subseteq Children /\ victims \cap Want(job[r].v) = {}
  BY <1>1 DEF Victims
<1>4. job[r].v \in 0..Len(log) /\ job[r].listed \cup {k} \subseteq Kinds
  BY JobFacts DEF Jobs
<1>5. j \in Jobs /\ j.v = job[r].v /\ j.victims = victims /\ j.listed = job[r].listed \cup {k}
  BY <1>3, <1>4, JobType DEF Listed
<1>6. j.listed \subseteq watched[r]
  BY <1>2, <1>5, JobFacts
<1>7. job' = [job EXCEPT ![r] = j]
  BY <1>1
<1>8. meddles' = meddles /\ faults' \in 0..MaxFaults
  BY FaultType DEF List, env, IInv, TypeOK
<1>9. UNCHANGED <<log, child, holder, expired, le, workers, done, paused, inflight, seen, queued, watched, open>>
  BY DEF List, election, watches
<1> HIDE DEF j
<1>10. /\ child' \in [Children -> {"none", "owned", "foreign"}] /\ inflight' \subseteq done
       /\ queued' \subseteq Replicas /\ watched' \in [Replicas -> SUBSET Kinds]
  BY <1>9 DEF IInv, TypeOK
<1>11. j.victims \cap Want(j.v) = {}
  BY <1>3, <1>5
<1> QED BY <1>2, <1>5, <1>6, <1>7, <1>8, <1>9, <1>10, <1>11, JobStep

LEMMA DeleteStep ==
  ASSUME IInv, NEW r \in Replicas, Delete(r)
  PROVE  IInv'
<1>1. PICK c \in Children :
        /\ First(c, job[r].victims)
        /\ \/ Set(c, "none") /\ UNCHANGED env
           \/ r \notin done /\ Fault /\ UNCHANGED <<child, queued>>
        /\ Goes(r, Job(job[r].v, {}, job[r].listed, job[r].victims \ {c})) /\ Landed(r)
  BY DEF Delete
<1>2. job[r] # Idle
  BY <1>1, IdleJob DEF First
<1> DEFINE j == IF r \in done THEN Idle ELSE Job(job[r].v, {}, job[r].listed, job[r].victims \ {c})
<1>3. /\ job[r].v \in 0..Len(log) /\ job[r].victims \ {c} \subseteq Children
      /\ job[r].listed \subseteq Kinds /\ job[r].listed \subseteq watched[r]
      /\ (job[r].victims \ {c}) \cap Want(job[r].v) = {}
  BY <1>2, JobFacts DEF Jobs
<1>4. /\ j \in Jobs
      /\ j = Idle \/ j.v = job[r].v
      /\ j.victims # {} => j.victims \cap Want(j.v) = {}
      /\ j.listed \subseteq watched[r]
  BY <1>3, JobType, IdleJob
<1>5. job' = [job EXCEPT ![r] = j]
  BY <1>1 DEF Goes
<1>6. child' \in [Children -> {"none", "owned", "foreign"}] /\ queued' \subseteq Replicas
  BY <1>1, SetType DEF IInv, TypeOK
<1>7. inflight' \subseteq done /\ meddles' = meddles /\ faults' \in 0..MaxFaults
  BY <1>1, FaultType DEF Landed, IInv, TypeOK, env
<1>8. UNCHANGED <<log, holder, expired, le, workers, done, paused, seen, watched, open>>
  BY DEF Delete, election
<1> HIDE DEF j
<1>9. watched' \in [Replicas -> SUBSET Kinds]
  BY <1>8 DEF IInv, TypeOK
<1> QED BY <1>2, <1>4, <1>5, <1>6, <1>7, <1>8, <1>9, JobStep

\* The job ends.
LEMMA EndStep ==
  ASSUME IInv, NEW r \in Replicas, Reconciled(r) \/ Abort(r)
  PROVE  IInv'
<1>1. job[r] # Idle /\ job' = [job EXCEPT ![r] = Idle]
  BY DEF Reconciled, Abort, Applied
<1>2. UNCHANGED <<log, child, holder, expired, le, workers, done, paused, seen, watched, open, meddles, faults>>
  BY DEF Reconciled, Abort, election, watches, env
<1>3. inflight' \subseteq done /\ queued' \subseteq Replicas
  BY DEF Reconciled, Abort, Landed, watches, IInv, TypeOK
<1>4. Idle.listed \subseteq watched'[r] /\ Idle.victims = {} /\ Idle \in Jobs
  BY IdleJob
<1>5. /\ child' \in [Children -> {"none", "owned", "foreign"}] /\ faults' \in 0..MaxFaults
      /\ watched' \in [Replicas -> SUBSET Kinds]
  BY <1>2 DEF IInv, TypeOK
<1> QED BY <1>1, <1>2, <1>3, <1>4, <1>5, JobStep

LEMMA InvNext ==
  ASSUME IInv, ElectionInv, [Next]_vars
  PROVE  IInv'
<1>1. ASSUME NEW r \in Replicas, Work(r)
      PROVE  IInv'
  BY <1>1, BeginStep, ApplyStep, ListStep, DeleteStep, EndStep DEF Work
<1>2. CASE UNCHANGED vars
  <2>1. TypeOK'
    BY <1>2 DEF vars, election, watches, env, IInv, TypeOK
  <2>2. JobsOK'
    BY <1>2 DEF vars, watches, IInv, JobsOK, Want
  <2> QED BY <2>1, <2>2 DEF IInv
<1> QED BY <1>1, <1>2, InvUser, InvRunOut, InvWatch, InvElect, InvLive, InvBreaks DEF Next

\* The type invariant of leader election, watches and child reconciliation, for any
\* number of replicas, children, kinds, edits and faults.
THEOREM TypeCorrect == Spec => []TypeOK
<1>1. Init => IInv /\ ElectionInv
  BY InvInit, ElectionInit
<1>2. IInv /\ ElectionInv /\ [Next]_vars => IInv' /\ ElectionInv'
  BY InvNext, ElectionNext
<1>3. IInv => TypeOK
  BY DEF IInv
<1> QED BY <1>1, <1>2, <1>3, PTL DEF Spec

\* What is deleted was found unwanted by the version its worker reconciles.
LEMMA DeletesUnwanted ==
  ASSUME IInv, [Next]_vars, NEW c \in Children,
         child[c] = "owned", child'[c] = "none", UNCHANGED meddles
  PROVE  \E v \in DOMAIN log : c \notin Want(v)
<1>1. PICK r \in Replicas : Work(r)
  <2>1. ~ UNCHANGED child
    OBVIOUS
  <2>2. ~ User
    <3>1. meddles' # meddles + 1
      BY DEF IInv, TypeOK
    <3> QED BY <2>1, <3>1 DEF User, Edit, Meddle
  <2>3. ~ RunOut
    BY <2>1 DEF RunOut
  <2>4. \A r \in Replicas : ~ Watch(r) /\ ~ Elect(r) /\ ~ Live(r) /\ ~ Breaks(r)
    BY <2>1 DEF Watch, Observe, OpenWatch, Elect, Acquire, Renew, Release, OnStoppedLeading,
                Live, StartWorkers, Exit, Breaks, Crash, Terminate, CloseWatch, Again
  <2>5. Next
    BY <2>1 DEF vars
  <2> QED BY <2>2, <2>3, <2>4, <2>5 DEF Next
<1>2. CASE Delete(r)
  <2>1. PICK d \in Children : First(d, job[r].victims) /\ (Set(d, "none") \/ UNCHANGED child)
    BY <1>2 DEF Delete
  <2>2. c = d
    BY <2>1 DEF Set, IInv, TypeOK
  <2>3. job[r].victims # {} /\ job[r] # Idle /\ c \in job[r].victims
    BY <2>1, <2>2, IdleJob DEF First
  <2> QED BY <2>3, JobFacts
<1>3. CASE Apply(r)
  BY <1>3 DEF Apply, Set, IInv, TypeOK
<1> QED BY <1>1, <1>2, <1>3 DEF Work, Begin, List, Reconciled, Abort

\* A child that every version of the parent has asked for is never deleted by a replica
\* (pruneOrphanedChildren), however replicas take turns, crash or overlap.
THEOREM WantedKept == Spec => WantedNeverPruned
<1>1. Init => IInv /\ ElectionInv
  BY InvInit, ElectionInit
<1>2. IInv /\ ElectionInv /\ [Next]_vars => IInv' /\ ElectionInv'
  BY InvNext, ElectionNext
<1>3. IInv /\ [Next]_vars =>
        [\A c \in Children :
           child[c] = "owned" /\ child'[c] = "none" /\ UNCHANGED meddles
             => \E v \in DOMAIN log : c \notin Want(v)]_vars
  BY DeletesUnwanted
<1> QED BY <1>1, <1>2, <1>3, PTL DEF Spec, WantedNeverPruned
=============================================================================
