------------------------------ MODULE K8sReplicas ------------------------------
(***************************************************************************)
(* k8s.control with leader_election, several replicas of it, and a          *)
(* reconcile handler that returns a list of children: who may write, and    *)
(* what becomes of the children of one parent. The engine of one replica,   *)
(* its cache and its queue items are K8sController's subject; here a queue  *)
(* holds the parent or does not, and a replica has one worker. client-go's  *)
(* leader election and the API server are external.                         *)
(***************************************************************************)
EXTENDS Naturals, Sequences, FiniteSets, SequencesExt

CONSTANTS
  Replicas,
  NumChildren, \* names children of the parent may have, in the order of the list
  Kinds,       \* their kinds
  KindOf,      \* the kind of each child
  WatchOwned,  \* the kinds named in watch_owned
  Poll,        \* whether poll= was given
  MaxEdits,    \* bound: changes of the parent by its user
  MaxMeddles,  \* bound: children the user deletes or creates
  MaxFaults    \* bound: crashes, terminations, pauses, failed requests, watch gaps

Children == 1..NumChildren

ASSUME K8sReplicasAssumption ==
  /\ NumChildren \in Nat /\ KindOf \in [Children -> Kinds] /\ WatchOwned \subseteq Kinds
  /\ Poll \in BOOLEAN /\ {MaxEdits, MaxMeddles, MaxFaults} \subseteq Nat
  /\ IsFiniteSet(Replicas)

VARIABLES
  log,      \* the children each version of the parent asks for
  child,    \* each child on the server: "none", "owned" by the parent or "foreign"
  holder,   \* who the Lease names, {} or one replica
  expired,  \* the Lease has not been renewed in time
  le,       \* where each replica's leader election is
  workers,  \* its worker: "none", "pending" in the OnStartedLeading goroutine, "running"
  done,     \* the replicas whose context is done
  inflight, \* those of them with a write on the way that may still land
  seen,     \* the version of the parent in each cache, 0 for none
  queued,   \* the replicas whose queue holds the parent, or will when its delay is over
  watched,  \* watchedGVRs of each replica
  open,     \* the child watches that are connected
  job,      \* what each worker is doing
  meddles, faults, \* counters of the bounds
  paused    \* history: the leaders whose Lease ran out under them

env     == <<meddles, faults>>
election == <<holder, expired, le, workers, done, paused>>
watches == <<seen, queued, watched, open>>
vars    == <<log, child, election, inflight, watches, job, env>>

\* A worker's job is done in the order of its fields: v is the version reconciled, todo
\* the children to apply, listed the kinds pruning has listed, victims what to delete.
Job(v, todo, listed, victims) == [v |-> v, todo |-> todo, listed |-> listed, victims |-> victims]
Idle == Job(0, {}, {}, {})

\* The replicas start, perhaps after others before them.
Init ==
  /\ log \in [{1} -> SUBSET Children] /\ child \in [Children -> {"none", "owned"}]
  /\ holder = {} /\ expired = FALSE /\ le = [r \in Replicas |-> "standby"]
  /\ workers = [r \in Replicas |-> "none"] /\ done = {} /\ inflight = {} /\ paused = {}
  /\ seen = [r \in Replicas |-> 0] /\ queued = {}
  /\ watched = [r \in Replicas |-> WatchOwned] /\ open = {}
  /\ job = [r \in Replicas |-> Idle] /\ meddles = 0 /\ faults = 0

Want(v) == log[v]
Fault   == faults < MaxFaults /\ faults' = faults + 1 /\ UNCHANGED meddles

\* A child changes: an owner reference makes an event of it for those who watch its
\* kind. The time it takes to arrive counts as time in the queue.
Notified(c, state) ==
  IF child[c] # state /\ "owned" \in {child[c], state}
    THEN {r \in Replicas \ done : <<r, KindOf[c]>> \in open} ELSE {}
Set(c, state) ==
  child' = [child EXCEPT ![c] = state] /\ queued' = queued \cup Notified(c, state)

-----------------------------------------------------------------------------
(* The user.                                                               *)

Edit ==
  /\ Len(log) <= MaxEdits
  /\ \E want \in SUBSET Children : want # Last(log) /\ log' = Append(log, want)
  /\ UNCHANGED <<child, election, inflight, watches, job, env>>

Meddle(c) ==
  /\ meddles < MaxMeddles /\ meddles' = meddles + 1
  /\ Set(c, IF child[c] = "none" THEN "foreign" ELSE "none")
  /\ UNCHANGED <<log, election, inflight, seen, watched, open, job, faults>>

-----------------------------------------------------------------------------
(* Watches.                                                                *)

\* Mutant: an event for a cached parent does not update the cache.
ObserveKeepsCache(r) ==
  /\ r \notin done /\ seen[r] < Len(log)
  /\ seen' = [seen EXCEPT ![r] = IF @ = 0 THEN Len(log) ELSE @]
  /\ queued' = queued \cup {r}
  /\ UNCHANGED <<log, child, election, inflight, watched, open, job, env>>

\* The parent's watch delivers: all there is when it starts, then version by version.
Observe(r) ==
  /\ r \notin done /\ seen[r] < Len(log)
  /\ seen' = [seen EXCEPT ![r] = IF @ = 0 THEN Len(log) ELSE @ + 1]
  /\ queued' = queued \cup {r}
  /\ UNCHANGED <<log, child, election, inflight, watched, open, job, env>>

\* A child watch connects, and begins with an event for everything there is.
OpenWatch(r, k) ==
  /\ r \notin done /\ k \in watched[r] /\ <<r, k>> \notin open
  /\ open' = open \cup {<<r, k>>}
  /\ queued' = IF \E c \in Children : KindOf[c] = k /\ child[c] = "owned"
                 THEN queued \cup {r} ELSE queued
  /\ UNCHANGED <<log, child, election, inflight, seen, watched, job, env>>

\* The connection breaks: what happens until it is opened again goes unseen.
CloseWatch(r, k) ==
  /\ <<r, k>> \in open /\ Fault
  /\ open' = open \ {<<r, k>>}
  /\ UNCHANGED <<log, child, election, inflight, seen, queued, watched, job>>

-----------------------------------------------------------------------------
(* Leader election, and the life of a replica.                             *)

Cancel(r) ==
  /\ done' = done \cup {r}
  /\ inflight' = IF job[r].todo \cup job[r].victims # {} THEN inflight \cup {r} ELSE inflight

\* The Lease is free, has run out, or bears this identity since before a restart.
Acquire(r) ==
  /\ le[r] = "standby" /\ r \notin done /\ (holder \subseteq {r} \/ expired)
  /\ holder' = {r} /\ expired' = FALSE
  /\ le' = [le EXCEPT ![r] = "leading"] /\ workers' = [workers EXCEPT ![r] = "pending"]
  /\ UNCHANGED <<log, child, done, paused, inflight, watches, job, env>>

\* OnStartedLeading has a goroutine of its own, and runs when it gets there.
StartWorkers(r) ==
  /\ workers[r] = "pending" /\ workers' = [workers EXCEPT ![r] = "running"]
  /\ UNCHANGED <<log, child, holder, expired, le, done, paused, inflight, watches, job, env>>

\* The Lease runs out: of a replica that is gone, or of one that stands still.
RunOut ==
  /\ holder # {} /\ ~expired /\ expired' = TRUE
  /\ \A r \in holder :
       IF le[r] = "leading"
         THEN Fault /\ paused' = paused \cup {r}
         ELSE UNCHANGED <<env, paused>>
  /\ UNCHANGED <<log, child, holder, le, workers, done, inflight, watches, job>>

Renew(r) ==
  /\ le[r] = "leading" /\ r \notin done /\ expired /\ holder = {r}
  /\ expired' = FALSE /\ paused' = paused \ {r}
  /\ UNCHANGED <<log, child, holder, le, workers, done, inflight, watches, job, env>>

\* The renew loop ends: the context is done, somebody else holds the Lease, or the API
\* server has not answered for RenewDeadline. ReleaseOnCancel then gives the Lease away,
\* or that request fails too; until OnStoppedLeading the workers go on.
Release(r) ==
  /\ le[r] = "leading" /\ le' = [le EXCEPT ![r] = "released"]
  /\ \/ (r \in done \/ holder # {r}) /\ holder' = holder \ {r} /\ UNCHANGED env
     \/ Fault /\ holder' \in {holder, holder \ {r}}
  /\ expired' = (expired /\ holder' # {})
  /\ UNCHANGED <<log, child, workers, done, paused, inflight, watches, job>>

\* Mutant: OnStoppedLeading only clears the flag.
OnStoppedLeadingOnlyFlag(r) ==
  /\ le[r] = "released" \/ (le[r] = "standby" /\ r \in done)
  /\ le' = [le EXCEPT ![r] = "ended"] /\ UNCHANGED <<done, inflight>>
  /\ UNCHANGED <<log, child, holder, expired, workers, paused, watches, job, env>>

\* A replica that has led, or whose context ends before it could, stops for good.
OnStoppedLeading(r) ==
  /\ le[r] = "released" \/ (le[r] = "standby" /\ r \in done)
  /\ le' = [le EXCEPT ![r] = "ended"] /\ Cancel(r)
  /\ UNCHANGED <<log, child, holder, expired, workers, paused, watches, job, env>>

\* SIGTERM.
Terminate(r) ==
  /\ r \notin done /\ Cancel(r) /\ Fault
  /\ UNCHANGED <<log, child, holder, expired, le, workers, paused, watches, job>>

\* The process is gone, and the deployment starts it again: nothing it knew is left. A
\* replica that has not done anything yet stands for one that is still down.
Again(r) ==
  /\ le' = [le EXCEPT ![r] = "standby"] /\ workers' = [workers EXCEPT ![r] = "none"]
  /\ done' = done \ {r} /\ inflight' = inflight \ {r} /\ paused' = paused \ {r}
  /\ seen' = [seen EXCEPT ![r] = 0] /\ queued' = queued \ {r}
  /\ watched' = [watched EXCEPT ![r] = WatchOwned] /\ open' = {p \in open : p[1] # r}
  /\ job' = [job EXCEPT ![r] = Idle] /\ UNCHANGED <<log, child, holder, expired>>

\* run returns when its goroutines have, and the script ends.
Exit(r) == le[r] = "ended" /\ r \in done /\ job[r] = Idle /\ Again(r) /\ UNCHANGED env

Crash(r) == Fault /\ Again(r)

-----------------------------------------------------------------------------
(* The worker.                                                             *)

\* Mutant: workers start with the watches.
WorkingOnStandby(r) == r \notin done

Working(r) == workers[r] = "running" /\ r \notin done

\* A request of a live context, or the one that was on the way when it ended; after
\* it nothing more is sent.
CanWrite(r) == r \notin done \/ r \in inflight
Landed(r)   == inflight' = inflight \ {r}
Goes(r, j)  == job' = [job EXCEPT ![r] = IF r \in done THEN Idle ELSE j]

\* The queue gives the parent, the handler its children. Without a cached parent the
\* server is asked, and when it does not answer the parent counts as gone.
Begin(r) ==
  /\ Working(r) /\ job[r] = Idle /\ r \in queued
  /\ queued' = queued \ {r}
  /\ \/ LET v == IF seen[r] = 0 THEN Len(log) ELSE seen[r]
        IN  job' = [job EXCEPT ![r] = Job(v, Want(v), {}, {})] /\ UNCHANGED env
     \/ seen[r] = 0 /\ Fault /\ UNCHANGED job
  /\ UNCHANGED <<log, child, election, inflight, seen, watched, open>>

\* The children are gone through in the order of the list.
First(c, S) == c \in S /\ \A d \in S : c <= d

\* AutoWatch and Server-Side Apply of the next child, by force: whatever bears the
\* name is the parent's afterwards. An apply that fails ends the reconciliation, which
\* is retried.
Apply(r) ==
  /\ CanWrite(r)
  /\ \E c \in Children :
     /\ First(c, job[r].todo)
     /\ watched' = [watched EXCEPT ![r] = @ \cup {KindOf[c]}]
     /\ \/ /\ Set(c, "owned") /\ Goes(r, Job(job[r].v, job[r].todo \ {c}, {}, {}))
           /\ Landed(r) /\ UNCHANGED env
        \/ /\ r \notin done /\ Fault /\ job' = [job EXCEPT ![r] = Idle]
           /\ queued' = queued \cup {r} /\ UNCHANGED <<child, inflight>>
  /\ UNCHANGED <<log, election, seen, open>>

Applied(r) == job[r] # Idle /\ job[r].todo = {}
Listed(j, k, victims) == Job(j.v, {}, j.listed \cup {k}, victims)
Victims(j, k) == {c \in Children \ Want(j.v) : KindOf[c] = k /\ child[c] = "owned"}

\* Mutant: the desired keys are written in another form than the listed ones.
ListAll(r, k) ==
  /\ Applied(r) /\ job[r].victims = {} /\ k \in watched[r] \ job[r].listed /\ r \notin done
  /\ job' = [job EXCEPT ![r] = Listed(job[r], k, {c \in Children : KindOf[c] = k /\ child[c] = "owned"})]
  /\ UNCHANGED <<log, child, election, inflight, watches, env>>

\* Pruning goes over the kinds in watchedGVRs, of which those that only a former
\* process applied are no part, and lists the children of each; a list that fails is
\* skipped.
List(r, k) ==
  /\ Applied(r) /\ job[r].victims = {} /\ k \in watched[r] \ job[r].listed /\ r \notin done
  /\ \/ UNCHANGED env /\ job' = [job EXCEPT ![r] = Listed(job[r], k, Victims(job[r], k))]
     \/ Fault /\ job' = [job EXCEPT ![r] = Listed(job[r], k, {})]
  /\ UNCHANGED <<log, child, election, inflight, watches>>

\* Those not asked for are deleted by name: whatever bears it by then goes.
Delete(r) ==
  /\ CanWrite(r)
  /\ \E c \in Children :
     /\ First(c, job[r].victims)
     /\ \/ Set(c, "none") /\ UNCHANGED env
        \/ r \notin done /\ Fault /\ UNCHANGED <<child, queued>>
     /\ Goes(r, Job(job[r].v, {}, job[r].listed, job[r].victims \ {c})) /\ Landed(r)
  /\ UNCHANGED <<log, election, seen, watched, open>>

\* The reconciliation is over, and with poll= is repeated after a while.
Reconciled(r) ==
  /\ Applied(r) /\ job[r].victims = {} /\ watched[r] \subseteq job[r].listed /\ r \notin done
  /\ job' = [job EXCEPT ![r] = Idle]
  /\ queued' = IF Poll THEN queued \cup {r} ELSE queued
  /\ UNCHANGED <<log, child, election, inflight, seen, watched, open, env>>

\* The context is done: every further request fails at once.
Abort(r) ==
  /\ r \in done /\ job[r] # Idle /\ job' = [job EXCEPT ![r] = Idle] /\ Landed(r)
  /\ UNCHANGED <<log, child, election, watches, env>>

-----------------------------------------------------------------------------
User     == Edit \/ \E c \in Children : Meddle(c)
Watch(r) == Observe(r) \/ \E k \in Kinds : OpenWatch(r, k)
Elect(r) == Acquire(r) \/ Renew(r) \/ Release(r) \/ OnStoppedLeading(r)
Live(r)  == StartWorkers(r) \/ Exit(r)
Work(r)  ==
  Begin(r) \/ Apply(r) \/ Delete(r) \/ Reconciled(r) \/ Abort(r) \/ \E k \in Kinds : List(r, k)
Breaks(r) == Crash(r) \/ Terminate(r) \/ \E k \in Kinds : CloseWatch(r, k)

Next ==
  User \/ RunOut \/ \E r \in Replicas : Watch(r) \/ Elect(r) \/ Live(r) \/ Work(r) \/ Breaks(r)

Spec == Init /\ [][Next]_vars

\* Fairness: goroutines run, the server answers, watches are opened again and deliver,
\* timers fire, a Lease nobody renews runs out, the deployment restarts what ended.
\* Nothing is assumed of the user, and faults are as many as their bound.
Fairness ==
  /\ WF_vars(RunOut)
  /\ \A r \in Replicas :
       /\ WF_vars(Watch(r)) /\ WF_vars(Elect(r)) /\ WF_vars(Live(r)) /\ WF_vars(Work(r))

FairSpec == Spec /\ Fairness

-----------------------------------------------------------------------------
(* Properties.                                                             *)

\* The type of the variables; only a worker has a job, and lists what it watches.
TypeOK ==
  /\ log \in Seq(SUBSET Children) /\ Len(log) <= MaxEdits + 1
  /\ child \in [Children -> {"none", "owned", "foreign"}]
  /\ holder \in {{}} \cup {{r} : r \in Replicas} /\ expired \in BOOLEAN
  /\ le \in [Replicas -> {"standby", "leading", "released", "ended"}]
  /\ workers \in [Replicas -> {"none", "pending", "running"}]
  /\ done \subseteq Replicas /\ inflight \subseteq done /\ paused \subseteq Replicas
  /\ seen \in [Replicas -> 0..MaxEdits + 1] /\ queued \subseteq Replicas
  /\ watched \in [Replicas -> SUBSET Kinds]
  /\ open \subseteq Replicas \X Kinds
  /\ job \in [Replicas -> [v : 0..Len(log), todo : SUBSET Children,
                           listed : SUBSET Kinds, victims : SUBSET Children]]
  /\ \A r \in Replicas : job[r] # Idle => workers[r] = "running" /\ job[r].listed \subseteq watched[r]
  /\ meddles \in 0..MaxMeddles /\ faults \in 0..MaxFaults

\* Who works without the Lease has stood still while it ran out, or is between losing
\* it and OnStoppedLeading: a termination, a restart, an OnStartedLeading that comes
\* late, a failed renewal never leave two replicas at work.
OneWriter ==
  \A r \in Replicas :
    Working(r) => holder = {r} \/ le[r] = "released" \/ r \in paused

\* A child that every version of the parent asks for is not deleted by a controller,
\* whoever applies and prunes beside whom, and after whatever version.
WantedNeverPruned ==
  [][\A c \in Children :
       child[c] = "owned" /\ child'[c] = "none" /\ UNCHANGED meddles
         => \E v \in DOMAIN log : c \notin Want(v)]_vars

\* Server, watches and replicas may fail in any way and two replicas write at once:
\* in the end the children are those the last version asks for, and no others are the
\* parent's. k8s.md:345, "prunes orphaned child resources when removed from the
\* returned list", holds by this for kinds in watch_owned only.
ChildrenSettle ==
  <>[](\A c \in Children : c \in Last(log) <=> child[c] = "owned")
=============================================================================
