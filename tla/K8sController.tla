--------------------------- MODULE K8sController ---------------------------
(***************************************************************************)
(* The reconcile engine behind k8s.control()                               *)
(* (cloudkite/modules/k8s/control.go): one primary watch goroutine, an     *)
(* optional resync goroutine and a pool of workers share an object cache,  *)
(* a set of self-echo keys and a client-go rate-limiting work queue, and   *)
(* all of them race with the API server's other users.                     *)
(*                                                                         *)
(* The API server, the watch stream and the work queue are external code;  *)
(* they are modelled by what control.go relies on.                         *)
(***************************************************************************)
EXTENDS Naturals, Sequences, FiniteSets

CONSTANTS
  Keys,               \* object keys ("namespace/name") of the watched kind
  Workers,            \* worker goroutines (workers=)
  Handlers,           \* subset of HandlerNames the script supplied
  Outcomes,           \* how a handler call may end: subset of {"ok", "err", "later"}
  GenerationChanged,  \* generation_changed=
  StatusSubresource,  \* whether UpdateStatus can succeed for this kind
  Filtered,           \* whether a predicate= that may reject any event is set
  Resync,             \* whether resync= is positive
  Poll,               \* whether poll= is positive
  Secondary,          \* whether owned, child or related kinds are watched
  KeepsFinalizer,     \* whether a DELETED event shows the finalizer whose removal caused it
  ApiFaults,          \* whether an API call may be lost before or after it commits
  MaxRetries,         \* max_retries=
  MaxUserOps,         \* bound: operations by other API users
  MaxFaults,          \* bound: watch disconnects and controller crashes
  MaxRV,              \* bound: resource versions the API server hands out
  MaxOld              \* bound: distinct live `old` pointers in queue items

HandlerNames == {"reconcile", "on_create", "on_update", "on_delete", "finalize"}
Booleans     == {GenerationChanged, StatusSubresource, Filtered, Resync, Poll, Secondary, KeepsFinalizer, ApiFaults}

ASSUME ConstantsAssumption ==
  /\ Keys # {} /\ IsFiniteSet(Keys)
  /\ Handlers \subseteq HandlerNames /\ Handlers # {}
  /\ Outcomes \subseteq {"ok", "err", "later"}
  /\ Booleans \subseteq BOOLEAN
  /\ {MaxRetries, MaxUserOps, MaxFaults, MaxRV, MaxOld} \subseteq Nat

-----------------------------------------------------------------------------
(* Data: only what the controller's decisions read.                        *)

\* `uid` is the resource version of the creation, `ready`/`obs` the Ready
\* condition and its observedGeneration.  NoObj stands for a nil pointer.
Obj   == [uid : Nat, rv : Nat, gen : Nat, fin : BOOLEAN, del : BOOLEAN,
          ready : {"none", "true", "false"}, obs : Nat]
NoObj == [uid |-> 0, rv |-> 0, gen |-> 0, fin |-> FALSE, del |-> FALSE,
          ready |-> "none", obs |-> 0]
Exists(o) == o.uid # 0

EventTypes == {"ADDED", "MODIFIED", "DELETED"}
Event      == [type : EventTypes, key : Keys, obj : Obj]
AnyKey     == CHOOSE k \in Keys : TRUE
NoEvent    == [type |-> "ADDED", key |-> AnyKey, obj |-> NoObj]

\* A queue item is compared field by field, `old` as a pointer: 0 is nil, any
\* other number names one live deep copy made by the watch.
Item == [key : Keys, type : EventTypes, old : 0..MaxOld]

Steps == {"idle", "read", "fetch", "addFin", "purge", "handler", "finalize",
          "stripFin", "status", "echo", "store", "finish"}
AfterReply == {"idle", "purge", "handler", "finish"}

\* What dispatch() holds on its stack: its copy of the object, the AttrDict the
\* handler gets, isDeleting, the pending API reply and where to go after it.
Job == [item : Item, obj : Obj, seen : Obj, deleting : BOOLEAN, reply : Obj,
        res : {"none", "ok", "err", "later", "skip"}, next : AfterReply]

VARIABLES
  \* API server
  store,      \* [Keys -> Obj], NoObj where there is no object
  lastRV,     \* newest resource version
  userOps, faults,
  \* the primary watch
  watching,   \* whether the watch connection is up
  stream,     \* events sent by the server and not yet received
  inHand,     \* the event doWatch has received and not yet stored, or NoEvent
  listed,     \* the part of a resync listing not yet walked
  \* shared state of the controller
  cache,      \* c.cache, NoObj where the map has no entry
  echoKeys,   \* c.echoKeys, by resource version
  queue, dirty, waiting, failures,      \* c.queue
  \* workers
  pc, job,
  \* history, read by the properties only
  handled,    \* <<uid, gen, as a removal?>> a handler was given and accepted
  abandoned,  \* <<uid, gen>> of the items dropped after max_retries
  finalized   \* <<key, uid>> of the objects whose finalize call succeeded

api     == <<store, lastRV>>
env     == <<userOps, faults>>
conn    == <<watching, stream, inHand>>
wq      == <<queue, dirty, waiting, failures>>
history == <<handled, abandoned, finalized>>
vars    == <<api, env, conn, listed, cache, echoKeys, wq, pc, job, history>>

IdleJob == [item |-> [key |-> AnyKey, type |-> "ADDED", old |-> 0], obj |-> NoObj,
            seen |-> NoObj, deleting |-> FALSE, reply |-> NoObj,
            res |-> "none", next |-> "idle"]

Init ==
  /\ store = [k \in Keys |-> NoObj] /\ lastRV = 0 /\ userOps = 0 /\ faults = 0
  /\ watching = FALSE /\ stream = <<>> /\ inHand = NoEvent
  /\ listed = [k \in Keys |-> NoObj]
  /\ cache = [k \in Keys |-> NoObj] /\ echoKeys = {}
  /\ queue = <<>> /\ dirty = {} /\ waiting = {} /\ failures = [i \in Item |-> 0]
  /\ pc = [w \in Workers |-> "idle"] /\ job = [w \in Workers |-> IdleJob]
  /\ handled = {} /\ abandoned = {} /\ finalized = {}

-----------------------------------------------------------------------------
(* The API server.                                                         *)

CanCommit == lastRV < MaxRV

\* Every committed write takes a new resource version and is sent to the watch.
\* `o` is what the event carries; the store forgets it when it is a removal.
Commit(k, type, o) ==
  LET new == [o EXCEPT !.rv = lastRV + 1] IN
  /\ CanCommit
  /\ lastRV' = lastRV + 1
  /\ store' = [store EXCEPT ![k] = IF type = "DELETED" THEN NoObj ELSE new]
  /\ stream' = IF watching
               THEN Append(stream, [type |-> type, key |-> k, obj |-> new])
               ELSE stream

UserWrite(k, type, o) ==
  /\ userOps < MaxUserOps
  /\ userOps' = userOps + 1
  /\ Commit(k, type, o)
  /\ UNCHANGED <<faults, watching, inHand, listed, cache, echoKeys, wq, pc, job, history>>

UserCreate(k) ==
  /\ ~Exists(store[k])
  /\ UserWrite(k, "ADDED", [NoObj EXCEPT !.uid = lastRV + 1, !.gen = 1])

\* A change of the desired state.
UserEdit(k) ==
  /\ Exists(store[k])
  /\ UserWrite(k, "MODIFIED", [store[k] EXCEPT !.gen = store[k].gen + 1])

\* A change of labels, annotations or status: the generation stays.
UserTouch(k) ==
  /\ Exists(store[k])
  /\ UserWrite(k, "MODIFIED", store[k])

\* Finalizers turn a removal into a deletion mark, which bumps the generation.
UserDelete(k) ==
  /\ Exists(store[k])
  /\ IF store[k].fin
     THEN /\ ~store[k].del
          /\ UserWrite(k, "MODIFIED", [store[k] EXCEPT !.del = TRUE, !.gen = store[k].gen + 1])
     ELSE UserWrite(k, "DELETED", store[k])

-----------------------------------------------------------------------------
(* The client-go work queue: `dirty` are the items to process, `queue` those of *)
(* them no worker holds, `waiting` the delayed ones.                         *)

Processing == {job[w].item : w \in {v \in Workers : pc[v] # "idle"}}

Add(item) ==
  IF item \in dirty
  THEN UNCHANGED <<queue, dirty>>
  ELSE /\ dirty' = dirty \union {item}
       /\ queue' = IF item \in Processing THEN queue ELSE Append(queue, item)

\* The delay of an AddAfter or AddRateLimited is over.
Timer(item) ==
  /\ item \in waiting
  /\ waiting' = waiting \ {item}
  /\ Add(item)
  /\ UNCHANGED <<api, env, conn, listed, cache, echoKeys, failures, pc, job, history>>

\* The garbage collector may reuse the address of an `old` no item points to.
OldsInUse == {i.old : i \in dirty \union waiting \union Processing
                            \union {j \in Item : failures[j] > 0}}
FreeOlds  == (1..MaxOld) \ OldsInUse
FreshOld  == CHOOSE n \in FreeOlds : TRUE

-----------------------------------------------------------------------------
(* watchLoop and doWatch.                                                  *)

\* A watch without a resource version starts with an ADDED event per object.
WatchOpen ==
  LET live == {k \in Keys : Exists(store[k])} IN
  /\ ~watching /\ ~Exists(inHand.obj)
  /\ watching' = TRUE
  /\ \E order \in [1..Cardinality(live) -> live] :
       /\ \A i, j \in DOMAIN order : order[i] = order[j] => i = j
       /\ stream' = [i \in DOMAIN order |->
                       [type |-> "ADDED", key |-> order[i], obj |-> store[order[i]]]]
  /\ UNCHANGED <<api, env, inHand, listed, cache, echoKeys, wq, pc, job, history>>

\* The connection breaks: what had been sent and not received is lost.
WatchClose ==
  /\ watching /\ faults < MaxFaults
  /\ watching' = FALSE /\ stream' = <<>> /\ faults' = faults + 1
  /\ UNCHANGED <<api, userOps, inHand, listed, cache, echoKeys, wq, pc, job, history>>

\* doWatch takes an event; isSelfEcho drops it and consumes its key.
WatchReceive ==
  /\ stream # <<>> /\ ~Exists(inHand.obj)
  /\ stream' = Tail(stream)
  /\ LET rv == Head(stream).obj.rv IN
     IF rv \in echoKeys
     THEN /\ echoKeys' = echoKeys \ {rv}
          /\ UNCHANGED inHand
     ELSE /\ inHand' = Head(stream)
          /\ UNCHANGED echoKeys
  /\ UNCHANGED <<api, env, watching, listed, cache, wq, pc, job, history>>

\* Mutant: the filter forgets to look at the event type.
SameGenerationAnyType(ev, old) ==
  GenerationChanged /\ Exists(old) /\ old.gen = ev.obj.gen

\* generation_changed: a MODIFIED event of the cached generation is not queued.
SameGeneration(ev, old) ==
  /\ GenerationChanged /\ ev.type = "MODIFIED"
  /\ Exists(old) /\ old.gen = ev.obj.gen

\* The rest of doWatch: predicate, cache, generation filter, queue.
WatchStore ==
  /\ Exists(inHand.obj)
  /\ inHand' = NoEvent
  /\ \/ /\ Filtered
        /\ UNCHANGED <<cache, wq>>
     \/ LET old == cache[inHand.key] IN
        /\ cache' = [cache EXCEPT ![inHand.key] = inHand.obj]
        /\ IF SameGeneration(inHand, old)
           THEN UNCHANGED wq
           ELSE /\ Exists(old) => FreeOlds # {}
                /\ Add([key |-> inHand.key, type |-> inHand.type,
                        old |-> IF Exists(old) THEN FreshOld ELSE 0])
                /\ UNCHANGED <<waiting, failures>>
  /\ UNCHANGED <<api, env, watching, stream, listed, echoKeys, pc, job, history>>

\* doResync: the listing is taken once and walked object by object.
ResyncList ==
  /\ Resync
  /\ \A k \in Keys : ~Exists(listed[k])
  /\ listed' = store
  /\ UNCHANGED <<api, env, conn, cache, echoKeys, wq, pc, job, history>>

ResyncStore(k) ==
  /\ Exists(listed[k])
  /\ listed' = [listed EXCEPT ![k] = NoObj]
  /\ \/ /\ Filtered
        /\ UNCHANGED <<cache, wq>>
     \/ /\ cache' = [cache EXCEPT ![k] = listed[k]]
        /\ Add([key |-> k, type |-> "ADDED", old |-> 0])
        /\ UNCHANGED <<waiting, failures>>
  /\ UNCHANGED <<api, env, conn, echoKeys, pc, job, history>>

\* doWatchOwned, doWatchDynamicChild and doWatchRelated: an event of another kind
\* re-queues the key of its owner, or one its map_func names, whether or not the
\* watched kind has an object of that key.
SecondaryEvent(k) ==
  /\ Secondary
  /\ Add([key |-> k, type |-> "MODIFIED", old |-> 0])
  /\ UNCHANGED <<api, env, conn, listed, cache, echoKeys, waiting, failures, pc, job, history>>

-----------------------------------------------------------------------------
(* Workers: processNextItem, dispatch and what they call.  Every request to the *)
(* API server, every section under a lock and every handler call is a step.   *)

WorkerFrame == <<env, watching, inHand, listed>>

Goto(w, step) == pc' = [pc EXCEPT ![w] = step]
Key(w)        == job[w].item.key
Removal(w)    == job[w].item.type = "DELETED"

\* queue.Get
Get(w) ==
  /\ pc[w] = "idle" /\ queue # <<>>
  /\ queue' = Tail(queue) /\ dirty' = dirty \ {Head(queue)}
  /\ job' = [job EXCEPT ![w].item = Head(queue)]
  /\ Goto(w, "read")
  /\ UNCHANGED <<api, stream, WorkerFrame, cache, echoKeys, waiting, failures, history>>

\* Where dispatch goes with the object it found.
Body(item) == IF item.type = "DELETED" THEN "purge" ELSE "handler"
Route(item, o) ==
  CASE "finalize" \notin Handlers -> Body(item)
    [] "finalize" \in Handlers /\ o.del  -> IF o.fin THEN "finalize" ELSE "finish"
    [] "finalize" \in Handlers /\ ~o.del -> IF o.fin THEN Body(item) ELSE "addFin"

Dispatch(w, o) ==
  /\ job' = [job EXCEPT ![w].obj = o, ![w].seen = o, ![w].deleting = o.del,
                        ![w].res = IF Route(job[w].item, o) = "finish" THEN "skip" ELSE "none"]
  /\ Goto(w, Route(job[w].item, o))

Skip(w) ==
  /\ job' = [job EXCEPT ![w].res = "skip"]
  /\ Goto(w, "finish")

\* The cache lookup under cacheMu.
ReadCache(w) ==
  /\ pc[w] = "read"
  /\ CASE Exists(cache[Key(w)])                -> Dispatch(w, cache[Key(w)])
       [] ~Exists(cache[Key(w)]) /\ Removal(w)  -> Skip(w)
       [] ~Exists(cache[Key(w)]) /\ ~Removal(w) -> Goto(w, "fetch") /\ UNCHANGED job
  /\ UNCHANGED <<api, stream, WorkerFrame, cache, echoKeys, wq, history>>

\* A live Get on a cache miss; any error reads as "object gone".
Fetch(w) ==
  /\ pc[w] = "fetch"
  /\ \/ Exists(store[Key(w)]) /\ Dispatch(w, store[Key(w)])
     \/ (~Exists(store[Key(w)]) \/ ApiFaults) /\ Skip(w)
  /\ UNCHANGED <<api, stream, WorkerFrame, cache, echoKeys, wq, history>>

\* The outcomes of a write request: its reply goes on to RecordSelfEcho and the
\* cache, then to `next`; an error, or a reply that is lost, ends the request.
Replied(w, o, next) ==
  /\ job' = [job EXCEPT ![w].reply = o, ![w].next = next]
  /\ Goto(w, "echo")
Failed(w, res) ==
  /\ job' = [job EXCEPT ![w].res = res]
  /\ Goto(w, "finish")

Unsent == ApiFaults \/ ~CanCommit

\* A write of `o` by worker w, answered with `reply` or with a lost reply.
Write(w, type, o, reply, next, res) ==
  /\ Commit(Key(w), type, o)
  /\ \/ Replied(w, reply, next)
     \/ ApiFaults /\ Failed(w, res)

RequestFrame == UNCHANGED <<WorkerFrame, cache, echoKeys, wq, history>>

\* addFinalizer: a merge patch without a resource version, addressed by name.  The
\* server refuses a new finalizer on an object that is being deleted.
AddFinalizer(w) ==
  LET cur == store[Key(w)] IN
  /\ pc[w] = "addFin"
  /\ \/ /\ Exists(cur) /\ ~cur.fin /\ ~cur.del
        /\ Write(w, "MODIFIED", [cur EXCEPT !.fin = TRUE],
                 [cur EXCEPT !.fin = TRUE, !.rv = lastRV + 1], Body(job[w].item), "err")
     \/ /\ Exists(cur) /\ cur.fin
        /\ Replied(w, cur, Body(job[w].item))
        /\ UNCHANGED <<api, stream>>
     \/ /\ ~Exists(cur) \/ (cur.del /\ ~cur.fin) \/ Unsent
        /\ Failed(w, "err")
        /\ UNCHANGED <<api, stream>>
  /\ RequestFrame

\* removeFinalizer.  Emptying the finalizers of an object marked for deletion
\* removes it: the reply is the object as patched, under its old version, while the
\* DELETED event carries the version last stored (KeepsFinalizer) or the patched one.
StripFinalizer(w) ==
  LET cur == store[Key(w)]
      bare == [cur EXCEPT !.fin = FALSE]
  IN
  /\ pc[w] = "stripFin"
  /\ \/ /\ cur.fin /\ cur.del
        /\ Write(w, "DELETED", IF KeepsFinalizer THEN cur ELSE bare, bare, "finish", "err")
     \/ /\ cur.fin /\ ~cur.del
        /\ Write(w, "MODIFIED", bare, [bare EXCEPT !.rv = lastRV + 1], "finish", "err")
     \/ /\ Exists(cur) /\ ~cur.fin
        /\ Replied(w, cur, "finish")
        /\ UNCHANGED <<api, stream>>
     \/ /\ ~Exists(cur) \/ Unsent
        /\ Failed(w, "err")
        /\ UNCHANGED <<api, stream>>
  /\ RequestFrame

\* observedGeneration is the generation of the copy the worker holds.
ObservedGeneration(w) == job[w].obj.gen

\* Mutant: the transition time is always the time of the update.
FreshTransitionTime(new, cur) == FALSE

\* lastTransitionTime is kept while the status stays, so that repeating a status
\* repeats it exactly.
SameStatus(new, cur) == new = cur

\* updateReadyCondition: an UpdateStatus under the resource version and uid of the
\* worker's copy.  Every error is swallowed; an unchanged status is no new version.
UpdateReadyCondition(w) ==
  LET cur  == store[Key(w)]
      mine == job[w].obj
      new  == [cur EXCEPT !.ready = IF job[w].res \in {"ok", "later"} THEN "true" ELSE "false",
                          !.obs = ObservedGeneration(w)]
      accepted == StatusSubresource /\ Exists(cur) /\ cur.rv = mine.rv /\ cur.uid = mine.uid
  IN
  /\ pc[w] = "status"
  /\ \/ /\ accepted /\ ~SameStatus(new, cur)
        /\ Write(w, "MODIFIED", new, [new EXCEPT !.rv = lastRV + 1], "finish", job[w].res)
     \/ /\ accepted /\ SameStatus(new, cur)
        /\ Replied(w, cur, "finish")
        /\ UNCHANGED <<api, stream>>
     \/ /\ ~accepted \/ Unsent
        /\ Failed(w, job[w].res)
        /\ UNCHANGED <<api, stream>>
  /\ RequestFrame

\* RecordSelfEcho: also sweeps keys older than a minute, whichever those are.
RecordSelfEcho(w) ==
  /\ pc[w] = "echo"
  /\ \E old \in SUBSET echoKeys : echoKeys' = (echoKeys \ old) \union {job[w].reply.rv}
  /\ Goto(w, "store")
  /\ UNCHANGED <<api, stream, WorkerFrame, cache, wq, job, history>>

\* Mutant: addFinalizer's caller keeps the AttrDict made before the patch.
StoreReplyStaleDict(w) ==
  /\ pc[w] = "store"
  /\ cache' = [cache EXCEPT ![Key(w)] = job[w].reply]
  /\ job' = [job EXCEPT ![w].obj = job[w].reply]
  /\ Goto(w, job[w].next)
  /\ UNCHANGED <<api, stream, WorkerFrame, echoKeys, wq, history>>

\* The reply replaces the cache entry and the worker's copy; addFinalizer's caller
\* makes the AttrDict anew from it.
StoreReply(w) ==
  /\ pc[w] = "store"
  /\ cache' = [cache EXCEPT ![Key(w)] = job[w].reply]
  /\ job' = [job EXCEPT ![w].obj = job[w].reply, ![w].seen = job[w].reply]
  /\ Goto(w, job[w].next)
  /\ UNCHANGED <<api, stream, WorkerFrame, echoKeys, wq, history>>

\* A removal leaves the cache before its handler runs.
PurgeCache(w) ==
  /\ pc[w] = "purge"
  /\ cache' = [cache EXCEPT ![Key(w)] = NoObj]
  /\ Goto(w, "handler")
  /\ UNCHANGED <<api, stream, WorkerFrame, echoKeys, wq, job, history>>

\* The handler an event type selects.
HasHandler(type) ==
  \/ "reconcile" \in Handlers
  \/ type = "ADDED"    /\ "on_create" \in Handlers
  \/ type = "MODIFIED" /\ "on_update" \in Handlers
  \/ type = "DELETED"  /\ "on_delete" \in Handlers

InfersReady == Handlers \cap {"reconcile", "on_create", "on_update"} # {}

\* The switch of dispatch and what follows it up to the status update; "later" is a
\* handler that returns a requeue delay.
CallHandler(w) ==
  /\ pc[w] = "handler"
  /\ \E r \in IF HasHandler(job[w].item.type) THEN Outcomes ELSE {"ok"} :
       /\ job' = [job EXCEPT ![w].res = r]
       /\ Goto(w, IF ~job[w].deleting /\ (r = "err" \/ InfersReady) THEN "status" ELSE "finish")
       /\ waiting' = IF r = "later" /\ ~Removal(w) /\ ~job[w].deleting
                     THEN waiting \union {job[w].item} ELSE waiting
       /\ handled' = IF r = "err" \/ ~HasHandler(job[w].item.type) THEN handled
                     ELSE handled \union {<<job[w].seen.uid, job[w].seen.gen, Removal(w)>>}
  /\ UNCHANGED <<api, stream, WorkerFrame, cache, echoKeys, queue, dirty, failures,
                 abandoned, finalized>>

\* Mutant: the error of finalize is logged and not returned.
CallFinalizeLogsError(w) ==
  /\ pc[w] = "finalize"
  /\ job' = [job EXCEPT ![w].res = "skip"]
  /\ Goto(w, "stripFin")
  /\ finalized' \in {finalized, finalized \union {<<Key(w), job[w].obj.uid>>}}
  /\ UNCHANGED <<api, stream, WorkerFrame, cache, echoKeys, wq, handled, abandoned>>

\* callFinalize: a failure goes on to the Ready condition, a success to the patch.
CallFinalize(w) ==
  /\ pc[w] = "finalize"
  /\ \/ /\ "err" \in Outcomes
        /\ job' = [job EXCEPT ![w].res = "err"]
        /\ Goto(w, "status")
        /\ UNCHANGED finalized
     \/ /\ job' = [job EXCEPT ![w].res = "skip"]
        /\ Goto(w, "stripFin")
        /\ finalized' = finalized \union {<<Key(w), job[w].obj.uid>>}
  /\ UNCHANGED <<api, stream, WorkerFrame, cache, echoKeys, wq, handled, abandoned>>

\* Mutant: an off-by-one in the retry cap.
CanRetryOnceMore(item) == failures[item] <= MaxRetries

\* NumRequeues against max_retries.
CanRetry(item) == failures[item] < MaxRetries

\* Mutant: the item is forgotten before it is added again.
ForgottenFirst(item, again) == 0

\* AddRateLimited counts a failure, Forget clears the count.
FailuresAfter(item, again) == IF again THEN failures[item] + 1 ELSE 0

\* The end of dispatch (poll) and of processNextItem: retry, drop or Forget, then Done.
Finish(w) ==
  LET item  == job[w].item
      again == job[w].res = "err" /\ CanRetry(item)
      polls == Poll /\ job[w].res = "ok" /\ ~Removal(w) /\ ~job[w].deleting
  IN
  /\ pc[w] = "finish"
  /\ failures' = [failures EXCEPT ![item] = FailuresAfter(item, again)]
  /\ waiting' = IF again \/ polls THEN waiting \union {item} ELSE waiting
  /\ queue' = IF item \in dirty THEN Append(queue, item) ELSE queue
  /\ abandoned' = IF job[w].res = "err" /\ ~again
                  THEN abandoned \union {<<job[w].obj.uid, job[w].obj.gen>>} ELSE abandoned
  /\ job' = [job EXCEPT ![w] = IdleJob]
  /\ Goto(w, "idle")
  /\ UNCHANGED <<api, stream, WorkerFrame, cache, echoKeys, dirty, handled, finalized>>

\* The process dies and is started again with nothing but the API server's state.
Crash ==
  /\ faults < MaxFaults
  /\ faults' = faults + 1
  /\ watching' = FALSE /\ stream' = <<>> /\ inHand' = NoEvent
  /\ listed' = [k \in Keys |-> NoObj]
  /\ cache' = [k \in Keys |-> NoObj] /\ echoKeys' = {}
  /\ queue' = <<>> /\ dirty' = {} /\ waiting' = {} /\ failures' = [i \in Item |-> 0]
  /\ pc' = [w \in Workers |-> "idle"] /\ job' = [w \in Workers |-> IdleJob]
  /\ UNCHANGED <<api, userOps, handled, abandoned, finalized>>

-----------------------------------------------------------------------------
UserStep == \E k \in Keys : UserCreate(k) \/ UserEdit(k) \/ UserTouch(k) \/ UserDelete(k)
WatchStep  == WatchOpen \/ WatchReceive \/ WatchStore
ResyncStep == ResyncList \/ \E k \in Keys : ResyncStore(k)
ChildStep  == \E k \in Keys : SecondaryEvent(k)
WorkerStep(w) ==
  \/ Get(w) \/ ReadCache(w) \/ Fetch(w) \/ AddFinalizer(w) \/ StripFinalizer(w)
  \/ UpdateReadyCondition(w) \/ RecordSelfEcho(w) \/ StoreReply(w) \/ PurgeCache(w)
  \/ CallHandler(w) \/ CallFinalize(w) \/ Finish(w)

Next ==
  \/ UserStep \/ WatchClose \/ Crash \/ WatchStep \/ ResyncStep \/ ChildStep
  \/ \E i \in waiting : Timer(i)
  \/ \E w \in Workers : WorkerStep(w)

Spec == Init /\ [][Next]_vars

\* Goroutines run, timers fire and the watch reconnects; nothing is promised about
\* the users, the faults, other kinds or the resync ticker.
Fairness ==
  /\ WF_vars(WatchStep)
  /\ WF_vars(\E k \in Keys : ResyncStore(k))
  /\ \A i \in Item : WF_vars(Timer(i))
  /\ \A w \in Workers : WF_vars(WorkerStep(w))

FairSpec == Spec /\ Fairness

-----------------------------------------------------------------------------
(* Properties.                                                             *)

TypeOK ==
  /\ store \in [Keys -> Obj] /\ lastRV \in 0..MaxRV
  /\ userOps \in 0..MaxUserOps /\ faults \in 0..MaxFaults
  /\ watching \in BOOLEAN /\ stream \in Seq(Event) /\ inHand \in Event
  /\ listed \in [Keys -> Obj] /\ cache \in [Keys -> Obj] /\ echoKeys \subseteq Nat
  /\ queue \in Seq(Item) /\ dirty \subseteq Item /\ waiting \subseteq Item
  /\ failures \in [Item -> 0..MaxRetries]
  /\ pc \in [Workers -> Steps] /\ job \in [Workers -> Job]
  /\ handled \subseteq Nat \X Nat \X BOOLEAN /\ abandoned \subseteq Nat \X Nat
  /\ finalized \subseteq Keys \X Nat

\* The server never shows Ready=True for a generation no handler call accepted:
\* what updateReadyCondition stamps is what the handler was given, however many
\* writes, workers, replays and crashes fall between the two.
ReadyMeansHandled ==
  \A k \in Keys :
    store[k].ready = "true" =>
      \E removal \in BOOLEAN : <<store[k].uid, store[k].obs, removal>> \in handled

\* dispatch is working on generation g of object uid, or will be retried for it.
Attending(w, o) ==
  /\ pc[w] # "idle" /\ job[w].item.key = o.key
  /\ \/ pc[w] \in {"read", "fetch"}
     \/ job[w].obj.uid = o.uid /\ job[w].obj.gen = o.gen /\ job[w].res \in {"none", "err"}
     \/ job[w].res = "err" /\ CanRetry(job[w].item)

\* Event-driven queueing forgets nothing the cache has seen: as long as the cache
\* holds a live generation that no handler accepted and that was not given up on,
\* some queued, delayed or running item will look at that key again.
NoGenerationForgotten ==
  \A k \in Keys :
    LET o == cache[k] IN
    Exists(o) /\ ~o.del =>
      \/ <<o.uid, o.gen, FALSE>> \in handled \/ <<o.uid, o.gen>> \in abandoned
      \/ \E i \in dirty \union waiting : i.key = k
      \/ \E w \in Workers : Attending(w, [key |-> k, uid |-> o.uid, gen |-> o.gen])

LosesFinalizer(k) == store[k].fin /\ ~(store'[k].fin /\ store'[k].uid = store[k].uid)

\* The controller takes its finalizer off an object only after finalize() returned cleanly
\* ("removed once `finalize()` returns cleanly", docs/infra/k8s-controllers.md:148) for that
\* object or, where a name was used again, for an earlier object of the name:
\* removeFinalizer patches by name.
FinalizedUnlessReused ==
  [][\A k \in Keys : LosesFinalizer(k) =>
       \E f \in finalized : f[1] = k /\ f[2] <= store[k].uid]_vars

\* Every live object's current generation is in the end handled or given up on.
Settled(o) == <<o.uid, o.gen, FALSE>> \in handled \/ <<o.uid, o.gen>> \in abandoned
EventuallySettled ==
  \A k \in Keys : <>[](Exists(store[k]) /\ ~store[k].del => Settled(store[k]))

\* When the users stop, so does the controller: own writes and retries die out.
Quiescent == queue = <<>> /\ waiting = {} /\ \A w \in Workers : pc[w] = "idle"
Quiesces  == <>[]Quiescent

\* Loop immunity: with handlers that succeed the controller writes at most once for
\* every write of a user, whatever polls, resyncs and unsuppressed echoes re-run.
OwnWritesBounded == lastRV <= 2 * userOps
=============================================================================
