------------------------ MODULE K8sControllerProofs ------------------------
(* What holds of K8sController for all values of its constants. *)
EXTENDS K8sController, FiniteSetTheorems, SequenceTheorems, TLAPS

LEMMA Bounds ==
  /\ MaxRetries \in Nat /\ MaxUserOps \in Nat /\ MaxFaults \in Nat
  /\ MaxRV \in Nat /\ MaxOld \in Nat
  BY ConstantsAssumption

LEMMA NoObjType == NoObj \in Obj /\ AnyKey \in Keys /\ NoEvent \in Event
  BY ConstantsAssumption DEF NoObj, Obj, AnyKey, NoEvent, Event, EventTypes

LEMMA IdleJobType == IdleJob \in Job
  BY NoObjType, Bounds DEF IdleJob, Job, Item, EventTypes, Steps, AfterReply

LEMMA RVUpdate ==
  ASSUME NEW o \in Obj, NEW n \in Nat PROVE [o EXCEPT !.rv = n] \in Obj
  BY DEF Obj

LEMMA Created ==
  ASSUME NEW n \in Nat PROVE [NoObj EXCEPT !.uid = n, !.gen = 1] \in Obj
  BY NoObjType DEF Obj

LEMMA GenUpdate ==
  ASSUME NEW o \in Obj PROVE [o EXCEPT !.gen = o.gen + 1] \in Obj
  BY DEF Obj

LEMMA DelUpdate ==
  ASSUME NEW o \in Obj PROVE [o EXCEPT !.del = TRUE, !.gen = o.gen + 1] \in Obj
<1>1. [o EXCEPT !.del = TRUE, !.gen = o.gen + 1]
        = [[o EXCEPT !.gen = o.gen + 1] EXCEPT !.del = TRUE]
  BY DEF Obj
<1>2. ASSUME NEW p \in Obj PROVE [p EXCEPT !.del = TRUE] \in Obj
  BY DEF Obj
<1> QED BY <1>1, <1>2, GenUpdate

LEMMA FinUpdate ==
  ASSUME NEW o \in Obj, NEW b \in BOOLEAN
  PROVE  [o EXCEPT !.fin = b] \in Obj
  BY DEF Obj

LEMMA FinRVUpdate ==
  ASSUME NEW o \in Obj, NEW b \in BOOLEAN, NEW n \in Nat
  PROVE  [o EXCEPT !.fin = b, !.rv = n] \in Obj
  BY DEF Obj

LEMMA ReadyUpdate ==
  ASSUME NEW o \in Obj, NEW n \in Nat, NEW r \in {"none", "true", "false"}
  PROVE  [o EXCEPT !.ready = r, !.obs = n] \in Obj
  BY DEF Obj

LEMMA TypeInit == Init => TypeOK
<1> SUFFICES ASSUME Init PROVE TypeOK
  OBVIOUS
<1>1. /\ store \in [Keys -> Obj] /\ listed \in [Keys -> Obj] /\ cache \in [Keys -> Obj]
      /\ inHand \in Event /\ job \in [Workers -> Job]
  BY NoObjType, IdleJobType DEF Init
<1>2. pc \in [Workers -> Steps]
  BY DEF Init, Steps
<1>3. /\ lastRV \in 0..MaxRV /\ userOps \in 0..MaxUserOps /\ faults \in 0..MaxFaults
      /\ failures \in [Item -> 0..MaxRetries]
  BY Bounds DEF Init
<1>4. stream \in Seq(Event) /\ queue \in Seq(Item)
  BY DEF Init
<1> QED BY <1>1, <1>2, <1>3, <1>4 DEF Init, TypeOK

LEMMA CommitType ==
  ASSUME TypeOK, NEW k \in Keys, NEW type \in EventTypes, NEW o \in Obj, Commit(k, type, o)
  PROVE  store' \in [Keys -> Obj] /\ lastRV' \in 0..MaxRV /\ stream' \in Seq(Event)
<1> DEFINE new == [o EXCEPT !.rv = lastRV + 1]
<1>1. new \in Obj
  <2>1. lastRV + 1 \in Nat
    BY Bounds DEF TypeOK
  <2> QED BY <2>1, RVUpdate
<1>2. lastRV' \in 0..MaxRV
  BY Bounds DEF TypeOK, Commit, CanCommit
<1>3. store' \in [Keys -> Obj]
  BY <1>1, NoObjType DEF TypeOK, Commit
<1>4. stream' \in Seq(Event)
  <2>1. [type |-> type, key |-> k, obj |-> new] \in Event
    BY <1>1 DEF Event
  <2> QED BY <2>1 DEF TypeOK, Commit
<1> QED BY <1>2, <1>3, <1>4

LEMMA UserType == ASSUME TypeOK, UserStep PROVE TypeOK'
<1>1. ASSUME NEW k \in Keys, NEW type \in EventTypes, NEW o \in Obj, UserWrite(k, type, o)
      PROVE  TypeOK'
  <2>1. store' \in [Keys -> Obj] /\ lastRV' \in 0..MaxRV /\ stream' \in Seq(Event)
    BY <1>1, CommitType DEF UserWrite
  <2>2. userOps' \in 0..MaxUserOps
    BY <1>1, Bounds DEF UserWrite, TypeOK
  <2> QED BY <2>1, <2>2, <1>1 DEF UserWrite, TypeOK, wq, history
<1>2. PICK k \in Keys : UserCreate(k) \/ UserEdit(k) \/ UserTouch(k) \/ UserDelete(k)
  BY DEF UserStep
<1>3. store[k] \in Obj /\ lastRV \in Nat
  BY Bounds DEF TypeOK
<1>4. CASE UserCreate(k)
  <2>1. [NoObj EXCEPT !.uid = lastRV + 1, !.gen = 1] \in Obj
    <3>1. lastRV + 1 \in Nat
      BY <1>3
    <3> QED BY <3>1, Created, Zenon
  <2> QED BY <1>1, <1>4, <2>1 DEF UserCreate, EventTypes
<1>5. CASE UserEdit(k)
  <2>1. [store[k] EXCEPT !.gen = store[k].gen + 1] \in Obj
    BY <1>3, GenUpdate
  <2> QED BY <1>1, <1>5, <2>1 DEF UserEdit, EventTypes
<1>6. CASE UserTouch(k)
  BY <1>1, <1>3, <1>6 DEF UserTouch, EventTypes
<1>7. CASE UserDelete(k)
  <2>1. [store[k] EXCEPT !.del = TRUE, !.gen = store[k].gen + 1] \in Obj
    BY <1>3, DelUpdate
  <2> QED BY <1>1, <1>3, <1>7, <2>1 DEF UserDelete, EventTypes
<1> QED BY <1>2, <1>4, <1>5, <1>6, <1>7


LEMMA AddType ==
  ASSUME TypeOK, NEW item \in Item, Add(item)
  PROVE  queue' \in Seq(Item) /\ dirty' \subseteq Item
<1>1. queue \in Seq(Item) /\ dirty \subseteq Item
  BY DEF TypeOK
<1>2. CASE item \in dirty
  BY <1>1, <1>2 DEF Add
<1>3. CASE item \notin dirty
  BY <1>1, <1>3 DEF Add
<1> QED BY <1>2, <1>3

LEMMA TimerType == ASSUME TypeOK, NEW i \in waiting, Timer(i) PROVE TypeOK'
<1>1. i \in Item
  BY DEF TypeOK
<1>2. queue' \in Seq(Item) /\ dirty' \subseteq Item /\ waiting' \subseteq Item
  BY <1>1, AddType DEF Timer, TypeOK
<1> QED BY <1>2 DEF Timer, TypeOK, api, env, conn, history

LEMMA WatchType == ASSUME TypeOK, WatchStep \/ WatchClose PROVE TypeOK'
<1>1. CASE WatchOpen
  <2> DEFINE live == {k \in Keys : Exists(store[k])}
  <2>1. PICK order \in [1..Cardinality(live) -> live] :
          stream' = [i \in DOMAIN order |->
                       [type |-> "ADDED", key |-> order[i], obj |-> store[order[i]]]]
    BY <1>1 DEF WatchOpen
  <2>2. Cardinality(live) \in Nat
    BY ConstantsAssumption, FS_Subset, FS_CardinalityType
  <2>3. DOMAIN order = 1..Cardinality(live)
    OBVIOUS
  <2>4. \A i \in DOMAIN order : order[i] \in Keys
    OBVIOUS
  <2>5. stream' \in Seq(Event)
    <3>1. ASSUME NEW i \in 1..Cardinality(live)
          PROVE  [type |-> "ADDED", key |-> order[i], obj |-> store[order[i]]] \in Event
      BY <2>3, <2>4 DEF Event, EventTypes, TypeOK
    <3>2. stream' \in [1..Cardinality(live) -> Event]
      BY <2>1, <2>3, <3>1
    <3>3. stream' \in UNION {[1..n -> Event] : n \in Nat}
      BY <2>2, <3>2, Zenon
    <3> QED BY <3>3, SeqDef, Zenon
  <2>6. /\ store' = store /\ lastRV' = lastRV /\ userOps' = userOps /\ faults' = faults
        /\ watching' = TRUE /\ inHand' = inHand /\ listed' = listed /\ cache' = cache
        /\ UNCHANGED <<echoKeys, wq, pc, job, history>>
    BY <1>1 DEF WatchOpen, api, env
  <2> QED BY <2>5, <2>6 DEF TypeOK, wq, history
<1>2. CASE WatchClose
  <2>1. faults' \in 0..MaxFaults
    BY <1>2, Bounds DEF WatchClose, TypeOK
  <2>2. stream' \in Seq(Event)
    BY <1>2 DEF WatchClose
  <2> QED BY <1>2, <2>1, <2>2 DEF WatchClose, TypeOK, api, wq, history
<1>3. CASE WatchReceive
  <2>1. Head(stream) \in Event /\ Tail(stream) \in Seq(Event)
    BY <1>3 DEF WatchReceive, TypeOK
  <2>2. inHand' \in Event /\ stream' \in Seq(Event) /\ echoKeys' \subseteq Nat
    BY <1>3, <2>1 DEF WatchReceive, TypeOK
  <2> QED BY <1>3, <2>2 DEF WatchReceive, TypeOK, api, env, wq, history
<1>4. CASE WatchStore
  <2>1. inHand' \in Event
    BY <1>4, NoObjType DEF WatchStore
  <2>2. inHand \in Event /\ inHand.key \in Keys /\ inHand.obj \in Obj /\ inHand.type \in EventTypes
    BY DEF TypeOK, Event
  <2>3. cache' \in [Keys -> Obj]
    BY <1>4, <2>2 DEF WatchStore, TypeOK
  <2>4. /\ queue' \in Seq(Item) /\ dirty' \subseteq Item
        /\ waiting' = waiting /\ failures' = failures
    <3>1. ASSUME ~UNCHANGED wq PROVE
            /\ Exists(cache[inHand.key]) => FreeOlds # {}
            /\ Add([key |-> inHand.key, type |-> inHand.type,
                    old |-> IF Exists(cache[inHand.key]) THEN FreshOld ELSE 0])
            /\ UNCHANGED <<waiting, failures>>
      BY <1>4, <3>1 DEF WatchStore
    <3>2. FreeOlds # {} => FreshOld \in 0..MaxOld
      BY Bounds DEF FreeOlds, FreshOld
    <3>3. ASSUME ~UNCHANGED wq
          PROVE  [key |-> inHand.key, type |-> inHand.type,
                  old |-> IF Exists(cache[inHand.key]) THEN FreshOld ELSE 0] \in Item
      BY <3>1, <3>2, <3>3, <2>2, Bounds DEF Item
    <3>4. CASE UNCHANGED wq
      BY <3>4 DEF wq, TypeOK
    <3>5. CASE ~UNCHANGED wq
      BY <3>1, <3>3, <3>5, AddType
    <3> QED BY <3>4, <3>5
  <2> QED BY <1>4, <2>1, <2>3, <2>4 DEF WatchStore, TypeOK, api, env, history
<1> QED BY <1>1, <1>2, <1>3, <1>4 DEF WatchStep

LEMMA ResyncType == ASSUME TypeOK, ResyncStep \/ ChildStep PROVE TypeOK'
<1>1. CASE ResyncList
  BY <1>1 DEF ResyncList, TypeOK, api, env, conn, wq, history
<1>2. ASSUME NEW k \in Keys, ResyncStore(k) PROVE TypeOK'
  <2>1. listed' \in [Keys -> Obj] /\ cache' \in [Keys -> Obj]
    BY <1>2, NoObjType DEF ResyncStore, TypeOK
  <2>2. [key |-> k, type |-> "ADDED", old |-> 0] \in Item
    BY Bounds DEF Item, EventTypes
  <2>3. /\ queue' \in Seq(Item) /\ dirty' \subseteq Item
        /\ waiting' = waiting /\ failures' = failures
    <3>1. CASE UNCHANGED wq
      BY <3>1 DEF wq, TypeOK
    <3>2. CASE ~UNCHANGED wq
      BY <1>2, <2>2, <3>2, AddType DEF ResyncStore
    <3> QED BY <3>1, <3>2
  <2> QED BY <1>2, <2>1, <2>3 DEF ResyncStore, TypeOK, api, env, conn, history
<1>3. ASSUME NEW k \in Keys, SecondaryEvent(k) PROVE TypeOK'
  <2>1. [key |-> k, type |-> "MODIFIED", old |-> 0] \in Item
    BY Bounds DEF Item, EventTypes
  <2>2. queue' \in Seq(Item) /\ dirty' \subseteq Item
    BY <1>3, <2>1, AddType DEF SecondaryEvent
  <2> QED BY <1>3, <2>2 DEF SecondaryEvent, TypeOK, api, env, conn, history
<1> QED BY <1>1, <1>2, <1>3 DEF ResyncStep, ChildStep

-----------------------------------------------------------------------------
(* A worker's steps change its job record by a few fields.                 *)

LEMMA JobFields ==
  ASSUME TypeOK, NEW w \in Workers
  PROVE  /\ job[w] \in Job /\ job[w].item \in Item /\ job[w].obj \in Obj /\ job[w].seen \in Obj
         /\ job[w].reply \in Obj /\ job[w].next \in AfterReply /\ job[w].deleting \in BOOLEAN
         /\ job[w].res \in {"none", "ok", "err", "later", "skip"}
         /\ Key(w) \in Keys /\ job[w].item.type \in EventTypes
  BY DEF TypeOK, Job, Item, Key

LEMMA SetItem ==
  ASSUME TypeOK, NEW w \in Workers, NEW i \in Item
  PROVE  [job EXCEPT ![w].item = i] \in [Workers -> Job]
  BY DEF TypeOK, Job

LEMMA SetRes ==
  ASSUME TypeOK, NEW w \in Workers, NEW r \in {"none", "ok", "err", "later", "skip"}
  PROVE  [job EXCEPT ![w].res = r] \in [Workers -> Job]
  BY DEF TypeOK, Job

LEMMA SetReply ==
  ASSUME TypeOK, NEW w \in Workers, NEW o \in Obj, NEW s \in AfterReply
  PROVE  [job EXCEPT ![w].reply = o, ![w].next = s] \in [Workers -> Job]
  BY DEF TypeOK, Job

LEMMA SetObj ==
  ASSUME TypeOK, NEW w \in Workers, NEW o \in Obj
  PROVE  [job EXCEPT ![w].obj = o, ![w].seen = o] \in [Workers -> Job]
  BY DEF TypeOK, Job

LEMMA SetDispatch ==
  ASSUME TypeOK, NEW w \in Workers, NEW o \in Obj, NEW d \in BOOLEAN,
         NEW r \in {"none", "ok", "err", "later", "skip"}
  PROVE  [job EXCEPT ![w].obj = o, ![w].seen = o, ![w].deleting = d, ![w].res = r]
           \in [Workers -> Job]
<1> DEFINE j == [job[w] EXCEPT !.obj = o, !.seen = o, !.deleting = d, !.res = r]
<1>1. j \in Job
  <2>1. job[w] \in Job
    BY DEF TypeOK
  <2> QED BY <2>1 DEF Job
<1>2. [job EXCEPT ![w].obj = o, ![w].seen = o, ![w].deleting = d, ![w].res = r]
        = [job EXCEPT ![w] = j]
  BY DEF TypeOK
<1> QED BY <1>1, <1>2 DEF TypeOK

LEMMA GotoType ==
  ASSUME TypeOK, NEW w \in Workers, NEW s \in Steps, Goto(w, s)
  PROVE  pc' \in [Workers -> Steps]
  BY DEF TypeOK, Goto

LEMMA RouteType ==
  ASSUME NEW i, NEW o \in Obj
  PROVE  Route(i, o) \in Steps /\ Body(i) \in AfterReply
  BY DEF Route, Body, Steps, AfterReply, Obj

LEMMA DispatchType ==
  ASSUME TypeOK, NEW w \in Workers, NEW o \in Obj, Dispatch(w, o) \/ Skip(w)
  PROVE  pc' \in [Workers -> Steps] /\ job' \in [Workers -> Job]
<1>1. CASE Dispatch(w, o)
  <2>1. o.del \in BOOLEAN
    BY DEF Obj
  <2>2. job' \in [Workers -> Job]
    BY <1>1, <2>1, SetDispatch DEF Dispatch
  <2> QED BY <1>1, <2>2, RouteType, GotoType DEF Dispatch
<1>2. CASE Skip(w)
  BY <1>2, SetRes, GotoType DEF Skip, Steps
<1> QED BY <1>1, <1>2


LEMMA RepliedType ==
  ASSUME TypeOK, NEW w \in Workers, NEW o \in Obj, NEW s \in AfterReply,
         NEW r \in {"none", "ok", "err", "later", "skip"},
         Replied(w, o, s) \/ Failed(w, r)
  PROVE  pc' \in [Workers -> Steps] /\ job' \in [Workers -> Job]
<1>1. CASE Replied(w, o, s)
  BY <1>1, SetReply, GotoType DEF Replied, Steps
<1>2. CASE Failed(w, r)
  BY <1>2, SetRes, GotoType DEF Failed, Steps
<1> QED BY <1>1, <1>2

\* What a request may change keeps its type.
RequestOK ==
  /\ store' \in [Keys -> Obj] /\ lastRV' \in 0..MaxRV /\ stream' \in Seq(Event)
  /\ pc' \in [Workers -> Steps] /\ job' \in [Workers -> Job]

LEMMA WriteType ==
  ASSUME TypeOK, NEW w \in Workers, NEW type \in EventTypes, NEW o \in Obj, NEW p \in Obj,
         NEW s \in AfterReply, NEW r \in {"none", "ok", "err", "later", "skip"},
         Write(w, type, o, p, s, r)
  PROVE  RequestOK
<1>1. store' \in [Keys -> Obj] /\ lastRV' \in 0..MaxRV /\ stream' \in Seq(Event)
  BY JobFields, CommitType DEF Write
<1>2. pc' \in [Workers -> Steps] /\ job' \in [Workers -> Job]
  BY RepliedType DEF Write
<1> QED BY <1>1, <1>2 DEF RequestOK

LEMMA RefusedType ==
  ASSUME TypeOK, NEW w \in Workers, NEW o \in Obj, NEW s \in AfterReply,
         NEW r \in {"none", "ok", "err", "later", "skip"},
         Replied(w, o, s) \/ Failed(w, r), UNCHANGED <<api, stream>>
  PROVE  RequestOK
<1>1. pc' \in [Workers -> Steps] /\ job' \in [Workers -> Job]
  BY RepliedType
<1> QED BY <1>1 DEF RequestOK, TypeOK, api

LEMMA RequestFrameType ==
  ASSUME TypeOK, RequestOK, RequestFrame PROVE TypeOK'
  BY DEF TypeOK, RequestOK, RequestFrame, WorkerFrame, env, wq, history

\* The object a request is about is an object, and the next version is a number.
LEMMA StoredType ==
  ASSUME TypeOK, NEW w \in Workers PROVE store[Key(w)] \in Obj /\ lastRV + 1 \in Nat
<1>1. Key(w) \in Keys /\ store \in [Keys -> Obj]
  BY JobFields DEF TypeOK
<1>2. lastRV \in 0..MaxRV /\ MaxRV \in Nat
  BY Bounds DEF TypeOK
<1>3. lastRV + 1 \in Nat
  BY <1>2
<1> QED BY <1>1, <1>3

LEMMA AddFinalizerType ==
  ASSUME TypeOK, NEW w \in Workers, AddFinalizer(w) PROVE TypeOK'
<1> DEFINE cur == store[Key(w)]
           fin == [cur EXCEPT !.fin = TRUE]
           rep == [cur EXCEPT !.fin = TRUE, !.rv = lastRV + 1]
           nxt == Body(job[w].item)
<1>1. cur \in Obj /\ fin \in Obj /\ rep \in Obj /\ nxt \in AfterReply
  <2>1. cur \in Obj /\ lastRV + 1 \in Nat
    BY StoredType
  <2> QED BY <2>1, FinUpdate, FinRVUpdate, RouteType
<1>2. RequestFrame
  BY DEF AddFinalizer
<1>3. CASE Write(w, "MODIFIED", fin, rep, nxt, "err")
  BY <1>1, <1>2, <1>3, WriteType, RequestFrameType DEF EventTypes
<1>4. CASE (Replied(w, cur, nxt) \/ Failed(w, "err")) /\ UNCHANGED <<api, stream>>
  BY <1>1, <1>2, <1>4, RefusedType, RequestFrameType
<1> QED BY <1>3, <1>4 DEF AddFinalizer

LEMMA StripFinalizerType ==
  ASSUME TypeOK, NEW w \in Workers, StripFinalizer(w) PROVE TypeOK'
<1> DEFINE cur  == store[Key(w)]
           bare == [cur EXCEPT !.fin = FALSE]
           last == IF KeepsFinalizer THEN cur ELSE bare
           rep  == [bare EXCEPT !.rv = lastRV + 1]
<1>1. cur \in Obj /\ bare \in Obj /\ last \in Obj /\ rep \in Obj
  <2>1. cur \in Obj /\ lastRV + 1 \in Nat
    BY StoredType
  <2>2. bare \in Obj
    BY <2>1, FinUpdate
  <2> QED BY <2>1, <2>2, RVUpdate
<1> "finish" \in AfterReply
  BY DEF AfterReply
<1>2. RequestFrame
  BY DEF StripFinalizer
<1>3. CASE Write(w, "DELETED", last, bare, "finish", "err")
  BY <1>1, <1>2, <1>3, WriteType, RequestFrameType DEF EventTypes
<1>4. CASE Write(w, "MODIFIED", bare, rep, "finish", "err")
  BY <1>1, <1>2, <1>4, WriteType, RequestFrameType DEF EventTypes
<1>5. CASE (Replied(w, cur, "finish") \/ Failed(w, "err")) /\ UNCHANGED <<api, stream>>
  BY <1>1, <1>2, <1>5, RefusedType, RequestFrameType
<1> QED BY <1>3, <1>4, <1>5 DEF StripFinalizer

LEMMA UpdateReadyConditionType ==
  ASSUME TypeOK, NEW w \in Workers, UpdateReadyCondition(w) PROVE TypeOK'
<1> DEFINE cur == store[Key(w)]
           rdy == IF job[w].res \in {"ok", "later"} THEN "true" ELSE "false"
           new == [cur EXCEPT !.ready = rdy, !.obs = ObservedGeneration(w)]
           rep == [new EXCEPT !.rv = lastRV + 1]
           res == job[w].res
<1>1. cur \in Obj /\ new \in Obj /\ rep \in Obj /\ res \in {"none", "ok", "err", "later", "skip"}
  <2>1. cur \in Obj /\ lastRV + 1 \in Nat
    BY StoredType
  <2>2. ObservedGeneration(w) \in Nat
    <3>1. job[w].obj \in Obj
      BY JobFields
    <3> QED BY <3>1 DEF ObservedGeneration, Obj
  <2>3. new \in Obj
    BY <2>1, <2>2, ReadyUpdate
  <2> QED BY <2>1, <2>3, RVUpdate, JobFields
<1> "finish" \in AfterReply
  BY DEF AfterReply
<1>2. RequestFrame
  BY DEF UpdateReadyCondition
<1>3. CASE Write(w, "MODIFIED", new, rep, "finish", res)
  BY <1>1, <1>2, <1>3, WriteType, RequestFrameType DEF EventTypes
<1>4. CASE (Replied(w, cur, "finish") \/ Failed(w, res)) /\ UNCHANGED <<api, stream>>
  BY <1>1, <1>2, <1>4, RefusedType, RequestFrameType
<1> QED BY <1>3, <1>4 DEF UpdateReadyCondition


\* The remaining steps of a worker, each touching its own part of the state.
LEMMA WorkerType ==
  ASSUME TypeOK, NEW w \in Workers, WorkerStep(w) PROVE TypeOK'
<1> USE DEF WorkerFrame
<1> "finish" \in Steps /\ "read" \in Steps /\ "fetch" \in Steps /\ "store" \in Steps
      /\ "handler" \in Steps /\ "status" \in Steps /\ "stripFin" \in Steps /\ "idle" \in Steps
  BY DEF Steps
<1>1. CASE Get(w)
  <2>1. Head(queue) \in Item /\ Tail(queue) \in Seq(Item)
    BY <1>1 DEF Get, TypeOK
  <2>2. job' \in [Workers -> Job] /\ pc' \in [Workers -> Steps]
    BY <1>1, <2>1, SetItem, GotoType DEF Get
  <2> QED BY <1>1, <2>1, <2>2 DEF Get, TypeOK, api, env, history
<1>2. CASE ReadCache(w)
  <2>1. cache[Key(w)] \in Obj
    BY JobFields DEF TypeOK
  <2>2. CASE Goto(w, "fetch") /\ UNCHANGED job
    BY <1>2, <2>2, GotoType DEF ReadCache, TypeOK, api, env, wq, history
  <2>3. CASE Dispatch(w, cache[Key(w)]) \/ Skip(w)
    <3>1. job' \in [Workers -> Job] /\ pc' \in [Workers -> Steps]
      BY <2>1, <2>3, DispatchType
    <3> QED BY <1>2, <3>1 DEF ReadCache, TypeOK, api, env, wq, history
  <2> QED BY <1>2, <2>2, <2>3 DEF ReadCache
<1>3. CASE Fetch(w)
  <2>1. store[Key(w)] \in Obj
    BY JobFields DEF TypeOK
  <2>2. job' \in [Workers -> Job] /\ pc' \in [Workers -> Steps]
    BY <1>3, <2>1, DispatchType DEF Fetch
  <2> QED BY <1>3, <2>2 DEF Fetch, TypeOK, api, env, wq, history
<1>4. CASE AddFinalizer(w)
  BY <1>4, AddFinalizerType
<1>5. CASE StripFinalizer(w)
  BY <1>5, StripFinalizerType
<1>6. CASE UpdateReadyCondition(w)
  BY <1>6, UpdateReadyConditionType
<1>7. CASE RecordSelfEcho(w)
  <2>1. job[w].reply.rv \in Nat
    BY JobFields DEF Obj
  <2>2. echoKeys' \subseteq Nat
    BY <1>7, <2>1 DEF RecordSelfEcho, TypeOK
  <2> QED BY <1>7, <2>2, GotoType DEF RecordSelfEcho, TypeOK, api, env, wq, history
<1>8. CASE StoreReply(w)
  <2>1. cache' \in [Keys -> Obj]
    BY <1>8, JobFields DEF StoreReply, TypeOK
  <2>2. job' \in [Workers -> Job] /\ pc' \in [Workers -> Steps]
    <3>1. job[w].next \in Steps /\ job[w].reply \in Obj
      BY JobFields DEF AfterReply, Steps
    <3> QED BY <1>8, <3>1, SetObj, GotoType DEF StoreReply
  <2> QED BY <1>8, <2>1, <2>2 DEF StoreReply, TypeOK, api, env, wq, history
<1>9. CASE PurgeCache(w)
  <2>1. cache' \in [Keys -> Obj]
    BY <1>9, NoObjType DEF PurgeCache, TypeOK
  <2> QED BY <1>9, <2>1, GotoType DEF PurgeCache, TypeOK, api, env, wq, history
<1>10. CASE CallHandler(w)
  <2>1. PICK r \in IF HasHandler(job[w].item.type) THEN Outcomes ELSE {"ok"} :
          /\ job' = [job EXCEPT ![w].res = r]
          /\ Goto(w, IF ~job[w].deleting /\ (r = "err" \/ InfersReady) THEN "status" ELSE "finish")
          /\ waiting' = waiting \/ waiting' = waiting \union {job[w].item}
          /\ handled' = handled
               \/ handled' = handled \union {<<job[w].seen.uid, job[w].seen.gen, Removal(w)>>}
    BY <1>10 DEF CallHandler
  <2>2. r \in {"none", "ok", "err", "later", "skip"}
    BY ConstantsAssumption
  <2>3. job' \in [Workers -> Job]
    BY <2>1, <2>2, SetRes
  <2>4. pc' \in [Workers -> Steps]
    BY <2>1, GotoType
  <2>5. job[w].item \in Item /\ job[w].seen.uid \in Nat /\ job[w].seen.gen \in Nat
    BY JobFields DEF Obj
  <2>6. handled' \subseteq Nat \X Nat \X BOOLEAN
    <3>1. Removal(w) \in BOOLEAN
      BY DEF Removal
    <3>2. <<job[w].seen.uid, job[w].seen.gen, Removal(w)>> \in Nat \X Nat \X BOOLEAN
      BY <2>5, <3>1
    <3>3. handled \subseteq Nat \X Nat \X BOOLEAN
      BY DEF TypeOK
    <3> QED BY <2>1, <3>2, <3>3
  <2>7. waiting' \subseteq Item
    BY <2>1, <2>5 DEF TypeOK
  <2> QED BY <1>10, <2>3, <2>4, <2>6, <2>7 DEF CallHandler, TypeOK, api, env
<1>11. CASE CallFinalize(w)
  <2>1. job[w].obj.uid \in Nat
    BY JobFields DEF Obj
  <2>2. job' \in [Workers -> Job] /\ pc' \in [Workers -> Steps]
    BY <1>11, SetRes, GotoType DEF CallFinalize
  <2>3. finalized' \subseteq Keys \X Nat
    BY <1>11, <2>1, JobFields DEF CallFinalize, TypeOK
  <2> QED BY <1>11, <2>2, <2>3 DEF CallFinalize, TypeOK, api, env, wq
<1>12. CASE Finish(w)
  <2> DEFINE item == job[w].item
             again == job[w].res = "err" /\ CanRetry(item)
  <2>1. item \in Item /\ job[w].obj.uid \in Nat /\ job[w].obj.gen \in Nat
    BY JobFields DEF Obj
  <2>2. FailuresAfter(item, again) \in 0..MaxRetries
    BY <2>1, Bounds DEF FailuresAfter, CanRetry, TypeOK
  <2>3. failures' \in [Item -> 0..MaxRetries]
    BY <1>12, <2>2 DEF Finish, TypeOK
  <2>4. waiting' \subseteq Item
    BY <1>12, <2>1 DEF Finish, TypeOK
  <2>5. queue' \in Seq(Item)
    BY <1>12, <2>1 DEF Finish, TypeOK
  <2>6. abandoned' \subseteq Nat \X Nat
    BY <1>12, <2>1 DEF Finish, TypeOK
  <2>7. job' \in [Workers -> Job] /\ pc' \in [Workers -> Steps]
    BY <1>12, IdleJobType, GotoType DEF Finish, TypeOK
  <2> QED BY <1>12, <2>3, <2>4, <2>5, <2>6, <2>7 DEF Finish, TypeOK, api, env
<1> QED
  BY <1>1, <1>2, <1>3, <1>4, <1>5, <1>6, <1>7, <1>8, <1>9, <1>10, <1>11, <1>12 DEF WorkerStep

LEMMA CrashType == ASSUME TypeOK, Crash PROVE TypeOK'
<1>1. /\ inHand' \in Event /\ listed' \in [Keys -> Obj] /\ cache' \in [Keys -> Obj]
      /\ job' \in [Workers -> Job] /\ pc' \in [Workers -> Steps]
  BY NoObjType, IdleJobType DEF Crash, Steps
<1>2. faults' \in 0..MaxFaults /\ failures' \in [Item -> 0..MaxRetries]
  BY Bounds DEF Crash, TypeOK
<1>3. stream' \in Seq(Event) /\ queue' \in Seq(Item)
  BY DEF Crash
<1> QED BY <1>1, <1>2, <1>3 DEF Crash, TypeOK, api

LEMMA TypeStep == TypeOK /\ [Next]_vars => TypeOK'
<1> SUFFICES ASSUME TypeOK, [Next]_vars PROVE TypeOK'
  OBVIOUS
<1>1. CASE UNCHANGED vars
  BY <1>1 DEF vars, TypeOK, api, env, conn, wq, history
<1> QED
  BY <1>1, UserType, WatchType, ResyncType, TimerType, WorkerType, CrashType DEF Next

\* Every variable keeps its type; in particular no item is ever re-queued more often
\* than max_retries allows, whatever races with Done, Forget and the delayed adds.
THEOREM TypeCorrect == Spec => []TypeOK
  BY TypeInit, TypeStep, PTL DEF Spec

-----------------------------------------------------------------------------
(* ReadyMeansHandled.  It is not inductive by itself: a worker about to update a *)
(* status must be known to hold an object a handler accepted, and the AttrDict    *)
(* the handler got must be known to show that object.                            *)

Accepted(uid, gen) == \E removal \in BOOLEAN : <<uid, gen, removal>> \in handled

StampsAccepted == \A k \in Keys : store[k].ready = "true" => Accepted(store[k].uid, store[k].obs)
DictIsObj      == \A w \in Workers : job[w].seen = job[w].obj
StatusEarned   == \A w \in Workers :
  pc[w] = "status" /\ job[w].res \in {"ok", "later"} => Accepted(job[w].obj.uid, job[w].obj.gen)

ReadyInv == TypeOK /\ StampsAccepted /\ DictIsObj /\ StatusEarned

LEMMA ReadyInit == Init => ReadyInv
<1> SUFFICES ASSUME Init PROVE ReadyInv
  OBVIOUS
<1>1. TypeOK
  BY TypeInit
<1>2. StampsAccepted
  BY DEF Init, StampsAccepted, NoObj
<1>3. DictIsObj
  BY DEF Init, DictIsObj, IdleJob
<1>4. StatusEarned
  BY DEF Init, StatusEarned
<1> QED BY <1>1, <1>2, <1>3, <1>4 DEF ReadyInv

\* A step that writes no status, moves no worker to its status update and changes no
\* worker's copies keeps the invariant.
LEMMA ReadyFrame ==
  ASSUME ReadyInv, TypeOK', UNCHANGED <<pc, job>>, handled' = handled,
         \A k \in Keys : store'[k].ready = "true" =>
           /\ store[k].ready = "true"
           /\ store'[k].uid = store[k].uid /\ store'[k].obs = store[k].obs
  PROVE  ReadyInv'
  BY DEF ReadyInv, StampsAccepted, DictIsObj, StatusEarned, Accepted

\* Committing an object that shows no new status.
LEMMA CommitStamp ==
  ASSUME TypeOK, NEW k \in Keys, NEW type \in EventTypes, NEW o \in Obj, Commit(k, type, o),
         o.ready = "true" => store[k].ready = "true" /\ o.uid = store[k].uid /\ o.obs = store[k].obs
  PROVE  \A l \in Keys : store'[l].ready = "true" =>
           /\ store[l].ready = "true"
           /\ store'[l].uid = store[l].uid /\ store'[l].obs = store[l].obs
<1> DEFINE new == [o EXCEPT !.rv = lastRV + 1]
<1>1. new.ready = o.ready /\ new.uid = o.uid /\ new.obs = o.obs
  BY DEF Obj
<1>2. store' = [store EXCEPT ![k] = IF type = "DELETED" THEN NoObj ELSE new]
  BY DEF Commit
<1>3. NoObj.ready # "true"
  BY DEF NoObj
<1> QED BY <1>1, <1>2, <1>3 DEF TypeOK


\* A step of worker w that leaves the others alone: the three parts, for w only.
LEMMA ReadyWorker ==
  ASSUME ReadyInv, TypeOK', NEW w \in Workers,
         \A v \in Workers \ {w} : pc'[v] = pc[v] /\ job'[v] = job[v],
         handled \subseteq handled',
         \A k \in Keys : store'[k].ready = "true" =>
           \/ /\ store[k].ready = "true"
              /\ store'[k].uid = store[k].uid /\ store'[k].obs = store[k].obs
           \/ Accepted(store'[k].uid, store'[k].obs),
         job'[w].seen = job'[w].obj,
         (pc[w] = "status" /\ job[w].res \in {"ok", "later"} =>
            Accepted(job[w].obj.uid, job[w].obj.gen))'
  PROVE  ReadyInv'
<1>1. \A u, g : Accepted(u, g) => Accepted(u, g)'
  BY DEF Accepted
<1>2. StampsAccepted'
  BY <1>1 DEF ReadyInv, StampsAccepted
<1>3. DictIsObj'
  BY DEF ReadyInv, DictIsObj
<1>4. StatusEarned'
  BY <1>1 DEF ReadyInv, StatusEarned
<1> QED BY <1>2, <1>3, <1>4 DEF ReadyInv

LEMMA ReadyUser == ASSUME ReadyInv, TypeOK', UserStep PROVE ReadyInv'
<1> TypeOK
  BY DEF ReadyInv
<1>1. ASSUME NEW k \in Keys, NEW type \in EventTypes, NEW o \in Obj, UserWrite(k, type, o),
             o.ready = "true" =>
               store[k].ready = "true" /\ o.uid = store[k].uid /\ o.obs = store[k].obs
      PROVE  ReadyInv'
  BY <1>1, CommitStamp, ReadyFrame DEF UserWrite, history
<1>2. PICK k \in Keys : UserCreate(k) \/ UserEdit(k) \/ UserTouch(k) \/ UserDelete(k)
  BY DEF UserStep
<1>3. store[k] \in Obj /\ lastRV \in Nat
  BY Bounds DEF TypeOK
<1>4. CASE UserCreate(k)
  <2> DEFINE o == [NoObj EXCEPT !.uid = lastRV + 1, !.gen = 1]
  <2>1. lastRV + 1 \in Nat
    BY <1>3
  <2>2. o \in Obj /\ o.ready # "true"
    BY <2>1, Created, Zenon DEF NoObj
  <2> QED BY <1>1, <1>4, <2>2 DEF UserCreate, EventTypes
<1>5. CASE UserEdit(k)
  <2> DEFINE o == [store[k] EXCEPT !.gen = store[k].gen + 1]
  <2>1. o \in Obj /\ o.ready = store[k].ready /\ o.uid = store[k].uid /\ o.obs = store[k].obs
    BY <1>3, GenUpdate DEF Obj
  <2> QED BY <1>1, <1>5, <2>1 DEF UserEdit, EventTypes
<1>6. CASE UserTouch(k)
  BY <1>1, <1>3, <1>6 DEF UserTouch, EventTypes
<1>7. CASE UserDelete(k)
  <2> DEFINE o == [store[k] EXCEPT !.del = TRUE, !.gen = store[k].gen + 1]
  <2>1. o \in Obj /\ o.ready = store[k].ready /\ o.uid = store[k].uid /\ o.obs = store[k].obs
    BY <1>3, DelUpdate DEF Obj
  <2> QED BY <1>1, <1>3, <1>7, <2>1 DEF UserDelete, EventTypes
<1> QED BY <1>2, <1>4, <1>5, <1>6, <1>7

LEMMA ReadyBystander ==
  ASSUME ReadyInv, TypeOK',
         WatchStep \/ WatchClose \/ ResyncStep \/ ChildStep \/ \E i \in waiting : Timer(i)
  PROVE  ReadyInv'
<1>1. store' = store /\ pc' = pc /\ job' = job /\ handled' = handled
  BY DEF WatchStep, WatchOpen, WatchReceive, WatchStore, WatchClose, ResyncStep, ResyncList,
         ResyncStore, ChildStep, SecondaryEvent, Timer, api, history
<1> QED BY <1>1, ReadyFrame

LEMMA ReadyCrash == ASSUME ReadyInv, TypeOK', Crash PROVE ReadyInv'
<1>1. StampsAccepted'
  BY DEF ReadyInv, Crash, StampsAccepted, Accepted, api
<1>2. DictIsObj'
  BY DEF Crash, DictIsObj, IdleJob
<1>3. StatusEarned'
  BY DEF Crash, StatusEarned
<1> QED BY <1>1, <1>2, <1>3 DEF ReadyInv


\* What a worker's step does to its own record and program counter.
LEMMA OwnStep ==
  ASSUME TypeOK, NEW w \in Workers, NEW s, Goto(w, s)
  PROVE  pc'[w] = s /\ \A v \in Workers \ {w} : pc'[v] = pc[v]
  BY DEF Goto, TypeOK

\* A reply, or the failure of a request, leaves the worker's copies as they are and
\* does not lead to a status update.
LEMMA RequestEnd ==
  ASSUME TypeOK, NEW w \in Workers, NEW o, NEW s, NEW r,
         Replied(w, o, s) \/ Failed(w, r)
  PROVE  /\ \A v \in Workers \ {w} : pc'[v] = pc[v] /\ job'[v] = job[v]
         /\ job'[w].seen = job[w].seen /\ job'[w].obj = job[w].obj
         /\ pc'[w] # "status"
<1>1. job \in [Workers -> Job] /\ job[w] \in Job
  BY DEF TypeOK
<1>2. CASE Replied(w, o, s)
  BY <1>1, <1>2, OwnStep DEF Replied, Job
<1>3. CASE Failed(w, r)
  BY <1>1, <1>3, OwnStep DEF Failed, Job
<1> QED BY <1>2, <1>3

\* A request that commits nothing new about a status.
LEMMA ReadyRequest ==
  ASSUME ReadyInv, TypeOK', NEW w \in Workers, NEW o, NEW s, NEW r,
         Replied(w, o, s) \/ Failed(w, r), handled' = handled,
         \A k \in Keys : store'[k].ready = "true" =>
           \/ /\ store[k].ready = "true"
              /\ store'[k].uid = store[k].uid /\ store'[k].obs = store[k].obs
           \/ Accepted(store'[k].uid, store'[k].obs)
  PROVE  ReadyInv'
<1>1. TypeOK /\ job[w].seen = job[w].obj
  BY DEF ReadyInv, DictIsObj
<1>2. /\ \A v \in Workers \ {w} : pc'[v] = pc[v] /\ job'[v] = job[v]
      /\ job'[w].seen = job'[w].obj /\ pc'[w] # "status"
  BY <1>1, RequestEnd
<1> QED BY <1>2, ReadyWorker

LEMMA ReadyPatch ==
  ASSUME ReadyInv, TypeOK', NEW w \in Workers, AddFinalizer(w) \/ StripFinalizer(w)
  PROVE  ReadyInv'
<1> DEFINE cur == store[Key(w)]
<1> TypeOK
  BY DEF ReadyInv
<1>1. cur \in Obj /\ Key(w) \in Keys
  BY JobFields DEF TypeOK
<1>2. handled' = handled
  BY DEF AddFinalizer, StripFinalizer, RequestFrame, history
<1>3. ASSUME NEW b \in BOOLEAN, NEW t \in EventTypes, NEW o \in {cur, [cur EXCEPT !.fin = b]},
             NEW p, NEW s, NEW r, Write(w, t, o, p, s, r)
      PROVE  ReadyInv'
  <2>1. o \in Obj /\ o.ready = cur.ready /\ o.uid = cur.uid /\ o.obs = cur.obs
    BY <1>1, FinUpdate DEF Obj
  <2>2. Commit(Key(w), t, o) /\ (Replied(w, p, s) \/ Failed(w, r))
    BY <1>3 DEF Write
  <2>3. \A l \in Keys : store'[l].ready = "true" =>
           /\ store[l].ready = "true"
           /\ store'[l].uid = store[l].uid /\ store'[l].obs = store[l].obs
    BY <1>1, <2>1, <2>2, CommitStamp
  <2> QED BY <1>2, <2>2, <2>3, ReadyRequest
<1>4. ASSUME NEW p, NEW s, NEW r, Replied(w, p, s) \/ Failed(w, r), UNCHANGED <<api, stream>>
      PROVE  ReadyInv'
  BY <1>2, <1>4, ReadyRequest DEF api
<1>5. CASE AddFinalizer(w)
  BY <1>3, <1>4, <1>5 DEF AddFinalizer, EventTypes
<1>6. CASE StripFinalizer(w)
  BY <1>3, <1>4, <1>6 DEF StripFinalizer, EventTypes
<1> QED BY <1>5, <1>6


\* The status update stamps the generation of the copy the handler accepted: the server
\* takes it only for the uid of that copy.
LEMMA ReadyStatus ==
  ASSUME ReadyInv, TypeOK', NEW w \in Workers, UpdateReadyCondition(w)
  PROVE  ReadyInv'
<1> DEFINE cur == store[Key(w)]
           rdy == IF job[w].res \in {"ok", "later"} THEN "true" ELSE "false"
           new == [cur EXCEPT !.ready = rdy, !.obs = ObservedGeneration(w)]
           rep == [new EXCEPT !.rv = lastRV + 1]
<1> TypeOK
  BY DEF ReadyInv
<1>1. cur \in Obj /\ Key(w) \in Keys
  BY JobFields DEF TypeOK
<1>2. handled' = handled /\ pc[w] = "status"
  BY DEF UpdateReadyCondition, RequestFrame, history
<1>3. CASE cur.uid = job[w].obj.uid /\ Write(w, "MODIFIED", new, rep, "finish", job[w].res)
  <2>1. new.ready = rdy /\ new.uid = job[w].obj.uid /\ new.obs = job[w].obj.gen
    BY <1>1, <1>3 DEF Obj, ObservedGeneration
  <2>2. new.ready = "true" => Accepted(new.uid, new.obs)
    BY <1>2, <2>1 DEF ReadyInv, StatusEarned
  <2>3. store' = [store EXCEPT ![Key(w)] = [new EXCEPT !.rv = lastRV + 1]]
    BY <1>3 DEF Write, Commit
  <2>4. /\ [new EXCEPT !.rv = lastRV + 1].ready = new.ready
        /\ [new EXCEPT !.rv = lastRV + 1].uid = new.uid
        /\ [new EXCEPT !.rv = lastRV + 1].obs = new.obs
    BY <1>1 DEF Obj
  <2>5. \A k \in Keys : store'[k].ready = "true" =>
           \/ /\ store[k].ready = "true"
              /\ store'[k].uid = store[k].uid /\ store'[k].obs = store[k].obs
           \/ Accepted(store'[k].uid, store'[k].obs)
    BY <1>1, <2>2, <2>3, <2>4 DEF TypeOK
  <2>6. Replied(w, rep, "finish") \/ Failed(w, job[w].res)
    BY <1>3 DEF Write
  <2> QED BY <1>2, <2>5, <2>6, ReadyRequest
<1>4. CASE (Replied(w, cur, "finish") \/ Failed(w, job[w].res)) /\ UNCHANGED <<api, stream>>
  BY <1>2, <1>4, ReadyRequest DEF api
<1> QED BY <1>3, <1>4 DEF UpdateReadyCondition

LEMMA ReadyHandler ==
  ASSUME ReadyInv, TypeOK', "reconcile" \in Handlers, NEW w \in Workers,
         CallHandler(w) \/ CallFinalize(w)
  PROVE  ReadyInv'
<1> TypeOK /\ job[w].seen = job[w].obj
  BY DEF ReadyInv, DictIsObj
<1>1. job \in [Workers -> Job] /\ job[w] \in Job
  BY DEF TypeOK
<1>2. PICK r, s :
        /\ job' = [job EXCEPT ![w].res = r] /\ Goto(w, s)
        /\ handled \subseteq handled' /\ store' = store
        /\ s = "status" /\ r \in {"ok", "later"} =>
             handled' = handled \union {<<job[w].seen.uid, job[w].seen.gen, Removal(w)>>}
  <2>1. CASE CallHandler(w)
    <3>1. HasHandler(job[w].item.type)
      BY DEF HasHandler
    <3>2. PICK r : /\ job' = [job EXCEPT ![w].res = r]
                   /\ Goto(w, IF ~job[w].deleting /\ (r = "err" \/ InfersReady)
                              THEN "status" ELSE "finish")
                   /\ handled' = IF r = "err" THEN handled
                        ELSE handled \union {<<job[w].seen.uid, job[w].seen.gen, Removal(w)>>}
      BY <2>1, <3>1 DEF CallHandler
    <3> QED BY <2>1, <3>2 DEF CallHandler, api
  <2>2. CASE CallFinalize(w)
    BY <2>2 DEF CallFinalize, api
  <2> QED BY <2>1, <2>2
<1>3. /\ \A v \in Workers \ {w} : pc'[v] = pc[v] /\ job'[v] = job[v]
      /\ job'[w].seen = job[w].seen /\ job'[w].obj = job[w].obj /\ job'[w].res = r
      /\ pc'[w] = s
  BY <1>1, <1>2, OwnStep DEF Job
<1>4. Removal(w) \in BOOLEAN
  BY DEF Removal
<1>5. (pc[w] = "status" /\ job[w].res \in {"ok", "later"} =>
         Accepted(job[w].obj.uid, job[w].obj.gen))'
  BY <1>2, <1>3, <1>4 DEF Accepted
<1> QED BY <1>2, <1>3, <1>5, ReadyWorker

LEMMA ReadyLocal ==
  ASSUME ReadyInv, TypeOK', NEW w \in Workers,
         \/ Get(w) \/ ReadCache(w) \/ Fetch(w) \/ RecordSelfEcho(w) \/ StoreReply(w)
         \/ PurgeCache(w) \/ Finish(w)
  PROVE  ReadyInv'
<1> TypeOK /\ job[w].seen = job[w].obj
  BY DEF ReadyInv, DictIsObj
<1>1. job \in [Workers -> Job] /\ job[w] \in Job
  BY DEF TypeOK
<1>2. store' = store /\ handled' = handled
  BY DEF Get, ReadCache, Fetch, RecordSelfEcho, StoreReply, PurgeCache, Finish, api, history
<1>3. ASSUME NEW s, Goto(w, s), s # "status",
             \A v \in Workers \ {w} : job'[v] = job[v], job'[w].seen = job'[w].obj
      PROVE  ReadyInv'
  BY <1>2, <1>3, OwnStep, ReadyWorker
<1>4. ASSUME NEW o \in Obj, Dispatch(w, o) \/ Skip(w) PROVE ReadyInv'
  <2>1. CASE Dispatch(w, o)
    <3>1. Route(job[w].item, o) # "status"
      BY DEF Route, Body, Obj
    <3>2. job'[w].seen = o /\ job'[w].obj = o /\ \A v \in Workers \ {w} : job'[v] = job[v]
      BY <1>1, <2>1 DEF Dispatch, Job
    <3> QED BY <1>3, <2>1, <3>1, <3>2 DEF Dispatch
  <2>2. CASE Skip(w)
    <3>1. job'[w].seen = job[w].seen /\ job'[w].obj = job[w].obj
          /\ \A v \in Workers \ {w} : job'[v] = job[v]
      BY <1>1, <2>2 DEF Skip, Job
    <3> QED BY <1>3, <2>2, <3>1 DEF Skip
  <2> QED BY <1>4, <2>1, <2>2
<1>5. CASE Get(w)
  <2>1. job'[w].seen = job[w].seen /\ job'[w].obj = job[w].obj
        /\ \A v \in Workers \ {w} : job'[v] = job[v]
    BY <1>1, <1>5 DEF Get, Job
  <2> QED BY <1>3, <1>5, <2>1 DEF Get
<1>6. CASE ReadCache(w)
  <2>1. cache[Key(w)] \in Obj
    BY JobFields DEF TypeOK
  <2> QED BY <1>3, <1>4, <1>6, <2>1 DEF ReadCache
<1>7. CASE Fetch(w)
  <2>1. store[Key(w)] \in Obj
    BY JobFields DEF TypeOK
  <2> QED BY <1>4, <1>7, <2>1 DEF Fetch
<1>8. CASE RecordSelfEcho(w)
  BY <1>3, <1>8 DEF RecordSelfEcho
<1>9. CASE StoreReply(w)
  <2>1. job'[w].seen = job'[w].obj /\ \A v \in Workers \ {w} : job'[v] = job[v]
    BY <1>1, <1>9 DEF StoreReply, Job
  <2>2. job[w].next # "status"
    BY JobFields DEF AfterReply
  <2> QED BY <1>3, <1>9, <2>1, <2>2 DEF StoreReply
<1>10. CASE PurgeCache(w)
  BY <1>3, <1>10 DEF PurgeCache
<1>11. CASE Finish(w)
  <2>1. job'[w].seen = job'[w].obj /\ \A v \in Workers \ {w} : job'[v] = job[v]
    BY <1>1, <1>11 DEF Finish, IdleJob
  <2> QED BY <1>3, <1>11, <2>1 DEF Finish
<1> QED BY <1>5, <1>6, <1>7, <1>8, <1>9, <1>10, <1>11

LEMMA ReadyStep ==
  ASSUME "reconcile" \in Handlers, ReadyInv, [Next]_vars PROVE ReadyInv'
<1>1. TypeOK'
  BY TypeStep DEF ReadyInv
<1>2. CASE UNCHANGED vars
  BY <1>1, <1>2, ReadyFrame DEF vars, api, history
<1>3. ASSUME NEW w \in Workers, WorkerStep(w) PROVE ReadyInv'
  BY <1>1, <1>3, ReadyPatch, ReadyStatus, ReadyHandler, ReadyLocal DEF WorkerStep
<1> QED
  BY <1>1, <1>2, <1>3, ReadyUser, ReadyBystander, ReadyCrash DEF Next

\* A controller with a reconcile handler never makes the server show Ready=True for a
\* generation that no handler call accepted, for any number of workers, users, faults
\* and objects: updateReadyCondition stamps the generation of the copy the handler was
\* given, and the server refuses it once another version exists.
THEOREM ReadyCorrect ==
  ASSUME "reconcile" \in Handlers PROVE Spec => []ReadyMeansHandled
<1>1. ReadyInv /\ [Next]_vars => ReadyInv'
  BY ReadyStep
<1>2. ReadyInv => ReadyMeansHandled
  BY DEF ReadyInv, StampsAccepted, Accepted, ReadyMeansHandled
<1> QED BY <1>1, <1>2, ReadyInit, PTL DEF Spec

-----------------------------------------------------------------------------
(* Three more properties: the controller does not feed its own loop, a generation *)
(* the cache has seen is never forgotten, and a finalizer is taken off only after  *)
(* a finalize() that succeeded for its object or an earlier one of its name.      *)

-----------------------------------------------------------------------------
(* OwnWritesBounded.  It follows from a budget: every version handed out was paid *)
(* for by a user's write, or by one object's status beginning to show its         *)
(* generation as done.  That an own write does the latter is known because the     *)
(* server compares resource versions, so the worker's copy must be the object the  *)
(* server has: every copy, wherever it lies, is genuine.                          *)

\* What a copy `o` of an object may say when the server's is `cur` and versions up to
\* n were handed out: versions identify what they are versions of.
Genuine(cur, n, o) ==
  /\ o.rv <= n
  /\ Exists(cur) /\ o.rv = cur.rv => o.gen = cur.gen

Versioned == \A k \in Keys : store[k].rv <= lastRV /\ (Exists(store[k]) => store[k].rv > 0)

CopiesGenuine ==
  /\ \A k \in Keys : /\ Genuine(store[k], lastRV, cache[k])
                     /\ Genuine(store[k], lastRV, listed[k])
  /\ Genuine(store[inHand.key], lastRV, inHand.obj)
  /\ \A i \in DOMAIN stream : Genuine(store[stream[i].key], lastRV, stream[i].obj)

JobsGenuine == \A w \in Workers :
  /\ pc[w] \in {"purge", "handler", "status"} => Genuine(store[Key(w)], lastRV, job[w].obj)
  /\ pc[w] \in {"echo", "store"} => Genuine(store[Key(w)], lastRV, job[w].reply)

Succeeding == \A w \in Workers :
  /\ pc[w] \notin {"addFin", "finalize", "stripFin"}
  /\ pc[w] = "status" => job[w].res \in {"ok", "later"}

\* The objects whose status does not show their generation as done.
ShowsReady(o) == ~Exists(o) \/ (o.ready = "true" /\ o.obs = o.gen)
UnshownIn(s)  == {k \in Keys : ~ShowsReady(s[k])}
Budget        == lastRV + Cardinality(UnshownIn(store)) <= 2 * userOps

LoopInv == TypeOK /\ Versioned /\ CopiesGenuine /\ JobsGenuine /\ Succeeding /\ Budget

LEMMA UnshownCount ==
  ASSUME NEW s PROVE IsFiniteSet(UnshownIn(s)) /\ Cardinality(UnshownIn(s)) \in Nat
<1>1. UnshownIn(s) \subseteq Keys
  BY DEF UnshownIn
<1> QED BY <1>1, ConstantsAssumption, FS_Subset, FS_CardinalityType

\* A write to one object moves that object only in or out of the unshown ones.
LEMMA UnshownUpdate ==
  ASSUME NEW s \in [Keys -> Obj], NEW k \in Keys, NEW o \in Obj
  PROVE  LET t == [s EXCEPT ![k] = o] IN
         /\ Cardinality(UnshownIn(t)) <= Cardinality(UnshownIn(s)) + 1
         /\ ShowsReady(o) => Cardinality(UnshownIn(t)) <= Cardinality(UnshownIn(s))
         /\ ShowsReady(o) /\ ~ShowsReady(s[k]) =>
              Cardinality(UnshownIn(t)) + 1 <= Cardinality(UnshownIn(s))
<1> DEFINE t == [s EXCEPT ![k] = o]
           S == UnshownIn(s)
           T == UnshownIn(t)
<1>1. T \ {k} = S \ {k}
  BY DEF UnshownIn
<1>2. k \in S <=> ~ShowsReady(s[k])
  BY DEF UnshownIn
<1>3. k \in T <=> ~ShowsReady(o)
  BY DEF UnshownIn
<1> HIDE DEF t, S, T
<1>4. /\ IsFiniteSet(S) /\ Cardinality(S) \in Nat
      /\ IsFiniteSet(T) /\ Cardinality(T) \in Nat
  BY UnshownCount DEF S, T
<1>5. /\ Cardinality(S \ {k}) = IF k \in S THEN Cardinality(S) - 1 ELSE Cardinality(S)
      /\ Cardinality(T \ {k}) = IF k \in T THEN Cardinality(T) - 1 ELSE Cardinality(T)
  <2>1. ASSUME NEW R, IsFiniteSet(R)
        PROVE  Cardinality(R \ {k}) = IF k \in R THEN Cardinality(R) - 1 ELSE Cardinality(R)
    <3>1. CASE k \in R
      BY <2>1, <3>1, FS_RemoveElement
    <3>2. CASE k \notin R
      <4>1. R \ {k} = R
        BY <3>2
      <4> QED BY <3>2, <4>1
    <3> QED BY <3>1, <3>2
  <2> QED BY <1>4, <2>1
<1>6. /\ Cardinality(T) <= Cardinality(S) + 1
      /\ ShowsReady(o) => Cardinality(T) <= Cardinality(S)
      /\ ShowsReady(o) /\ ~ShowsReady(s[k]) => Cardinality(T) + 1 <= Cardinality(S)
  <2>1. Cardinality(T \ {k}) = Cardinality(S \ {k})
    BY <1>1
  <2> HIDE DEF t, S, T
  <2>2. /\ k \in S /\ k \in T => Cardinality(T) = Cardinality(S)
        /\ k \in S /\ k \notin T => Cardinality(T) + 1 = Cardinality(S)
        /\ k \notin S /\ k \in T => Cardinality(T) = Cardinality(S) + 1
        /\ k \notin S /\ k \notin T => Cardinality(T) = Cardinality(S)
    BY <2>1, <1>4, <1>5, SMT
  <2> QED BY <2>2, <1>2, <1>3, <1>4
<1> QED BY <1>6 DEF t, S, T

LEMMA LoopInit == Init => LoopInv
<1> SUFFICES ASSUME Init PROVE LoopInv
  OBVIOUS
<1>1. TypeOK
  BY TypeInit
<1>2. Versioned
  BY DEF Init, Versioned, NoObj, Exists
<1>3. CopiesGenuine
  BY NoObjType DEF Init, CopiesGenuine, Genuine, NoObj, Exists, NoEvent
<1>4. JobsGenuine /\ Succeeding
  BY DEF Init, JobsGenuine, Succeeding
<1>5. Budget
  <2>1. UnshownIn(store) = {}
    BY DEF Init, UnshownIn, ShowsReady, Exists, NoObj
  <2>2. Cardinality(UnshownIn(store)) = 0
    BY <2>1, FS_EmptySet
  <2> QED BY <2>2 DEF Init, Budget
<1> QED BY <1>1, <1>2, <1>3, <1>4, <1>5 DEF LoopInv

\* What was genuine stays so.
Outlives == \A l \in Keys, p \in Obj : Genuine(store[l], lastRV, p) => Genuine(store'[l], lastRV', p)

LEMMA CommitGenuine ==
  ASSUME TypeOK, Versioned, NEW k \in Keys, NEW type \in EventTypes, NEW o \in Obj,
         Commit(k, type, o)
  PROVE  /\ Versioned' /\ Outlives
         /\ Genuine(store'[k], lastRV', [o EXCEPT !.rv = lastRV + 1])
         /\ \A i \in DOMAIN stream' :
              \/ i \in DOMAIN stream /\ stream'[i] = stream[i]
              \/ stream'[i].key = k /\ stream'[i].obj = [o EXCEPT !.rv = lastRV + 1]
<1> DEFINE new == [o EXCEPT !.rv = lastRV + 1]
<1>1. new.rv = lastRV + 1 /\ new.gen = o.gen /\ lastRV \in Nat /\ lastRV' = lastRV + 1
  BY Bounds DEF Obj, TypeOK, Commit
<1>2. store'[k] \in {new, NoObj} /\ \A l \in Keys \ {k} : store'[l] = store[l]
  BY DEF Commit, TypeOK
<1>3. NoObj.rv = 0 /\ NoObj.uid = 0
  BY DEF NoObj
<1>4. \A l \in Keys : store[l].rv \in Nat /\ store[l].rv <= lastRV
  BY DEF TypeOK, Obj, Versioned
<1> HIDE DEF new
<1>5. Versioned'
  BY <1>1, <1>2, <1>3, <1>4 DEF Versioned, Exists
<1>6. Outlives
  <2> SUFFICES ASSUME NEW l \in Keys, NEW p \in Obj, Genuine(store[l], lastRV, p)
               PROVE  Genuine(store'[l], lastRV', p)
    BY DEF Outlives
  <2>1. p.rv \in Nat /\ p.rv <= lastRV
    BY DEF Obj, Genuine
  <2> QED BY <1>1, <1>2, <1>3, <2>1 DEF Genuine, Exists
<1>7. Genuine(store'[k], lastRV', new)
  BY <1>1, <1>2, <1>3 DEF Genuine, Exists
<1>8. \A i \in DOMAIN stream' :
        \/ i \in DOMAIN stream /\ stream'[i] = stream[i]
        \/ stream'[i].key = k /\ stream'[i].obj = new
  <2> DEFINE ev == [type |-> type, key |-> k, obj |-> new]
  <2>1. stream \in Seq(Event) /\ (stream' = Append(stream, ev) \/ stream' = stream)
    BY DEF TypeOK, Commit, new
  <2>2. ev.key = k /\ ev.obj = new
    OBVIOUS
  <2> HIDE DEF ev
  <2> QED BY <2>1, <2>2
<1> QED BY <1>5, <1>6, <1>7, <1>8 DEF new

LEMMA StillVersioned ==
  ASSUME TypeOK, Versioned, UNCHANGED api
  PROVE  /\ Versioned' /\ Outlives
         /\ \A l \in Keys : Genuine(store'[l], lastRV', store[l])
         /\ \A l \in Keys : Genuine(store'[l], lastRV', NoObj)
<1>1. store' = store /\ lastRV' = lastRV
  BY DEF api
<1>2. Versioned' /\ Outlives
  BY <1>1 DEF Versioned, Outlives
<1>3. \A l \in Keys : Genuine(store[l], lastRV, store[l])
  BY DEF Genuine, Versioned
<1>4. \A l \in Keys : Genuine(store[l], lastRV, NoObj)
  BY DEF Genuine, Versioned, NoObj, Exists, TypeOK
<1> QED BY <1>1, <1>2, <1>3, <1>4

LEMMA CopiesKept ==
  ASSUME TypeOK, CopiesGenuine, Outlives, inHand' = inHand, listed' = listed,
         \A k \in Keys : cache'[k] = cache[k] \/ Genuine(store'[k], lastRV', cache'[k]),
         \A i \in DOMAIN stream' :
           \/ \E j \in DOMAIN stream : stream'[i] = stream[j]
           \/ Genuine(store'[stream'[i].key], lastRV', stream'[i].obj)
  PROVE  CopiesGenuine'
<1>1. /\ \A k \in Keys : cache[k] \in Obj /\ listed[k] \in Obj
      /\ inHand.key \in Keys /\ inHand.obj \in Obj
      /\ \A j \in DOMAIN stream : stream[j].key \in Keys /\ stream[j].obj \in Obj
  <2>1. \A j \in DOMAIN stream : stream[j] \in Event
    BY DEF TypeOK
  <2> QED BY <2>1 DEF TypeOK, Event
<1>2. \A k \in Keys : /\ Genuine(store'[k], lastRV', cache'[k])
                      /\ Genuine(store'[k], lastRV', listed'[k])
  BY <1>1 DEF CopiesGenuine, Outlives
<1>3. Genuine(store'[inHand'.key], lastRV', inHand'.obj)
  BY <1>1 DEF CopiesGenuine, Outlives
<1>4. \A i \in DOMAIN stream' : Genuine(store'[stream'[i].key], lastRV', stream'[i].obj)
  BY <1>1 DEF CopiesGenuine, Outlives
<1> QED BY <1>2, <1>3, <1>4 DEF CopiesGenuine

\* What workers hold, after a step of none of them and after a step of one.
LEMMA JobsKept ==
  ASSUME TypeOK, JobsGenuine, Succeeding, Outlives, UNCHANGED <<pc, job>>
  PROVE  JobsGenuine' /\ Succeeding'
<1>1. \A v \in Workers : /\ job[v].obj \in Obj /\ job[v].reply \in Obj
                         /\ job[v].item.key \in Keys
  BY JobFields DEF Key
<1>2. JobsGenuine'
  BY <1>1 DEF JobsGenuine, Outlives, Key
<1> QED BY <1>2 DEF Succeeding

LEMMA JobsWorker ==
  ASSUME TypeOK, JobsGenuine, Succeeding, Outlives, NEW w \in Workers,
         \A v \in Workers \ {w} : pc'[v] = pc[v] /\ job'[v] = job[v],
         pc'[w] \in {"purge", "handler", "status"} =>
           Genuine(store'[job'[w].item.key], lastRV', job'[w].obj),
         pc'[w] \in {"echo", "store"} =>
           Genuine(store'[job'[w].item.key], lastRV', job'[w].reply),
         pc'[w] \notin {"addFin", "finalize", "stripFin"},
         pc'[w] = "status" => job'[w].res \in {"ok", "later"}
  PROVE  JobsGenuine' /\ Succeeding'
<1>1. \A v \in Workers : /\ job[v].obj \in Obj /\ job[v].reply \in Obj
                         /\ job[v].item.key \in Keys
  BY JobFields DEF Key
<1>2. JobsGenuine'
  BY <1>1 DEF JobsGenuine, Outlives, Key
<1> QED BY <1>2 DEF Succeeding

LEMMA SameBudget ==
  ASSUME Budget, UNCHANGED <<api, userOps>> PROVE Budget'
  BY DEF Budget, UnshownIn, ShowsReady, Exists, api

LEMMA LoopUser == ASSUME LoopInv, TypeOK', UserStep PROVE LoopInv'
<1> TypeOK /\ Versioned /\ CopiesGenuine /\ JobsGenuine /\ Succeeding /\ Budget
  BY DEF LoopInv
<1>1. ASSUME NEW k \in Keys, NEW type \in EventTypes, NEW o \in Obj, UserWrite(k, type, o)
      PROVE  LoopInv'
  <2> DEFINE new == [o EXCEPT !.rv = lastRV + 1]
  <2>1. Commit(k, type, o) /\ userOps' = userOps + 1
        /\ UNCHANGED <<inHand, listed, cache, pc, job>>
    BY <1>1 DEF UserWrite
  <2>2. Versioned' /\ Outlives /\ Genuine(store'[k], lastRV', new)
        /\ \A i \in DOMAIN stream' :
             \/ i \in DOMAIN stream /\ stream'[i] = stream[i]
             \/ stream'[i].key = k /\ stream'[i].obj = new
    BY <2>1, CommitGenuine
  <2> HIDE DEF new
  <2>3. CopiesGenuine'
    BY <2>1, <2>2, CopiesKept
  <2>4. JobsGenuine' /\ Succeeding'
    BY <2>1, <2>2, JobsKept
  <2>5. Budget'
    <3>1. PICK p \in Obj : store' = [store EXCEPT ![k] = p]
      <4>1. new \in Obj
        <5>1. lastRV + 1 \in Nat
          BY Bounds DEF TypeOK
        <5> QED BY <5>1, RVUpdate DEF new
      <4> QED BY <2>1, <4>1, NoObjType DEF Commit, new
    <3>2. Cardinality(UnshownIn(store')) <= Cardinality(UnshownIn(store)) + 1
      BY <3>1, UnshownUpdate DEF TypeOK
    <3>3. Cardinality(UnshownIn(store')) \in Nat /\ Cardinality(UnshownIn(store)) \in Nat
      BY UnshownCount
    <3>4. lastRV' = lastRV + 1 /\ lastRV \in Nat /\ userOps \in Nat
      BY <2>1, Bounds DEF Commit, TypeOK
    <3>5. lastRV' + Cardinality(UnshownIn(store')) <= 2 * userOps'
      BY <2>1, <3>2, <3>3, <3>4 DEF Budget
    <3>6. UnshownIn(store)' = UnshownIn(store')
      BY DEF UnshownIn, ShowsReady, Exists
    <3> QED BY <3>5, <3>6 DEF Budget
  <2> QED BY <2>2, <2>3, <2>4, <2>5 DEF LoopInv
<1>2. PICK k \in Keys : UserCreate(k) \/ UserEdit(k) \/ UserTouch(k) \/ UserDelete(k)
  BY DEF UserStep
<1>3. store[k] \in Obj /\ lastRV \in Nat
  BY Bounds DEF TypeOK
<1>4. CASE UserCreate(k)
  <2>1. [NoObj EXCEPT !.uid = lastRV + 1, !.gen = 1] \in Obj
    <3>1. lastRV + 1 \in Nat
      BY <1>3
    <3> QED BY <3>1, Created, Zenon
  <2> QED BY <1>1, <1>4, <2>1 DEF UserCreate, EventTypes
<1>5. CASE UserEdit(k)
  BY <1>1, <1>3, <1>5, GenUpdate DEF UserEdit, EventTypes
<1>6. CASE UserTouch(k)
  BY <1>1, <1>3, <1>6 DEF UserTouch, EventTypes
<1>7. CASE UserDelete(k)
  <2>1. [store[k] EXCEPT !.del = TRUE, !.gen = store[k].gen + 1] \in Obj
    BY <1>3, DelUpdate
  <2> QED BY <1>1, <1>3, <1>7, <2>1 DEF UserDelete, EventTypes
<1> QED BY <1>2, <1>4, <1>5, <1>6, <1>7

\* Steps that write nothing to the server and that no worker takes.
LEMMA LoopStill ==
  ASSUME LoopInv, TypeOK', UNCHANGED <<api, userOps>>, CopiesGenuine', JobsGenuine', Succeeding'
  PROVE  LoopInv'
  BY StillVersioned, SameBudget DEF LoopInv

LEMMA LoopBystander ==
  ASSUME LoopInv, TypeOK',
         WatchStep \/ WatchClose \/ ResyncStep \/ ChildStep \/ \E i \in waiting : Timer(i)
  PROVE  LoopInv'
<1> TypeOK /\ Versioned /\ CopiesGenuine /\ JobsGenuine /\ Succeeding
  BY DEF LoopInv
<1>1. UNCHANGED <<api, userOps, pc, job>>
  BY DEF WatchStep, WatchOpen, WatchReceive, WatchStore, WatchClose, ResyncStep, ResyncList,
         ResyncStore, ChildStep, SecondaryEvent, Timer, env
<1>2. /\ Outlives
      /\ \A l \in Keys : Genuine(store'[l], lastRV', store[l])
      /\ \A l \in Keys : Genuine(store'[l], lastRV', NoObj)
  BY <1>1, StillVersioned
<1>3. JobsGenuine' /\ Succeeding'
  BY <1>1, <1>2, JobsKept
<1>4. store' = store /\ lastRV' = lastRV
  BY <1>1 DEF api
<1>5. CopiesGenuine'
  <2>1. CASE WatchOpen
    <3> DEFINE live == {k \in Keys : Exists(store[k])}
    <3>1. PICK order \in [1..Cardinality(live) -> live] :
            stream' = [i \in DOMAIN order |->
                         [type |-> "ADDED", key |-> order[i], obj |-> store[order[i]]]]
      BY <2>1 DEF WatchOpen
    <3>2. \A i \in DOMAIN stream' :
            /\ stream'[i].key \in Keys /\ stream'[i].obj = store[stream'[i].key]
      BY <3>1
    <3>3. UNCHANGED <<inHand, listed, cache>>
      BY <2>1 DEF WatchOpen
    <3> HIDE DEF live
    <3> QED BY <1>2, <3>2, <3>3, CopiesKept
  <2>2. CASE WatchClose
    BY <1>2, <2>2, CopiesKept DEF WatchClose
  <2>3. CASE WatchReceive
    <3>1. stream \in Seq(Event) /\ stream # <<>>
      BY <2>3 DEF WatchReceive, TypeOK
    <3>2. 1 \in DOMAIN stream /\ Head(stream) = stream[1]
      BY <3>1
    <3>3. \A i \in DOMAIN Tail(stream) : i + 1 \in DOMAIN stream /\ Tail(stream)[i] = stream[i + 1]
      BY <3>1
    <3>4. stream' = Tail(stream) /\ inHand' \in {inHand, stream[1]} /\ UNCHANGED <<listed, cache>>
      BY <2>3, <3>2 DEF WatchReceive
    <3> QED BY <1>4, <3>2, <3>3, <3>4 DEF CopiesGenuine
  <2>4. CASE WatchStore
    <3>1. inHand' = NoEvent /\ UNCHANGED <<stream, listed>>
      BY <2>4 DEF WatchStore
    <3>2. cache' = cache \/ cache' = [cache EXCEPT ![inHand.key] = inHand.obj]
      BY <2>4 DEF WatchStore
    <3>3. NoEvent.key \in Keys /\ NoEvent.obj = NoObj
      BY NoObjType DEF NoEvent
    <3>4. \A k \in Keys : Genuine(store[k], lastRV, cache'[k])
      BY <3>2 DEF CopiesGenuine, TypeOK
    <3> QED BY <1>2, <1>4, <3>1, <3>3, <3>4 DEF CopiesGenuine
  <2>5. CASE ResyncList
    BY <1>2, <1>4, <2>5 DEF ResyncList, CopiesGenuine, conn
  <2>6. ASSUME NEW k \in Keys, ResyncStore(k) PROVE CopiesGenuine'
    <3>1. /\ listed' = [listed EXCEPT ![k] = NoObj] /\ UNCHANGED <<stream, inHand>>
          /\ cache' = cache \/ cache' = [cache EXCEPT ![k] = listed[k]]
      BY <2>6 DEF ResyncStore, conn
    <3>2. \A l \in Keys : /\ Genuine(store[l], lastRV, cache'[l])
                          /\ Genuine(store[l], lastRV, listed'[l])
      BY <1>2, <1>4, <3>1 DEF CopiesGenuine, TypeOK
    <3> QED BY <1>4, <3>1, <3>2 DEF CopiesGenuine
  <2>7. CASE ChildStep \/ \E i \in waiting : Timer(i)
    <3>1. UNCHANGED <<stream, inHand, listed, cache>>
      BY <2>7 DEF ChildStep, SecondaryEvent, Timer, conn
    <3> QED BY <1>4, <3>1 DEF CopiesGenuine
  <2> QED BY <2>1, <2>2, <2>3, <2>4, <2>5, <2>6, <2>7 DEF WatchStep, ResyncStep
<1> QED BY <1>1, <1>3, <1>5, LoopStill

LEMMA LoopCrash == ASSUME LoopInv, TypeOK', Crash PROVE LoopInv'
<1> TypeOK /\ Versioned
  BY DEF LoopInv
<1>1. UNCHANGED <<api, userOps>>
  BY DEF Crash
<1>2. \A l \in Keys : Genuine(store'[l], lastRV', NoObj)
  BY <1>1, StillVersioned
<1>3. NoEvent.key \in Keys /\ NoEvent.obj = NoObj
  BY NoObjType DEF NoEvent
<1>4. CopiesGenuine'
  BY <1>2, <1>3 DEF Crash, CopiesGenuine
<1>5. JobsGenuine' /\ Succeeding'
  BY DEF Crash, JobsGenuine, Succeeding
<1> QED BY <1>1, <1>4, <1>5, LoopStill

\* A worker's step that writes nothing to the server.
LEMMA LoopLocal ==
  ASSUME LoopInv, TypeOK', NEW w \in Workers, UNCHANGED <<api, WorkerFrame, stream>>,
         cache' = cache \/ \E o \in Obj : /\ cache' = [cache EXCEPT ![Key(w)] = o]
                                          /\ Genuine(store[Key(w)], lastRV, o),
         \A v \in Workers \ {w} : pc'[v] = pc[v] /\ job'[v] = job[v],
         pc'[w] \in {"purge", "handler", "status"} =>
           Genuine(store[job'[w].item.key], lastRV, job'[w].obj),
         pc'[w] \in {"echo", "store"} =>
           Genuine(store[job'[w].item.key], lastRV, job'[w].reply),
         pc'[w] \notin {"addFin", "finalize", "stripFin"},
         pc'[w] = "status" => job'[w].res \in {"ok", "later"}
  PROVE  LoopInv'
<1> TypeOK /\ Versioned /\ CopiesGenuine /\ JobsGenuine /\ Succeeding
  BY DEF LoopInv
<1>1. UNCHANGED <<api, userOps, store, lastRV, inHand, listed, stream>>
  BY DEF WorkerFrame, env, api
<1>2. Outlives
  BY <1>1, StillVersioned
<1>3. CopiesGenuine'
  <2>1. \A k \in Keys : cache'[k] = cache[k] \/ Genuine(store'[k], lastRV', cache'[k])
    BY <1>1 DEF TypeOK
  <2> QED BY <1>1, <1>2, <2>1, CopiesKept
<1>4. JobsGenuine' /\ Succeeding'
  BY <1>1, <1>2, JobsWorker
<1> QED BY <1>1, <1>3, <1>4, LoopStill

LEMMA LoopWorker ==
  ASSUME LoopInv, TypeOK', "finalize" \notin Handlers, "err" \notin Outcomes, NEW w \in Workers,
         \/ Get(w) \/ ReadCache(w) \/ Fetch(w) \/ RecordSelfEcho(w) \/ StoreReply(w)
         \/ PurgeCache(w) \/ CallHandler(w) \/ Finish(w)
  PROVE  LoopInv'
<1> TypeOK /\ Versioned /\ CopiesGenuine /\ JobsGenuine /\ Succeeding
  BY DEF LoopInv
<1>1. job \in [Workers -> Job] /\ job[w] \in Job /\ Key(w) \in Keys
  <2>1. job[w] \in Job /\ Key(w) \in Keys
    BY JobFields
  <2> QED BY <2>1 DEF TypeOK
<1>2. UNCHANGED <<api, WorkerFrame, stream>>
  BY DEF Get, ReadCache, Fetch, RecordSelfEcho, StoreReply, PurgeCache, CallHandler, Finish
<1>3. /\ Genuine(store[Key(w)], lastRV, store[Key(w)])
      /\ Genuine(store[Key(w)], lastRV, cache[Key(w)])
      /\ Genuine(store[Key(w)], lastRV, NoObj)
  <2>1. UNCHANGED api => Genuine(store'[Key(w)], lastRV', store[Key(w)])
                         /\ Genuine(store'[Key(w)], lastRV', NoObj)
    BY <1>1, StillVersioned
  <2> QED BY <1>1, <1>2, <2>1 DEF CopiesGenuine, api
<1>4. ASSUME NEW s, Goto(w, s), s \in {"idle", "read", "fetch", "finish"}, cache' = cache,
             \A v \in Workers \ {w} : job'[v] = job[v]
      PROVE  LoopInv'
  BY <1>2, <1>4, OwnStep, LoopLocal
<1>5. ASSUME NEW o \in Obj, Dispatch(w, o) \/ Skip(w), cache' = cache,
             Genuine(store[Key(w)], lastRV, o)
      PROVE  LoopInv'
  <2>1. CASE Dispatch(w, o)
    <3>1. Goto(w, Body(job[w].item)) /\ Body(job[w].item) \in {"purge", "handler"}
      BY <2>1 DEF Dispatch, Route, Body
    <3>2. job'[w].item = job[w].item /\ job'[w].obj = o
          /\ \A v \in Workers \ {w} : job'[v] = job[v]
      BY <1>1, <2>1 DEF Dispatch, Job
    <3>3. pc'[w] \in {"purge", "handler"} /\ \A v \in Workers \ {w} : pc'[v] = pc[v]
      BY <3>1, OwnStep
    <3> QED BY <1>2, <1>5, <3>2, <3>3, LoopLocal DEF Key
  <2>2. CASE Skip(w)
    <3>1. \A v \in Workers \ {w} : job'[v] = job[v]
      BY <1>1, <2>2 DEF Skip
    <3> QED BY <1>4, <1>5, <2>2, <3>1 DEF Skip
  <2> QED BY <1>5, <2>1, <2>2
<1>6. CASE Get(w) \/ Finish(w)
  <2>1. cache' = cache /\ \A v \in Workers \ {w} : job'[v] = job[v]
    BY <1>1, <1>6 DEF Get, Finish
  <2> QED BY <1>4, <1>6, <2>1 DEF Get, Finish
<1>7. CASE ReadCache(w)
  <2>1. cache[Key(w)] \in Obj /\ cache' = cache
    BY <1>1, <1>7 DEF TypeOK, ReadCache
  <2> QED BY <1>3, <1>4, <1>5, <1>7, <2>1, NoObjType DEF ReadCache
<1>8. CASE Fetch(w)
  <2>1. store[Key(w)] \in Obj /\ cache' = cache
    BY <1>1, <1>8 DEF TypeOK, Fetch
  <2> QED BY <1>3, <1>5, <1>8, <2>1 DEF Fetch
<1>9. CASE RecordSelfEcho(w)
  <2>1. pc[w] = "echo" /\ job' = job /\ cache' = cache /\ Goto(w, "store")
    BY <1>9 DEF RecordSelfEcho
  <2>2. pc'[w] = "store" /\ \A v \in Workers \ {w} : pc'[v] = pc[v]
    BY <2>1, OwnStep
  <2> QED BY <1>2, <2>1, <2>2, LoopLocal DEF JobsGenuine, Key
<1>10. CASE StoreReply(w)
  <2>1. /\ pc[w] = "store" /\ Goto(w, job[w].next)
        /\ cache' = [cache EXCEPT ![Key(w)] = job[w].reply]
    BY <1>10 DEF StoreReply
  <2>2. /\ job'[w].item = job[w].item /\ job'[w].obj = job[w].reply
        /\ \A v \in Workers \ {w} : job'[v] = job[v]
    BY <1>1, <1>10 DEF StoreReply, Job
  <2>3. pc'[w] \in AfterReply /\ \A v \in Workers \ {w} : pc'[v] = pc[v]
    BY <2>1, JobFields, OwnStep
  <2>4. job[w].reply \in Obj /\ Genuine(store[Key(w)], lastRV, job[w].reply)
    BY <2>1, JobFields DEF JobsGenuine
  <2> QED BY <1>2, <2>1, <2>2, <2>3, <2>4, LoopLocal DEF Key, AfterReply
<1>11. CASE PurgeCache(w)
  <2>1. /\ pc[w] = "purge" /\ job' = job /\ Goto(w, "handler")
        /\ cache' = [cache EXCEPT ![Key(w)] = NoObj]
    BY <1>11 DEF PurgeCache
  <2>2. pc'[w] = "handler" /\ \A v \in Workers \ {w} : pc'[v] = pc[v]
    BY <2>1, OwnStep
  <2> QED BY <1>2, <1>3, <2>1, <2>2, NoObjType, LoopLocal DEF JobsGenuine, Key
<1>12. CASE CallHandler(w)
  <2>1. PICK r \in IF HasHandler(job[w].item.type) THEN Outcomes ELSE {"ok"} :
          /\ job' = [job EXCEPT ![w].res = r]
          /\ Goto(w, IF ~job[w].deleting /\ (r = "err" \/ InfersReady) THEN "status" ELSE "finish")
    BY <1>12 DEF CallHandler
  <2>2. r \in {"ok", "later"}
    BY ConstantsAssumption
  <2>3. /\ job'[w].item = job[w].item /\ job'[w].obj = job[w].obj /\ job'[w].res = r
        /\ \A v \in Workers \ {w} : job'[v] = job[v]
    BY <1>1, <2>1 DEF Job
  <2>4. pc'[w] \in {"status", "finish"} /\ \A v \in Workers \ {w} : pc'[v] = pc[v]
    BY <2>1, OwnStep
  <2>5. pc[w] = "handler" /\ cache' = cache
    BY <1>12 DEF CallHandler
  <2> QED BY <1>2, <2>2, <2>3, <2>4, <2>5, LoopLocal DEF JobsGenuine, Key
<1> QED BY <1>6, <1>7, <1>8, <1>9, <1>10, <1>11, <1>12

\* The update of a status costs a version, and settles an object that was unsettled: the
\* server takes it only when the worker's copy is of the version it has.
LEMMA LoopStatus ==
  ASSUME LoopInv, TypeOK', NEW w \in Workers, UpdateReadyCondition(w)
  PROVE  LoopInv'
<1> DEFINE cur == store[Key(w)]
           new == [cur EXCEPT !.ready = "true", !.obs = ObservedGeneration(w)]
           put == [new EXCEPT !.rv = lastRV + 1]
<1> TypeOK /\ Versioned /\ CopiesGenuine /\ JobsGenuine /\ Succeeding /\ Budget
  BY DEF LoopInv
<1>1. /\ cur \in Obj /\ Key(w) \in Keys /\ job \in [Workers -> Job] /\ job[w] \in Job
      /\ lastRV \in Nat /\ job[w].obj \in Obj
  <2>1. Key(w) \in Keys /\ job[w] \in Job /\ job[w].obj \in Obj
    BY JobFields
  <2>2. job \in [Workers -> Job] /\ store \in [Keys -> Obj] /\ lastRV \in 0..MaxRV
    BY DEF TypeOK
  <2>3. lastRV \in Nat
    BY <2>2, Bounds
  <2> QED BY <2>1, <2>2, <2>3
<1>2. /\ pc[w] = "status" /\ job[w].res \in {"ok", "later"}
      /\ UNCHANGED <<WorkerFrame, cache>>
  BY DEF UpdateReadyCondition, RequestFrame, Succeeding
<1>3. new \in Obj
  <2>1. ObservedGeneration(w) \in Nat
    BY <1>1 DEF ObservedGeneration, Obj
  <2> QED BY <1>1, <2>1, ReadyUpdate
<1>4. ASSUME NEW o \in Obj, Replied(w, o, "finish") \/ Failed(w, job[w].res)
      PROVE  /\ job'[w].item.key = Key(w) /\ pc'[w] \in {"echo", "finish"}
             /\ pc'[w] = "echo" => job'[w].reply = o
             /\ \A v \in Workers \ {w} : pc'[v] = pc[v] /\ job'[v] = job[v]
  BY <1>1, <1>4, OwnStep DEF Replied, Failed, Job, Key
<1>5. CASE /\ cur.rv = job[w].obj.rv /\ cur # new /\ Exists(cur)
           /\ Write(w, "MODIFIED", new, put, "finish", job[w].res)
  <2>1. /\ Commit(Key(w), "MODIFIED", new)
        /\ Replied(w, put, "finish") \/ Failed(w, job[w].res)
    BY <1>5 DEF Write
  <2>2. put \in Obj /\ lastRV' = lastRV + 1 /\ store' = [store EXCEPT ![Key(w)] = put]
    <3>1. lastRV + 1 \in Nat
      BY <1>1
    <3> QED BY <1>3, <2>1, <3>1, RVUpdate DEF Commit
  <2>3. cur.gen = job[w].obj.gen
    BY <1>1, <1>2, <1>5 DEF JobsGenuine, Genuine
  <2>4. ShowsReady(put) /\ ~ShowsReady(cur)
    <3>1. put.ready = "true" /\ put.obs = cur.gen /\ put.gen = cur.gen
      BY <1>1, <2>3 DEF Obj, ObservedGeneration
    <3>2. cur.ready = "true" /\ cur.obs = cur.gen => cur = new
      BY <1>1, <2>3 DEF Obj, ObservedGeneration
    <3> QED BY <1>5, <3>1, <3>2 DEF ShowsReady
  <2>5. Versioned' /\ Outlives /\ Genuine(store'[Key(w)], lastRV', put)
        /\ \A i \in DOMAIN stream' :
             \/ i \in DOMAIN stream /\ stream'[i] = stream[i]
             \/ stream'[i].key = Key(w) /\ stream'[i].obj = put
    BY <1>1, <1>3, <2>1, CommitGenuine DEF EventTypes
  <2>6. UNCHANGED <<inHand, listed, cache, userOps>>
    BY <1>2 DEF WorkerFrame, env
  <2> HIDE DEF put, new, cur
  <2>7. CopiesGenuine'
    BY <2>5, <2>6, CopiesKept
  <2>8. JobsGenuine' /\ Succeeding'
    <3>1. /\ job'[w].item.key = Key(w) /\ pc'[w] \in {"echo", "finish"}
          /\ pc'[w] = "echo" => job'[w].reply = put
          /\ \A v \in Workers \ {w} : pc'[v] = pc[v] /\ job'[v] = job[v]
      BY <1>4, <2>1, <2>2
    <3> QED BY <2>5, <3>1, JobsWorker
  <2>9. Budget'
    <3>1. Cardinality(UnshownIn(store')) + 1 <= Cardinality(UnshownIn(store))
      BY <1>1, <2>2, <2>4, UnshownUpdate DEF TypeOK, cur
    <3>2. Cardinality(UnshownIn(store')) \in Nat /\ Cardinality(UnshownIn(store)) \in Nat
      BY UnshownCount
    <3>3. userOps \in Nat
      BY Bounds DEF TypeOK
    <3>4. lastRV' + Cardinality(UnshownIn(store')) <= 2 * userOps'
      BY <1>1, <2>2, <2>6, <3>1, <3>2, <3>3 DEF Budget
    <3>5. UnshownIn(store)' = UnshownIn(store')
      BY DEF UnshownIn, ShowsReady, Exists
    <3> QED BY <3>4, <3>5 DEF Budget
  <2> QED BY <2>5, <2>7, <2>8, <2>9 DEF LoopInv
<1>6. CASE /\ Replied(w, cur, "finish") \/ Failed(w, job[w].res)
           /\ UNCHANGED <<api, stream>>
  <2>1. /\ job'[w].item.key = Key(w) /\ pc'[w] \in {"echo", "finish"}
        /\ pc'[w] = "echo" => job'[w].reply = cur
        /\ \A v \in Workers \ {w} : pc'[v] = pc[v] /\ job'[v] = job[v]
    BY <1>1, <1>4, <1>6
  <2>2. Genuine(cur, lastRV, cur)
    BY <1>1 DEF Genuine, Versioned
  <2> QED BY <1>2, <1>6, <2>1, <2>2, LoopLocal
<1> QED BY <1>2, <1>5, <1>6 DEF UpdateReadyCondition, SameStatus

LEMMA LoopStep ==
  ASSUME "finalize" \notin Handlers, "err" \notin Outcomes, LoopInv, [Next]_vars
  PROVE  LoopInv'
<1>1. TypeOK'
  BY TypeStep DEF LoopInv
<1>2. CASE UNCHANGED vars
  BY <1>1, <1>2 DEF vars, LoopInv, Versioned, CopiesGenuine, JobsGenuine, Succeeding, Budget,
       UnshownIn, ShowsReady, Exists, Genuine, Key, api, env, conn
<1>3. ASSUME NEW w \in Workers, WorkerStep(w) PROVE LoopInv'
  <2>1. ~(AddFinalizer(w) \/ StripFinalizer(w) \/ CallFinalize(w))
    BY DEF LoopInv, Succeeding, AddFinalizer, StripFinalizer, CallFinalize
  <2> QED BY <1>1, <1>3, <2>1, LoopWorker, LoopStatus DEF WorkerStep
<1> QED BY <1>1, <1>2, <1>3, LoopUser, LoopBystander, LoopCrash DEF Next

\* A controller without a finalize handler, whose handlers do not fail, never writes more
\* often than its users do, however many workers poll, re-queue, resync and see their own
\* writes come back, and whatever replies are lost: updateReadyCondition repeats a status
\* exactly, and the server takes it only for the version the worker has seen.
THEOREM OwnWritesCorrect ==
  ASSUME "finalize" \notin Handlers, "err" \notin Outcomes
  PROVE  Spec => []OwnWritesBounded
<1>1. LoopInv /\ [Next]_vars => LoopInv'
  BY LoopStep
<1>2. LoopInv => OwnWritesBounded
  <2> SUFFICES ASSUME LoopInv PROVE OwnWritesBounded
    OBVIOUS
  <2>1. lastRV \in Nat /\ userOps \in Nat /\ Cardinality(UnshownIn(store)) \in Nat
    BY Bounds, UnshownCount DEF LoopInv, TypeOK
  <2> QED BY <2>1 DEF LoopInv, Budget, OwnWritesBounded
<1> QED BY <1>1, <1>2, LoopInit, PTL DEF Spec

-----------------------------------------------------------------------------
(* NoGenerationForgotten.  Two things are missing to make it inductive.  What a    *)
(* worker attends to must be said step by step; and the generation filter, which    *)
(* compares numbers and not uids, must be known to compare within one object: the  *)
(* events of a key reach the cache in an order in which an object's MODIFIED never  *)
(* follows another object's entry.                                                *)

\* The events the watch has still to store, in order.
Pending == IF Exists(inHand.obj) THEN <<inHand>> \o stream ELSE stream

\* After the first n events of s the cache entry for k, now c, is empty or of object u.
TipIs(c, s, k, n, u) ==
  \/ \E j \in 1..n : /\ s[j].key = k /\ s[j].obj.uid = u
                     /\ \A l \in j + 1..n : s[l].key # k
  \/ /\ \A l \in 1..n : s[l].key # k
     /\ c.uid \in {0, u}

\* Every MODIFIED event of s will meet a cache entry of its own object, or none.
Chain(ca, s) ==
  \A i \in DOMAIN s :
    s[i].type = "MODIFIED" => TipIs(ca[s[i].key], s, s[i].key, i - 1, s[i].obj.uid)

LEMMA TipPrefix ==
  ASSUME NEW s, NEW t, NEW n \in Nat, \A i \in 1..n : t[i] = s[i],
         NEW c, NEW k, NEW u
  PROVE  TipIs(c, s, k, n, u) => TipIs(c, t, k, n, u)
<1> SUFFICES ASSUME TipIs(c, s, k, n, u) PROVE TipIs(c, t, k, n, u)
  OBVIOUS
<1>1. CASE \A l \in 1..n : s[l].key # k
  BY <1>1 DEF TipIs
<1>2. ASSUME NEW j \in 1..n, s[j].key = k, s[j].obj.uid = u, \A l \in j + 1..n : s[l].key # k
      PROVE  TipIs(c, t, k, n, u)
  BY <1>2 DEF TipIs
<1> QED BY <1>1, <1>2 DEF TipIs

LEMMA AppendParts ==
  ASSUME NEW s \in Seq(Event), NEW e \in Event
  PROVE  LET t == Append(s, e) IN
         /\ t \in Seq(Event) /\ Len(t) = Len(s) + 1 /\ t[Len(s) + 1] = e
         /\ DOMAIN t = 1..(Len(s) + 1) /\ DOMAIN s = 1..Len(s)
         /\ \A i \in 1..Len(s) : t[i] = s[i]
  OBVIOUS

LEMMA TipAppend ==
  ASSUME NEW s \in Seq(Event), NEW e \in Event, NEW c, NEW k, NEW u,
         IF e.key = k THEN e.obj.uid = u ELSE TipIs(c, s, k, Len(s), u)
  PROVE  TipIs(c, Append(s, e), k, Len(s) + 1, u)
<1> DEFINE t == Append(s, e)
<1>1. /\ t[Len(s) + 1] = e /\ \A i \in 1..Len(s) : t[i] = s[i]
      /\ Len(s) \in Nat
  BY AppendParts
<1> HIDE DEF t
<1>2. CASE e.key = k
  BY <1>1, <1>2 DEF TipIs
<1>3. CASE e.key # k
  <2>1. TipIs(c, t, k, Len(s), u)
    BY <1>1, <1>3, TipPrefix
  <2>2. CASE \A l \in 1..Len(s) : t[l].key # k
    BY <1>1, <1>3, <2>1, <2>2 DEF TipIs
  <2>3. ASSUME NEW j \in 1..Len(s), t[j].key = k, t[j].obj.uid = u,
               \A l \in j + 1..Len(s) : t[l].key # k
        PROVE  TipIs(c, t, k, Len(s) + 1, u)
    <3>1. \A l \in j + 1..Len(s) + 1 : t[l].key # k
      BY <1>1, <1>3, <2>3
    <3>2. j \in 1..Len(s) + 1
      BY <1>1
    <3> QED BY <2>3, <3>1, <3>2 DEF TipIs
  <2> QED BY <2>1, <2>2, <2>3 DEF TipIs
<1> QED BY <1>2, <1>3 DEF t

LEMMA ChainAppend ==
  ASSUME NEW s \in Seq(Event), NEW e \in Event, NEW ca, Chain(ca, s),
         e.type = "MODIFIED" => TipIs(ca[e.key], s, e.key, Len(s), e.obj.uid)
  PROVE  Chain(ca, Append(s, e))
<1> DEFINE t == Append(s, e)
<1>1. /\ DOMAIN t = 1..Len(s) + 1 /\ DOMAIN s = 1..Len(s)
      /\ t[Len(s) + 1] = e /\ \A i \in 1..Len(s) : t[i] = s[i]
      /\ Len(s) \in Nat
  BY AppendParts
<1> HIDE DEF t
<1>2. ASSUME NEW i \in 1..Len(s) + 1, t[i].type = "MODIFIED"
      PROVE  TipIs(ca[t[i].key], t, t[i].key, i - 1, t[i].obj.uid)
  <2>1. TipIs(ca[t[i].key], s, t[i].key, i - 1, t[i].obj.uid)
    <3>1. CASE i = Len(s) + 1
      BY <1>1, <1>2, <3>1
    <3>2. CASE i # Len(s) + 1
      BY <1>1, <1>2, <3>2 DEF Chain
    <3> QED BY <3>1, <3>2
  <2>2. i - 1 \in Nat /\ \A l \in 1..i - 1 : t[l] = s[l]
    BY <1>1
  <2> QED BY <2>1, <2>2, TipPrefix
<1>3. Chain(ca, t)
  BY <1>1, <1>2 DEF Chain
<1> QED BY <1>3 DEF t

LEMMA TailParts ==
  ASSUME NEW s \in Seq(Event), s # <<>>
  PROVE  LET t == Tail(s) IN
         /\ Head(s) = s[1] /\ s[1] \in Event /\ Len(s) \in Nat \ {0}
         /\ t \in Seq(Event) /\ Len(t) = Len(s) - 1
         /\ DOMAIN t = 1..(Len(s) - 1) /\ DOMAIN s = 1..Len(s)
         /\ \A i \in 1..(Len(s) - 1) : t[i] = s[i + 1]
  OBVIOUS

\* Consuming the first event turns it into the cache entry.
LEMMA TipTail ==
  ASSUME NEW s \in Seq(Event), s # <<>>, NEW ca \in [Keys -> Obj], NEW k \in Keys,
         NEW n \in 1..Len(s), NEW u, TipIs(ca[k], s, k, n, u)
  PROVE  TipIs([ca EXCEPT ![Head(s).key] = Head(s).obj][k], Tail(s), k, n - 1, u)
<1> DEFINE t == Tail(s)
           h == s[1]
           d == [ca EXCEPT ![h.key] = h.obj]
<1>1. /\ Head(s) = h /\ Len(s) \in Nat /\ \A i \in 1..(Len(s) - 1) : t[i] = s[i + 1]
      /\ h.key \in Keys
  BY TailParts DEF Event
<1>2. d[k] = IF h.key = k THEN h.obj ELSE ca[k]
  BY <1>1
<1> HIDE DEF t, h, d
<1>3. ASSUME NEW j \in 2..n, s[j].key = k, s[j].obj.uid = u, \A l \in j + 1..n : s[l].key # k
      PROVE  TipIs(d[k], t, k, n - 1, u)
  <2>1. j - 1 \in 1..n - 1 /\ t[j - 1] = s[j]
    BY <1>1
  <2>2. \A l \in (j - 1) + 1..n - 1 : t[l].key # k
    <3>1. \A l \in (j - 1) + 1..n - 1 : l \in 1..Len(s) - 1 /\ l + 1 \in j + 1..n
      BY <1>1
    <3> QED BY <1>1, <1>3, <3>1
  <2> QED BY <1>3, <2>1, <2>2 DEF TipIs
<1>4. ASSUME \A l \in 2..n : s[l].key # k, d[k].uid \in {0, u}
      PROVE  TipIs(d[k], t, k, n - 1, u)
  <2>1. \A l \in 1..n - 1 : l \in 1..Len(s) - 1 /\ l + 1 \in 2..n
    BY <1>1
  <2>2. \A l \in 1..n - 1 : t[l].key # k
    BY <1>1, <1>4, <2>1
  <2> QED BY <1>4, <2>2 DEF TipIs
<1>5. CASE \A l \in 1..n : s[l].key # k
  <2>1. h.key # k
    BY <1>1, <1>5 DEF h
  <2>2. ca[k].uid \in {0, u}
    BY <1>5 DEF TipIs
  <2> QED BY <1>1, <1>2, <1>4, <1>5, <2>1, <2>2 DEF t, d, h
<1>6. ASSUME NEW j \in 1..n, s[j].key = k, s[j].obj.uid = u, \A l \in j + 1..n : s[l].key # k
      PROVE  TipIs(d[k], t, k, n - 1, u)
  <2>1. CASE j = 1
    <3>1. d[k].uid = u /\ \A l \in 2..n : s[l].key # k
      BY <1>2, <1>6, <2>1 DEF h
    <3> QED BY <1>4, <3>1
  <2>2. CASE j # 1
    BY <1>3, <1>6, <2>2
  <2> QED BY <2>1, <2>2
<1>7. TipIs(d[k], t, k, n - 1, u)
  BY <1>4, <1>5, <1>6, <1>2, <1>1 DEF TipIs, h
<1> QED BY <1>1, <1>7 DEF d, t

LEMMA ChainTail ==
  ASSUME NEW s \in Seq(Event), s # <<>>, NEW ca \in [Keys -> Obj], Chain(ca, s)
  PROVE  Chain([ca EXCEPT ![Head(s).key] = Head(s).obj], Tail(s))
<1> DEFINE t == Tail(s)
           d == [ca EXCEPT ![Head(s).key] = Head(s).obj]
<1>1. /\ DOMAIN t = 1..Len(s) - 1 /\ DOMAIN s = 1..Len(s) /\ Len(s) \in Nat
      /\ \A i \in 1..Len(s) - 1 : t[i] = s[i + 1]
  BY TailParts
<1>2. ASSUME NEW i \in DOMAIN t, t[i].type = "MODIFIED"
      PROVE  TipIs(d[t[i].key], t, t[i].key, i - 1, t[i].obj.uid)
  <2>1. /\ i + 1 \in DOMAIN s /\ t[i] = s[i + 1] /\ i \in 1..Len(s) /\ (i + 1) - 1 = i
        /\ t[i] \in Event
    BY <1>1
  <2>2. TipIs(ca[t[i].key], s, t[i].key, i, t[i].obj.uid)
    BY <1>2, <2>1 DEF Chain
  <2>3. t[i].key \in Keys
    BY <2>1 DEF Event
  <2> QED BY <2>1, <2>2, <2>3, TipTail
<1>3. Chain(d, t)
  BY <1>2 DEF Chain
<1> QED BY <1>3

\* Entries only get lost: purging one keeps the order.
LEMMA TipPurged ==
  ASSUME NEW c, NEW s, NEW k, NEW n, NEW u, TipIs(c, s, k, n, u)
  PROVE  TipIs(NoObj, s, k, n, u)
  BY DEF TipIs, NoObj

LEMMA ChainPurged ==
  ASSUME NEW ca, NEW da, NEW s, Chain(ca, s),
         \A i \in DOMAIN s : da[s[i].key] \in {ca[s[i].key], NoObj}
  PROVE  Chain(da, s)
  BY TipPurged DEF Chain

\* No worker waits for the reply to a write.
NoReplies ==
  /\ echoKeys = {}
  /\ \A w \in Workers : pc[w] \notin {"addFin", "finalize", "stripFin", "echo", "store"}

\* While the watch is up, what it sends next will continue what it has sent.
Tips == \A k \in Keys :
  watching /\ Exists(store[k]) => TipIs(cache[k], Pending, k, Len(Pending), store[k].uid)

Ordered ==
  /\ \A k \in Keys : ~Exists(listed[k])
  /\ \A i \in DOMAIN stream : Exists(stream[i].obj)
  /\ Chain(cache, Pending) /\ Tips

LEMMA PendingType == ASSUME TypeOK PROVE Pending \in Seq(Event)
  BY DEF TypeOK, Pending

LEMMA PendingAppend ==
  ASSUME TypeOK, NEW e \in Event, stream' = Append(stream, e), inHand' = inHand
  PROVE  Pending' = Append(Pending, e)
<1>1. stream \in Seq(Event) /\ inHand \in Event
  BY DEF TypeOK
<1>2. <<inHand>> \o Append(stream, e) = Append(<<inHand>> \o stream, e)
  BY <1>1
<1> QED BY <1>2 DEF Pending, Exists

LEMMA OrderedInit == Init => Ordered
<1> SUFFICES ASSUME Init PROVE Ordered
  OBVIOUS
<1>1. Pending = <<>>
  BY DEF Init, Pending, NoEvent, NoObj, Exists
<1>2. Chain(cache, Pending)
  BY <1>1 DEF Chain
<1> QED BY <1>2 DEF Init, Ordered, Tips, NoObj, Exists

\* A step that leaves the server and the watch alone and at most empties cache entries.
LEMMA OrderedStill ==
  ASSUME TypeOK, TypeOK', Ordered, UNCHANGED <<api, listed, conn>>,
         \A k \in Keys : cache'[k] \in {cache[k], NoObj}
  PROVE  Ordered'
<1>1. Pending \in Seq(Event) /\ Pending' = Pending /\ store' = store /\ watching' = watching
      /\ stream' = stream
  BY PendingType DEF Pending, Exists, conn, api
<1>2. \A i \in DOMAIN Pending : Pending[i].key \in Keys
  <2>1. \A i \in DOMAIN Pending : Pending[i] \in Event
    BY <1>1
  <2> QED BY <2>1 DEF Event
<1>3. Chain(cache', Pending')
  BY <1>1, <1>2, ChainPurged DEF Ordered
<1>4. \A k \in Keys : watching' /\ Exists(store'[k])
         => TipIs(cache'[k], Pending', k, Len(Pending'), store'[k].uid)
  BY <1>1, TipPurged DEF Ordered, Tips
<1>5. Tips'
  BY <1>4 DEF Tips, Exists
<1>6. Chain(cache, Pending)'
  BY <1>3 DEF Chain
<1> QED BY <1>1, <1>5, <1>6 DEF Ordered, Exists

LEMMA OrderedUser ==
  ASSUME TypeOK, TypeOK', Ordered, UserStep PROVE Ordered'
<1> ASSUME NEW k \in Keys, NEW type \in EventTypes, NEW o \in Obj, UserWrite(k, type, o),
           Exists(o),
           type = "MODIFIED" => Exists(store[k]) /\ o.uid = store[k].uid
    PROVE  Ordered'
  <2> DEFINE new == [o EXCEPT !.rv = lastRV + 1]
             ev  == [type |-> type, key |-> k, obj |-> new]
  <2>1. /\ store' = [store EXCEPT ![k] = IF type = "DELETED" THEN NoObj ELSE new]
        /\ UNCHANGED <<watching, inHand, listed, cache>>
        /\ stream' = IF watching THEN Append(stream, ev) ELSE stream
    BY DEF UserWrite, Commit
  <2>2. new \in Obj /\ new.uid = o.uid
    <3>1. lastRV + 1 \in Nat
      BY Bounds DEF TypeOK
    <3> QED BY <3>1, RVUpdate DEF Obj
  <2>3. ev \in Event /\ ev.type = type /\ ev.key = k /\ ev.obj = new
    BY <2>2 DEF Event
  <2>4. CASE ~watching
    <3>1. Pending' = Pending /\ stream' = stream
      BY <2>1, <2>4 DEF Pending, Exists
    <3>2. Chain(cache, Pending)'
      BY <2>1, <3>1 DEF Ordered, Chain, TipIs
    <3> QED BY <2>1, <2>4, <3>1, <3>2 DEF Ordered, Tips, Exists
  <2>5. CASE watching
    <3> DEFINE s == Pending
    <3>1. s \in Seq(Event) /\ Pending' = Append(s, ev) /\ Len(Append(s, ev)) = Len(s) + 1
      BY <2>1, <2>3, <2>5, PendingType, PendingAppend, AppendParts
    <3>2. type = "MODIFIED" => TipIs(cache[k], s, k, Len(s), o.uid)
      BY <2>5 DEF Ordered, Tips
    <3>3. Chain(cache', Pending')
      BY <2>1, <2>2, <2>3, <3>1, <3>2, ChainAppend DEF Ordered
    <3>4. ASSUME NEW l \in Keys, store'[l].uid # 0
          PROVE  TipIs(cache'[l], Pending', l, Len(Pending'), store'[l].uid)
      <4>1. CASE l = k
        <5>1. store'[k].uid = o.uid
          BY <2>1, <2>2, <3>4, <4>1 DEF TypeOK, NoObj
        <5>2. TipIs(cache[k], Append(s, ev), k, Len(s) + 1, o.uid)
          BY <2>2, <2>3, <3>1, TipAppend
        <5> QED BY <2>1, <3>1, <4>1, <5>1, <5>2
      <4>2. CASE l # k
        <5>1. store'[l] = store[l]
          BY <2>1, <4>2 DEF TypeOK
        <5>2. TipIs(cache[l], s, l, Len(s), store[l].uid)
          BY <2>5, <3>4, <5>1 DEF Ordered, Tips, Exists
        <5>3. TipIs(cache[l], Append(s, ev), l, Len(s) + 1, store[l].uid)
          BY <2>3, <3>1, <4>2, <5>2, TipAppend
        <5> QED BY <2>1, <3>1, <5>1, <5>3
      <4> QED BY <4>1, <4>2
    <3>5. \A i \in DOMAIN stream' : stream'[i].obj.uid # 0
      <4>1. stream \in Seq(Event)
        BY DEF TypeOK
      <4>2. /\ DOMAIN stream' = 1..(Len(stream) + 1) /\ DOMAIN stream = 1..Len(stream)
            /\ stream'[Len(stream) + 1] = ev
            /\ \A i \in 1..Len(stream) : stream'[i] = stream[i]
        BY <2>1, <2>3, <2>5, <4>1, AppendParts
      <4>3. \A i \in 1..Len(stream) : stream'[i].obj.uid # 0
        BY <4>2 DEF Ordered, Exists
      <4>4. stream'[Len(stream) + 1].obj.uid # 0
        BY <2>2, <2>3, <4>2 DEF Exists
      <4> QED BY <4>1, <4>2, <4>3, <4>4
    <3>6. Tips'
      BY <3>4 DEF Tips, Exists
    <3>7. Chain(cache, Pending)'
      BY <3>3 DEF Chain
    <3> QED BY <2>1, <3>5, <3>6, <3>7 DEF Ordered, Exists
  <2> QED BY <2>4, <2>5
<1>1. PICK k \in Keys : UserCreate(k) \/ UserEdit(k) \/ UserTouch(k) \/ UserDelete(k)
  BY DEF UserStep
<1>2. store[k] \in Obj /\ lastRV \in Nat
  BY Bounds DEF TypeOK
<1>3. CASE UserCreate(k)
  <2> DEFINE o == [NoObj EXCEPT !.uid = lastRV + 1, !.gen = 1]
  <2>1. lastRV + 1 \in Nat /\ lastRV + 1 # 0
    BY <1>2
  <2>2. o \in Obj
    BY <2>1, Created, Zenon
  <2>3. Exists(o)
    BY <2>1 DEF Exists, NoObj
  <2> QED BY <1>3, <2>2, <2>3 DEF UserCreate, EventTypes
<1>4. CASE UserEdit(k)
  <2> DEFINE o == [store[k] EXCEPT !.gen = store[k].gen + 1]
  <2>1. o \in Obj /\ o.uid = store[k].uid
    BY <1>2, GenUpdate DEF Obj
  <2> QED BY <1>4, <2>1 DEF UserEdit, EventTypes, Exists
<1>5. CASE UserTouch(k)
  BY <1>2, <1>5 DEF UserTouch, EventTypes
<1>6. CASE UserDelete(k)
  <2> DEFINE o == [store[k] EXCEPT !.del = TRUE, !.gen = store[k].gen + 1]
  <2>1. o \in Obj /\ o.uid = store[k].uid
    BY <1>2, DelUpdate DEF Obj
  <2> QED BY <1>2, <1>6, <2>1 DEF UserDelete, EventTypes, Exists
<1> QED BY <1>1, <1>3, <1>4, <1>5, <1>6

\* A new watch shows every live object exactly once.
LEMMA OrderedOpen ==
  ASSUME TypeOK, TypeOK', Ordered, WatchOpen PROVE Ordered'
<1> DEFINE live == {k \in Keys : Exists(store[k])}
           n    == Cardinality(live)
<1>1. PICK order \in [1..n -> live] :
        /\ \A i, j \in DOMAIN order : order[i] = order[j] => i = j
        /\ stream' = [i \in DOMAIN order |->
                        [type |-> "ADDED", key |-> order[i], obj |-> store[order[i]]]]
  BY DEF WatchOpen
<1>2. IsFiniteSet(live) /\ n \in Nat
  BY ConstantsAssumption, FS_Subset, FS_CardinalityType
<1>3. /\ UNCHANGED <<store, inHand, listed, cache>>
      /\ ~Exists(inHand.obj)
  BY DEF WatchOpen, api
<1>4. /\ DOMAIN stream' = 1..n
      /\ \A i \in 1..n : stream'[i].type = "ADDED" /\ stream'[i].key = order[i]
                         /\ stream'[i].obj = store[order[i]]
      /\ \A i \in 1..n : order[i] \in live
  BY <1>1
<1>5. Len(stream') = n
  BY <1>2, <1>4 DEF TypeOK
<1>6. Pending' = stream'
  BY <1>3 DEF Pending, Exists
<1>7. ASSUME NEW k \in live PROVE \E j \in 1..n : order[j] = k
  <2>1. SUFFICES ASSUME \A j \in 1..n : order[j] # k PROVE FALSE
    OBVIOUS
  <2>2. order \in [1..n -> live \ {k}]
    BY <2>1
  <2>3. IsFiniteSet(1..n) /\ Cardinality(1..n) = n
    <3>1. 1 \in Int /\ n \in Int
      BY <1>2
    <3>2. IsFiniteSet(1..n) /\ Cardinality(1..n) = IF 1 > n THEN 0 ELSE n - 1 + 1
      BY <3>1, FS_Interval
    <3> QED BY <1>2, <3>2
  <2>4. IsFiniteSet(live \ {k}) /\ Cardinality(live \ {k}) = n - 1
    BY <1>2, FS_RemoveElement
  <2>5. n - 1 < n
    BY <1>2
  <2>6. \E x, y \in 1..n : x # y /\ order[x] = order[y]
    <3> DEFINE R == 1..n
               T == live \ {k}
    <3>1. /\ IsFiniteSet(R) /\ IsFiniteSet(T) /\ Cardinality(T) < Cardinality(R)
          /\ order \in [R -> T]
      BY <2>2, <2>3, <2>4, <2>5
    <3> HIDE DEF R, T
    <3>2. \E x, y \in R : x # y /\ order[x] = order[y]
      BY <3>1, FS_PigeonHole
    <3> QED BY <3>2 DEF R
  <2> QED BY <1>1, <2>6
<1> HIDE DEF n
<1>8. ASSUME NEW k \in Keys, store'[k].uid # 0
      PROVE  TipIs(cache'[k], stream', k, Len(stream'), store'[k].uid)
  <2>1. PICK j \in 1..n : order[j] = k
    BY <1>3, <1>7, <1>8 DEF Exists
  <2>2. \A l \in j + 1..n : stream'[l].key # k
    <3>1. ASSUME NEW l \in j + 1..n PROVE l \in 1..n /\ l # j
      BY <1>2
    <3> QED BY <1>1, <1>4, <2>1, <3>1
  <2>3. stream'[j].key = k /\ stream'[j].obj.uid = store'[k].uid
    BY <1>3, <1>4, <2>1
  <2> QED BY <1>5, <2>2, <2>3 DEF TipIs
<1>9. Tips'
  BY <1>6, <1>8 DEF Tips, Exists
<1>10. Chain(cache, Pending)'
  BY <1>4, <1>6 DEF Chain
<1>11. \A i \in DOMAIN stream' : stream'[i].obj.uid # 0
  BY <1>4 DEF Exists
<1> QED BY <1>3, <1>9, <1>10, <1>11 DEF Ordered, Exists

LEMMA OrderedClose ==
  ASSUME TypeOK, TypeOK', Ordered, WatchClose PROVE Ordered'
<1>1. watching' = FALSE /\ stream' = <<>> /\ UNCHANGED <<inHand, listed, cache>>
  BY DEF WatchClose
<1>2. inHand \in Event /\ stream \in Seq(Event)
  BY DEF TypeOK
<1>3. Chain(cache', Pending')
  <2>1. CASE ~Exists(inHand.obj)
    <3>1. Pending' = <<>>
      BY <1>1, <2>1 DEF Pending, Exists
    <3> QED BY <3>1 DEF Chain
  <2>2. CASE Exists(inHand.obj)
    <3>1. Pending' = <<inHand>> /\ Pending = <<inHand>> \o stream
      BY <1>1, <1>2, <2>2 DEF Pending, Exists
    <3>2. 1 \in DOMAIN Pending /\ Pending[1] = inHand
      BY <1>2, <3>1
    <3>3. inHand.type = "MODIFIED" =>
            TipIs(cache[inHand.key], Pending, inHand.key, 0, inHand.obj.uid)
      BY <3>2 DEF Ordered, Chain
    <3>4. inHand.type = "MODIFIED" =>
            TipIs(cache'[inHand.key], Pending', inHand.key, 0, inHand.obj.uid)
      BY <1>1, <3>3 DEF TipIs
    <3> QED BY <3>1, <3>4 DEF Chain
  <2> QED BY <2>1, <2>2
<1>4. Chain(cache, Pending)'
  BY <1>3 DEF Chain
<1> QED BY <1>1, <1>4 DEF Ordered, Tips, Exists

LEMMA OrderedReceive ==
  ASSUME TypeOK, TypeOK', Ordered, echoKeys = {}, WatchReceive PROVE Ordered'
<1>1. /\ stream # <<>> /\ ~Exists(inHand.obj) /\ stream' = Tail(stream)
      /\ inHand' = Head(stream) /\ UNCHANGED <<store, watching, listed, cache>>
  BY DEF WatchReceive, api
<1>2. stream \in Seq(Event)
  BY DEF TypeOK
<1>3. /\ Head(stream) = stream[1] /\ 1 \in DOMAIN stream
      /\ DOMAIN Tail(stream) = 1..(Len(stream) - 1) /\ DOMAIN stream = 1..Len(stream)
      /\ Len(stream) \in Nat
      /\ \A i \in 1..(Len(stream) - 1) : Tail(stream)[i] = stream[i + 1]
  BY <1>1, <1>2, TailParts
<1>4. Pending = stream /\ Pending' = <<Head(stream)>> \o Tail(stream)
  BY <1>1, <1>3 DEF Pending, Ordered, Exists
<1>5. <<Head(stream)>> \o Tail(stream) = stream
  BY <1>1, <1>2
<1>6. Pending' = Pending
  BY <1>4, <1>5
<1>7. Chain(cache, Pending)'
  BY <1>1, <1>6 DEF Ordered, Chain, TipIs
<1>8. Tips'
  BY <1>1, <1>6 DEF Ordered, Tips, TipIs, Exists
<1>9. \A i \in DOMAIN stream' : stream'[i].obj.uid # 0
  BY <1>1, <1>3 DEF Ordered, Exists
<1> QED BY <1>1, <1>7, <1>8, <1>9 DEF Ordered, Exists

LEMMA PendingHead ==
  ASSUME TypeOK, Exists(inHand.obj)
  PROVE  /\ Pending \in Seq(Event) /\ Pending # <<>> /\ Head(Pending) = inHand
         /\ Tail(Pending) = stream
<1>1. stream \in Seq(Event) /\ inHand \in Event /\ Pending = <<inHand>> \o stream
  BY DEF TypeOK, Pending
<1> QED BY <1>1

LEMMA OrderedStore ==
  ASSUME TypeOK, TypeOK', Ordered, ~Filtered, WatchStore PROVE Ordered'
<1>1. /\ Exists(inHand.obj) /\ inHand' = NoEvent
      /\ cache' = [cache EXCEPT ![inHand.key] = inHand.obj]
      /\ UNCHANGED <<store, watching, stream, listed>>
  BY DEF WatchStore, api
<1>2. /\ Pending \in Seq(Event) /\ Pending # <<>> /\ Head(Pending) = inHand
      /\ Tail(Pending) = stream
  BY <1>1, PendingHead
<1>3. Pending' = stream
  BY <1>1 DEF Pending, NoEvent, NoObj, Exists
<1>4. cache \in [Keys -> Obj]
  BY DEF TypeOK
<1>5. Chain(cache', Pending')
  BY <1>1, <1>2, <1>3, <1>4, ChainTail DEF Ordered
<1>6. ASSUME NEW k \in Keys, watching, Exists(store[k])
      PROVE  TipIs(cache'[k], Pending', k, Len(Pending'), store[k].uid)
  <2>1. Len(Pending) \in 1..Len(Pending) /\ Len(stream) = Len(Pending) - 1
    BY <1>2, TailParts
  <2>2. TipIs(cache[k], Pending, k, Len(Pending), store[k].uid)
    BY <1>6 DEF Ordered, Tips
  <2> QED BY <1>1, <1>2, <1>3, <1>4, <2>1, <2>2, TipTail
<1>7. Tips'
  BY <1>1, <1>6 DEF Tips, Exists
<1>8. Chain(cache, Pending)'
  BY <1>5 DEF Chain
<1> QED BY <1>1, <1>7, <1>8 DEF Ordered, Exists

\* Without a finalizer and a status to write, a worker writes nothing to the server and
\* at most takes an entry out of the cache.
LEMMA WorkerWrites ==
  ASSUME TypeOK, NoReplies, ~StatusSubresource, NEW w \in Workers, WorkerStep(w)
  PROVE  /\ UNCHANGED <<api, listed, conn, echoKeys>>
         /\ \A k \in Keys : cache'[k] \in {cache[k], NoObj}
<1>1. ~(AddFinalizer(w) \/ StripFinalizer(w) \/ CallFinalize(w) \/ RecordSelfEcho(w) \/ StoreReply(w))
  BY DEF NoReplies, AddFinalizer, StripFinalizer, CallFinalize, RecordSelfEcho, StoreReply
<1>2. CASE UpdateReadyCondition(w)
  BY <1>2 DEF UpdateReadyCondition, RequestFrame, WorkerFrame, conn
<1>3. CASE PurgeCache(w)
  BY <1>3 DEF PurgeCache, WorkerFrame, conn, TypeOK
<1>4. CASE Get(w) \/ ReadCache(w) \/ Fetch(w) \/ CallHandler(w) \/ Finish(w)
  BY <1>4 DEF Get, ReadCache, Fetch, CallHandler, Finish, WorkerFrame, conn
<1> QED BY <1>1, <1>2, <1>3, <1>4 DEF WorkerStep

LEMMA OrderedStep ==
  ASSUME TypeOK, TypeOK', ~StatusSubresource, ~Filtered, ~Resync, NoReplies, Ordered, [Next]_vars
  PROVE  Ordered'
<1>1. CASE UNCHANGED vars
  BY <1>1, OrderedStill DEF vars
<1>2. CASE ResyncStep
  <2>1. PICK k \in Keys : ResyncStore(k)
    BY <1>2 DEF ResyncStep, ResyncList
  <2> QED BY <2>1 DEF ResyncStore, Ordered
<1>3. CASE ChildStep \/ \E i \in waiting : Timer(i)
  <2>1. UNCHANGED <<api, listed, conn, cache>>
    BY <1>3 DEF ChildStep, SecondaryEvent, Timer
  <2> QED BY <2>1, OrderedStill
<1>4. CASE Crash
  <2>1. /\ watching' = FALSE /\ stream' = <<>> /\ inHand' = NoEvent
        /\ listed' = [k \in Keys |-> NoObj]
    BY <1>4 DEF Crash
  <2>2. Pending' = <<>>
    BY <2>1 DEF Pending, NoEvent, NoObj, Exists
  <2>3. Chain(cache, Pending)'
    BY <2>2 DEF Chain
  <2> QED BY <2>1, <2>3 DEF Ordered, Tips, Exists, NoObj
<1>5. ASSUME NEW w \in Workers, WorkerStep(w) PROVE Ordered'
  BY <1>5, WorkerWrites, OrderedStill
<1>6. CASE WatchStep
  BY <1>6, OrderedOpen, OrderedReceive, OrderedStore DEF WatchStep, NoReplies
<1> QED BY <1>1, <1>2, <1>3, <1>4, <1>5, <1>6, OrderedUser, OrderedClose DEF Next

LEMMA NoRepliesStep ==
  ASSUME TypeOK, ~StatusSubresource, "finalize" \notin Handlers, NoReplies, [Next]_vars
  PROVE  NoReplies'
<1>1. CASE UNCHANGED vars
  BY <1>1 DEF vars, NoReplies
<1>2. CASE UserStep \/ WatchClose \/ WatchStep \/ ResyncStep \/ ChildStep \/ \E i \in waiting : Timer(i)
  <2>1. pc' = pc /\ echoKeys' \subseteq echoKeys
    BY <1>2 DEF UserStep, UserCreate, UserEdit, UserTouch, UserDelete, UserWrite, WatchClose, WatchStep,
       WatchOpen, WatchReceive, WatchStore, ResyncStep, ResyncList, ResyncStore, ChildStep,
       SecondaryEvent, Timer
  <2> QED BY <2>1 DEF NoReplies
<1>3. CASE Crash
  BY <1>3 DEF Crash, NoReplies
<1>4. ASSUME NEW w \in Workers, WorkerStep(w) PROVE NoReplies'
  <2>1. echoKeys' = echoKeys
    BY <1>4, WorkerWrites
  <2>2. \E s \in {"idle", "read", "fetch", "purge", "handler", "status", "finish"} : Goto(w, s)
    <3>1. \A o : Dispatch(w, o) => Goto(w, Body(job[w].item))
      BY DEF Dispatch, Route
    <3>2. Body(job[w].item) \in {"purge", "handler"}
      BY DEF Body
    <3>3. CASE Get(w) \/ ReadCache(w) \/ Fetch(w) \/ PurgeCache(w) \/ CallHandler(w) \/ Finish(w)
      BY <3>1, <3>2, <3>3 DEF Get, ReadCache, Fetch, PurgeCache, CallHandler, Finish, Skip
    <3>4. CASE UpdateReadyCondition(w)
      BY <3>4 DEF UpdateReadyCondition, Failed
    <3>5. ~(AddFinalizer(w) \/ StripFinalizer(w) \/ CallFinalize(w) \/ RecordSelfEcho(w) \/ StoreReply(w))
      BY DEF NoReplies, AddFinalizer, StripFinalizer, CallFinalize, RecordSelfEcho, StoreReply
    <3> QED BY <1>4, <3>3, <3>4, <3>5 DEF WorkerStep
  <2> QED BY <2>1, <2>2, OwnStep DEF NoReplies
<1> QED BY <1>1, <1>2, <1>3, <1>4 DEF Next

-----------------------------------------------------------------------------
\* A worker at step p with record j is looking, or will look, at generation g of object u.
BusyAs(p, j, k, u, g) ==
  /\ j.item.key = k
  /\ \/ p = "read"
     \/ /\ j.obj.uid = u /\ j.obj.gen = g
        /\ \/ p = "purge" /\ j.res = "none"
           \/ p = "handler" /\ j.item.type # "DELETED" /\ j.res = "none"
           \/ p \in {"status", "finish"} /\ j.res = "err"

Noted(k, u, g) ==
  \/ <<u, g, FALSE>> \in handled \/ <<u, g>> \in abandoned
  \/ \E i \in dirty \union waiting : i.key = k

Cared(k, u, g) == Noted(k, u, g) \/ \E w \in Workers : BusyAs(pc[w], job[w], k, u, g)

AllCared == \A k \in Keys : Exists(cache[k]) => Cared(k, cache[k].uid, cache[k].gen)

\* Steps of no worker forget nothing.
LEMMA CaredKept ==
  ASSUME handled \subseteq handled', abandoned \subseteq abandoned',
         dirty \union waiting \subseteq dirty' \union waiting', UNCHANGED <<pc, job>>,
         NEW k, NEW u, NEW g, Cared(k, u, g)
  PROVE  Cared(k, u, g)'
  BY DEF Cared, Noted, BusyAs

LEMMA AddKeeps ==
  ASSUME NEW item, Add(item) PROVE item \in dirty' /\ dirty \subseteq dirty'
  BY DEF Add

\* Worker w's step: what is queued stays so or is what w now looks at, and what w was
\* looking at it still is, or has dealt with.
LEMMA CaredWorker ==
  ASSUME AllCared, NEW w \in Workers,
         \A v \in Workers \ {w} : pc'[v] = pc[v] /\ job'[v] = job[v],
         handled \subseteq handled', abandoned \subseteq abandoned', waiting \subseteq waiting',
         \A i \in dirty : i \in dirty' \/ (pc'[w] = "read" /\ job'[w].item = i),
         \A k \in Keys : cache'[k] \in {cache[k], NoObj},
         \A k \in Keys : cache'[k] = cache[k] /\ BusyAs(pc[w], job[w], k, cache[k].uid, cache[k].gen) =>
           \/ <<cache[k].uid, cache[k].gen, FALSE>> \in handled'
           \/ <<cache[k].uid, cache[k].gen>> \in abandoned'
           \/ \E i \in waiting' : i.key = k
           \/ BusyAs(pc'[w], job'[w], k, cache[k].uid, cache[k].gen)
  PROVE  AllCared'
<1>1. ASSUME NEW k \in Keys, cache'[k].uid # 0
      PROVE  Cared(k, cache[k].uid, cache[k].gen)'
  <2> DEFINE u == cache[k].uid
             g == cache[k].gen
  <2>1. cache'[k] = cache[k] /\ Cared(k, u, g)
    BY <1>1 DEF AllCared, Exists, NoObj
  <2>2. CASE Noted(k, u, g)
    <3>1. CASE <<u, g, FALSE>> \in handled \/ <<u, g>> \in abandoned
      BY <2>1, <3>1 DEF Cared, Noted
    <3>2. ASSUME NEW i \in dirty \union waiting, i.key = k PROVE Cared(k, cache[k].uid, cache[k].gen)'
      <4>1. CASE i \in dirty' \union waiting'
        BY <3>2, <4>1 DEF Cared, Noted
      <4>2. CASE pc'[w] = "read" /\ job'[w].item = i
        BY <3>2, <4>2 DEF Cared, BusyAs
      <4> QED BY <3>2, <4>1, <4>2
    <3> QED BY <2>2, <3>1, <3>2 DEF Noted
  <2>3. ASSUME NEW v \in Workers, BusyAs(pc[v], job[v], k, u, g)
        PROVE  Cared(k, cache[k].uid, cache[k].gen)'
    <3>1. CASE v # w
      BY <2>1, <2>3, <3>1 DEF Cared, BusyAs
    <3>2. CASE v = w
      BY <2>1, <2>3, <3>2 DEF Cared, BusyAs, Noted
    <3> QED BY <3>1, <3>2
  <2> QED BY <2>1, <2>2, <2>3 DEF Cared
<1> QED BY <1>1 DEF AllCared, Exists

\* A step of no worker that adds no entry to the cache.
LEMMA CaredStill ==
  ASSUME AllCared, handled \subseteq handled', abandoned \subseteq abandoned',
         dirty \union waiting \subseteq dirty' \union waiting', UNCHANGED <<pc, job, cache>>
  PROVE  AllCared'
<1>1. ASSUME NEW k \in Keys, Exists(cache[k]) PROVE Cared(k, cache[k].uid, cache[k].gen)'
  <2>1. Cared(k, cache[k].uid, cache[k].gen)
    BY <1>1 DEF AllCared
  <2> QED BY <2>1 DEF Cared, Noted, BusyAs
<1> QED BY <1>1 DEF AllCared, Exists

\* A step of no worker that stores an object of key k and queues an item for it.
LEMMA CaredStored ==
  ASSUME AllCared, NEW k \in Keys, NEW o, TypeOK,
         cache' = [cache EXCEPT ![k] = o], UNCHANGED <<handled, abandoned, waiting, pc, job>>,
         dirty \subseteq dirty',
         \/ \E i \in dirty' : i.key = k
         \/ Exists(cache[k]) /\ cache[k].uid = o.uid /\ cache[k].gen = o.gen
  PROVE  AllCared'
<1>1. ASSUME NEW l \in Keys, cache'[l].uid # 0 PROVE Cared(l, cache[l].uid, cache[l].gen)'
  <2>1. CASE l = k /\ \E i \in dirty' : i.key = k
    BY <2>1 DEF Cared, Noted
  <2>2. CASE /\ l # k \/ (cache[k].uid = o.uid /\ cache[k].gen = o.gen)
             /\ Exists(cache[l])
    <3>1. cache'[l].uid = cache[l].uid /\ cache'[l].gen = cache[l].gen
      BY <2>2 DEF TypeOK
    <3>2. PICK u, g : u = cache[l].uid /\ g = cache[l].gen
      OBVIOUS
    <3>3. Cared(l, u, g)
      BY <2>2, <3>2 DEF AllCared
    <3>4. Cared(l, u, g)'
      BY <3>3, CaredKept
    <3> QED BY <3>1, <3>2, <3>4 DEF Cared, Noted, BusyAs
  <2>3. l # k => Exists(cache[l])
    BY <1>1 DEF TypeOK, Exists
  <2> QED BY <2>1, <2>2, <2>3
<1> QED BY <1>1 DEF AllCared, Exists

LEMMA CaredStore ==
  ASSUME TypeOK, AllCared, GenerationChanged => Ordered, WatchStore
  PROVE  AllCared'
<1> DEFINE old  == cache[inHand.key]
           item == [key |-> inHand.key, type |-> inHand.type,
                    old |-> IF Exists(old) THEN FreshOld ELSE 0]
<1>1. inHand.key \in Keys /\ Exists(inHand.obj) /\ UNCHANGED <<handled, abandoned, pc, job>>
  BY DEF TypeOK, Event, WatchStore, history
<1>2. CASE UNCHANGED <<cache, wq>>
  BY <1>1, <1>2, CaredStill DEF wq
<1>3. CASE /\ cache' = [cache EXCEPT ![inHand.key] = inHand.obj]
           /\ Add(item) /\ UNCHANGED <<waiting, failures>>
  <2>1. item \in dirty' /\ dirty \subseteq dirty' /\ item.key = inHand.key
    BY <1>3, AddKeeps
  <2> HIDE DEF item, old
  <2> QED BY <1>1, <1>3, <2>1, CaredStored
<1>4. CASE /\ cache' = [cache EXCEPT ![inHand.key] = inHand.obj]
           /\ SameGeneration(inHand, old) /\ UNCHANGED wq
  <2>1. GenerationChanged /\ inHand.type = "MODIFIED" /\ Exists(old) /\ old.gen = inHand.obj.gen
    BY <1>4 DEF SameGeneration
  <2>2. 1 \in DOMAIN Pending /\ Pending[1] = inHand
    BY <1>1, PendingHead, TailParts
  <2>3. TipIs(old, Pending, inHand.key, 0, inHand.obj.uid)
    BY <2>1, <2>2 DEF Ordered, Chain
  <2>4. old.uid = inHand.obj.uid
    BY <2>1, <2>3 DEF TipIs, Exists
  <2> QED BY <1>1, <1>4, <2>1, <2>4, CaredStored DEF wq
<1> QED BY <1>2, <1>3, <1>4 DEF WatchStore

LEMMA CaredBystander ==
  ASSUME TypeOK, AllCared, GenerationChanged => Ordered,
         \/ UserStep \/ WatchClose \/ WatchStep \/ ResyncStep \/ ChildStep
         \/ \E i \in waiting : Timer(i)
  PROVE  AllCared'
<1>1. CASE UserStep \/ WatchClose \/ WatchOpen \/ WatchReceive \/ ResyncList
  <2>1. UNCHANGED <<pc, job, cache, handled, abandoned, dirty, waiting>>
    BY <1>1 DEF UserStep, UserCreate, UserEdit, UserTouch, UserDelete, UserWrite, WatchClose,
       WatchOpen, WatchReceive, ResyncList, wq, history
  <2> QED BY <2>1, CaredStill
<1>2. CASE ChildStep
  <2>1. PICK k \in Keys : SecondaryEvent(k)
    BY <1>2 DEF ChildStep
  <2>2. dirty \subseteq dirty' /\ UNCHANGED <<pc, job, cache, handled, abandoned, waiting>>
    BY <2>1, AddKeeps DEF SecondaryEvent, history
  <2> QED BY <2>2, CaredStill
<1>3. ASSUME NEW i \in waiting, Timer(i) PROVE AllCared'
  <2>1. /\ i \in dirty' /\ dirty \subseteq dirty' /\ waiting' = waiting \ {i}
        /\ UNCHANGED <<pc, job, cache, handled, abandoned>>
    BY <1>3, AddKeeps DEF Timer, history
  <2> QED BY <2>1, CaredStill
<1>4. ASSUME NEW k \in Keys, ResyncStore(k) PROVE AllCared'
  <2> DEFINE item == [key |-> k, type |-> "ADDED", old |-> 0]
  <2>1. UNCHANGED <<pc, job, handled, abandoned>>
    BY <1>4 DEF ResyncStore, history
  <2>2. CASE UNCHANGED <<cache, wq>>
    BY <2>1, <2>2, CaredStill DEF wq
  <2>3. CASE /\ cache' = [cache EXCEPT ![k] = listed[k]]
             /\ Add(item) /\ UNCHANGED <<waiting, failures>>
    <3>1. item \in dirty' /\ dirty \subseteq dirty' /\ item.key = k
      BY <2>3, AddKeeps
    <3> HIDE DEF item
    <3> QED BY <2>1, <2>3, <3>1, CaredStored
  <2> QED BY <1>4, <2>2, <2>3 DEF ResyncStore
<1> QED BY <1>1, <1>2, <1>3, <1>4, CaredStore DEF WatchStep, ResyncStep

LEMMA CaredOwn ==
  ASSUME ReadyInv, AllCared, NoReplies, ~StatusSubresource, "reconcile" \in Handlers,
         "finalize" \notin Handlers, NEW w \in Workers, WorkerStep(w)
  PROVE  AllCared'
<1> TypeOK /\ job[w].seen = job[w].obj
  BY DEF ReadyInv, DictIsObj
<1>1. job \in [Workers -> Job] /\ job[w] \in Job /\ Key(w) \in Keys
  <2>1. job[w] \in Job /\ Key(w) \in Keys
    BY JobFields
  <2> QED BY <2>1 DEF TypeOK
<1>2. \A k \in Keys : cache'[k] \in {cache[k], NoObj}
  BY WorkerWrites
<1>3. ~(AddFinalizer(w) \/ StripFinalizer(w) \/ CallFinalize(w) \/ RecordSelfEcho(w) \/ StoreReply(w))
  BY DEF NoReplies, AddFinalizer, StripFinalizer, CallFinalize, RecordSelfEcho, StoreReply
<1>4. CASE Get(w)
  <2>1. /\ pc[w] = "idle" /\ Goto(w, "read") /\ dirty' = dirty \ {Head(queue)}
        /\ UNCHANGED <<cache, handled, abandoned, waiting>>
        /\ job' = [job EXCEPT ![w].item = Head(queue)]
    BY <1>4 DEF Get, history
  <2>2. /\ pc'[w] = "read" /\ job'[w].item = Head(queue)
        /\ \A v \in Workers \ {w} : pc'[v] = pc[v] /\ job'[v] = job[v]
    BY <1>1, <2>1, OwnStep DEF Job
  <2>3. \A k, u, g : ~BusyAs(pc[w], job[w], k, u, g)
    BY <2>1 DEF BusyAs
  <2> QED BY <2>1, <2>2, <2>3, CaredWorker
<1>5. CASE ReadCache(w)
  <2>1. pc[w] = "read" /\ UNCHANGED <<cache, handled, abandoned, waiting, dirty>>
    BY <1>5 DEF ReadCache, wq, history
  <2>2. ASSUME NEW k \in Keys, BusyAs(pc[w], job[w], k, cache[k].uid, cache[k].gen)
        PROVE  k = Key(w)
    BY <2>2 DEF BusyAs, Key
  <2>3. CASE Dispatch(w, cache[Key(w)])
    <3>1. /\ Goto(w, Body(job[w].item))
          /\ job' = [job EXCEPT ![w].obj = cache[Key(w)], ![w].seen = cache[Key(w)],
                                ![w].deleting = cache[Key(w)].del, ![w].res = "none"]
      BY <2>3 DEF Dispatch, Route, Body
    <3>2. /\ pc'[w] = Body(job[w].item) /\ job'[w].item = job[w].item
          /\ job'[w].obj = cache[Key(w)] /\ job'[w].res = "none"
          /\ \A v \in Workers \ {w} : pc'[v] = pc[v] /\ job'[v] = job[v]
      BY <1>1, <3>1, OwnStep DEF Job
    <3>3. BusyAs(pc'[w], job'[w], Key(w), cache[Key(w)].uid, cache[Key(w)].gen)
      BY <3>2 DEF BusyAs, Body, Key
    <3> QED BY <1>2, <2>1, <2>2, <3>2, <3>3, CaredWorker
  <2>4. CASE ~Exists(cache[Key(w)]) /\ (Skip(w) \/ (Goto(w, "fetch") /\ UNCHANGED job))
    <3>1. \A v \in Workers \ {w} : pc'[v] = pc[v] /\ job'[v] = job[v]
      BY <1>1, <2>4, OwnStep DEF Skip
    <3>2. ASSUME NEW k \in Keys, cache'[k].uid # 0 PROVE Cared(k, cache[k].uid, cache[k].gen)'
      <4>1. k # Key(w) /\ Cared(k, cache[k].uid, cache[k].gen)
        BY <2>1, <2>4, <3>2 DEF AllCared, Exists
      <4>2. ~BusyAs(pc[w], job[w], k, cache[k].uid, cache[k].gen)
        BY <2>2, <4>1
      <4> QED BY <2>1, <3>1, <4>1, <4>2 DEF Cared, Noted, BusyAs
    <3> QED BY <3>2 DEF AllCared, Exists
  <2> QED BY <1>5, <2>3, <2>4 DEF ReadCache
<1>6. CASE Fetch(w)
  <2>1. pc[w] = "fetch" /\ UNCHANGED <<cache, handled, abandoned, waiting, dirty>>
    BY <1>6 DEF Fetch, wq, history
  <2>2. \A v \in Workers \ {w} : pc'[v] = pc[v] /\ job'[v] = job[v]
    BY <1>1, <1>6, OwnStep DEF Fetch, Dispatch, Skip
  <2>3. \A k, u, g : ~BusyAs(pc[w], job[w], k, u, g)
    BY <2>1 DEF BusyAs
  <2> QED BY <2>1, <2>2, <2>3, CaredWorker
<1>7. CASE PurgeCache(w)
  <2>1. /\ pc[w] = "purge" /\ Goto(w, "handler") /\ cache' = [cache EXCEPT ![Key(w)] = NoObj]
        /\ UNCHANGED <<job, handled, abandoned, waiting, dirty>>
    BY <1>7 DEF PurgeCache, wq, history
  <2>2. \A v \in Workers \ {w} : pc'[v] = pc[v]
    BY <2>1, OwnStep
  <2>3. ASSUME NEW k \in Keys, cache'[k].uid # 0 PROVE Cared(k, cache[k].uid, cache[k].gen)'
    <3>1. k # Key(w) /\ cache'[k] = cache[k]
      BY <1>1, <2>1, <2>3 DEF TypeOK, NoObj
    <3>2. ~BusyAs(pc[w], job[w], k, cache[k].uid, cache[k].gen)
      BY <3>1 DEF BusyAs, Key
    <3>3. Cared(k, cache[k].uid, cache[k].gen)
      BY <2>3, <3>1 DEF AllCared, Exists
    <3> QED BY <2>1, <2>2, <3>1, <3>2, <3>3 DEF Cared, Noted, BusyAs
  <2> QED BY <2>3 DEF AllCared, Exists
<1>8. CASE CallHandler(w)
  <2>1. HasHandler(job[w].item.type)
    BY DEF HasHandler
  <2>2. PICK r : /\ pc[w] = "handler" /\ job' = [job EXCEPT ![w].res = r]
                 /\ Goto(w, IF ~job[w].deleting /\ (r = "err" \/ InfersReady)
                            THEN "status" ELSE "finish")
                 /\ waiting \subseteq waiting'
                 /\ handled' = IF r = "err" THEN handled
                      ELSE handled \union {<<job[w].seen.uid, job[w].seen.gen, Removal(w)>>}
                 /\ UNCHANGED <<cache, abandoned, dirty>>
    BY <1>8, <2>1 DEF CallHandler
  <2>3. /\ pc'[w] \in {"status", "finish"} /\ job'[w].item = job[w].item
        /\ job'[w].obj = job[w].obj /\ job'[w].res = r
        /\ \A v \in Workers \ {w} : pc'[v] = pc[v] /\ job'[v] = job[v]
    BY <1>1, <2>2, OwnStep DEF Job
  <2>4. ASSUME NEW k, NEW u, NEW g, BusyAs(pc[w], job[w], k, u, g)
        PROVE  <<u, g, FALSE>> \in handled' \/ BusyAs(pc'[w], job'[w], k, u, g)
    <3>1. job[w].item.key = k /\ job[w].obj.uid = u /\ job[w].obj.gen = g /\ Removal(w) = FALSE
      BY <2>2, <2>4 DEF BusyAs, Removal
    <3>2. CASE r = "err"
      BY <2>3, <3>1, <3>2 DEF BusyAs
    <3>3. CASE r # "err"
      BY <2>2, <3>1, <3>3
    <3> QED BY <3>2, <3>3
  <2> QED BY <1>2, <2>2, <2>3, <2>4, CaredWorker
<1>9. CASE UpdateReadyCondition(w)
  <2>1. pc[w] = "status" /\ Failed(w, job[w].res)
        /\ UNCHANGED <<cache, handled, abandoned, waiting, dirty>>
    BY <1>9 DEF UpdateReadyCondition, RequestFrame, wq, history
  <2>2. /\ pc'[w] = "finish" /\ job'[w] = job[w]
        /\ \A v \in Workers \ {w} : pc'[v] = pc[v] /\ job'[v] = job[v]
    BY <1>1, <2>1, OwnStep DEF Failed, Job
  <2>3. \A k, u, g : BusyAs(pc[w], job[w], k, u, g) => BusyAs(pc'[w], job'[w], k, u, g)
    BY <2>1, <2>2 DEF BusyAs
  <2> QED BY <2>1, <2>2, <2>3, CaredWorker
<1>10. CASE Finish(w)
  <2> DEFINE item  == job[w].item
             again == job[w].res = "err" /\ CanRetry(item)
  <2>1. /\ pc[w] = "finish" /\ Goto(w, "idle") /\ job' = [job EXCEPT ![w] = IdleJob]
        /\ waiting \subseteq waiting' /\ abandoned \subseteq abandoned'
        /\ UNCHANGED <<cache, handled, dirty>>
        /\ again => item \in waiting'
        /\ job[w].res = "err" /\ ~again => <<job[w].obj.uid, job[w].obj.gen>> \in abandoned'
    BY <1>10 DEF Finish
  <2>2. \A v \in Workers \ {w} : pc'[v] = pc[v] /\ job'[v] = job[v]
    BY <1>1, <2>1, OwnStep
  <2>3. ASSUME NEW k, NEW u, NEW g, BusyAs(pc[w], job[w], k, u, g)
        PROVE  <<u, g>> \in abandoned' \/ \E i \in waiting' : i.key = k
    BY <2>1, <2>3 DEF BusyAs
  <2> QED BY <2>1, <2>2, <2>3, CaredWorker
<1> QED BY <1>3, <1>4, <1>5, <1>6, <1>7, <1>8, <1>9, <1>10 DEF WorkerStep

\* The invariant of NothingForgottenCorrect.
KeepInv == ReadyInv /\ NoReplies /\ AllCared /\ (GenerationChanged => Ordered)

LEMMA KeepInit == Init => KeepInv
<1> SUFFICES ASSUME Init PROVE KeepInv
  OBVIOUS
<1>1. NoReplies
  BY DEF Init, NoReplies
<1>2. AllCared
  BY DEF Init, AllCared, Exists, NoObj
<1> QED BY <1>1, <1>2, ReadyInit, OrderedInit DEF KeepInv

LEMMA KeepStep ==
  ASSUME "reconcile" \in Handlers, "finalize" \notin Handlers, ~StatusSubresource,
         GenerationChanged => ~Filtered /\ ~Resync,
         KeepInv, [Next]_vars
  PROVE  KeepInv'
<1> TypeOK /\ ReadyInv /\ NoReplies /\ AllCared /\ (GenerationChanged => Ordered)
  BY DEF KeepInv, ReadyInv
<1>1. ReadyInv' /\ TypeOK'
  BY ReadyStep, TypeStep
<1>2. NoReplies'
  BY NoRepliesStep
<1>3. GenerationChanged => Ordered'
  BY <1>1, OrderedStep
<1>4. AllCared'
  <2>1. CASE UNCHANGED vars
    BY <2>1, CaredStill DEF vars, wq, history
  <2>2. CASE Crash
    BY <2>2 DEF Crash, AllCared, Exists, NoObj
  <2> QED BY <2>1, <2>2, CaredBystander, CaredOwn DEF Next
<1> QED BY <1>1, <1>2, <1>3, <1>4 DEF KeepInv

\* A controller with a reconcile handler, no finalize handler and a kind without a status to
\* write forgets no generation its cache has seen, for any number of workers, retries, users,
\* faults and events of other kinds.  With generation_changed it takes a watch that is the
\* only way into the cache and shows every event: each of a predicate, a resync, a status
\* that is written back and a finalizer breaks it.
THEOREM NothingForgottenCorrect ==
  ASSUME "reconcile" \in Handlers, "finalize" \notin Handlers, ~StatusSubresource,
         GenerationChanged => ~Filtered /\ ~Resync
  PROVE  Spec => []NoGenerationForgotten
<1>1. KeepInv /\ [Next]_vars => KeepInv'
  BY KeepStep
<1>2. KeepInv => NoGenerationForgotten
  <2> SUFFICES ASSUME KeepInv, NEW k \in Keys, Exists(cache[k])
               PROVE  LET o == cache[k] IN
                 \/ <<o.uid, o.gen, FALSE>> \in handled \/ <<o.uid, o.gen>> \in abandoned
                 \/ \E i \in dirty \union waiting : i.key = k
                 \/ \E w \in Workers : Attending(w, [key |-> k, uid |-> o.uid, gen |-> o.gen])
    BY DEF NoGenerationForgotten
  <2>1. Cared(k, cache[k].uid, cache[k].gen)
    BY DEF KeepInv, AllCared
  <2>2. ASSUME NEW w \in Workers, BusyAs(pc[w], job[w], k, cache[k].uid, cache[k].gen)
        PROVE  Attending(w, [key |-> k, uid |-> cache[k].uid, gen |-> cache[k].gen])
    BY <2>2 DEF BusyAs, Attending
  <2> QED BY <2>1, <2>2 DEF Cared, Noted
<1> QED BY <1>1, <1>2, KeepInit, PTL DEF Spec

-----------------------------------------------------------------------------
(* FinalizedUnlessReused.  removeFinalizer patches whatever object has the name when *)
(* the request arrives; finalize() was called with the worker's copy.  The argument is *)
(* that time runs one way: whichever copy it is, wherever it came from, it is of the *)
(* object the server has now or of an earlier one of the name.                      *)

\* A uid that a copy of an object may carry when the server has `cur` under that name
\* and versions up to n were handed out: it names that object or an earlier one.
Elder(cur, n, uid) == uid <= n /\ (Exists(cur) => uid <= cur.uid)

StoredUids == \A k \in Keys : Elder(store[k], lastRV, store[k].uid) /\ (store[k].fin => Exists(store[k]))

CopiesElder ==
  /\ \A k \in Keys : /\ Elder(store[k], lastRV, cache[k].uid)
                     /\ Elder(store[k], lastRV, listed[k].uid)
  /\ Elder(store[inHand.key], lastRV, inHand.obj.uid)
  /\ \A i \in DOMAIN stream : Elder(store[stream[i].key], lastRV, stream[i].obj.uid)

JobsElder == \A w \in Workers :
  /\ pc[w] \in {"addFin", "purge", "handler", "finalize", "stripFin", "status"} =>
       Elder(store[Key(w)], lastRV, job[w].obj.uid)
  /\ pc[w] \in {"echo", "store"} => Elder(store[Key(w)], lastRV, job[w].reply.uid)
  /\ pc[w] = "stripFin" => <<Key(w), job[w].obj.uid>> \in finalized

UidInv == TypeOK /\ StoredUids /\ CopiesElder /\ JobsElder

LEMMA UidInit == Init => UidInv
<1> SUFFICES ASSUME Init PROVE UidInv
  OBVIOUS
<1>1. TypeOK
  BY TypeInit
<1>2. StoredUids
  BY DEF Init, StoredUids, Elder, Exists, NoObj
<1>3. CopiesElder
  BY NoObjType DEF Init, CopiesElder, Elder, Exists, NoObj, NoEvent
<1>4. JobsElder
  BY DEF Init, JobsElder
<1> QED BY <1>1, <1>2, <1>3, <1>4 DEF UidInv

\* A uid that was elder stays so, whatever is written.
ElderLives ==
  \A l \in Keys, n \in Nat : Elder(store[l], lastRV, n) => Elder(store'[l], lastRV', n)

LEMMA CommitElder ==
  ASSUME TypeOK, StoredUids, NEW k \in Keys, NEW type \in EventTypes, NEW o \in Obj,
         Commit(k, type, o),
         (Exists(store[k]) /\ o.uid = store[k].uid) \/ o.uid = lastRV + 1
  PROVE  /\ StoredUids' /\ ElderLives /\ Elder(store'[k], lastRV', o.uid)
         /\ \A i \in DOMAIN stream' :
              \/ i \in DOMAIN stream /\ stream'[i] = stream[i]
              \/ stream'[i].key = k /\ stream'[i].obj.uid = o.uid
<1> DEFINE new == [o EXCEPT !.rv = lastRV + 1]
<1>1. /\ new.uid = o.uid /\ new.fin = o.fin /\ o.uid \in Nat
      /\ lastRV \in Nat /\ lastRV' = lastRV + 1
  BY Bounds DEF Obj, TypeOK, Commit
<1>2. store'[k] \in {new, NoObj} /\ \A l \in Keys \ {k} : store'[l] = store[l]
  BY DEF Commit, TypeOK
<1>3. NoObj.uid = 0 /\ NoObj.fin = FALSE
  BY DEF NoObj
<1>4. \A l \in Keys : store[l].uid \in Nat /\ store[l].uid <= lastRV
  BY DEF TypeOK, Obj, StoredUids, Elder
<1> HIDE DEF new
<1>5. o.uid <= lastRV' /\ o.uid # 0 /\ store[k].uid <= o.uid
  BY <1>1, <1>4 DEF Exists
<1>6. StoredUids'
  <2> SUFFICES ASSUME NEW l \in Keys
               PROVE  /\ Elder(store'[l], lastRV', store'[l].uid)
                      /\ store'[l].fin => Exists(store'[l])
    BY DEF StoredUids
  <2>1. CASE l = k
    BY <1>1, <1>2, <1>3, <1>5, <2>1 DEF Elder, Exists
  <2>2. CASE l # k
    BY <1>1, <1>2, <1>4, <2>2 DEF Elder, StoredUids, Exists
  <2> QED BY <2>1, <2>2
<1>7. ElderLives
  <2> SUFFICES ASSUME NEW l \in Keys, NEW n \in Nat, Elder(store[l], lastRV, n)
               PROVE  Elder(store'[l], lastRV', n)
    BY DEF ElderLives
  <2>1. n <= lastRV /\ n <= lastRV'
    BY <1>1 DEF Elder
  <2>2. CASE l = k
    BY <1>1, <1>2, <1>3, <1>5, <2>1, <2>2 DEF Elder, Exists
  <2>3. CASE l # k
    BY <1>2, <2>1, <2>3 DEF Elder
  <2> QED BY <2>2, <2>3
<1>8. Elder(store'[k], lastRV', o.uid)
  BY <1>1, <1>2, <1>3, <1>5 DEF Elder, Exists
<1>9. \A i \in DOMAIN stream' :
        \/ i \in DOMAIN stream /\ stream'[i] = stream[i]
        \/ stream'[i].key = k /\ stream'[i].obj.uid = o.uid
  <2> DEFINE ev == [type |-> type, key |-> k, obj |-> new]
  <2>1. stream \in Seq(Event) /\ (stream' = Append(stream, ev) \/ stream' = stream)
    BY DEF TypeOK, Commit, new
  <2>2. ev.key = k /\ ev.obj.uid = o.uid
    BY <1>1
  <2> HIDE DEF ev
  <2> QED BY <2>1, <2>2
<1> QED BY <1>6, <1>7, <1>8, <1>9

LEMMA StillElder ==
  ASSUME TypeOK, StoredUids, UNCHANGED api
  PROVE  /\ StoredUids' /\ ElderLives
         /\ \A l \in Keys : Elder(store'[l], lastRV', store[l].uid)
         /\ \A l \in Keys : Elder(store'[l], lastRV', NoObj.uid)
<1>1. store' = store /\ lastRV' = lastRV
  BY DEF api
<1>2. StoredUids' /\ ElderLives
  BY <1>1 DEF StoredUids, ElderLives
<1>3. \A l \in Keys : Elder(store[l], lastRV, store[l].uid)
  BY DEF StoredUids
<1>4. \A l \in Keys : Elder(store[l], lastRV, NoObj.uid)
  <2>1. NoObj.uid = 0 /\ lastRV \in Nat /\ \A l \in Keys : store[l].uid \in Nat
    BY Bounds DEF NoObj, TypeOK, Obj
  <2> QED BY <2>1 DEF Elder
<1> QED BY <1>1, <1>2, <1>3, <1>4

LEMMA ElderCopiesKept ==
  ASSUME TypeOK, CopiesElder, ElderLives, inHand' = inHand, listed' = listed,
         \A k \in Keys : cache'[k] = cache[k] \/ Elder(store'[k], lastRV', cache'[k].uid),
         \A i \in DOMAIN stream' :
           \/ \E j \in DOMAIN stream : stream'[i] = stream[j]
           \/ Elder(store'[stream'[i].key], lastRV', stream'[i].obj.uid)
  PROVE  CopiesElder'
<1>1. /\ \A k \in Keys : cache[k].uid \in Nat /\ listed[k].uid \in Nat
      /\ inHand.key \in Keys /\ inHand.obj.uid \in Nat
      /\ \A j \in DOMAIN stream : stream[j].key \in Keys /\ stream[j].obj.uid \in Nat
  <2>1. \A j \in DOMAIN stream : stream[j] \in Event
    BY DEF TypeOK
  <2> QED BY <2>1 DEF TypeOK, Event, Obj
<1>2. \A k \in Keys : /\ Elder(store'[k], lastRV', cache'[k].uid)
                      /\ Elder(store'[k], lastRV', listed'[k].uid)
  BY <1>1 DEF CopiesElder, ElderLives
<1>3. Elder(store'[inHand'.key], lastRV', inHand'.obj.uid)
  BY <1>1 DEF CopiesElder, ElderLives
<1>4. \A i \in DOMAIN stream' : Elder(store'[stream'[i].key], lastRV', stream'[i].obj.uid)
  BY <1>1 DEF CopiesElder, ElderLives
<1> QED BY <1>2, <1>3, <1>4 DEF CopiesElder

LEMMA ElderJobsKept ==
  ASSUME TypeOK, JobsElder, ElderLives, UNCHANGED <<pc, job, finalized>>
  PROVE  JobsElder'
<1>1. \A v \in Workers : /\ job[v].obj.uid \in Nat /\ job[v].reply.uid \in Nat
                         /\ job[v].item.key \in Keys
  BY JobFields DEF Key, Obj
<1> QED BY <1>1 DEF JobsElder, ElderLives, Key

\* What one worker may hold at its step.
HoldsElder(cur, n, p, j, fin) ==
  /\ p \in {"addFin", "purge", "handler", "finalize", "stripFin", "status"} =>
       Elder(cur, n, j.obj.uid)
  /\ p \in {"echo", "store"} => Elder(cur, n, j.reply.uid)
  /\ p = "stripFin" => <<j.item.key, j.obj.uid>> \in fin

LEMMA ElderJobsWorker ==
  ASSUME TypeOK, JobsElder, ElderLives, NEW w \in Workers, finalized \subseteq finalized',
         \A v \in Workers \ {w} : pc'[v] = pc[v] /\ job'[v] = job[v],
         HoldsElder(store'[job'[w].item.key], lastRV', pc'[w], job'[w], finalized')
  PROVE  JobsElder'
<1>1. \A v \in Workers : /\ job[v].obj.uid \in Nat /\ job[v].reply.uid \in Nat
                         /\ job[v].item.key \in Keys
  BY JobFields DEF Key, Obj
<1> QED BY <1>1 DEF JobsElder, ElderLives, Key, HoldsElder

\* The next state of everything but the types.
UidKept == StoredUids /\ CopiesElder /\ JobsElder

LEMMA UidUser == ASSUME UidInv, UserStep PROVE UidKept'
<1> TypeOK /\ StoredUids /\ CopiesElder /\ JobsElder
  BY DEF UidInv
<1>1. ASSUME NEW k \in Keys, NEW type \in EventTypes, NEW o \in Obj, UserWrite(k, type, o),
             (Exists(store[k]) /\ o.uid = store[k].uid) \/ o.uid = lastRV + 1
      PROVE  UidKept'
  <2>1. Commit(k, type, o) /\ UNCHANGED <<inHand, listed, cache, pc, job, finalized>>
    BY <1>1 DEF UserWrite, history
  <2>2. StoredUids' /\ ElderLives /\ Elder(store'[k], lastRV', o.uid)
        /\ \A i \in DOMAIN stream' :
             \/ i \in DOMAIN stream /\ stream'[i] = stream[i]
             \/ stream'[i].key = k /\ stream'[i].obj.uid = o.uid
    BY <1>1, <2>1, CommitElder
  <2>3. CopiesElder'
    BY <2>1, <2>2, ElderCopiesKept
  <2>4. JobsElder'
    BY <2>1, <2>2, ElderJobsKept
  <2> QED BY <2>2, <2>3, <2>4 DEF UidKept
<1>2. PICK k \in Keys : UserCreate(k) \/ UserEdit(k) \/ UserTouch(k) \/ UserDelete(k)
  BY DEF UserStep
<1>3. store[k] \in Obj /\ lastRV \in Nat
  BY Bounds DEF TypeOK
<1>4. CASE UserCreate(k)
  <2> DEFINE o == [NoObj EXCEPT !.uid = lastRV + 1, !.gen = 1]
  <2>1. o \in Obj
    <3>1. lastRV + 1 \in Nat
      BY <1>3
    <3> QED BY <3>1, Created, Zenon
  <2>2. o.uid = lastRV + 1
    BY DEF NoObj
  <2>3. UserWrite(k, "ADDED", o)
    BY <1>4 DEF UserCreate
  <2> HIDE DEF o
  <2> QED BY <1>1, <2>1, <2>2, <2>3 DEF EventTypes
<1>5. CASE UserEdit(k)
  <2> DEFINE o == [store[k] EXCEPT !.gen = store[k].gen + 1]
  <2>1. o \in Obj /\ o.uid = store[k].uid
    BY <1>3, GenUpdate DEF Obj
  <2>2. UserWrite(k, "MODIFIED", o) /\ Exists(store[k])
    BY <1>5 DEF UserEdit
  <2> HIDE DEF o
  <2> QED BY <1>1, <2>1, <2>2 DEF EventTypes
<1>6. CASE UserTouch(k)
  BY <1>1, <1>3, <1>6 DEF UserTouch, EventTypes
<1>7. CASE UserDelete(k)
  <2> DEFINE o == [store[k] EXCEPT !.del = TRUE, !.gen = store[k].gen + 1]
  <2>1. o \in Obj /\ o.uid = store[k].uid
    BY <1>3, DelUpdate DEF Obj
  <2>2. Exists(store[k]) /\ (UserWrite(k, "MODIFIED", o) \/ UserWrite(k, "DELETED", store[k]))
    BY <1>7 DEF UserDelete
  <2> HIDE DEF o
  <2> QED BY <1>1, <1>3, <2>1, <2>2 DEF EventTypes
<1> QED BY <1>2, <1>4, <1>5, <1>6, <1>7

LEMMA UidBystander ==
  ASSUME UidInv,
         WatchStep \/ WatchClose \/ ResyncStep \/ ChildStep \/ \E i \in waiting : Timer(i)
  PROVE  UidKept'
<1> TypeOK /\ StoredUids /\ CopiesElder /\ JobsElder
  BY DEF UidInv
<1>1. UNCHANGED <<api, pc, job, finalized>>
  BY DEF WatchStep, WatchOpen, WatchReceive, WatchStore, WatchClose, ResyncStep, ResyncList,
         ResyncStore, ChildStep, SecondaryEvent, Timer, history
<1>2. /\ StoredUids' /\ ElderLives
      /\ \A l \in Keys : Elder(store'[l], lastRV', store[l].uid)
      /\ \A l \in Keys : Elder(store'[l], lastRV', NoObj.uid)
  BY <1>1, StillElder
<1>3. JobsElder'
  BY <1>1, <1>2, ElderJobsKept
<1>4. store' = store /\ lastRV' = lastRV
  BY <1>1 DEF api
<1>5. CopiesElder'
  <2>1. CASE WatchOpen
    <3> DEFINE live == {k \in Keys : Exists(store[k])}
    <3>1. PICK order \in [1..Cardinality(live) -> live] :
            stream' = [i \in DOMAIN order |->
                         [type |-> "ADDED", key |-> order[i], obj |-> store[order[i]]]]
      BY <2>1 DEF WatchOpen
    <3>2. \A i \in DOMAIN stream' :
            /\ stream'[i].key \in Keys /\ stream'[i].obj = store[stream'[i].key]
      BY <3>1
    <3>3. UNCHANGED <<inHand, listed, cache>>
      BY <2>1 DEF WatchOpen
    <3> HIDE DEF live
    <3> QED BY <1>2, <3>2, <3>3, ElderCopiesKept
  <2>2. CASE WatchClose
    BY <1>2, <2>2, ElderCopiesKept DEF WatchClose
  <2>3. CASE WatchReceive
    <3>1. stream \in Seq(Event) /\ stream # <<>>
      BY <2>3 DEF WatchReceive, TypeOK
    <3>2. 1 \in DOMAIN stream /\ Head(stream) = stream[1]
      BY <3>1
    <3>3. \A i \in DOMAIN Tail(stream) : i + 1 \in DOMAIN stream /\ Tail(stream)[i] = stream[i + 1]
      BY <3>1
    <3>4. stream' = Tail(stream) /\ inHand' \in {inHand, stream[1]} /\ UNCHANGED <<listed, cache>>
      BY <2>3, <3>2 DEF WatchReceive
    <3> QED BY <1>4, <3>2, <3>3, <3>4 DEF CopiesElder
  <2>4. CASE WatchStore
    <3>1. inHand' = NoEvent /\ UNCHANGED <<stream, listed>>
      BY <2>4 DEF WatchStore
    <3>2. cache' = cache \/ cache' = [cache EXCEPT ![inHand.key] = inHand.obj]
      BY <2>4 DEF WatchStore
    <3>3. NoEvent.key \in Keys /\ NoEvent.obj = NoObj
      BY NoObjType DEF NoEvent
    <3>4. \A k \in Keys : Elder(store[k], lastRV, cache'[k].uid)
      BY <3>2 DEF CopiesElder, TypeOK
    <3> QED BY <1>2, <1>4, <3>1, <3>3, <3>4 DEF CopiesElder
  <2>5. CASE ResyncList
    BY <1>2, <1>4, <2>5 DEF ResyncList, CopiesElder, conn
  <2>6. ASSUME NEW k \in Keys, ResyncStore(k) PROVE CopiesElder'
    <3>1. /\ listed' = [listed EXCEPT ![k] = NoObj] /\ UNCHANGED <<stream, inHand>>
          /\ cache' = cache \/ cache' = [cache EXCEPT ![k] = listed[k]]
      BY <2>6 DEF ResyncStore, conn
    <3>2. \A l \in Keys : /\ Elder(store[l], lastRV, cache'[l].uid)
                          /\ Elder(store[l], lastRV, listed'[l].uid)
      BY <1>2, <1>4, <3>1 DEF CopiesElder, TypeOK
    <3> QED BY <1>4, <3>1, <3>2 DEF CopiesElder
  <2>7. CASE ChildStep \/ \E i \in waiting : Timer(i)
    <3>1. UNCHANGED <<stream, inHand, listed, cache>>
      BY <2>7 DEF ChildStep, SecondaryEvent, Timer, conn
    <3> QED BY <1>4, <3>1 DEF CopiesElder
  <2> QED BY <2>1, <2>2, <2>3, <2>4, <2>5, <2>6, <2>7 DEF WatchStep, ResyncStep
<1> QED BY <1>2, <1>3, <1>5 DEF UidKept

LEMMA UidCrash == ASSUME UidInv, Crash PROVE UidKept'
<1> TypeOK /\ StoredUids
  BY DEF UidInv
<1>1. UNCHANGED api
  BY DEF Crash
<1>2. StoredUids' /\ \A l \in Keys : Elder(store'[l], lastRV', NoObj.uid)
  BY <1>1, StillElder
<1>3. NoEvent.key \in Keys /\ NoEvent.obj = NoObj
  BY NoObjType DEF NoEvent
<1>4. CopiesElder'
  BY <1>2, <1>3 DEF Crash, CopiesElder
<1>5. JobsElder'
  BY DEF Crash, JobsElder
<1> QED BY <1>2, <1>4, <1>5 DEF UidKept

\* A worker's step that writes nothing to the server.
LEMMA UidLocal ==
  ASSUME UidInv, NEW w \in Workers, UNCHANGED <<api, WorkerFrame, stream>>,
         finalized \subseteq finalized',
         cache' = cache \/ \E o \in Obj : /\ cache' = [cache EXCEPT ![Key(w)] = o]
                                          /\ Elder(store[Key(w)], lastRV, o.uid),
         \A v \in Workers \ {w} : pc'[v] = pc[v] /\ job'[v] = job[v],
         HoldsElder(store[job'[w].item.key], lastRV, pc'[w], job'[w], finalized')
  PROVE  UidKept'
<1> TypeOK /\ StoredUids /\ CopiesElder /\ JobsElder
  BY DEF UidInv
<1>1. UNCHANGED <<api, store, lastRV, inHand, listed, stream>>
  BY DEF WorkerFrame, api
<1>2. StoredUids' /\ ElderLives
  BY <1>1, StillElder
<1>3. CopiesElder'
  <2>1. \A k \in Keys : cache'[k] = cache[k] \/ Elder(store'[k], lastRV', cache'[k].uid)
    BY <1>1 DEF TypeOK
  <2> QED BY <1>1, <1>2, <2>1, ElderCopiesKept
<1>4. JobsElder'
  BY <1>1, <1>2, ElderJobsWorker
<1> QED BY <1>2, <1>3, <1>4 DEF UidKept

\* A worker's write: the object it is about keeps its uid.
LEMMA UidWrite ==
  ASSUME UidInv, NEW w \in Workers, NEW type \in EventTypes, NEW o \in Obj, NEW p \in Obj,
         NEW s \in AfterReply, NEW r, Write(w, type, o, p, s, r), RequestFrame,
         Exists(store[Key(w)]), o.uid = store[Key(w)].uid, p.uid = o.uid
  PROVE  UidKept'
<1> TypeOK /\ StoredUids /\ CopiesElder /\ JobsElder
  BY DEF UidInv
<1>1. /\ Commit(Key(w), type, o) /\ (Replied(w, p, s) \/ Failed(w, r))
      /\ Key(w) \in Keys /\ UNCHANGED <<inHand, listed, cache, finalized>>
  BY JobFields DEF Write, RequestFrame, WorkerFrame, history
<1>2. StoredUids' /\ ElderLives /\ Elder(store'[Key(w)], lastRV', o.uid)
      /\ \A i \in DOMAIN stream' :
           \/ i \in DOMAIN stream /\ stream'[i] = stream[i]
           \/ stream'[i].key = Key(w) /\ stream'[i].obj.uid = o.uid
  BY <1>1, CommitElder
<1>3. CopiesElder'
  BY <1>1, <1>2, ElderCopiesKept
<1>4. /\ \A v \in Workers \ {w} : pc'[v] = pc[v] /\ job'[v] = job[v]
      /\ job'[w].item.key = Key(w) /\ pc'[w] \in {"echo", "finish"}
      /\ pc'[w] = "echo" => job'[w].reply = p
  <2>1. job \in [Workers -> Job] /\ job[w] \in Job
    BY DEF TypeOK
  <2> QED BY <1>1, <2>1, OwnStep DEF Replied, Failed, Job, Key
<1>5. JobsElder'
  BY <1>1, <1>2, <1>4, ElderJobsWorker DEF HoldsElder
<1> QED BY <1>2, <1>3, <1>5 DEF UidKept

\* A request that changes nothing.
LEMMA UidAnswer ==
  ASSUME UidInv, NEW w \in Workers, NEW s \in AfterReply, NEW r,
         Replied(w, store[Key(w)], s) \/ Failed(w, r), UNCHANGED <<api, stream>>, RequestFrame
  PROVE  UidKept'
<1> TypeOK /\ StoredUids
  BY DEF UidInv
<1>1. /\ Key(w) \in Keys /\ UNCHANGED <<WorkerFrame, cache, finalized>>
      /\ Elder(store[Key(w)], lastRV, store[Key(w)].uid)
  BY JobFields DEF RequestFrame, history, StoredUids
<1>2. /\ \A v \in Workers \ {w} : pc'[v] = pc[v] /\ job'[v] = job[v]
      /\ job'[w].item.key = Key(w) /\ pc'[w] \in {"echo", "finish"}
      /\ pc'[w] = "echo" => job'[w].reply = store[Key(w)]
  <2>1. job \in [Workers -> Job] /\ job[w] \in Job
    BY DEF TypeOK
  <2> QED BY <2>1, OwnStep DEF Replied, Failed, Job, Key
<1> QED BY <1>1, <1>2, UidLocal DEF HoldsElder

LEMMA UidRequest ==
  ASSUME UidInv, NEW w \in Workers,
         AddFinalizer(w) \/ StripFinalizer(w) \/ UpdateReadyCondition(w)
  PROVE  UidKept'
<1> DEFINE cur == store[Key(w)]
<1> TypeOK /\ StoredUids
  BY DEF UidInv
<1>1. /\ cur \in Obj /\ lastRV + 1 \in Nat /\ Key(w) \in Keys
      /\ Body(job[w].item) \in AfterReply /\ "finish" \in AfterReply
  BY StoredType, JobFields DEF Body, AfterReply
<1>2. CASE AddFinalizer(w)
  <2> DEFINE fin == [cur EXCEPT !.fin = TRUE]
             rep == [cur EXCEPT !.fin = TRUE, !.rv = lastRV + 1]
  <2>1. fin \in Obj /\ rep \in Obj /\ fin.uid = cur.uid /\ rep.uid = cur.uid
    BY <1>1, FinUpdate, FinRVUpdate DEF Obj
  <2>2. RequestFrame
    BY <1>2 DEF AddFinalizer
  <2>3. \/ Exists(cur) /\ Write(w, "MODIFIED", fin, rep, Body(job[w].item), "err")
        \/ /\ Replied(w, cur, Body(job[w].item)) \/ Failed(w, "err")
           /\ UNCHANGED <<api, stream>>
    BY <1>2 DEF AddFinalizer
  <2> HIDE DEF fin, rep
  <2> QED BY <1>1, <2>1, <2>2, <2>3, UidWrite, UidAnswer DEF EventTypes
<1>3. CASE StripFinalizer(w)
  <2> DEFINE bare == [cur EXCEPT !.fin = FALSE]
             last == IF KeepsFinalizer THEN cur ELSE bare
             rep  == [bare EXCEPT !.rv = lastRV + 1]
  <2>1. bare \in Obj /\ bare.uid = cur.uid
    BY <1>1, FinUpdate DEF Obj
  <2>2. last \in Obj /\ last.uid = cur.uid /\ rep \in Obj /\ rep.uid = cur.uid
    BY <1>1, <2>1, RVUpdate DEF Obj
  <2>3. RequestFrame
    BY <1>3 DEF StripFinalizer
  <2>4. \/ Exists(cur) /\ Write(w, "DELETED", last, bare, "finish", "err")
        \/ Exists(cur) /\ Write(w, "MODIFIED", bare, rep, "finish", "err")
        \/ (Replied(w, cur, "finish") \/ Failed(w, "err")) /\ UNCHANGED <<api, stream>>
    BY <1>1, <1>3 DEF StripFinalizer, StoredUids
  <2> HIDE DEF bare, last, rep
  <2> QED BY <1>1, <2>1, <2>2, <2>3, <2>4, UidWrite, UidAnswer DEF EventTypes
<1>4. CASE UpdateReadyCondition(w)
  <2> DEFINE rdy == IF job[w].res \in {"ok", "later"} THEN "true" ELSE "false"
             new == [cur EXCEPT !.ready = rdy, !.obs = ObservedGeneration(w)]
             rep == [new EXCEPT !.rv = lastRV + 1]
  <2>1. new \in Obj /\ new.uid = cur.uid
    <3>1. ObservedGeneration(w) \in Nat
      BY JobFields DEF ObservedGeneration, Obj
    <3> QED BY <1>1, <3>1, ReadyUpdate DEF Obj
  <2>2. rep \in Obj /\ rep.uid = cur.uid
    BY <1>1, <2>1, RVUpdate DEF Obj
  <2>3. RequestFrame
    BY <1>4 DEF UpdateReadyCondition
  <2>4. \/ Exists(cur) /\ Write(w, "MODIFIED", new, rep, "finish", job[w].res)
        \/ (Replied(w, cur, "finish") \/ Failed(w, job[w].res)) /\ UNCHANGED <<api, stream>>
    BY <1>4 DEF UpdateReadyCondition
  <2> HIDE DEF new, rep
  <2> QED BY <1>1, <2>1, <2>2, <2>3, <2>4, UidWrite, UidAnswer DEF EventTypes
<1> QED BY <1>2, <1>3, <1>4

LEMMA UidWorker ==
  ASSUME UidInv, NEW w \in Workers,
         \/ Get(w) \/ ReadCache(w) \/ Fetch(w) \/ RecordSelfEcho(w) \/ StoreReply(w)
         \/ PurgeCache(w) \/ CallHandler(w) \/ CallFinalize(w) \/ Finish(w)
  PROVE  UidKept'
<1> TypeOK /\ StoredUids /\ CopiesElder /\ JobsElder
  BY DEF UidInv
<1>1. job \in [Workers -> Job] /\ job[w] \in Job /\ Key(w) \in Keys
  <2>1. job[w] \in Job /\ Key(w) \in Keys
    BY JobFields
  <2> QED BY <2>1 DEF TypeOK
<1>2. UNCHANGED <<api, WorkerFrame, stream>> /\ finalized \subseteq finalized'
  BY DEF Get, ReadCache, Fetch, RecordSelfEcho, StoreReply, PurgeCache, CallHandler,
         CallFinalize, Finish, history
<1>3. /\ Elder(store[Key(w)], lastRV, store[Key(w)].uid)
      /\ Elder(store[Key(w)], lastRV, cache[Key(w)].uid)
      /\ Elder(store[Key(w)], lastRV, NoObj.uid)
  <2>1. UNCHANGED api => Elder(store'[Key(w)], lastRV', NoObj.uid)
    BY <1>1, StillElder
  <2> QED BY <1>1, <1>2, <2>1 DEF CopiesElder, StoredUids, api
<1>4. ASSUME NEW s, Goto(w, s), s \in {"idle", "read", "fetch", "finish"}, cache' = cache,
             \A v \in Workers \ {w} : job'[v] = job[v]
      PROVE  UidKept'
  BY <1>2, <1>4, OwnStep, UidLocal DEF HoldsElder
<1>5. ASSUME NEW o \in Obj, Dispatch(w, o) \/ Skip(w), cache' = cache,
             Elder(store[Key(w)], lastRV, o.uid)
      PROVE  UidKept'
  <2>1. CASE Dispatch(w, o)
    <3>1. Goto(w, Route(job[w].item, o))
      BY <2>1 DEF Dispatch
    <3>2. job'[w].item = job[w].item /\ job'[w].obj = o
          /\ \A v \in Workers \ {w} : job'[v] = job[v]
      BY <1>1, <2>1 DEF Dispatch, Job
    <3>3. pc'[w] = Route(job[w].item, o) /\ \A v \in Workers \ {w} : pc'[v] = pc[v]
      BY <3>1, OwnStep
    <3>4. Route(job[w].item, o) \notin {"echo", "store", "stripFin"}
      BY <1>5 DEF Route, Body, Obj
    <3> QED BY <1>2, <1>5, <3>2, <3>3, <3>4, UidLocal DEF HoldsElder, Key
  <2>2. CASE Skip(w)
    <3>1. \A v \in Workers \ {w} : job'[v] = job[v]
      BY <1>1, <2>2 DEF Skip
    <3> QED BY <1>4, <1>5, <2>2, <3>1 DEF Skip
  <2> QED BY <1>5, <2>1, <2>2
<1>6. CASE Get(w) \/ Finish(w)
  <2>1. cache' = cache /\ \A v \in Workers \ {w} : job'[v] = job[v]
    BY <1>1, <1>6 DEF Get, Finish
  <2> QED BY <1>4, <1>6, <2>1 DEF Get, Finish
<1>7. CASE ReadCache(w)
  <2>1. cache[Key(w)] \in Obj /\ cache' = cache
    BY <1>1, <1>7 DEF TypeOK, ReadCache
  <2> QED BY <1>3, <1>4, <1>5, <1>7, <2>1, NoObjType DEF ReadCache
<1>8. CASE Fetch(w)
  <2>1. store[Key(w)] \in Obj /\ cache' = cache
    BY <1>1, <1>8 DEF TypeOK, Fetch
  <2> QED BY <1>3, <1>5, <1>8, <2>1 DEF Fetch
<1>9. CASE RecordSelfEcho(w)
  <2>1. pc[w] = "echo" /\ job' = job /\ cache' = cache /\ Goto(w, "store")
    BY <1>9 DEF RecordSelfEcho
  <2>2. pc'[w] = "store" /\ \A v \in Workers \ {w} : pc'[v] = pc[v]
    BY <2>1, OwnStep
  <2> QED BY <1>2, <2>1, <2>2, UidLocal DEF JobsElder, HoldsElder, Key
<1>10. CASE StoreReply(w)
  <2>1. /\ pc[w] = "store" /\ Goto(w, job[w].next)
        /\ cache' = [cache EXCEPT ![Key(w)] = job[w].reply]
    BY <1>10 DEF StoreReply
  <2>2. /\ job'[w].item = job[w].item /\ job'[w].obj = job[w].reply
        /\ \A v \in Workers \ {w} : job'[v] = job[v]
    BY <1>1, <1>10 DEF StoreReply, Job
  <2>3. pc'[w] \in AfterReply /\ \A v \in Workers \ {w} : pc'[v] = pc[v]
    BY <2>1, JobFields, OwnStep
  <2>4. job[w].reply \in Obj /\ Elder(store[Key(w)], lastRV, job[w].reply.uid)
    BY <2>1, JobFields DEF JobsElder
  <2> QED BY <1>2, <2>1, <2>2, <2>3, <2>4, UidLocal DEF HoldsElder, Key, AfterReply
<1>11. CASE PurgeCache(w)
  <2>1. /\ pc[w] = "purge" /\ job' = job /\ Goto(w, "handler")
        /\ cache' = [cache EXCEPT ![Key(w)] = NoObj]
    BY <1>11 DEF PurgeCache
  <2>2. pc'[w] = "handler" /\ \A v \in Workers \ {w} : pc'[v] = pc[v]
    BY <2>1, OwnStep
  <2> QED BY <1>2, <1>3, <2>1, <2>2, NoObjType, UidLocal DEF JobsElder, HoldsElder, Key
<1>12. ASSUME NEW s, NEW r, Goto(w, s), job' = [job EXCEPT ![w].res = r], cache' = cache,
              pc[w] \in {"handler", "finalize"}, s \in {"status", "finish", "stripFin"},
              s = "stripFin" => <<Key(w), job[w].obj.uid>> \in finalized'
       PROVE  UidKept'
  <2>1. /\ job'[w].item = job[w].item /\ job'[w].obj = job[w].obj
        /\ \A v \in Workers \ {w} : job'[v] = job[v]
    BY <1>1, <1>12 DEF Job
  <2>2. pc'[w] = s /\ \A v \in Workers \ {w} : pc'[v] = pc[v]
    BY <1>12, OwnStep
  <2> QED BY <1>2, <1>12, <2>1, <2>2, UidLocal DEF JobsElder, HoldsElder, Key
<1>13. CASE CallHandler(w)
  <2>1. PICK r \in IF HasHandler(job[w].item.type) THEN Outcomes ELSE {"ok"} :
          /\ job' = [job EXCEPT ![w].res = r]
          /\ Goto(w, IF ~job[w].deleting /\ (r = "err" \/ InfersReady) THEN "status" ELSE "finish")
    BY <1>13 DEF CallHandler
  <2> QED BY <1>12, <1>13, <2>1 DEF CallHandler
<1>14. CASE CallFinalize(w)
  <2>1. \/ job' = [job EXCEPT ![w].res = "err"] /\ Goto(w, "status")
        \/ /\ job' = [job EXCEPT ![w].res = "skip"] /\ Goto(w, "stripFin")
           /\ finalized' = finalized \union {<<Key(w), job[w].obj.uid>>}
    BY <1>14 DEF CallFinalize
  <2>2. pc[w] = "finalize" /\ cache' = cache
    BY <1>14 DEF CallFinalize
  <2> QED BY <1>12, <2>1, <2>2
<1> QED BY <1>6, <1>7, <1>8, <1>9, <1>10, <1>11, <1>13, <1>14

LEMMA UidStep == ASSUME UidInv, [Next]_vars PROVE UidInv'
<1>1. TypeOK'
  BY TypeStep DEF UidInv
<1>2. CASE UNCHANGED vars
  BY <1>1, <1>2 DEF vars, UidInv, StoredUids, CopiesElder, JobsElder, Elder, Exists, Key, api,
       env, conn, history
<1>3. ASSUME NEW w \in Workers, WorkerStep(w) PROVE UidKept'
  BY <1>3, UidWorker, UidRequest DEF WorkerStep
<1>4. CASE Next
  <2>1. UidKept'
    BY <1>3, <1>4, UidUser, UidBystander, UidCrash DEF Next
  <2> QED BY <1>1, <2>1 DEF UidInv, UidKept
<1> QED BY <1>2, <1>4

\* Who can take a finalizer off an object.
LEMMA KeepsOne ==
  ASSUME TypeOK, NEW k \in Keys, NEW type \in {"ADDED", "MODIFIED"}, NEW o, NEW l \in Keys,
         Commit(k, type, o), o \in Obj, o.uid = store[k].uid, store[k].fin => o.fin
  PROVE  ~LosesFinalizer(l)
<1> DEFINE new == [o EXCEPT !.rv = lastRV + 1]
<1>1. new.uid = o.uid /\ new.fin = o.fin
  BY DEF Obj
<1>2. store' = [store EXCEPT ![k] = new]
  BY DEF Commit
<1> HIDE DEF new
<1>3. store'[l] = IF l = k THEN new ELSE store[l]
  BY <1>2 DEF TypeOK
<1> QED BY <1>1, <1>3 DEF LosesFinalizer

LEMMA KeepsOthers ==
  ASSUME TypeOK, NEW k \in Keys, NEW type, NEW o, Commit(k, type, o), NEW l \in Keys,
         ~store[k].fin \/ l # k
  PROVE  ~LosesFinalizer(l)
<1>1. l # k => store'[l] = store[l]
  BY DEF Commit, TypeOK
<1> QED BY <1>1 DEF LosesFinalizer

LEMMA UserKeepsFinalizers ==
  ASSUME UidInv, UserStep, NEW l \in Keys PROVE ~LosesFinalizer(l)
<1> TypeOK /\ StoredUids
  BY DEF UidInv
<1>1. PICK k \in Keys : UserCreate(k) \/ UserEdit(k) \/ UserTouch(k) \/ UserDelete(k)
  BY DEF UserStep
<1>2. store[k] \in Obj /\ lastRV \in Nat
  BY Bounds DEF TypeOK
<1>3. CASE UserCreate(k)
  <2>1. ~store[k].fin
    BY <1>3 DEF UserCreate, StoredUids
  <2> QED BY <1>3, <2>1, KeepsOthers DEF UserCreate, UserWrite
<1>4. CASE UserEdit(k)
  <2> DEFINE o == [store[k] EXCEPT !.gen = store[k].gen + 1]
  <2>1. o \in Obj /\ o.uid = store[k].uid /\ o.fin = store[k].fin
    BY <1>2, GenUpdate DEF Obj
  <2>2. Commit(k, "MODIFIED", o)
    BY <1>4 DEF UserEdit, UserWrite
  <2> HIDE DEF o
  <2> QED BY <2>1, <2>2, KeepsOne
<1>5. CASE UserTouch(k)
  BY <1>2, <1>5, KeepsOne DEF UserTouch, UserWrite
<1>6. CASE UserDelete(k)
  <2> DEFINE o == [store[k] EXCEPT !.del = TRUE, !.gen = store[k].gen + 1]
  <2>1. CASE store[k].fin
    <3>1. o \in Obj /\ o.uid = store[k].uid /\ o.fin = store[k].fin
      BY <1>2, DelUpdate DEF Obj
    <3>2. Commit(k, "MODIFIED", o)
      BY <1>6, <2>1 DEF UserDelete, UserWrite
    <3> HIDE DEF o
    <3> QED BY <3>1, <3>2, KeepsOne
  <2>2. CASE ~store[k].fin
    BY <1>6, <2>2, KeepsOthers DEF UserDelete, UserWrite
  <2> QED BY <2>1, <2>2
<1> QED BY <1>1, <1>3, <1>4, <1>5, <1>6

LEMMA RequestKeepsFinalizers ==
  ASSUME UidInv, NEW w \in Workers, AddFinalizer(w) \/ UpdateReadyCondition(w), NEW l \in Keys
  PROVE  ~LosesFinalizer(l)
<1> DEFINE cur == store[Key(w)]
<1> TypeOK
  BY DEF UidInv
<1>1. cur \in Obj /\ lastRV + 1 \in Nat /\ Key(w) \in Keys
  BY StoredType, JobFields
<1>2. CASE store' = store
  BY <1>2 DEF LosesFinalizer
<1>3. CASE AddFinalizer(w) /\ Commit(Key(w), "MODIFIED", [cur EXCEPT !.fin = TRUE])
  <2> DEFINE fin == [cur EXCEPT !.fin = TRUE]
  <2>1. fin \in Obj /\ fin.uid = cur.uid /\ fin.fin
    BY <1>1, FinUpdate DEF Obj
  <2>2. Commit(Key(w), "MODIFIED", fin)
    BY <1>3
  <2> HIDE DEF fin
  <2> QED BY <1>1, <2>1, <2>2, KeepsOne
<1>4. CASE \E r : Commit(Key(w), "MODIFIED", [cur EXCEPT !.ready = r, !.obs = ObservedGeneration(w)])
                  /\ r \in {"true", "false"}
  <2> PICK r : Commit(Key(w), "MODIFIED", [cur EXCEPT !.ready = r, !.obs = ObservedGeneration(w)])
               /\ r \in {"true", "false"}
    BY <1>4
  <2> DEFINE new == [cur EXCEPT !.ready = r, !.obs = ObservedGeneration(w)]
  <2>1. new \in Obj /\ new.uid = cur.uid /\ new.fin = cur.fin
    <3>1. ObservedGeneration(w) \in Nat
      BY JobFields DEF ObservedGeneration, Obj
    <3> QED BY <1>1, <3>1, ReadyUpdate DEF Obj
  <2>2. Commit(Key(w), "MODIFIED", new)
    OBVIOUS
  <2> HIDE DEF new
  <2> QED BY <1>1, <2>1, <2>2, KeepsOne
<1>5. CASE AddFinalizer(w)
  <2>1. UNCHANGED api \/ Commit(Key(w), "MODIFIED", [cur EXCEPT !.fin = TRUE])
    BY <1>5 DEF AddFinalizer, Write
  <2> QED BY <1>2, <1>3, <1>5, <2>1 DEF api
<1>6. CASE UpdateReadyCondition(w)
  <2>1. \/ UNCHANGED api
        \/ Commit(Key(w), "MODIFIED",
                  [cur EXCEPT !.ready = IF job[w].res \in {"ok", "later"} THEN "true" ELSE "false",
                              !.obs = ObservedGeneration(w)])
    BY <1>6 DEF UpdateReadyCondition, Write
  <2> QED BY <1>2, <1>4, <2>1 DEF api
<1> QED BY <1>5, <1>6

LEMMA StripKnowsFinalize ==
  ASSUME UidInv, NEW w \in Workers, StripFinalizer(w), NEW l \in Keys, LosesFinalizer(l)
  PROVE  \E f \in finalized : f[1] = l /\ f[2] <= store[l].uid
<1> DEFINE cur  == store[Key(w)]
           done == <<Key(w), job[w].obj.uid>>
<1> TypeOK /\ StoredUids /\ JobsElder
  BY DEF UidInv
<1>1. pc[w] = "stripFin" /\ Key(w) \in Keys
  BY JobFields DEF StripFinalizer
<1>2. done \in finalized /\ Elder(cur, lastRV, job[w].obj.uid)
  BY <1>1 DEF JobsElder
<1>3. \/ UNCHANGED api
      \/ \E type, o : Commit(Key(w), type, o)
  BY DEF StripFinalizer, Write
<1>4. l = Key(w) /\ cur.fin
  <2>1. CASE UNCHANGED api
    BY <2>1 DEF api, LosesFinalizer
  <2>2. ASSUME NEW type, NEW o, Commit(Key(w), type, o) PROVE l = Key(w) /\ cur.fin
    BY <1>1, <2>2, KeepsOthers
  <2> QED BY <1>3, <2>1, <2>2
<1>5. job[w].obj.uid <= cur.uid
  BY <1>1, <1>2, <1>4 DEF Elder, StoredUids
<1> QED BY <1>2, <1>4, <1>5

\* The controller takes its finalizer off an object only after finalize() returned cleanly
\* for that object or for an earlier one of its name (removeFinalizer patches by name):
\* whichever workers, lost replies, crashes and repeated events lie between.
THEOREM FinalizedUnlessReusedCorrect == Spec => FinalizedUnlessReused
<1>1. UidInv /\ [Next]_vars =>
        [\A k \in Keys : LosesFinalizer(k) =>
           \E f \in finalized : f[1] = k /\ f[2] <= store[k].uid]_vars
  <2> SUFFICES ASSUME UidInv, Next, NEW k \in Keys, LosesFinalizer(k)
               PROVE  \E f \in finalized : f[1] = k /\ f[2] <= store[k].uid
    OBVIOUS
  <2>1. CASE UserStep
    BY <2>1, UserKeepsFinalizers
  <2>2. CASE WatchClose \/ Crash \/ WatchStep \/ ResyncStep \/ ChildStep \/ \E i \in waiting : Timer(i)
    <3>1. store' = store
      BY <2>2 DEF WatchClose, Crash, WatchStep, WatchOpen, WatchReceive, WatchStore, ResyncStep,
             ResyncList, ResyncStore, ChildStep, SecondaryEvent, Timer, api
    <3> QED BY <3>1 DEF LosesFinalizer
  <2>3. ASSUME NEW w \in Workers, WorkerStep(w)
        PROVE  \E f \in finalized : f[1] = k /\ f[2] <= store[k].uid
    <3>1. CASE StripFinalizer(w)
      BY <3>1, StripKnowsFinalize
    <3>2. CASE AddFinalizer(w) \/ UpdateReadyCondition(w)
      BY <3>2, RequestKeepsFinalizers
    <3>3. CASE ~(StripFinalizer(w) \/ AddFinalizer(w) \/ UpdateReadyCondition(w))
      <4>1. store' = store
        BY <2>3, <3>3 DEF WorkerStep, Get, ReadCache, Fetch, RecordSelfEcho, StoreReply, PurgeCache,
               CallHandler, CallFinalize, Finish, api
      <4> QED BY <4>1 DEF LosesFinalizer
    <3> QED BY <3>1, <3>2, <3>3
  <2> QED BY <2>1, <2>2, <2>3 DEF Next
<1>2. UidInv /\ [Next]_vars => UidInv'
  BY UidStep
<1> QED BY <1>1, <1>2, UidInit, PTL DEF Spec, FinalizedUnlessReused

=============================================================================
