---------------------------- MODULE ObserverProofs ----------------------------
(***************************************************************************)
(* Observers keep to their own entities (EntitiesOwned), a STOP finds the   *)
(* entity as long as listeners are registered (StopReaches), and a client   *)
(* hears each event as often as it was told it would (HeardOnce).  Storage  *)
(* says what a calm client was told (ObservingSaved) and keeps nothing of   *)
(* one that left (RestingLeavesNothing).                                    *)
(***************************************************************************)
EXTENDS Observers, TLAPS

-----------------------------------------------------------------------------
(* The inductive invariant *)

Requesting(j) == job[j].ev \in {"START", "STOP"}

\* A handler in flight has a socket; what it is about to write or delete is
\* there; only DISCONNECT, of a socket that is gone, deletes.
JobShape ==
  \A j \in Job :
    /\ job[j].pc = "idle" <=> job[j].ev = None
    /\ job[j].pc = "idle" => job[j] = Idle
    /\ job[j].pc # "idle" => job[j].sock # None
    /\ job[j].pc \in {"hset", "hsetIdx"} => job[j].entity # None /\ Requesting(j)
    /\ job[j].pc \in {"hdel", "hdelIdx"} => job[j].entity # None /\ job[j].key # None
    /\ job[j].pc \in {"destroy", "hdel", "hdelIdx"} => job[j].ev = "DISCONNECT"
    /\ job[j].ev = "DISCONNECT" => conn[job[j].sock] = "gone"

\* Who has written the entity is first in the queue until the index is written.
HeadWrites == \A j \in Job : job[j].pc = "hsetIdx" => Turn(j)

\* Keys and entities a handler holds are those of its own socket.
Owns(j) ==
  /\ job[j].key # None => drawn[job[j].key] = job[j].sock
  /\ job[j].entity # None => /\ job[j].entity.socketId = job[j].sock
                             /\ drawn[job[j].entity.key] = job[j].sock

JobsOwn == \A j \in Job : Owns(j)

\* Once the entity is written it stays, unless the socket hangs up.
WrittenStays ==
  \A j \in Job : job[j].pc = "hsetIdx" /\ conn[job[j].sock] = "open" =>
    observers[job[j].entity.key] # None

IndexLeadsToEntity ==
  \A s \in ObserverSocket : conn[s] = "open" /\ observerIdx[s] # None =>
    observers[observerIdx[s]] # None

\* Listeners on an open socket were registered by a START that wrote the index.
ListenersIndexed ==
  \A s \in ObserverSocket, svc \in Emitter :
    conn[s] = "open" /\ listeners[svc][s] > 0 => observerIdx[s] # None

\* A polite client has one request in flight, and is waiting for its answer.
OneRequest ==
  \A j \in Job : job[j].sock \in Polite /\ Requesting(j) =>
    /\ job[j].ev = "START" => client[job[j].sock] = "starting"
    /\ job[j].ev = "STOP" => client[job[j].sock] = "stopping"
    /\ \A i \in Job : job[i].sock = job[j].sock /\ Requesting(i) => i = j

\* Listeners change only with the answer.
ListenersAsTold ==
  \A s \in Polite, svc \in Emitter :
    /\ client[s] \in {"stopped", "starting"} => listeners[svc][s] = 0
    /\ client[s] \in {"started", "stopping"} => listeners[svc][s] = 1

OwnInv == JobShape /\ JobsOwn /\ EntitiesOwned
ReachInv == WrittenStays /\ IndexLeadsToEntity /\ ListenersIndexed
ToldInv == OneRequest /\ ListenersAsTold /\ HeardOnce

IInv == TypeOK /\ HeadWrites /\ OwnInv /\ ReachInv /\ ToldInv
-----------------------------------------------------------------------------
(* Types *)

LEMMA BecomeTyped ==
  ASSUME TypeOK, NEW j \in Job, NEW r \in JobRecord, Become(j, r)
  PROVE  job' \in [Job -> JobRecord]
BY DEF TypeOK, Become

LEMMA FoundTyped ==
  ASSUME TypeOK, NEW j \in Job
  PROVE  Found(j) \in Observer \cup {None}
BY DEF TypeOK, Found, JobRecord

LEMMA RecordWith ==
  ASSUME NEW r \in JobRecord,
         NEW pc \in {"idx", "entity", "hset", "hsetIdx", "destroy", "hdel", "hdelIdx"},
         NEW key \in ObserverKey \cup {None}, NEW e \in Observer \cup {None}
  PROVE  /\ [r EXCEPT !.pc = pc] \in JobRecord
         /\ [r EXCEPT !.key = key, !.pc = pc] \in JobRecord
         /\ [r EXCEPT !.entity = e, !.pc = pc] \in JobRecord
BY DEF JobRecord

LEMMA StartedTyped ==
  ASSUME NEW e \in Observer, NEW s \in ObserverSocket
  PROVE  /\ Started(e, s) \in Observer
         /\ Started(e, s).key = e.key
         /\ Started(e, s).socketId = s
BY DEF Started, Observer

LEMMA StoppedTyped ==
  ASSUME NEW e \in Observer
  PROVE  /\ [e EXCEPT !.observing = FALSE] \in Observer
         /\ [e EXCEPT !.observing = FALSE].key = e.key
         /\ [e EXCEPT !.observing = FALSE].socketId = e.socketId
BY DEF Observer

LEMMA NewTyped ==
  ASSUME NEW k \in ObserverKey, NEW s \in ObserverSocket
  PROVE  /\ NewObserver(k, s) \in Observer
         /\ NewObserver(k, s).key = k
         /\ NewObserver(k, s).socketId = s
BY DEF NewObserver, Observer

LEMMA JobTyped ==
  ASSUME TypeOK, NEW j \in Job
  PROVE  /\ job[j] \in JobRecord
         /\ job[j].sock \in ObserverSocket \cup {None}
         /\ job[j].key \in ObserverKey \cup {None}
         /\ job[j].entity \in Observer \cup {None}
BY DEF TypeOK, JobRecord

LEMMA EntityTyped ==
  ASSUME NEW e \in Observer
  PROVE  e.key \in ObserverKey /\ e.socketId \in ObserverSocket
BY DEF Observer

LEMMA QueueTyped ==
  ASSUME TypeOK, NEW j \in Job
  PROVE  Append(queue, j) \in Seq(Job) /\ (Turn(j) => Tail(queue) \in Seq(Job))
BY DEF TypeOK, Turn

LEMMA SavedTyped ==
  ASSUME TypeOK, HeadWrites, NEW j \in Job, job[j].pc = "hsetIdx", job[j].entity # None,
         Saved(j)
  PROVE  /\ observers' = observers
         /\ observerIdx' \in [ObserverSocket -> ObserverKey \cup {None}]
         /\ queue' \in Seq(Job)
<1>1. job[j].entity \in Observer
  BY JobTyped
<1>2. job[j].entity.key \in ObserverKey
  BY <1>1, EntityTyped
<1>3. Turn(j)
  BY DEF HeadWrites
<1> QED BY <1>2, <1>3, QueueTyped DEF Saved, TypeOK

LEMMA CountsTyped ==
  ASSUME TypeOK, NEW svc \in Emitter, NEW s
  PROVE  /\ [listeners[svc] EXCEPT ![s] = @ + 1] \in [ObserverSocket -> Nat]
         /\ [listeners[svc] EXCEPT ![s] = IF @ = 0 THEN 0 ELSE @ - 1]
              \in [ObserverSocket -> Nat]
<1> DEFINE f == listeners[svc]
<1>1. f \in [ObserverSocket -> Nat]
  BY DEF TypeOK
<1> HIDE DEF f
<1>2. ASSUME NEW t \in ObserverSocket
      PROVE  f[t] \in Nat /\ f[t] + 1 \in Nat /\ (IF f[t] = 0 THEN 0 ELSE f[t] - 1) \in Nat
  BY <1>1
<1>3. CASE s \in ObserverSocket
  BY <1>1, <1>2, <1>3 DEF f
<1>4. CASE s \notin ObserverSocket
  BY <1>1, <1>4 DEF f
<1> QED BY <1>3, <1>4

LEMMA IdleTyped == Idle \in JobRecord
BY DEF Idle, JobRecord

LEMMA TypeHolds ==
  ASSUME TypeOK, HeadWrites, JobShape, Next
  PROVE  TypeOK'
<1> USE NoneIsNoObserver, NoneIsNoEntity, PoliteSockets
    DEF TypeOK, JobShape, Requesting, storage, history, Emitter, ClientState, Silent
<1>1. ASSUME NEW j \in Job, RequestStep(j) PROVE TypeOK'
  <2> PICK s \in ObserverSocket : Start(j, s) \/ Stop(j, s) \/ Disconnect(j, s)
    BY <1>1 DEF RequestStep
  <2>0. out' = Silent
    BY <1>1 DEF RequestStep
  <2>1. CASE Start(j, s)
    <3>1. [Idle EXCEPT !.ev = "START", !.sock = s, !.pc = "idx"] \in JobRecord
      BY DEF Idle, JobRecord
    <3>2. job' \in [Job -> JobRecord]
      BY <2>0, <2>1, <3>1, BecomeTyped DEF Start, Take
    <3> QED BY <2>0, <2>1, <3>2 DEF Start
  <2>2. CASE Stop(j, s)
    <3>1. [Idle EXCEPT !.ev = "STOP", !.sock = s, !.pc = "idx"] \in JobRecord
      BY DEF Idle, JobRecord
    <3>2. job' \in [Job -> JobRecord]
      BY <2>0, <2>2, <3>1, BecomeTyped DEF Stop, Take
    <3> QED BY <2>0, <2>2, <3>2 DEF Stop
  <2>3. CASE Disconnect(j, s)
    <3>1. [Idle EXCEPT !.ev = "DISCONNECT", !.sock = s, !.pc = "idx"] \in JobRecord
      BY DEF Idle, JobRecord
    <3>2. job' \in [Job -> JobRecord]
      BY <2>0, <2>3, <3>1, BecomeTyped DEF Disconnect, Take
    <3> QED BY <2>0, <2>3, <3>2 DEF Disconnect
  <2> QED BY <2>1, <2>2, <2>3
<1>2. ASSUME NEW j \in Job, HandlerStep(j) PROVE TypeOK'
  <2>0. out' = Silent
    BY <1>2 DEF HandlerStep
  <2>1. CASE FindKey(j)
    <3>1. [job[j] EXCEPT !.key = observerIdx[job[j].sock], !.pc = "entity"] \in JobRecord
      BY <2>0, <2>1, JobTyped, RecordWith DEF FindKey
    <3>2. job' \in [Job -> JobRecord]
      BY <2>0, <2>1, <3>1, BecomeTyped DEF FindKey
    <3> QED BY <2>0, <2>1, <3>2 DEF FindKey
  <2>2. CASE StartFound(j)
    <3>1. [job[j] EXCEPT !.entity = Started(Found(j), job[j].sock), !.pc = "hset"] \in JobRecord
      BY <2>0, <2>2, JobTyped, RecordWith, FoundTyped, StartedTyped DEF StartFound, At
    <3>2. job' \in [Job -> JobRecord]
      BY <2>0, <2>2, <3>1, BecomeTyped DEF StartFound, At, Save
    <3> QED BY <2>0, <2>2, <3>2, QueueTyped DEF StartFound, At, Save
  <2>3. CASE StartNew(j)
    <3> PICK k \in ObserverKey : /\ drawn[k] = None
                               /\ drawn' = [drawn EXCEPT ![k] = job[j].sock]
                               /\ Save(j, NewObserver(k, job[j].sock))
      BY <2>0, <2>3 DEF StartNew
    <3>1. [job[j] EXCEPT !.entity = NewObserver(k, job[j].sock), !.pc = "hset"] \in JobRecord
      BY <2>0, <2>3, JobTyped, RecordWith, NewTyped, ZenonT(60) DEF StartNew, At
    <3>2. job' \in [Job -> JobRecord]
      BY <2>0, <2>3, <3>1, BecomeTyped DEF Save
    <3> QED BY <2>0, <2>3, <3>2, JobTyped, QueueTyped DEF StartNew, Save
  <2>4. CASE StopFound(j)
    <3>1. [job[j] EXCEPT !.entity = [Found(j) EXCEPT !.observing = FALSE], !.pc = "hset"] \in JobRecord
      BY <2>0, <2>4, JobTyped, RecordWith, FoundTyped, StoppedTyped DEF StopFound, At
    <3>2. job' \in [Job -> JobRecord]
      BY <2>0, <2>4, <3>1, BecomeTyped DEF StopFound, At, Save
    <3> QED BY <2>0, <2>4, <3>2, QueueTyped DEF StopFound, At, Save
  <2>5. CASE StopMissed(j)
    <3>1. Idle \in JobRecord
      BY <2>0, <2>5, JobTyped, IdleTyped
    <3>2. job' \in [Job -> JobRecord]
      BY <2>0, <2>5, <3>1, BecomeTyped DEF StopMissed, At, Told
    <3> QED BY <2>0, <2>5, <3>2 DEF StopMissed, At, Told, Before
  <2>6. CASE DisconnectFind(j)
    <3>1. /\ Idle \in JobRecord
          /\ [job[j] EXCEPT !.pc = "destroy"] \in JobRecord
      BY JobTyped, IdleTyped, RecordWith
    <3>2. job' \in [Job -> JobRecord]
      BY <2>0, <2>6, <3>1, BecomeTyped DEF DisconnectFind
    <3> QED BY <2>0, <2>6, <3>2 DEF DisconnectFind
  <2>7. CASE Hset(j)
    <3>1. [job[j] EXCEPT !.pc = "hsetIdx"] \in JobRecord
      BY <2>0, <2>7, JobTyped, RecordWith
    <3>2. job' \in [Job -> JobRecord]
      BY <2>0, <2>7, <3>1, BecomeTyped DEF Hset
    <3> QED BY <2>0, <2>7, <3>2, JobTyped DEF Hset
  <2>8. CASE StartSaved(j)
    <3>1. job' \in [Job -> JobRecord]
      BY <2>0, <2>8, IdleTyped, BecomeTyped DEF StartSaved, Saved
    <3>2. /\ observers' = observers
          /\ observerIdx' \in [ObserverSocket -> ObserverKey \cup {None}]
          /\ queue' \in Seq(Job)
      BY <2>0, <2>8, SavedTyped DEF StartSaved, At
    <3>3. listeners' \in [Emitter -> [ObserverSocket -> Nat]]
      BY <2>0, <2>8, CountsTyped DEF StartSaved, registerListeners
    <3>4. client' \in [ObserverSocket -> ClientState]
      BY <2>0, <2>8 DEF StartSaved, Told
    <3> QED BY <2>0, <2>8, <3>1, <3>2, <3>3, <3>4 DEF StartSaved
  <2>9. CASE StopSaved(j)
    <3>1. job' \in [Job -> JobRecord]
      BY <2>0, <2>9, IdleTyped, BecomeTyped DEF StopSaved, Saved
    <3>2. /\ observers' = observers
          /\ observerIdx' \in [ObserverSocket -> ObserverKey \cup {None}]
          /\ queue' \in Seq(Job)
      BY <2>0, <2>9, SavedTyped DEF StopSaved, At
    <3>3. listeners' \in [Emitter -> [ObserverSocket -> Nat]]
      BY <2>0, <2>9, CountsTyped DEF StopSaved, deregisterListeners
    <3>4. client' \in [ObserverSocket -> ClientState]
      BY <2>0, <2>9 DEF StopSaved, Told
    <3> QED BY <2>0, <2>9, <3>1, <3>2, <3>3, <3>4 DEF StopSaved
  <2>10. CASE ReadToDestroy(j)
    <3>1. /\ Idle \in JobRecord
          /\ [job[j] EXCEPT !.entity = Found(j), !.pc = "hdel"] \in JobRecord
      BY JobTyped, IdleTyped, FoundTyped, RecordWith
    <3>2. job' \in [Job -> JobRecord]
      BY <2>0, <2>10, <3>1, BecomeTyped DEF ReadToDestroy
    <3> QED BY <2>0, <2>10, <3>2 DEF ReadToDestroy
  <2>11. CASE Hdel(j)
    <3>1. [job[j] EXCEPT !.pc = "hdelIdx"] \in JobRecord
      BY <2>0, <2>11, JobTyped, RecordWith
    <3>2. job' \in [Job -> JobRecord]
      BY <2>0, <2>11, <3>1, BecomeTyped DEF Hdel
    <3> QED BY <2>0, <2>11, <3>2 DEF Hdel
  <2>12. CASE HdelIdx(j)
    <3>1. Idle \in JobRecord
      BY <2>0, <2>12, JobTyped, IdleTyped
    <3>2. job' \in [Job -> JobRecord]
      BY <2>0, <2>12, <3>1, BecomeTyped DEF HdelIdx
    <3> QED BY <2>0, <2>12, <3>2 DEF HdelIdx
  <2> QED BY <1>2, <2>1, <2>2, <2>3, <2>4, <2>5, <2>6,
            <2>7, <2>8, <2>9, <2>10, <2>11, <2>12 DEF HandlerStep
<1>3. ASSUME NEW j \in Job, RejectStep(j) PROVE TypeOK'
  <2>1. job' \in [Job -> JobRecord]
    BY <1>3, IdleTyped, BecomeTyped DEF RejectStep, Reject
  <2>2. queue' \in Seq(Job)
    BY <1>3, QueueTyped DEF RejectStep, Reject
  <2>3. client' \in [ObserverSocket -> ClientState]
    BY <1>3 DEF RejectStep, Reject, Before
  <2>4. trouble' \in SUBSET ObserverSocket
    <3>1. job[j].sock \in ObserverSocket
      BY <1>3, JobTyped DEF RejectStep, Reject
    <3> QED BY <1>3, <3>1 DEF RejectStep, Reject
  <2> QED BY <1>3, <2>1, <2>2, <2>3, <2>4 DEF RejectStep, Reject
<1>4. ASSUME NEW svc \in Emitter, Emit(svc) PROVE TypeOK'
  BY <1>4 DEF Emit
<1> QED BY <1>1, <1>2, <1>3, <1>4 DEF Next

LEMMA HeadStays ==
  ASSUME TypeOK, NEW i \in Job, Turn(i), NEW j \in Job
  PROVE  Append(queue, j) # <<>> /\ Head(Append(queue, j)) = i
BY DEF TypeOK, Turn

LEMMA HeadHolds ==
  ASSUME TypeOK, HeadWrites, Next
  PROVE  HeadWrites'
<1> USE NoneIsNoObserver, NoneIsNoEntity, PoliteSockets
    DEF HeadWrites, TypeOK, JobRecord, Become, Idle, Turn, storage, history
<1>1. ASSUME NEW j \in Job, RequestStep(j) PROVE HeadWrites'
  <2> PICK s \in ObserverSocket : Start(j, s) \/ Stop(j, s) \/ Disconnect(j, s)
    BY <1>1 DEF RequestStep
  <2>1. CASE Start(j, s)
    BY <2>1 DEF Start, Take
  <2>2. CASE Stop(j, s)
    BY <2>2 DEF Stop, Take
  <2>3. CASE Disconnect(j, s)
    BY <2>3 DEF Disconnect, Take, InFlight
  <2> QED BY <2>1, <2>2, <2>3
<1>2. ASSUME NEW j \in Job, HandlerStep(j) PROVE HeadWrites'
  <2>1. CASE FindKey(j)
    BY <2>1 DEF FindKey
  <2>2. CASE StartFound(j)
    <3>1. queue' = Append(queue, j)
      BY <2>2 DEF StartFound, Save
    <3>2. job'[j].pc = "hset" /\ \A i \in Job \ {j} : job'[i] = job[i]
      BY <2>2 DEF StartFound, Save
    <3> QED BY <3>1, <3>2, HeadStays
  <2>3. CASE StartNew(j)
    BY <2>3 DEF StartNew, At, Save, NewObserver
  <2>4. CASE StopFound(j)
    <3>1. queue' = Append(queue, j)
      BY <2>4 DEF StopFound, Save
    <3>2. job'[j].pc = "hset" /\ \A i \in Job \ {j} : job'[i] = job[i]
      BY <2>4 DEF StopFound, Save
    <3> QED BY <3>1, <3>2, HeadStays
  <2>5. CASE StopMissed(j)
    BY <2>5 DEF StopMissed, At, Told, Before
  <2>6. CASE DisconnectFind(j)
    BY <2>6 DEF DisconnectFind, At
  <2>7. CASE Hset(j)
    BY <2>7 DEF Hset
  <2>8. CASE StartSaved(j)
    BY <2>8 DEF StartSaved, At, Saved, registerListeners, Told
  <2>9. CASE StopSaved(j)
    BY <2>9 DEF StopSaved, At, Saved, deregisterListeners, Told
  <2>10. CASE ReadToDestroy(j)
    BY <2>10 DEF ReadToDestroy, Found
  <2>11. CASE Hdel(j)
    BY <2>11 DEF Hdel
  <2>12. CASE HdelIdx(j)
    BY <2>12 DEF HdelIdx
  <2> QED BY <1>2, <2>1, <2>2, <2>3, <2>4, <2>5, <2>6,
            <2>7, <2>8, <2>9, <2>10, <2>11, <2>12 DEF HandlerStep
<1>3. ASSUME NEW j \in Job, RejectStep(j) PROVE HeadWrites'
  BY <1>3 DEF RejectStep, Reject, Saving, Before
<1>4. ASSUME NEW svc \in Emitter, Emit(svc) PROVE HeadWrites'
  BY <1>4 DEF Emit
<1> QED BY <1>1, <1>2, <1>3, <1>4 DEF Next

-----------------------------------------------------------------------------
(* Own entities *)

LEMMA OwnHolds ==
  ASSUME TypeOK, OwnInv, Next
  PROVE  OwnInv'
<1> USE NoneIsNoObserver, NoneIsNoEntity, PoliteSockets
    DEF OwnInv, JobShape, JobsOwn, Owns, EntitiesOwned, Requesting, TypeOK, JobRecord,
        Become, Idle, Turn, storage, history, Observer
<1>1. ASSUME NEW j \in Job, RequestStep(j) PROVE OwnInv'
  <2> PICK s \in ObserverSocket : Start(j, s) \/ Stop(j, s) \/ Disconnect(j, s)
    BY <1>1 DEF RequestStep
  <2>1. CASE Start(j, s)
    BY <2>1 DEF Start, Take
  <2>2. CASE Stop(j, s)
    BY <2>2 DEF Stop, Take
  <2>3. CASE Disconnect(j, s)
    BY <2>3 DEF Disconnect, Take, InFlight
  <2> QED BY <2>1, <2>2, <2>3
<1>2. ASSUME NEW j \in Job, HandlerStep(j) PROVE OwnInv'
  <2>1. CASE FindKey(j)
    BY <2>1 DEF FindKey
  <2>2. CASE StartFound(j)
    <3> DEFINE e == Started(Found(j), job[j].sock)
    <3>1. /\ job[j].key # None /\ Found(j) = observers[job[j].key]
          /\ e \in Observer /\ e.key = job[j].key /\ e.socketId = job[j].sock
      BY <2>2, JobTyped, FoundTyped, StartedTyped DEF StartFound, At, Found
    <3>2. job' = [job EXCEPT ![j] = [job[j] EXCEPT !.entity = e, !.pc = "hset"]]
      BY <2>2 DEF StartFound, Save
    <3> HIDE DEF e
    <3> QED BY <2>2, <3>1, <3>2 DEF StartFound, At
  <2>3. CASE StartNew(j)
    <3> PICK k \in ObserverKey : /\ drawn[k] = None
                               /\ drawn' = [drawn EXCEPT ![k] = job[j].sock]
                               /\ Save(j, NewObserver(k, job[j].sock))
      BY <2>3 DEF StartNew
    <3> DEFINE e == NewObserver(k, job[j].sock)
    <3>1. /\ job[j].sock \in ObserverSocket
          /\ e \in Observer /\ e.key = k /\ e.socketId = job[j].sock
      BY <2>3 DEF StartNew, At, NewObserver
    <3>2. job' = [job EXCEPT ![j] = [job[j] EXCEPT !.entity = e, !.pc = "hset"]]
      BY DEF Save
    <3> HIDE DEF e
    <3>3. JobShape'
      BY <2>3, <3>1, <3>2 DEF StartNew, At
    <3>4. JobsOwn'
      <4>1. Owns(j)'
        BY <2>3, <3>1, <3>2 DEF StartNew, At
      <4>2. ASSUME NEW i \in Job, i # j PROVE Owns(i)'
        BY <2>3, <3>1, <3>2, <4>2 DEF StartNew, At
      <4> QED BY <4>1, <4>2
    <3>5. EntitiesOwned'
      BY <2>3, <3>1 DEF StartNew
    <3> QED BY <3>3, <3>4, <3>5
  <2>4. CASE StopFound(j)
    <3> DEFINE e == [Found(j) EXCEPT !.observing = FALSE]
    <3>1. /\ job[j].key # None /\ Found(j) = observers[job[j].key]
          /\ e \in Observer /\ e.key = job[j].key /\ e.socketId = job[j].sock
      BY <2>4, JobTyped, FoundTyped, StoppedTyped DEF StopFound, At, Found
    <3>2. job' = [job EXCEPT ![j] = [job[j] EXCEPT !.entity = e, !.pc = "hset"]]
      BY <2>4 DEF StopFound, Save
    <3> HIDE DEF e
    <3> QED BY <2>4, <3>1, <3>2 DEF StopFound, At
  <2>5. CASE StopMissed(j)
    BY <2>5 DEF StopMissed, At, Told, Before
  <2>6. CASE DisconnectFind(j)
    BY <2>6 DEF DisconnectFind, At
  <2>7. CASE Hset(j)
    BY <2>7 DEF Hset
  <2>8. CASE StartSaved(j)
    BY <2>8 DEF StartSaved, At, Saved, registerListeners, Told
  <2>9. CASE StopSaved(j)
    BY <2>9 DEF StopSaved, At, Saved, deregisterListeners, Told
  <2>10. CASE ReadToDestroy(j)
    BY <2>10, SMTT(30) DEF ReadToDestroy, Found
  <2>11. CASE Hdel(j)
    BY <2>11 DEF Hdel
  <2>12. CASE HdelIdx(j)
    BY <2>12 DEF HdelIdx
  <2> QED BY <1>2, <2>1, <2>2, <2>3, <2>4, <2>5, <2>6,
            <2>7, <2>8, <2>9, <2>10, <2>11, <2>12 DEF HandlerStep
<1>3. ASSUME NEW j \in Job, RejectStep(j) PROVE OwnInv'
  BY <1>3 DEF RejectStep, Reject, Saving, Before
<1>4. ASSUME NEW svc \in Emitter, Emit(svc) PROVE OwnInv'
  BY <1>4 DEF Emit
<1> QED BY <1>1, <1>2, <1>3, <1>4 DEF Next

-----------------------------------------------------------------------------
(* A STOP reaches its entity *)

LEMMA ReachHolds ==
  ASSUME TypeOK, OwnInv, ReachInv, Next
  PROVE  ReachInv'
<1> USE NoneIsNoObserver, NoneIsNoEntity, PoliteSockets
    DEF ReachInv, WrittenStays, IndexLeadsToEntity, ListenersIndexed, OwnInv, JobShape,
        JobsOwn, Owns, EntitiesOwned, Requesting, TypeOK, JobRecord,
        Become, Idle, Turn, storage, history, Observer, Emitter
<1>1. ASSUME NEW j \in Job, RequestStep(j) PROVE ReachInv'
  <2> PICK s \in ObserverSocket : Start(j, s) \/ Stop(j, s) \/ Disconnect(j, s)
    BY <1>1 DEF RequestStep
  <2>1. CASE Start(j, s)
    BY <2>1 DEF Start, Take
  <2>2. CASE Stop(j, s)
    BY <2>2 DEF Stop, Take
  <2>3. CASE Disconnect(j, s)
    BY <2>3 DEF Disconnect, Take, InFlight
  <2> QED BY <2>1, <2>2, <2>3
<1>2. ASSUME NEW j \in Job, HandlerStep(j) PROVE ReachInv'
  <2>1. CASE FindKey(j)
    BY <2>1 DEF FindKey
  <2>2. CASE StartFound(j)
    BY <2>2 DEF StartFound, At, Found, Save, Started
  <2>3. CASE StartNew(j)
    BY <2>3 DEF StartNew, At, Save, NewObserver
  <2>4. CASE StopFound(j)
    BY <2>4 DEF StopFound, At, Found, Save
  <2>5. CASE StopMissed(j)
    BY <2>5 DEF StopMissed, At, Told, Before
  <2>6. CASE DisconnectFind(j)
    BY <2>6 DEF DisconnectFind, At
  <2>7. CASE Hset(j)
    BY <2>7 DEF Hset
  <2>8. CASE StartSaved(j)
    BY <2>8 DEF StartSaved, At, Saved, registerListeners, Told
  <2>9. CASE StopSaved(j)
    BY <2>9 DEF StopSaved, At, Saved, deregisterListeners, Told
  <2>10. CASE ReadToDestroy(j)
    BY <2>10 DEF ReadToDestroy, Found
  <2>11. CASE Hdel(j)
    BY <2>11 DEF Hdel
  <2>12. CASE HdelIdx(j)
    BY <2>12 DEF HdelIdx
  <2> QED BY <1>2, <2>1, <2>2, <2>3, <2>4, <2>5, <2>6,
            <2>7, <2>8, <2>9, <2>10, <2>11, <2>12 DEF HandlerStep
<1>3. ASSUME NEW j \in Job, RejectStep(j) PROVE ReachInv'
  BY <1>3 DEF RejectStep, Reject, Saving, Before
<1>4. ASSUME NEW svc \in Emitter, Emit(svc) PROVE ReachInv'
  BY <1>4 DEF Emit
<1> QED BY <1>1, <1>2, <1>3, <1>4 DEF Next

-----------------------------------------------------------------------------
(* The client hears what it was told *)

LEMMA ToldHolds ==
  ASSUME TypeOK, JobShape, ToldInv, Next
  PROVE  ToldInv'
<1> USE NoneIsNoObserver, NoneIsNoEntity, PoliteSockets
    DEF ToldInv, OneRequest, ListenersAsTold, HeardOnce, JobShape, Requesting, TypeOK, JobRecord,
        Become, Idle, Turn, storage, history, Emitter, Silent
<1>1. ASSUME NEW j \in Job, RequestStep(j) PROVE ToldInv'
  <2> PICK s \in ObserverSocket : Start(j, s) \/ Stop(j, s) \/ Disconnect(j, s)
    BY <1>1 DEF RequestStep
  <2>0. out' = Silent
    BY <1>1 DEF RequestStep
  <2>1. CASE Start(j, s)
    BY <2>0, <2>1 DEF Start, Take
  <2>2. CASE Stop(j, s)
    BY <2>0, <2>2 DEF Stop, Take
  <2>3. CASE Disconnect(j, s)
    BY <2>0, <2>3 DEF Disconnect, Take, InFlight
  <2> QED BY <2>1, <2>2, <2>3
<1>2. ASSUME NEW j \in Job, HandlerStep(j) PROVE ToldInv'
  <2>0. out' = Silent
    BY <1>2 DEF HandlerStep
  <2>1. CASE FindKey(j)
    BY <2>0, <2>1 DEF FindKey
  <2>2. CASE StartFound(j)
    BY <2>0, <2>2 DEF StartFound, At, Found, Save, Started
  <2>3. CASE StartNew(j)
    BY <2>0, <2>3 DEF StartNew, At, Save, NewObserver
  <2>4. CASE StopFound(j)
    BY <2>0, <2>4 DEF StopFound, At, Found, Save
  <2>5. CASE StopMissed(j)
    BY <2>0, <2>5 DEF StopMissed, At, Told, Before
  <2>6. CASE DisconnectFind(j)
    BY <2>0, <2>6 DEF DisconnectFind, At
  <2>7. CASE Hset(j)
    BY <2>0, <2>7 DEF Hset
  <2>8. CASE StartSaved(j)
    BY <2>0, <2>8 DEF StartSaved, At, Saved, registerListeners, Told
  <2>9. CASE StopSaved(j)
    BY <2>0, <2>9 DEF StopSaved, At, Saved, deregisterListeners, Told
  <2>10. CASE ReadToDestroy(j)
    BY <2>0, <2>10 DEF ReadToDestroy, Found
  <2>11. CASE Hdel(j)
    BY <2>0, <2>11 DEF Hdel
  <2>12. CASE HdelIdx(j)
    BY <2>0, <2>12 DEF HdelIdx
  <2> QED BY <1>2, <2>1, <2>2, <2>3, <2>4, <2>5, <2>6,
            <2>7, <2>8, <2>9, <2>10, <2>11, <2>12 DEF HandlerStep
<1>3. ASSUME NEW j \in Job, RejectStep(j) PROVE ToldInv'
  <2>1. /\ out'.svc = None /\ conn' = conn /\ listeners' = listeners
        /\ job' = [job EXCEPT ![j] = Idle]
        /\ job[j].sock \in ObserverSocket
        /\ job[j].ev \in {"START", "STOP", "DISCONNECT"}
    BY <1>3 DEF RejectStep, Reject
  <2>2. CASE Requesting(j)
    <3>1. client' = [client EXCEPT ![job[j].sock] = Before(job[j].ev)]
      BY <1>3, <2>2 DEF RejectStep, Reject
    <3> QED BY <2>1, <2>2, <3>1 DEF Before
  <2>3. CASE ~Requesting(j)
    <3>1. client' = client
      BY <1>3, <2>1, <2>3 DEF RejectStep, Reject
    <3> QED BY <2>1, <2>3, <3>1
  <2> QED BY <2>2, <2>3
<1>4. ASSUME NEW svc \in Emitter, Emit(svc) PROVE ToldInv'
  BY <1>4 DEF Emit
<1> QED BY <1>1, <1>2, <1>3, <1>4 DEF Next

-----------------------------------------------------------------------------
(* A client that waits for its acks, none of whose handlers was hung up on  *)
(* or rejected, and what storage has of it.                                  *)

Calm == Polite \ trouble

\* What a handler holds is what storage has: the key is that of the index, the
\* entity it writes is marked as its request asks and takes no second key.
Holds(j) ==
  LET s == job[j].sock  e == job[j].entity IN
    /\ Requesting(j) => conn[s] = "open"
    /\ job[j].pc \in {"entity", "destroy", "hdel", "hdelIdx"} => job[j].key = observerIdx[s]
    /\ job[j].pc = "destroy" => job[j].key # None
    /\ job[j].pc \in {"hset", "hsetIdx"} =>
         /\ job[j].ev = "START" => e.observing
         /\ job[j].ev = "STOP" => ~e.observing
         /\ observerIdx[s] \in {None, e.key}
    /\ job[j].pc = "hsetIdx" => observers[e.key] = e
    /\ job[j].pc = "hdelIdx" => observers[job[j].key] = None

Has(s, pc) == \E j \in Job : job[j].sock = s /\ job[j].pc = pc

OneHandler(s) == \A i, j \in Job : job[i].sock = s /\ job[j].sock = s => i = j

HandlerHolds(s) == \A j \in Job : job[j].sock = s => Holds(j)

\* The index leads to the entity until DISCONNECT has deleted that.
IndexLeads(s) ==
  observerIdx[s] # None => observers[observerIdx[s]] # None \/ Has(s, "hdelIdx")

\* The only entity is that of the index, or the one whose index comes next.
OneEntity(s) ==
  \A k \in ObserverKey : observers[k] # None /\ observers[k].socketId = s =>
    \/ observerIdx[s] = k
    \/ \E j \in Job : job[j].sock = s /\ job[j].pc = "hsetIdx" /\ job[j].entity.key = k

SavedAsTold(s) ==
  conn[s] = "open" =>
    LET k == observerIdx[s] IN
      /\ client[s] = "started" => k # None /\ observers[k].observing
      /\ client[s] = "stopped" => k = None \/ ~observers[k].observing

NothingLeft(s) ==
  conn[s] = "gone" /\ InFlight(s) = {} =>
    /\ observerIdx[s] = None
    /\ \A k \in ObserverKey : observers[k] # None => observers[k].socketId # s

Settled(s) ==
  /\ OneHandler(s)
  /\ HandlerHolds(s)
  /\ IndexLeads(s)
  /\ OneEntity(s)
  /\ SavedAsTold(s)
  /\ NothingLeft(s)

SavedInv == \A s \in Calm : Settled(s)

-----------------------------------------------------------------------------
(* Storage says what the client was told *)

\* A step that changes nothing of s: not its connection, index, client, handlers
\* or entities.
Apart(s) ==
  /\ conn'[s] = conn[s] /\ client'[s] = client[s] /\ observerIdx'[s] = observerIdx[s]
  /\ \A j \in Job : job'[j] = job[j] \/ (job[j].sock # s /\ job'[j].sock # s)
  /\ \A k \in ObserverKey : drawn'[k] = s <=> drawn[k] = s
  /\ \A k \in ObserverKey : drawn[k] = s => observers'[k] = observers[k]

LEMMA ApartSettled ==
  ASSUME TypeOK, OwnInv, OwnInv', NEW s \in ObserverSocket, Settled(s), Apart(s)
  PROVE  Settled(s)'
<1> USE NoneIsNoObserver DEF Apart
<1>1. \A j \in Job : (job[j].sock = s \/ job'[j].sock = s) => job'[j] = job[j]
  OBVIOUS
<1>2. \A k \in ObserverKey : observers'[k] # None /\ observers'[k].socketId = s =>
        observers'[k] = observers[k]
  BY DEF OwnInv, EntitiesOwned
<1>3. observerIdx[s] # None => /\ observerIdx[s] \in ObserverKey
                               /\ observers'[observerIdx[s]] = observers[observerIdx[s]]
  BY DEF OwnInv, EntitiesOwned, TypeOK
<1>4. ASSUME NEW j \in Job, job[j].sock = s
      PROVE  /\ job[j].pc = "hsetIdx" =>
                  observers'[job[j].entity.key] = observers[job[j].entity.key]
             /\ job[j].pc = "hdelIdx" => observers'[job[j].key] = observers[job[j].key]
  BY <1>4, JobTyped, EntityTyped DEF OwnInv, JobShape, JobsOwn, Owns
<1>5. OneHandler(s)'
  BY <1>1 DEF OneHandler, Settled
<1>6. HandlerHolds(s)'
  BY <1>1, <1>4 DEF HandlerHolds, Holds, Settled, Requesting
<1>7. IndexLeads(s)'
  BY <1>1, <1>3 DEF IndexLeads, Has, Settled
<1>8. OneEntity(s)'
  BY <1>1, <1>2 DEF OneEntity, Settled
<1>9. SavedAsTold(s)'
  BY <1>3 DEF SavedAsTold, Settled
<1>10. NothingLeft(s)'
  <2>1. InFlight(s)' = {} => InFlight(s) = {}
    BY <1>1 DEF InFlight
  <2> QED BY <2>1, <1>2 DEF NothingLeft, Settled
<1> QED BY <1>5, <1>6, <1>7, <1>8, <1>9, <1>10 DEF Settled

\* A request or a disconnection touches its own socket only.
LEMMA RequestApart ==
  ASSUME TypeOK, NEW j \in Job, NEW t \in ObserverSocket,
         Start(j, t) \/ Stop(j, t) \/ Disconnect(j, t),
         NEW s \in ObserverSocket, s # t
  PROVE  Apart(s)
<1> USE NoneIsNoObserver DEF Take, Become, Idle, Apart, TypeOK, JobRecord, storage
<1>1. CASE Start(j, t)
  BY <1>1 DEF Start
<1>2. CASE Stop(j, t)
  BY <1>2 DEF Stop
<1>3. CASE Disconnect(j, t)
  BY <1>3 DEF Disconnect
<1> QED BY <1>1, <1>2, <1>3

\* So does a step of a handler, as it owns what it writes.
LEMMA HandlerApart ==
  ASSUME TypeOK, OwnInv, NEW j \in Job, HandlerStep(j) \/ RejectStep(j),
         NEW s \in ObserverSocket, s # job[j].sock
  PROVE  Apart(s)
<1> USE NoneIsNoObserver, NoneIsNoEntity
    DEF Become, Idle, Apart, TypeOK, JobRecord, storage, history
<1>1. CASE FindKey(j)
  BY <1>1 DEF FindKey
<1>2. CASE StartFound(j)
  BY <1>2 DEF StartFound, Save
<1>3. CASE StartNew(j)
  BY <1>3 DEF StartNew, Save, At
<1>4. CASE StopFound(j)
  BY <1>4 DEF StopFound, Save
<1>5. CASE StopMissed(j)
  BY <1>5 DEF StopMissed, Told
<1>6. CASE DisconnectFind(j)
  BY <1>6 DEF DisconnectFind
<1>7. CASE Hset(j)
  <2>1. job[j].entity.key \in ObserverKey /\ drawn[job[j].entity.key] = job[j].sock
    BY <1>7, JobTyped, EntityTyped DEF Hset, OwnInv, JobShape, JobsOwn, Owns
  <2> QED BY <1>7, <2>1 DEF Hset
<1>8. CASE StartSaved(j)
  <2>1. job[j].entity.socketId = job[j].sock
    BY <1>8 DEF StartSaved, At, OwnInv, JobShape, JobsOwn, Owns
  <2> QED BY <1>8, <2>1 DEF StartSaved, Saved, Told
<1>9. CASE StopSaved(j)
  <2>1. job[j].entity.socketId = job[j].sock
    BY <1>9 DEF StopSaved, At, OwnInv, JobShape, JobsOwn, Owns
  <2> QED BY <1>9, <2>1 DEF StopSaved, Saved, Told
<1>10. CASE ReadToDestroy(j)
  BY <1>10 DEF ReadToDestroy
<1>11. CASE Hdel(j)
  <2>1. job[j].key \in ObserverKey /\ drawn[job[j].key] = job[j].sock
    BY <1>11, JobTyped DEF Hdel, OwnInv, JobShape, JobsOwn, Owns
  <2> QED BY <1>11, <2>1 DEF Hdel
<1>12. CASE HdelIdx(j)
  <2>1. job[j].entity.socketId = job[j].sock
    BY <1>12 DEF HdelIdx, OwnInv, JobShape, JobsOwn, Owns
  <2> QED BY <1>12, <2>1 DEF HdelIdx
<1>13. CASE RejectStep(j)
  <2>1. job'[j].sock = None /\ \A i \in Job : i # j => job'[i] = job[i]
    BY <1>13 DEF RejectStep, Reject
  <2>2. client'[s] = client[s]
    BY <1>13 DEF RejectStep, Reject
  <2> QED BY <1>13, <2>1, <2>2 DEF RejectStep, Reject
<1> QED BY <1>1, <1>2, <1>3, <1>4, <1>5, <1>6, <1>7, <1>8, <1>9, <1>10, <1>11, <1>12, <1>13
        DEF HandlerStep

\* The next request of a calm client finds no handler of it in flight.
LEMMA RequestSettles ==
  ASSUME IInv, NEW j \in Job, NEW s \in Calm, Settled(s),
         Start(j, s) \/ Stop(j, s) \/ Disconnect(j, s), s \in Calm'
  PROVE  Settled(s)'
<1> USE NoneIsNoObserver, PoliteSockets DEF Calm
<1>1. s \in ObserverSocket /\ TypeOK /\ conn[s] = "open"
  BY DEF IInv, Start, Stop, Disconnect, Take
<1>2. \A i \in Job : job[i].sock # s
  <2> SUFFICES ASSUME NEW i \in Job, job[i].sock = s PROVE FALSE
    OBVIOUS
  <2>1. job[i].ev # "DISCONNECT"
    BY <1>1 DEF IInv, OwnInv, JobShape
  <2>2. job[i].ev # None
    BY <1>1 DEF IInv, OwnInv, JobShape, Idle
  <2>3. Requesting(i)
    BY <1>1, <2>1, <2>2 DEF TypeOK, JobRecord, Requesting
  <2>4. client[s] \in {"starting", "stopping"}
    BY <2>3 DEF IInv, ToldInv, OneRequest, Requesting
  <2>5. i \in InFlight(s)
    BY DEF InFlight
  <2>6. CASE Disconnect(j, s)
    BY <1>1, <2>5, <2>6 DEF Disconnect
  <2> QED BY <2>4, <2>6 DEF Start, Stop
<1>3. /\ observers' = observers /\ observerIdx' = observerIdx
      /\ \A i \in Job : i # j => job'[i] = job[i]
      /\ job'[j].sock = s /\ job'[j].pc = "idx" /\ (Requesting(j)' => conn'[s] = "open")
  <2> USE DEF Take, Become, Idle, storage, TypeOK, Requesting
  <2>1. CASE Start(j, s)
    BY <1>1, <2>1 DEF Start
  <2>2. CASE Stop(j, s)
    BY <1>1, <2>2 DEF Stop
  <2>3. CASE Disconnect(j, s)
    BY <1>1, <2>3 DEF Disconnect
  <2> QED BY <2>1, <2>2, <2>3
<1>4. OneHandler(s)'
  BY <1>2, <1>3 DEF OneHandler
<1>5. HandlerHolds(s)'
  BY <1>2, <1>3 DEF HandlerHolds, Holds
<1>6. IndexLeads(s)'
  BY <1>2, <1>3 DEF IndexLeads, Has, Settled
<1>7. OneEntity(s)'
  BY <1>2, <1>3 DEF OneEntity, Settled
<1>8. SavedAsTold(s)'
  <2>1. CASE Start(j, s)
    BY <1>1, <2>1 DEF Start, SavedAsTold, TypeOK
  <2>2. CASE Stop(j, s)
    BY <1>1, <2>2 DEF Stop, SavedAsTold, TypeOK
  <2>3. CASE Disconnect(j, s)
    BY <1>1, <2>3 DEF Disconnect, SavedAsTold, TypeOK
  <2> QED BY <2>1, <2>2, <2>3
<1>9. NothingLeft(s)'
  BY <1>3 DEF NothingLeft, InFlight
<1> QED BY <1>4, <1>5, <1>6, <1>7, <1>8, <1>9 DEF Settled

\* What a step of its handler leaves of a calm client.
LEMMA HandlerOf ==
  ASSUME TypeOK, NEW s, NEW j \in Job, job[j].sock = s, OneHandler(s), NEW r, Become(j, r)
  PROVE  /\ job'[j] = r
         /\ \A i \in Job : i # j => job'[i] = job[i] /\ job'[i].sock # s
BY DEF TypeOK, Become, OneHandler

LEMMA StepSettles ==
  ASSUME IInv, NEW j \in Job, HandlerStep(j), NEW s \in Calm, job[j].sock = s, Settled(s)
  PROVE  Settled(s)'
<1> USE NoneIsNoObserver, NoneIsNoEntity, PoliteSockets
<1>0. /\ TypeOK /\ OwnInv /\ ReachInv /\ ToldInv /\ s \in ObserverSocket /\ s # None
      /\ JobShape /\ OneHandler(s) /\ Holds(j)
      /\ \A i \in Job : job[i].sock = s => i = j
      /\ j \in InFlight(s)
  BY DEF IInv, OwnInv, Settled, Calm, OneHandler, HandlerHolds, InFlight
<1> DEFINE
      Alone(r) == /\ job'[j] = r
                  /\ \A i \in Job : i # j => job'[i] = job[i] /\ job'[i].sock # s
      Kept == /\ observers' = observers /\ observerIdx' = observerIdx
              /\ conn' = conn /\ client' = client
<1>1. ASSUME NEW r, Become(j, r) PROVE Alone(r)
  BY <1>0, <1>1, HandlerOf
<1>2. ASSUME NEW r, Alone(r), r.sock = s, Kept, job[j].pc \notin {"hsetIdx", "hdelIdx"},
             r.pc \notin {"hsetIdx", "hdelIdx"}, Holds(j)'
      PROVE  Settled(s)'
  <2>1. OneHandler(s)' /\ HandlerHolds(s)'
    BY <1>2 DEF OneHandler, HandlerHolds
  <2>2. IndexLeads(s)'
    BY <1>0, <1>2 DEF IndexLeads, Has, Settled
  <2>3. OneEntity(s)'
    BY <1>0, <1>2 DEF OneEntity, Settled
  <2>4. SavedAsTold(s)'
    BY <1>2 DEF SavedAsTold, Settled
  <2>5. NothingLeft(s)'
    BY <1>2 DEF NothingLeft, InFlight
  <2> QED BY <2>1, <2>2, <2>3, <2>4, <2>5 DEF Settled
<1>3. CASE FindKey(j)
  <2> DEFINE r == [job[j] EXCEPT !.key = observerIdx[job[j].sock], !.pc = "entity"]
  <2>1. Alone(r) /\ Kept
    BY <1>1, <1>3 DEF FindKey, storage, history
  <2>2. /\ r.sock = s /\ r.ev = job[j].ev /\ r.pc = "entity" /\ r.key = observerIdx[s]
        /\ job[j].pc = "idx"
    BY <1>0, <1>3, JobTyped DEF FindKey, JobRecord
  <2> HIDE DEF r
  <2>3. Holds(j)'
    BY <1>0, <2>1, <2>2 DEF Holds, Requesting
  <2> QED BY <1>2, <2>1, <2>2, <2>3
<1>4. CASE StartFound(j)
  <2> DEFINE e == Started(Found(j), s)  r == [job[j] EXCEPT !.entity = e, !.pc = "hset"]
  <2>1. Alone(r) /\ Kept
    BY <1>0, <1>1, <1>4 DEF StartFound, Save, storage, history
  <2>2. /\ job[j].key # None /\ Found(j) \in Observer /\ Found(j).key = job[j].key
    BY <1>0, <1>4, JobTyped, FoundTyped DEF StartFound, At, Found, OwnInv, EntitiesOwned
  <2>3. e.observing /\ e.key = job[j].key
    BY <2>2 DEF Started, Observer
  <2>4. r.sock = s /\ r.pc = "hset" /\ r.ev = "START" /\ r.entity = e /\ job[j].pc = "entity"
    BY <1>0, <1>4, JobTyped DEF StartFound, At, JobRecord
  <2> HIDE DEF e, r
  <2>5. Holds(j)'
    BY <1>0, <1>4, <2>1, <2>3, <2>4 DEF Holds, Requesting, StartFound, At
  <2> QED BY <1>2, <2>1, <2>4, <2>5
<1>5. CASE StartNew(j)
  <2> PICK k \in ObserverKey : Save(j, NewObserver(k, s))
    BY <1>0, <1>5 DEF StartNew
  <2> DEFINE e == NewObserver(k, s)  r == [job[j] EXCEPT !.entity = e, !.pc = "hset"]
  <2>1. Alone(r) /\ Kept
    BY <1>0, <1>1, <1>5 DEF StartNew, Save, storage
  <2>2. observerIdx[s] = None
    <3>1. conn[s] = "open"
      BY <1>0, <1>5 DEF StartNew, At, Holds, Requesting
    <3>2. job[j].key = observerIdx[s] /\ Found(j) = None
      BY <1>0, <1>5 DEF StartNew, At, Holds
    <3> QED BY <1>0, <3>1, <3>2 DEF ReachInv, IndexLeadsToEntity, Found
  <2>3. e.observing
    BY DEF NewObserver
  <2>4. r.sock = s /\ r.pc = "hset" /\ r.ev = "START" /\ r.entity = e /\ job[j].pc = "entity"
    BY <1>0, <1>5, JobTyped DEF StartNew, At, JobRecord
  <2> HIDE DEF e, r
  <2>5. Holds(j)'
    BY <1>0, <1>5, <2>1, <2>2, <2>3, <2>4 DEF Holds, Requesting, StartNew, At
  <2> QED BY <1>2, <2>1, <2>4, <2>5
<1>6. CASE StopFound(j)
  <2> DEFINE e == [Found(j) EXCEPT !.observing = FALSE]
             r == [job[j] EXCEPT !.entity = e, !.pc = "hset"]
  <2>1. Alone(r) /\ Kept
    BY <1>0, <1>1, <1>6 DEF StopFound, Save, storage, history
  <2>2. /\ job[j].key # None /\ Found(j) \in Observer /\ Found(j).key = job[j].key
    BY <1>0, <1>6, JobTyped, FoundTyped DEF StopFound, At, Found, OwnInv, EntitiesOwned
  <2>3. ~e.observing /\ e.key = job[j].key
    BY <2>2 DEF Observer
  <2>4. r.sock = s /\ r.pc = "hset" /\ r.ev = "STOP" /\ r.entity = e /\ job[j].pc = "entity"
    BY <1>0, <1>6, JobTyped DEF StopFound, At, JobRecord
  <2> HIDE DEF e, r
  <2>5. Holds(j)'
    BY <1>0, <1>6, <2>1, <2>3, <2>4 DEF Holds, Requesting, StopFound, At
  <2> QED BY <1>2, <2>1, <2>4, <2>5
\* Its listeners are registered, so its STOP finds an entity.
<1>7. CASE StopMissed(j)
  <2>1. conn[s] = "open" /\ client[s] = "stopping"
    BY <1>0, <1>7 DEF StopMissed, At, Holds, Requesting, ToldInv, OneRequest, Calm
  <2>2. listeners["actor"][s] = 1
    BY <1>0, <2>1 DEF ToldInv, ListenersAsTold, Emitter, Calm
  <2>3. observerIdx[s] # None /\ observers[observerIdx[s]] # None
    BY <1>0, <2>1, <2>2 DEF ReachInv, ListenersIndexed, IndexLeadsToEntity, Emitter
  <2>4. job[j].key = observerIdx[s] /\ Found(j) = None
    BY <1>0, <1>7 DEF StopMissed, At, Holds
  <2> QED BY <2>3, <2>4 DEF Found
<1>8. CASE DisconnectFind(j)
  <2>1. /\ Kept /\ job[j].pc = "entity" /\ job[j].key = observerIdx[s]
        /\ job[j].ev = "DISCONNECT"
    BY <1>0, <1>8 DEF DisconnectFind, At, Holds, storage, history
  <2>2. CASE Found(j) = None
    <3>1. Alone(Idle)
      BY <1>1, <1>8, <2>2 DEF DisconnectFind
    <3>2. observerIdx[s] = None
      BY <1>0, <2>1, <2>2 DEF Settled, IndexLeads, Has, Found
    <3>3. \A k \in ObserverKey : observers[k] # None => observers[k].socketId # s
      BY <1>0, <2>1, <3>2 DEF Settled, OneEntity
    <3>4. \A i \in Job : job'[i].sock # s
      BY <1>0, <3>1 DEF Idle
    <3> QED BY <2>1, <3>2, <3>3, <3>4
            DEF Settled, OneHandler, HandlerHolds, IndexLeads, OneEntity, SavedAsTold, NothingLeft
  <2>3. CASE Found(j) # None
    <3> DEFINE r == [job[j] EXCEPT !.pc = "destroy"]
    <3>1. Alone(r)
      BY <1>1, <1>8, <2>3 DEF DisconnectFind
    <3>2. /\ r.sock = s /\ r.pc = "destroy" /\ r.key = job[j].key /\ r.key # None
          /\ r.ev = "DISCONNECT"
      BY <1>0, <2>1, <2>3, JobTyped DEF Found, JobRecord
    <3> HIDE DEF r
    <3>3. Holds(j)'
      BY <2>1, <3>1, <3>2 DEF Holds, Requesting
    <3> QED BY <1>2, <2>1, <3>1, <3>2, <3>3
  <2> QED BY <2>2, <2>3
<1>9. CASE Hset(j)
  <2> DEFINE e == job[j].entity  r == [job[j] EXCEPT !.pc = "hsetIdx"]
  <2>0. /\ job[j].pc = "hset" /\ observerIdx[s] \in {None, e.key} /\ Requesting(j)
        /\ conn[s] = "open" /\ e \in Observer /\ e.key \in ObserverKey /\ e.socketId = s
    BY <1>0, <1>9, JobTyped, EntityTyped DEF Hset, Holds, JobShape, OwnInv, JobsOwn, Owns
  <2>1. /\ Alone(r) /\ observerIdx' = observerIdx /\ conn' = conn /\ client' = client
        /\ observers' = [observers EXCEPT ![e.key] = e]
    BY <1>1, <1>9 DEF Hset, history
  <2>2. r.sock = s /\ r.pc = "hsetIdx" /\ r.ev = job[j].ev /\ r.entity = e
    BY <1>0, JobTyped DEF JobRecord
  <2>3. observers'[e.key] = e /\ \A k \in ObserverKey \ {e.key} : observers'[k] = observers[k]
    BY <1>0, <2>0, <2>1 DEF TypeOK
  <2> HIDE DEF e, r
  <2>4. OneHandler(s)'
    BY <2>1, <2>2 DEF OneHandler
  <2>5. HandlerHolds(s)'
    <3>1. Holds(j)'
      BY <1>0, <2>0, <2>1, <2>2, <2>3 DEF Holds, Requesting, e
    <3> QED BY <2>1, <3>1 DEF HandlerHolds
  <2>6. IndexLeads(s)'
    <3>1. e # None
      BY <2>0
    <3> QED BY <2>0, <2>1, <2>3, <3>1 DEF IndexLeads
  <2>7. OneEntity(s)'
    <3>1. ASSUME NEW k \in ObserverKey, k # e.key, observers'[k] # None, observers'[k].socketId = s
          PROVE  observerIdx[s] = k
      BY <1>0, <2>0, <2>3, <3>1 DEF Settled, OneEntity
    <3> QED BY <2>1, <2>2, <3>1 DEF OneEntity
  <2>8. SavedAsTold(s)'
    <3>1. client[s] \in {"starting", "stopping"}
      BY <1>0, <2>0 DEF Requesting, ToldInv, OneRequest, Calm
    <3> QED BY <2>1, <3>1 DEF SavedAsTold
  <2>9. NothingLeft(s)'
    BY <2>0, <2>1 DEF NothingLeft
  <2> QED BY <2>4, <2>5, <2>6, <2>7, <2>8, <2>9 DEF Settled
<1>10. CASE StartSaved(j) \/ StopSaved(j)
  <2> DEFINE e == job[j].entity
  <2>0. /\ job[j].pc = "hsetIdx" /\ observerIdx[s] \in {None, e.key} /\ Requesting(j)
        /\ conn[s] = "open" /\ e \in Observer /\ e.key \in ObserverKey /\ e.socketId = s
        /\ observers[e.key] = e
    BY <1>0, <1>10, JobTyped, EntityTyped
       DEF StartSaved, StopSaved, At, Holds, JobShape, OwnInv, JobsOwn, Owns
  <2>1. /\ Alone(Idle) /\ observerIdx' = [observerIdx EXCEPT ![s] = e.key] /\ conn' = conn
        /\ observers' = observers
    BY <1>0, <1>1, <1>10, <2>0 DEF StartSaved, StopSaved, Saved
  <2>2. observerIdx'[s] = e.key
    BY <1>0, <2>1 DEF TypeOK
  <2>3. \A i \in Job : job'[i].sock # s
    BY <1>0, <2>1 DEF Idle
  <2>4. /\ client'[s] = "started" => e.observing
        /\ client'[s] = "stopped" => ~e.observing
    <3>1. CASE StartSaved(j)
      <4>1. client'[s] = "started" /\ job[j].ev = "START"
        BY <1>0, <3>1 DEF StartSaved, At, Told, TypeOK
      <4> QED BY <1>0, <2>0, <4>1 DEF Holds
    <3>2. CASE StopSaved(j)
      <4>1. client'[s] = "stopped" /\ job[j].ev = "STOP"
        BY <1>0, <3>2 DEF StopSaved, At, Told, TypeOK
      <4> QED BY <1>0, <2>0, <4>1 DEF Holds
    <3> QED BY <1>10, <3>1, <3>2
  <2> HIDE DEF e
  <2>5. e.key # None /\ e # None
    BY <2>0
  <2>6. OneEntity(s)'
    <3>1. ASSUME NEW k \in ObserverKey, observers[k] # None, observers[k].socketId = s
          PROVE  k = e.key
      BY <1>0, <2>0, <3>1 DEF Settled, OneEntity, e
    <3> QED BY <2>1, <2>2, <3>1 DEF OneEntity
  <2>7. SavedAsTold(s)'
    BY <2>0, <2>1, <2>2, <2>4, <2>5 DEF SavedAsTold
  <2> QED BY <2>0, <2>1, <2>2, <2>3, <2>5, <2>6, <2>7
          DEF Settled, OneHandler, HandlerHolds, IndexLeads, NothingLeft
<1>11. CASE ReadToDestroy(j)
  <2>0. /\ job[j].pc = "destroy" /\ job[j].key = observerIdx[s] /\ job[j].key # None
        /\ Kept /\ job[j].ev = "DISCONNECT"
    BY <1>0, <1>11 DEF ReadToDestroy, Holds, JobShape, storage, history
  <2>1. Found(j) # None
    BY <1>0, <2>0 DEF Settled, IndexLeads, Has, Found
  <2> DEFINE r == [job[j] EXCEPT !.entity = Found(j), !.pc = "hdel"]
  <2>2. Alone(r)
    BY <1>1, <1>11, <2>1 DEF ReadToDestroy
  <2>3. r.sock = s /\ r.pc = "hdel" /\ r.key = job[j].key /\ r.ev = "DISCONNECT"
    BY <1>0, <2>0, JobTyped DEF JobRecord
  <2> HIDE DEF r
  <2>4. Holds(j)'
    BY <2>0, <2>2, <2>3 DEF Holds, Requesting
  <2> QED BY <1>2, <2>0, <2>2, <2>3, <2>4
<1>12. CASE Hdel(j)
  <2>0. /\ job[j].pc = "hdel" /\ job[j].key = observerIdx[s] /\ job[j].key \in ObserverKey
        /\ job[j].ev = "DISCONNECT" /\ conn[s] = "gone"
    BY <1>0, <1>12, JobTyped DEF Hdel, Holds, JobShape
  <2> DEFINE r == [job[j] EXCEPT !.pc = "hdelIdx"]
  <2>1. /\ Alone(r) /\ observers' = [observers EXCEPT ![job[j].key] = None]
        /\ observerIdx' = observerIdx /\ conn' = conn
    BY <1>1, <1>12 DEF Hdel, history
  <2>2. r.sock = s /\ r.pc = "hdelIdx" /\ r.key = job[j].key /\ r.ev = "DISCONNECT"
    BY <1>0, <2>0, JobTyped DEF JobRecord
  <2>3. /\ observers'[job[j].key] = None
        /\ \A k \in ObserverKey \ {job[j].key} : observers'[k] = observers[k]
    BY <1>0, <2>0, <2>1 DEF TypeOK
  <2> HIDE DEF r
  <2>4. Holds(j)'
    BY <2>0, <2>1, <2>2, <2>3 DEF Holds, Requesting
  <2>5. OneHandler(s)' /\ HandlerHolds(s)'
    BY <2>1, <2>4 DEF OneHandler, HandlerHolds
  <2>6. IndexLeads(s)'
    BY <2>1, <2>2 DEF IndexLeads, Has
  <2>7. OneEntity(s)'
    BY <1>0, <2>0, <2>1, <2>3 DEF OneEntity, Settled
  <2>8. NothingLeft(s)'
    BY <2>1, <2>2 DEF NothingLeft, InFlight
  <2> QED BY <2>0, <2>1, <2>5, <2>6, <2>7, <2>8 DEF Settled, SavedAsTold
<1>13. CASE HdelIdx(j)
  <2>0. /\ job[j].pc = "hdelIdx" /\ job[j].key = observerIdx[s] /\ observers[job[j].key] = None
        /\ job[j].entity.socketId = s /\ conn[s] = "gone"
    BY <1>0, <1>13 DEF HdelIdx, Holds, JobShape, OwnInv, JobsOwn, Owns
  <2>1. /\ Alone(Idle) /\ observers' = observers /\ conn' = conn
        /\ observerIdx' = [observerIdx EXCEPT ![s] = None]
    BY <1>1, <1>13, <2>0 DEF HdelIdx, history
  <2>2. observerIdx'[s] = None
    BY <1>0, <2>1 DEF TypeOK
  <2>3. \A i \in Job : job'[i].sock # s
    BY <1>0, <2>1 DEF Idle
  <2>4. \A k \in ObserverKey : observers[k] # None => observers[k].socketId # s
    BY <1>0, <2>0 DEF Settled, OneEntity
  <2> QED BY <2>0, <2>1, <2>2, <2>3, <2>4
          DEF Settled, OneHandler, HandlerHolds, IndexLeads, OneEntity, SavedAsTold, NothingLeft
<1> QED BY <1>3, <1>4, <1>5, <1>6, <1>7, <1>8, <1>9, <1>10, <1>11, <1>12, <1>13
        DEF HandlerStep

\* Once a client is in trouble it stays there.
LEMMA TroubleStays ==
  ASSUME Next
  PROVE  Calm' \subseteq Calm
<1> USE DEF history, Calm
<1>1. ASSUME NEW j \in Job, RequestStep(j) PROVE Calm' \subseteq Calm
  BY <1>1 DEF RequestStep, Start, Stop, Disconnect
<1>2. ASSUME NEW j \in Job, HandlerStep(j) PROVE Calm' \subseteq Calm
  BY <1>2 DEF HandlerStep, FindKey, StartFound, StartNew, StopFound, StopMissed, DisconnectFind,
              Hset, StartSaved, StopSaved, ReadToDestroy, Hdel, HdelIdx
<1>3. ASSUME NEW j \in Job, RejectStep(j) PROVE Calm' \subseteq Calm
  BY <1>3 DEF RejectStep, Reject
<1>4. ASSUME NEW svc \in Emitter, Emit(svc) PROVE Calm' \subseteq Calm
  BY <1>4 DEF Emit
<1> QED BY <1>1, <1>2, <1>3, <1>4 DEF Next

LEMMA SavedHolds ==
  ASSUME IInv, IInv', SavedInv, Next
  PROVE  SavedInv'
<1> SUFFICES ASSUME NEW s \in Calm' PROVE Settled(s)'
  BY DEF SavedInv
<1>0. /\ s \in Calm /\ Settled(s) /\ s \in ObserverSocket
      /\ TypeOK /\ OwnInv /\ OwnInv'
  BY TroubleStays, PoliteSockets DEF SavedInv, Calm, IInv
<1>1. ASSUME NEW j \in Job, RequestStep(j) PROVE Settled(s)'
  <2> PICK t \in ObserverSocket : Start(j, t) \/ Stop(j, t) \/ Disconnect(j, t)
    BY <1>1 DEF RequestStep
  <2>1. CASE t = s
    BY <1>0, <2>1, RequestSettles
  <2>2. CASE t # s
    BY <1>0, <2>2, RequestApart, ApartSettled
  <2> QED BY <2>1, <2>2
<1>2. ASSUME NEW j \in Job, HandlerStep(j) PROVE Settled(s)'
  <2>1. CASE job[j].sock = s
    BY <1>0, <1>2, <2>1, StepSettles
  <2>2. CASE job[j].sock # s
    BY <1>0, <1>2, <2>2, HandlerApart, ApartSettled
  <2> QED BY <2>1, <2>2
<1>3. ASSUME NEW j \in Job, RejectStep(j) PROVE Settled(s)'
  <2>1. job[j].sock # s
    BY <1>3 DEF RejectStep, Reject, Calm
  <2> QED BY <1>0, <1>3, <2>1, HandlerApart, ApartSettled
<1>4. ASSUME NEW svc \in Emitter, Emit(svc) PROVE Settled(s)'
  <2>1. Apart(s)
    BY <1>4 DEF Emit, Apart, storage, history
  <2> QED BY <1>0, <2>1, ApartSettled
<1> QED BY <1>1, <1>2, <1>3, <1>4 DEF Next

-----------------------------------------------------------------------------

LEMMA InitHolds == Init => IInv
<1> SUFFICES ASSUME Init PROVE IInv
  OBVIOUS
<1> USE NoneIsNoObserver, NoneIsNoEntity, PoliteSockets
<1>1. TypeOK
  <2>1. queue \in Seq(Job)
    BY DEF Init
  <2>2. job \in [Job -> JobRecord]
    BY IdleTyped DEF Init
  <2> QED BY <2>1, <2>2 DEF Init, TypeOK, Silent, Emitter, ClientState
<1>2. HeadWrites /\ OwnInv
  BY DEF Init, HeadWrites, OwnInv, JobShape, JobsOwn, Owns, EntitiesOwned, Requesting, Idle
<1>3. ReachInv
  BY DEF Init, ReachInv, WrittenStays, IndexLeadsToEntity, ListenersIndexed, Idle
<1>4. ToldInv
  BY DEF Init, ToldInv, OneRequest, ListenersAsTold, HeardOnce, Requesting, Idle, Silent
<1> QED BY <1>1, <1>2, <1>3, <1>4 DEF IInv

LEMMA NextHolds == IInv /\ [Next]_vars => IInv'
<1> SUFFICES ASSUME IInv, [Next]_vars PROVE IInv'
  OBVIOUS
<1>1. CASE Next
  <2>1. TypeOK' /\ HeadWrites' /\ OwnInv' /\ ReachInv' /\ ToldInv'
    BY <1>1, TypeHolds, HeadHolds, OwnHolds, ReachHolds, ToldHolds DEF IInv, OwnInv
  <2> QED BY <2>1 DEF IInv
<1>2. CASE UNCHANGED vars
  BY <1>2 DEF vars, storage, history, IInv, TypeOK, HeadWrites, Turn, OwnInv, JobShape,
              JobsOwn, Owns, EntitiesOwned, ReachInv, WrittenStays, IndexLeadsToEntity,
              ListenersIndexed, ToldInv, OneRequest, ListenersAsTold, HeardOnce, Requesting
<1> QED BY <1>1, <1>2

\* Handlers, storage and listeners of the observers agree at every step, for
\* any number of sockets, keys and handlers in flight.
THEOREM ObserverInvariant == Spec => []IInv
BY InitHolds, NextHolds, PTL DEF Spec

\* The state of observers, their handlers and the CHANGE copies keep their types.
THEOREM ObserversTyped == Spec => []TypeOK
<1>1. IInv => TypeOK
  BY DEF IInv
<1> QED BY <1>1, ObserverInvariant, PTL

\* No handler writes the entity or the index of another socket.
THEOREM ObserversOwn == Spec => []EntitiesOwned
<1>1. IInv => EntitiesOwned
  BY DEF IInv, OwnInv
<1> QED BY <1>1, ObserverInvariant, PTL

\* A STOP finds its entity while listeners of the socket are registered, even
\* when storage commands reject and clients do not wait for their acks.
THEOREM StopsReach == Spec => []StopReaches
<1>1. IInv => StopReaches
  BY DEF IInv, ReachInv, ListenersIndexed, IndexLeadsToEntity, StopReaches
<1> QED BY <1>1, ObserverInvariant, PTL

\* A client that waits for its acks hears each event once after START and
\* never after STOP.
THEOREM EventsHeardOnce == Spec => []HeardOnce
<1>1. IInv => HeardOnce
  BY DEF IInv, ToldInv
<1> QED BY <1>1, ObserverInvariant, PTL

\* For a client that waits for its acks, storage follows what it was told, unless
\* a handler of it was hung up on or rejected.
THEOREM ClientsSettled == Spec => []SavedInv
<1>1. Init => SavedInv
  BY NoneIsNoObserver, PoliteSockets
     DEF Init, SavedInv, Calm, Settled, OneHandler, HandlerHolds, IndexLeads, OneEntity,
         SavedAsTold, NothingLeft, Idle
<1>2. IInv /\ IInv' /\ SavedInv /\ [Next]_vars => SavedInv'
  <2> SUFFICES ASSUME IInv, IInv', SavedInv, [Next]_vars PROVE SavedInv'
    OBVIOUS
  <2>1. CASE Next
    BY <2>1, SavedHolds
  <2>2. CASE UNCHANGED vars
    BY <2>2 DEF vars, storage, history, SavedInv, Calm, Settled, OneHandler, HandlerHolds, Holds,
                Requesting, IndexLeads, Has, OneEntity, SavedAsTold, NothingLeft, InFlight
  <2> QED BY <2>1, <2>2
<1> QED BY <1>1, <1>2, ObserverInvariant, PTL DEF Spec

\* The stored entity of such a client says whether it is observing.
THEOREM ObservingIsSaved == Spec => []ObservingSaved
<1>1. SavedInv => ObservingSaved
  BY DEF SavedInv, Calm, Settled, SavedAsTold, ObservingSaved
<1> QED BY <1>1, ClientsSettled, PTL

\* When such a client has hung up and its DISCONNECT is done, nothing of it is
\* left in storage.
THEOREM NothingIsLeft == Spec => []RestingLeavesNothing
<1>1. SavedInv => RestingLeavesNothing
  BY DEF SavedInv, Calm, Settled, NothingLeft, RestingLeavesNothing
<1> QED BY <1>1, ClientsSettled, PTL
=============================================================================
