----------------------------- MODULE TypeProofs -----------------------------
(***************************************************************************)
(* Type correctness of the hub for any number of hubs, sockets, keys, calls *)
(* and concurrent handlers: TypeOK, with what a handler holds at each       *)
(* command it awaits and the discipline of the save queues (TypeInv).       *)
(***************************************************************************)
EXTENDS SugoHubInv, SequenceTheorems, WellFoundedInduction, TLAPS

-----------------------------------------------------------------------------
(* Lists *)

LEMMA FrontType ==
  ASSUME NEW S, NEW s \in Seq(S)
  PROVE  Front(s) \in Seq(S)
<1>1. CASE s = <<>>
  BY <1>1 DEF Front
<1>2. CASE s # <<>>
  BY <1>2 DEF Front
<1> QED BY <1>1, <1>2

LEMMA MinOfNat ==
  ASSUME NEW T \in SUBSET Nat, T # {}
  PROVE  Min(T) \in T
<1>1. PICK x \in T : \A y \in T : ~ (<<y, x>> \in OpToRel(<, Nat))
  BY NatLessThanWellFounded, WFMin
<1>2. \A y \in T : <<y, x>> \in Nat \X Nat
  OBVIOUS
<1>3. \A y \in T : ~ (y < x)
  BY <1>1, <1>2 DEF OpToRel
<1>4. \A y \in T : x =< y
  BY <1>3
<1> QED BY <1>4 DEF Min

LEMMA RemoveFirstType ==
  ASSUME NEW S, NEW s \in Seq(S), NEW e
  PROVE  RemoveFirst(s, e) \in Seq(S)
<1> DEFINE I == {i \in 1..Len(s) : s[i] = e}
<1>1. CASE I = {}
  BY <1>1 DEF RemoveFirst
<1>2. CASE I # {}
  <2>0. I \in SUBSET Nat
    OBVIOUS
  <2>1. Min(I) \in 1..Len(s)
    BY <1>2, <2>0, MinOfNat
  <2>2. /\ SubSeq(s, 1, Min(I) - 1) \in Seq(S)
        /\ SubSeq(s, Min(I) + 1, Len(s)) \in Seq(S)
    <3> DEFINE m == Min(I)
    <3> HIDE DEF m
    <3>1. m \in 1..Len(s) /\ Len(s) \in Nat
      BY <2>1, LenProperties DEF m
    <3>2. SubSeq(s, 1, m - 1) \in Seq(S)
      BY <3>1, SubSeqProperties
    <3>3. SubSeq(s, m + 1, Len(s)) \in Seq(S)
      BY <3>1, SubSeqProperties
    <3> QED BY <3>2, <3>3 DEF m
  <2>3. RemoveFirst(s, e) = SubSeq(s, 1, Min(I) - 1) \o SubSeq(s, Min(I) + 1, Len(s))
    BY <1>2 DEF RemoveFirst, RemoveAt, SelectInSeq
  <2> QED BY <2>2, <2>3
<1> QED BY <1>1, <1>2

\* splice keeps a list a list of the same kind (removeCaller, removeActor).
LEMMA SplicedType ==
  ASSUME NEW S, NEW s \in Seq(S), NEW e
  PROVE  Spliced(s, e) \in Seq(S)
BY FrontType, RemoveFirstType DEF Spliced

LEMMA AddCallerType ==
  ASSUME NEW a \in Actor, NEW c \in Caller
  PROVE  AddCaller(a, c) \in Actor
<1>1. Append(a.callers, c.key) \in Seq(CallerKey)
  BY AppendProperties DEF Actor, Caller
<1> QED BY <1>1 DEF AddCaller, Actor

LEMMA RemoveCallerType ==
  ASSUME NEW a \in Actor, NEW c \in Caller
  PROVE  RemoveCaller(a, c) \in Actor
<1>1. Spliced(a.callers, c.key) \in Seq(CallerKey)
  BY SplicedType DEF Actor
<1> QED BY <1>1 DEF RemoveCaller, Actor

LEMMA AddActorType ==
  ASSUME NEW a \in Actor, NEW c \in Caller
  PROVE  AddActor(c, a) \in Caller
<1>1. Append(c.actors, a.key) \in Seq(ActorKey)
  BY AppendProperties DEF Actor, Caller
<1> QED BY <1>1 DEF AddActor, Caller

LEMMA RemoveActorType ==
  ASSUME NEW a \in Actor, NEW c \in Caller
  PROVE  RemoveActor(c, a) \in Caller
<1>1. Spliced(c.actors, a.key) \in Seq(ActorKey)
  BY SplicedType DEF Caller
<1> QED BY <1>1 DEF RemoveActor, Caller
-----------------------------------------------------------------------------
(* Jobs *)

LEMMA BecomeType ==
  ASSUME TypeInv, NEW j \in Job, NEW r \in JobRecord, Shaped(r), Become(j, r)
  PROVE  /\ job' \in [Job -> JobRecord]
         /\ \A i \in Job : Shaped(job[i])'
         /\ job'[j] = r
         /\ \A i \in Job \ {j} : job'[i] = job[i]
<1>1. job \in [Job -> JobRecord] /\ \A i \in Job : Shaped(job[i])
  BY DEF TypeInv, TypeOK
<1>2. job' = [job EXCEPT ![j] = r]
  BY DEF Become
<1>3. /\ job' \in [Job -> JobRecord]
      /\ job'[j] = r
      /\ \A i \in Job \ {j} : job'[i] = job[i]
  BY <1>1, <1>2
<1>4. ASSUME NEW i \in Job PROVE Shaped(job'[i])
  BY <1>1, <1>3, i = j \/ i # j
<1> QED BY <1>3, <1>4

LEMMA AwaitType ==
  ASSUME NEW r \in JobRecord, NEW pc \in Command
  PROVE  Await(r, pc) \in JobRecord
BY DEF Await, JobRecord

LEMMA SavingActorType ==
  ASSUME NEW r \in JobRecord, NEW a \in Actor
  PROVE  SavingActor(r, a) \in JobRecord
<1>1. "hsetActor" \in Command
  BY DEF Command
<1> QED BY <1>1 DEF SavingActor, JobRecord

-----------------------------------------------------------------------------
(* Save queues *)

NotSaving(r) == r.pc \notin {"hsetActorIdx", "hsetCallerIdx", "send"}

LEMMA QueueKept ==
  ASSUME TypeInv, NEW j \in Job, NEW r \in JobRecord, Become(j, r), NotSaving(r),
         UNCHANGED queue
  PROVE  queue' \in [Service -> [Hub -> Seq(Job)]] /\ SavesTakeTurns'
<1>1. job'[j] = r /\ \A i \in Job \ {j} : job'[i] = job[i]
  BY DEF TypeInv, TypeOK, Become
<1>2. ASSUME NEW i \in Job, NEW svc \in Service, i # j, Turn(svc, i)
      PROVE  Turn(svc, i)'
  BY <1>1, <1>2 DEF Turn, Waiting
<1> QED BY <1>1, <1>2 DEF TypeInv, TypeOK, SavesTakeTurns, NotSaving, Service

LEMMA TurnKept ==
  ASSUME TypeInv, NEW j \in Job, NEW pc \in Command, Become(j, Await(job[j], pc)),
         UNCHANGED queue,
         \/ pc = "hsetActorIdx" /\ Turn("actor", j)
         \/ pc = "hsetCallerIdx" /\ Turn("caller", j)
         \/ pc = "send" /\ Turn("invocation", j)
  PROVE  queue' \in [Service -> [Hub -> Seq(Job)]] /\ SavesTakeTurns'
<1>1. /\ job'[j] = Await(job[j], pc)
      /\ \A i \in Job \ {j} : job'[i] = job[i]
      /\ job[j] \in JobRecord
  BY DEF TypeInv, TypeOK, Become
<1>2. job'[j].pc = pc /\ job'[j].sock = job[j].sock
  BY <1>1 DEF Await, JobRecord
<1>3. ASSUME NEW i \in Job, NEW svc \in Service, Turn(svc, i)
      PROVE  Turn(svc, i)'
  BY <1>1, <1>2, <1>3 DEF Turn, Waiting
<1> QED BY <1>1, <1>2, <1>3 DEF TypeInv, TypeOK, SavesTakeTurns, Service

LEMMA ListReplaced ==
  ASSUME TypeInv, NEW j \in Job, NEW svc \in Service, job[j].sock \in Socket,
         NEW list \in Seq(Job), Requeue(svc, j, list)
  PROVE  /\ queue' \in [Service -> [Hub -> Seq(Job)]]
         /\ queue'[svc][HubOf[job[j].sock]] = list
         /\ \A t \in Service, h \in Hub :
              t # svc \/ h # HubOf[job[j].sock] => queue'[t][h] = queue[t][h]
<1> DEFINE hub == HubOf[job[j].sock]
           row == Queued(svc, j, list)
<1>1. hub \in Hub
  BY HubOfSockets
<1>2. queue \in [Service -> [Hub -> Seq(Job)]]
  BY DEF TypeInv, TypeOK
<1>3. /\ row \in [Hub -> Seq(Job)]
      /\ row[hub] = list
      /\ \A h \in Hub : h # hub => row[h] = queue[svc][h]
  BY <1>1, <1>2 DEF Queued
<1> HIDE DEF row
<1>4. queue'[svc] = row /\ \A t \in Service : t # svc => queue'[t] = queue[t]
  BY <1>2 DEF Requeue, row
<1>5. queue' \in [Service -> [Hub -> Seq(Job)]]
  BY <1>2, <1>3 DEF Requeue, row
<1> QED BY <1>1, <1>3, <1>4, <1>5

LEMMA SavingHasSocket ==
  ASSUME TypeInv, NEW i \in Job, ~ NotSaving(job[i])
  PROVE  job[i].sock \in Socket /\ HubOf[job[i].sock] \in Hub
<1>1. job[i].sock \in Socket
  BY DEF TypeInv, TypeOK, Shaped, SocketShape, JobRecord, NotSaving, Socket
<1> QED BY <1>1, HubOfSockets

\* Whether i keeps its turn when job j is done with svc, or joins its queue.
LEMMA TurnsSurvive ==
  ASSUME TypeInv, NEW j \in Job, NEW r \in JobRecord, Become(j, r), NotSaving(r),
         queue' \in [Service -> [Hub -> Seq(Job)]],
         \A i \in Job \ {j}, t \in Service :
           ~ NotSaving(job[i]) /\ Turn(t, i) =>
             /\ queue'[t][HubOf[job[i].sock]] # <<>>
             /\ Head(queue'[t][HubOf[job[i].sock]]) = i
  PROVE  SavesTakeTurns'
<1>1. job'[j] = r /\ \A i \in Job \ {j} : job'[i] = job[i]
  BY DEF TypeInv, TypeOK, Become
<1>2. ASSUME NEW i \in Job, NEW t \in Service, i # j, ~ NotSaving(job[i]), Turn(t,
i)
      PROVE  Turn(t, i)'
  BY <1>1, <1>2 DEF Turn, Waiting
<1> QED BY <1>1, <1>2 DEF TypeInv, SavesTakeTurns, NotSaving, Service

LEMMA QueuePushed ==
  ASSUME TypeInv, NEW j \in Job, NEW r \in JobRecord, Become(j, r), NotSaving(r),
         NEW svc \in Service, job[j].sock \in Socket, Push(svc, j)
  PROVE  queue' \in [Service -> [Hub -> Seq(Job)]] /\ SavesTakeTurns'
<1> DEFINE hub == HubOf[job[j].sock]
           q == queue[svc][hub]
<1>1. hub \in Hub /\ q \in Seq(Job) /\ Append(q, j) \in Seq(Job)
  BY HubOfSockets, AppendProperties DEF TypeInv, TypeOK
<1>2. /\ queue' \in [Service -> [Hub -> Seq(Job)]]
      /\ queue'[svc][hub] = Append(q, j)
      /\ \A t \in Service, h \in Hub :
           t # svc \/ h # hub => queue'[t][h] = queue[t][h]
  <2>1. Requeue(svc, j, Append(q, j))
    BY DEF Push, Waiting
  <2> QED BY <1>1, <2>1, ListReplaced
<1>3. q # <<>> => Append(q, j) # <<>> /\ Head(Append(q, j)) = Head(q)
  BY <1>1, AppendProperties, HeadTailAppend
<1>4. ASSUME NEW i \in Job \ {j}, NEW t \in Service, ~ NotSaving(job[i]), Turn(t, i)
      PROVE  /\ queue'[t][HubOf[job[i].sock]] # <<>>
             /\ Head(queue'[t][HubOf[job[i].sock]]) = i
  BY <1>2, <1>3, <1>4, SavingHasSocket DEF Turn, Waiting
<1> QED BY <1>2, <1>4, TurnsSurvive

LEMMA QueuePopped ==
  ASSUME TypeInv, NEW j \in Job, NEW r \in JobRecord, Become(j, r), NotSaving(r),
         NEW svc \in Service, job[j].sock \in Socket, Turn(svc, j), Pop(svc, j)
  PROVE  queue' \in [Service -> [Hub -> Seq(Job)]] /\ SavesTakeTurns'
<1> DEFINE hub == HubOf[job[j].sock]
           q == queue[svc][hub]
<1>1. hub \in Hub /\ q \in Seq(Job) /\ Tail(q) \in Seq(Job) /\ Head(q) = j
  BY HubOfSockets, HeadTailProperties DEF TypeInv, TypeOK, Turn, Waiting
<1>2. /\ queue' \in [Service -> [Hub -> Seq(Job)]]
      /\ \A t \in Service, h \in Hub :
           t # svc \/ h # hub => queue'[t][h] = queue[t][h]
  <2>1. Requeue(svc, j, Tail(q))
    BY DEF Pop, Waiting
  <2> QED BY <1>1, <2>1, ListReplaced
<1>3. ASSUME NEW i \in Job \ {j}, NEW t \in Service, ~ NotSaving(job[i]), Turn(t, i)
      PROVE  /\ queue'[t][HubOf[job[i].sock]] # <<>>
             /\ Head(queue'[t][HubOf[job[i].sock]]) = i
  BY <1>1, <1>2, <1>3, SavingHasSocket DEF Turn, Waiting
<1> QED BY <1>2, <1>3, TurnsSurvive

\* The caller's save ends and the actor's begins (JOIN, LEAVE).
LEMMA QueuePassed ==
  ASSUME TypeInv, NEW j \in Job, NEW r \in JobRecord, Become(j, r), NotSaving(r),
         job[j].sock \in Socket, Turn("caller", j), FromCallerToActorQueue(j)
  PROVE  queue' \in [Service -> [Hub -> Seq(Job)]] /\ SavesTakeTurns'
<1> DEFINE hub == HubOf[job[j].sock]
           q == queue["caller"][hub]
           a == queue["actor"][hub]
<1>0. "caller" \in Service /\ "actor" \in Service
  BY DEF Service
<1>1. /\ hub \in Hub /\ q \in Seq(Job) /\ Tail(q) \in Seq(Job) /\ Head(q) = j
      /\ a \in Seq(Job) /\ Append(a, j) \in Seq(Job)
  BY <1>0, HubOfSockets, HeadTailProperties, AppendProperties
     DEF TypeInv, TypeOK, Turn, Waiting
<1>2. queue \in [Service -> [Hub -> Seq(Job)]]
  BY DEF TypeInv, TypeOK
<1> DEFINE left == Queued("caller", j, Tail(q))
           joins == Queued("actor", j, Append(a, j))
<1>3. /\ left \in [Hub -> Seq(Job)]
      /\ \A h \in Hub : h # hub => left[h] = queue["caller"][h]
  BY <1>0, <1>1, <1>2 DEF Queued
<1>4. /\ joins \in [Hub -> Seq(Job)]
      /\ joins[hub] = Append(a, j)
      /\ \A h \in Hub : h # hub => joins[h] = queue["actor"][h]
  BY <1>0, <1>1, <1>2 DEF Queued
<1>5. queue' = [queue EXCEPT !["caller"] = left, !["actor"] = joins]
  BY DEF FromCallerToActorQueue, Waiting
<1> HIDE DEF left, joins
<1>6. queue' \in [Service -> [Hub -> Seq(Job)]]
  BY <1>2, <1>3, <1>4, <1>5
<1>7. /\ queue'["actor"] = joins
      /\ queue'["caller"] = left
      /\ \A t \in Service : t \notin {"actor", "caller"} => queue'[t] = queue[t]
  BY <1>0, <1>2, <1>5
<1>8. a # <<>> => Append(a, j) # <<>> /\ Head(Append(a, j)) = Head(a)
  BY <1>1, AppendProperties, HeadTailAppend
<1>9. ASSUME NEW i \in Job \ {j}, NEW t \in Service, ~ NotSaving(job[i]), Turn(t, i)
      PROVE  /\ queue'[t][HubOf[job[i].sock]] # <<>>
             /\ Head(queue'[t][HubOf[job[i].sock]]) = i
  <2> DEFINE g == HubOf[job[i].sock]
  <2>1. g \in Hub /\ queue[t][g] # <<>> /\ Head(queue[t][g]) = i
    BY <1>9, SavingHasSocket DEF Turn, Waiting
  <2>2. CASE t = "actor" /\ g = hub
    BY <1>4, <1>7, <1>8, <2>1, <2>2
  <2>3. CASE t = "actor" /\ g # hub
    BY <1>4, <1>7, <2>1, <2>3
  <2>4. CASE t = "caller"
    BY <1>1, <1>3, <1>7, <2>1, <2>4
  <2>5. CASE t \notin {"actor", "caller"}
    BY <1>7, <2>1, <2>5
  <2> QED BY <2>2, <2>3, <2>4, <2>5
<1> QED BY <1>6, <1>9, TurnsSurvive
-----------------------------------------------------------------------------
(* Steps *)

\* What every step of a handler has to show.
LEMMA StepType ==
  ASSUME TypeInv, NEW j \in Job, NEW r \in JobRecord, Shaped(r), Become(j, r),
         conn' \in [Socket -> {"fresh", "open", "gone"}],
         StorageOK', HistoryOK', out' \in SUBSET MessageRecord,
         queue' \in [Service -> [Hub -> Seq(Job)]], SavesTakeTurns'
  PROVE  TypeInv'
BY BecomeType DEF TypeInv, TypeOK

LEMMA QuietStepType ==
  ASSUME TypeInv, NEW j \in Job, NEW r \in JobRecord, Shaped(r), NotSaving(r),
         Become(j, r), out' \in SUBSET MessageRecord,
         UNCHANGED <<conn, storage, queue, history>>
  PROVE  TypeInv'
<1>1. StorageOK' /\ HistoryOK' /\ conn' \in [Socket -> {"fresh", "open", "gone"}]
  BY DEF TypeInv, TypeOK, StorageOK, HistoryOK, storage, history
<1>2. queue' \in [Service -> [Hub -> Seq(Job)]] /\ SavesTakeTurns'
  BY QueueKept
<1> QED BY <1>1, <1>2, StepType

LEMMA IdleType == Idle \in JobRecord /\ Shaped(Idle) /\ NotSaving(Idle)
<1>1. None \notin ActorEvent \cup CallerEvent
  BY NoneIsNothing
<1>2. Idle \in JobRecord
  BY EmptySeq DEF Idle, JobRecord, Command
<1>3. Shaped(Idle)
  BY <1>1 DEF Idle, Shaped, SocketShape, ArgumentShape, ActorShape, CallerShape,
              LoopShape, ActorEvent, CallerEvent
<1> QED BY <1>2, <1>3 DEF NotSaving, Idle

LEMMA HiType ==
  ASSUME TypeInv, NEW j \in Job, NEW s \in ActorSocket, NEW k \in ActorKey,
         Hi(j, s, k)
  PROVE  TypeInv'
<1> DEFINE r == [Request("HI", s, "actor") EXCEPT !.key = k]
<1>1. r \in JobRecord
  BY EmptySeq
     DEF Request, Idle, JobRecord, Command, ActorEvent, CallerEvent, Socket
<1>2. Shaped(r) /\ NotSaving(r)
  BY NoneIsNothing
     DEF Request, Idle, Shaped, SocketShape, ArgumentShape, ActorShape,
         CallerShape, LoopShape, ActorEvent, CallerEvent, NotSaving
<1> QED BY <1>1, <1>2, QuietStepType DEF Hi, Start, Become

LEMMA ByeType ==
  ASSUME TypeInv, NEW j \in Job, NEW s \in ActorSocket,
         Bye(j, s)
  PROVE  TypeInv'
<1> DEFINE r == Request("BYE", s, "actorIdx")
<1>1. r \in JobRecord
  BY EmptySeq
     DEF Request, Idle, JobRecord, Command, ActorEvent, CallerEvent, Socket
<1>2. Shaped(r) /\ NotSaving(r)
  BY NoneIsNothing
     DEF Request, Idle, Shaped, SocketShape, ArgumentShape, ActorShape,
         CallerShape, LoopShape, ActorEvent, CallerEvent, NotSaving
<1> QED BY <1>1, <1>2, QuietStepType DEF Bye, Start, Become

LEMMA UpdateSpecType ==
  ASSUME TypeInv, NEW j \in Job, NEW s \in ActorSocket, NEW name \in SpecName,
         UpdateSpec(j, s, name)
  PROVE  TypeInv'
<1> DEFINE r == [Request("SPEC", s, "actorIdx") EXCEPT !.name = name]
<1>1. r \in JobRecord
  BY EmptySeq
     DEF Request, Idle, JobRecord, Command, ActorEvent, CallerEvent, Socket
<1>2. Shaped(r) /\ NotSaving(r)
  BY NoneIsNothing
     DEF Request, Idle, Shaped, SocketShape, ArgumentShape, ActorShape,
         CallerShape, LoopShape, ActorEvent, CallerEvent, NotSaving
<1> QED BY <1>1, <1>2, QuietStepType DEF UpdateSpec, Start, Become

LEMMA DelSpecType ==
  ASSUME TypeInv, NEW j \in Job, NEW s \in ActorSocket, NEW name \in SpecName,
         DelSpec(j, s, name)
  PROVE  TypeInv'
<1> DEFINE r == [Request("DESPEC", s, "actorIdx") EXCEPT !.name = name]
<1>1. r \in JobRecord
  BY EmptySeq
     DEF Request, Idle, JobRecord, Command, ActorEvent, CallerEvent, Socket
<1>2. Shaped(r) /\ NotSaving(r)
  BY NoneIsNothing
     DEF Request, Idle, Shaped, SocketShape, ArgumentShape, ActorShape,
         CallerShape, LoopShape, ActorEvent, CallerEvent, NotSaving
<1> QED BY <1>1, <1>2, QuietStepType DEF DelSpec, Start, Become

LEMMA ActorPipeType ==
  ASSUME TypeInv, NEW j \in Job, NEW s \in ActorSocket, NEW k \in ActorKey,
         NEW only \in CallerKey \cup {None},
         ActorPipe(j, s, k, only)
  PROVE  TypeInv'
<1> DEFINE r == [Request("ACTOR_PIPE", s, "actor") EXCEPT !.key = k, !.ckey = only]
<1>1. r \in JobRecord
  BY EmptySeq
     DEF Request, Idle, JobRecord, Command, ActorEvent, CallerEvent, Socket
<1>2. Shaped(r) /\ NotSaving(r)
  BY NoneIsNothing
     DEF Request, Idle, Shaped, SocketShape, ArgumentShape, ActorShape,
         CallerShape, LoopShape, ActorEvent, CallerEvent, NotSaving
<1> QED BY <1>1, <1>2, QuietStepType DEF ActorPipe, Start, Become

LEMMA ResultType ==
  ASSUME TypeInv, NEW j \in Job, NEW s \in ActorSocket, NEW p \in Pid,
         Result(j, s, p)
  PROVE  TypeInv'
<1> DEFINE r == [Request("RESULT", s, "invocation") EXCEPT !.pid = p]
<1>1. r \in JobRecord
  BY EmptySeq
     DEF Request, Idle, JobRecord, Command, ActorEvent, CallerEvent, Socket
<1>2. Shaped(r) /\ NotSaving(r)
  BY NoneIsNothing
     DEF Request, Idle, Shaped, SocketShape, ArgumentShape, ActorShape,
         CallerShape, LoopShape, ActorEvent, CallerEvent, NotSaving
<1> QED BY <1>1, <1>2, QuietStepType DEF Result, Start, Become

LEMMA ActorDisconnectType ==
  ASSUME TypeInv, NEW j \in Job, NEW s \in ActorSocket,
         ActorDisconnect(j, s)
  PROVE  TypeInv'
<1> DEFINE r == Request("ACTOR_DISCONNECT", s, "actorIdx")
<1>1. r \in JobRecord
  BY EmptySeq
     DEF Request, Idle, JobRecord, Command, ActorEvent, CallerEvent, Socket
<1>2. Shaped(r) /\ NotSaving(r)
  BY NoneIsNothing
     DEF Request, Idle, Shaped, SocketShape, ArgumentShape, ActorShape,
         CallerShape, LoopShape, ActorEvent, CallerEvent, NotSaving
<1>3. Become(j, r) /\ UNCHANGED queue /\ out' = {}
  BY DEF ActorDisconnect, Start, Become
<1>4. queue' \in [Service -> [Hub -> Seq(Job)]] /\ SavesTakeTurns'
  BY <1>1, <1>2, <1>3, QueueKept
<1>5. StorageOK' /\ HistoryOK' /\ conn' \in [Socket -> {"fresh", "open", "gone"}]
  BY DEF ActorDisconnect, TypeInv, TypeOK, StorageOK, HistoryOK, storage,
         history, Socket
<1> QED BY <1>1, <1>2, <1>3, <1>4, <1>5, StepType

LEMMA JoinType ==
  ASSUME TypeInv, NEW j \in Job, NEW s \in CallerSocket, NEW k \in ActorKey,
         NEW uuid \in CallerKey,
         Join(j, s, k, uuid)
  PROVE  TypeInv'
<1> DEFINE r == [Request("JOIN", s, "actor") EXCEPT !.key = k, !.uuid = uuid]
<1>1. r \in JobRecord
  BY EmptySeq
     DEF Request, Idle, JobRecord, Command, ActorEvent, CallerEvent, Socket
<1>2. Shaped(r) /\ NotSaving(r)
  BY NoneIsNothing
     DEF Request, Idle, Shaped, SocketShape, ArgumentShape, ActorShape,
         CallerShape, LoopShape, ActorEvent, CallerEvent, NotSaving
<1>3. Become(j, r) /\ UNCHANGED queue /\ out' = {}
  BY DEF Join, Start, Become
<1>4. queue' \in [Service -> [Hub -> Seq(Job)]] /\ SavesTakeTurns'
  BY <1>1, <1>2, <1>3, QueueKept
<1>5. StorageOK' /\ HistoryOK' /\ conn' \in [Socket -> {"fresh", "open", "gone"}]
  BY DEF Join, TypeInv, TypeOK, StorageOK, HistoryOK, JoinRecord, storage, history
<1> QED BY <1>1, <1>2, <1>3, <1>4, <1>5, StepType

LEMMA LeaveType ==
  ASSUME TypeInv, NEW j \in Job, NEW s \in CallerSocket, NEW k \in ActorKey,
         Leave(j, s, k)
  PROVE  TypeInv'
<1> DEFINE r == [Request("LEAVE", s, "actor") EXCEPT !.key = k]
<1>1. r \in JobRecord
  BY EmptySeq
     DEF Request, Idle, JobRecord, Command, ActorEvent, CallerEvent, Socket
<1>2. Shaped(r) /\ NotSaving(r)
  BY NoneIsNothing
     DEF Request, Idle, Shaped, SocketShape, ArgumentShape, ActorShape,
         CallerShape, LoopShape, ActorEvent, CallerEvent, NotSaving
<1>3. Become(j, r) /\ UNCHANGED queue /\ out' = {}
  BY DEF Leave, Start, Become
<1>4. queue' \in [Service -> [Hub -> Seq(Job)]] /\ SavesTakeTurns'
  BY <1>1, <1>2, <1>3, QueueKept
<1>5. StorageOK' /\ HistoryOK' /\ conn' \in [Socket -> {"fresh", "open", "gone"}]
  BY DEF Leave, TypeInv, TypeOK, StorageOK, HistoryOK, storage, history
<1> QED BY <1>1, <1>2, <1>3, <1>4, <1>5, StepType

LEMMA PerformType ==
  ASSUME TypeInv, NEW j \in Job, NEW s \in CallerSocket, NEW k \in ActorKey,
         NEW p \in Pid,
         Perform(j, s, k, p)
  PROVE  TypeInv'
<1> DEFINE r == [Request("PERFORM", s, "actor") EXCEPT !.key = k, !.pid = p]
<1>1. r \in JobRecord
  BY EmptySeq
     DEF Request, Idle, JobRecord, Command, ActorEvent, CallerEvent, Socket
<1>2. Shaped(r) /\ NotSaving(r)
  BY NoneIsNothing
     DEF Request, Idle, Shaped, SocketShape, ArgumentShape, ActorShape,
         CallerShape, LoopShape, ActorEvent, CallerEvent, NotSaving
<1>3. Become(j, r) /\ UNCHANGED queue /\ out' = {}
  BY DEF Perform, Start, Become
<1>4. queue' \in [Service -> [Hub -> Seq(Job)]] /\ SavesTakeTurns'
  BY <1>1, <1>2, <1>3, QueueKept
<1>5. StorageOK' /\ HistoryOK' /\ conn' \in [Socket -> {"fresh", "open", "gone"}]
  BY DEF Perform, TypeInv, TypeOK, StorageOK, HistoryOK, storage, history,
         NewCall, CallRecord
<1> QED BY <1>1, <1>2, <1>3, <1>4, <1>5, StepType

LEMMA CallerPipeType ==
  ASSUME TypeInv, NEW j \in Job, NEW s \in CallerSocket, NEW k \in ActorKey,
         CallerPipe(j, s, k)
  PROVE  TypeInv'
<1> DEFINE r == [Request("CALLER_PIPE", s, "actor") EXCEPT !.key = k]
<1>1. r \in JobRecord
  BY EmptySeq
     DEF Request, Idle, JobRecord, Command, ActorEvent, CallerEvent, Socket
<1>2. Shaped(r) /\ NotSaving(r)
  BY NoneIsNothing
     DEF Request, Idle, Shaped, SocketShape, ArgumentShape, ActorShape,
         CallerShape, LoopShape, ActorEvent, CallerEvent, NotSaving
<1> QED BY <1>1, <1>2, QuietStepType DEF CallerPipe, Start, Become

LEMMA CallerDisconnectType ==
  ASSUME TypeInv, NEW j \in Job, NEW s \in CallerSocket,
         CallerDisconnect(j, s)
  PROVE  TypeInv'
<1> DEFINE r == Request("CALLER_DISCONNECT", s, "callerIdx")
<1>1. r \in JobRecord
  BY EmptySeq
     DEF Request, Idle, JobRecord, Command, ActorEvent, CallerEvent, Socket
<1>2. Shaped(r) /\ NotSaving(r)
  BY NoneIsNothing
     DEF Request, Idle, Shaped, SocketShape, ArgumentShape, ActorShape,
         CallerShape, LoopShape, ActorEvent, CallerEvent, NotSaving
<1>3. Become(j, r) /\ UNCHANGED queue /\ out' = {}
  BY DEF CallerDisconnect, Start, Become
<1>4. queue' \in [Service -> [Hub -> Seq(Job)]] /\ SavesTakeTurns'
  BY <1>1, <1>2, <1>3, QueueKept
<1>5. StorageOK' /\ HistoryOK' /\ conn' \in [Socket -> {"fresh", "open", "gone"}]
  BY DEF CallerDisconnect, TypeInv, TypeOK, StorageOK, HistoryOK, storage,
         history, Socket
<1> QED BY <1>1, <1>2, <1>3, <1>4, <1>5, StepType

LEMMA FindActorBySocketType ==
  ASSUME TypeInv, NEW j \in Job, FindActorBySocket(j)
  PROVE  TypeInv'
<1>0. job[j] \in JobRecord /\ Shaped(job[j])
  BY DEF TypeInv, TypeOK
<1> DEFINE key == actorIdx[job[j].sock]
           r == [job[j] EXCEPT !.key = key, !.pc = "actor"]
<1>1. key \in ActorKey \cup {None}
  BY <1>0 DEF FindActorBySocket, TypeInv, TypeOK, StorageOK, Shaped, SocketShape
<1>2. CASE key = None
  BY <1>2, IdleType, QuietStepType DEF FindActorBySocket
<1>3. CASE key # None
  <2>1. r \in JobRecord
    BY <1>0, <1>1, ZenonT(60)
       DEF JobRecord, Command
  <2>2. Shaped(r) /\ NotSaving(r)
    <3>1. SocketShape(r)
      BY <1>0, <1>1, <1>3
         DEF FindActorBySocket, Shaped, JobRecord, ActorEvent, CallerEvent,
             SocketShape
    <3>2. ArgumentShape(r)
      BY <1>0, <1>1, <1>3
         DEF FindActorBySocket, JobRecord, Shaped, ArgumentShape
    <3>3. ActorShape(r)
      BY <1>0, <1>1, <1>3
         DEF FindActorBySocket, JobRecord, Shaped, ActorShape
    <3>4. CallerShape(r)
      BY <1>0, <1>1, <1>3
         DEF FindActorBySocket, JobRecord, Shaped, CallerShape
    <3>5. LoopShape(r)
      BY <1>0, <1>1, <1>3
         DEF FindActorBySocket, JobRecord, Shaped, LoopShape, SocketShape,
             ActorEvent, CallerEvent
    <3>6. NotSaving(r)
      BY <1>0, <1>1, <1>3
         DEF FindActorBySocket, JobRecord, NotSaving
    <3> QED BY <3>1, <3>2, <3>3, <3>4, <3>5, <3>6 DEF Shaped
  <2> QED BY <1>3, <2>1, <2>2, QuietStepType DEF FindActorBySocket
<1> QED BY <1>2, <1>3

LEMMA FindCallerBySocketType ==
  ASSUME TypeInv, NEW j \in Job, FindCallerBySocket(j)
  PROVE  TypeInv'
<1>0. job[j] \in JobRecord /\ Shaped(job[j])
  BY DEF TypeInv, TypeOK
<1> DEFINE key == callerIdx[job[j].sock]
           r == [job[j] EXCEPT !.ckey = key, !.pc = "caller"]
<1>1. key \in CallerKey \cup {None}
  BY <1>0 DEF FindCallerBySocket, TypeInv, TypeOK, StorageOK, Shaped, SocketShape
<1>2. r \in JobRecord
  BY <1>0, <1>1, ZenonT(60)
     DEF JobRecord, Command
<1>3. Shaped(r) /\ NotSaving(r)
  <2>1. SocketShape(r)
    BY <1>0
       DEF FindCallerBySocket, Shaped, JobRecord, ActorEvent, CallerEvent,
           SocketShape
  <2>2. ArgumentShape(r)
    BY <1>0
       DEF FindCallerBySocket, JobRecord, Shaped, ArgumentShape
  <2>3. ActorShape(r)
    BY <1>0
       DEF FindCallerBySocket, JobRecord, Shaped, ActorShape
  <2>4. CallerShape(r)
    BY <1>0
       DEF FindCallerBySocket, JobRecord, Shaped, CallerShape
  <2>5. LoopShape(r)
    BY <1>0
       DEF FindCallerBySocket, JobRecord, Shaped, LoopShape
  <2>6. NotSaving(r)
    BY <1>0
       DEF FindCallerBySocket, JobRecord, NotSaving
  <2> QED BY <2>1, <2>2, <2>3, <2>4, <2>5, <2>6 DEF Shaped
<1> QED BY <1>2, <1>3, IdleType, QuietStepType DEF FindCallerBySocket

LEMMA HsetActorType ==
  ASSUME TypeInv, NEW j \in Job, HsetActor(j)
  PROVE  TypeInv'
<1>0. job[j] \in JobRecord /\ Shaped(job[j])
  BY DEF TypeInv, TypeOK
<1> DEFINE r == Await(job[j], "hsetActorIdx")
<1>1. r \in JobRecord
  BY <1>0
     DEF Await, JobRecord, Command
<1>2. Shaped(r)
  <2>1. SocketShape(r)
    BY <1>0
       DEF HsetActor, Await, Shaped, JobRecord, ActorEvent, CallerEvent,
           SocketShape
  <2>2. ArgumentShape(r)
    BY <1>0
       DEF HsetActor, Await, JobRecord, Shaped, ArgumentShape
  <2>3. ActorShape(r)
    BY <1>0
       DEF HsetActor, Await, JobRecord, Shaped, ActorShape
  <2>4. CallerShape(r)
    BY <1>0
       DEF HsetActor, Await, JobRecord, Shaped, CallerShape
  <2>5. LoopShape(r)
    BY <1>0
       DEF HsetActor, Await, JobRecord, Shaped, LoopShape
  <2> QED BY <2>1, <2>2, <2>3, <2>4, <2>5 DEF Shaped
<1>3. queue' \in [Service -> [Hub -> Seq(Job)]] /\ SavesTakeTurns'
  <2>1. "hsetActorIdx" \in Command
    BY DEF Command
  <2> QED BY <2>1, TurnKept DEF HsetActor
<1>4. job[j].actor \in Actor
  BY <1>0 DEF HsetActor, JobRecord, Shaped, ActorShape
<1>5. actors' \in [ActorKey -> Actor \cup {None}]
  BY <1>4 DEF HsetActor, TypeInv, TypeOK, StorageOK, Actor
<1>6. StorageOK' /\ HistoryOK' /\ conn' \in [Socket -> {"fresh", "open", "gone"}]
  BY <1>5 DEF HsetActor, TypeInv, TypeOK, StorageOK, HistoryOK, history
<1> QED BY <1>1, <1>2, <1>3, <1>6, StepType DEF HsetActor

LEMMA ReadToDestroyActorType ==
  ASSUME TypeInv, NEW j \in Job, ReadToDestroyActor(j)
  PROVE  TypeInv'
<1>0. job[j] \in JobRecord /\ Shaped(job[j])
  BY DEF TypeInv, TypeOK
<1> DEFINE found == actors[job[j].actor.key]
           r == [job[j] EXCEPT !.actor = found, !.pc = "hdelActor"]
<1>1. job[j].actor \in Actor
  BY <1>0 DEF ReadToDestroyActor, JobRecord, Shaped, ActorShape
<1>2. found \in Actor /\ found # None
  BY <1>1, NoneIsNothing DEF ReadToDestroyActor, TypeInv, TypeOK, StorageOK, Actor
<1> HIDE DEF found
<1>3. r \in JobRecord
  BY <1>0, <1>2, ZenonT(60)
     DEF JobRecord, Command
<1>4. Shaped(r) /\ NotSaving(r)
  <2>1. SocketShape(r)
    BY <1>0, <1>2
       DEF ReadToDestroyActor, Shaped, JobRecord, ActorEvent, CallerEvent,
           SocketShape
  <2>2. ArgumentShape(r)
    BY <1>0, <1>2
       DEF ReadToDestroyActor, JobRecord, Shaped, ArgumentShape
  <2>3. ActorShape(r)
    BY <1>0, <1>2
       DEF ReadToDestroyActor, JobRecord, Shaped, ActorShape
  <2>4. CallerShape(r)
    BY <1>0, <1>2
       DEF ReadToDestroyActor, JobRecord, Shaped, CallerShape
  <2>5. LoopShape(r)
    BY <1>0, <1>2
       DEF ReadToDestroyActor, JobRecord, Shaped, LoopShape
  <2>6. NotSaving(r)
    BY <1>0, <1>2
       DEF ReadToDestroyActor, JobRecord, NotSaving
  <2> QED BY <2>1, <2>2, <2>3, <2>4, <2>5, <2>6 DEF Shaped
<1> QED BY <1>3, <1>4, QuietStepType DEF ReadToDestroyActor, found

LEMMA HdelActorType ==
  ASSUME TypeInv, NEW j \in Job, HdelActor(j)
  PROVE  TypeInv'
<1>0. job[j] \in JobRecord /\ Shaped(job[j])
  BY DEF TypeInv, TypeOK
<1> DEFINE r == Await(job[j], "hdelActorIdx")
<1>1. r \in JobRecord
  BY <1>0, ZenonT(60)
     DEF Await, JobRecord, Command
<1>2. Shaped(r) /\ NotSaving(r)
  <2>1. SocketShape(r)
    BY <1>0
       DEF HdelActor, Await, Shaped, JobRecord, ActorEvent, CallerEvent,
           SocketShape
  <2>2. ArgumentShape(r)
    BY <1>0
       DEF HdelActor, Await, JobRecord, Shaped, ArgumentShape
  <2>3. ActorShape(r)
    BY <1>0
       DEF HdelActor, Await, JobRecord, Shaped, ActorShape
  <2>4. CallerShape(r)
    BY <1>0
       DEF HdelActor, Await, JobRecord, Shaped, CallerShape
  <2>5. LoopShape(r)
    BY <1>0
       DEF HdelActor, Await, JobRecord, Shaped, LoopShape
  <2>6. NotSaving(r)
    BY <1>0
       DEF HdelActor, Await, JobRecord, NotSaving
  <2> QED BY <2>1, <2>2, <2>3, <2>4, <2>5, <2>6 DEF Shaped
<1>3. queue' \in [Service -> [Hub -> Seq(Job)]] /\ SavesTakeTurns'
  BY <1>1, <1>2, QueueKept DEF HdelActor
<1>4. job[j].actor \in Actor
  BY <1>0 DEF HdelActor, JobRecord, Shaped, ActorShape
<1>5. actors' \in [ActorKey -> Actor \cup {None}]
  BY <1>4 DEF HdelActor, TypeInv, TypeOK, StorageOK, Actor
<1>6. StorageOK' /\ HistoryOK' /\ conn' \in [Socket -> {"fresh", "open", "gone"}]
  BY <1>5 DEF HdelActor, TypeInv, TypeOK, StorageOK, HistoryOK, history
<1> QED BY <1>1, <1>2, <1>3, <1>6, StepType DEF HdelActor

LEMMA HsetCallerType ==
  ASSUME TypeInv, NEW j \in Job, HsetCaller(j)
  PROVE  TypeInv'
<1>0. job[j] \in JobRecord /\ Shaped(job[j])
  BY DEF TypeInv, TypeOK
<1> DEFINE r == Await(job[j], "hsetCallerIdx")
<1>1. r \in JobRecord
  BY <1>0, SMTT(30)
     DEF Await, JobRecord, Command
<1>2. Shaped(r)
  <2>1. SocketShape(r)
    BY <1>0
       DEF HsetCaller, Await, Shaped, JobRecord, ActorEvent, CallerEvent,
           SocketShape
  <2>2. ArgumentShape(r)
    BY <1>0
       DEF HsetCaller, Await, JobRecord, Shaped, ArgumentShape
  <2>3. ActorShape(r)
    BY <1>0
       DEF HsetCaller, Await, JobRecord, Shaped, ActorShape
  <2>4. CallerShape(r)
    BY <1>0
       DEF HsetCaller, Await, JobRecord, Shaped, CallerShape
  <2>5. LoopShape(r)
    BY <1>0
       DEF HsetCaller, Await, JobRecord, Shaped, LoopShape
  <2> QED BY <2>1, <2>2, <2>3, <2>4, <2>5 DEF Shaped
<1>3. queue' \in [Service -> [Hub -> Seq(Job)]] /\ SavesTakeTurns'
  <2>1. "hsetCallerIdx" \in Command
    BY DEF Command
  <2> QED BY <2>1, TurnKept DEF HsetCaller
<1>4. job[j].caller \in Caller
  BY <1>0 DEF HsetCaller, JobRecord, Shaped, CallerShape
<1>5. callers' \in [CallerKey -> Caller \cup {None}]
  BY <1>4 DEF HsetCaller, TypeInv, TypeOK, StorageOK, Caller
<1>6. StorageOK' /\ HistoryOK' /\ conn' \in [Socket -> {"fresh", "open", "gone"}]
  BY <1>5 DEF HsetCaller, TypeInv, TypeOK, StorageOK, HistoryOK, history
<1> QED BY <1>1, <1>2, <1>3, <1>6, StepType DEF HsetCaller

LEMMA ReadToDestroyCallerType ==
  ASSUME TypeInv, NEW j \in Job, ReadToDestroyCaller(j)
  PROVE  TypeInv'
<1>0. job[j] \in JobRecord /\ Shaped(job[j])
  BY DEF TypeInv, TypeOK
<1> DEFINE found == callers[job[j].caller.key]
           r == [job[j] EXCEPT !.caller = found, !.pc = "hdelCaller"]
<1>1. job[j].caller \in Caller
  BY <1>0 DEF ReadToDestroyCaller, JobRecord, Shaped, CallerShape
<1>2. found \in Caller /\ found # None
  BY <1>1, NoneIsNothing DEF ReadToDestroyCaller, TypeInv, TypeOK, StorageOK, Caller
<1> HIDE DEF found
<1>3. r \in JobRecord
  BY <1>0, <1>2, ZenonT(60)
     DEF JobRecord, Command
<1>4. Shaped(r) /\ NotSaving(r)
  <2>1. SocketShape(r)
    BY <1>0, <1>2
       DEF ReadToDestroyCaller, Shaped, JobRecord, ActorEvent, CallerEvent,
           SocketShape
  <2>2. ArgumentShape(r)
    BY <1>0, <1>2
       DEF ReadToDestroyCaller, JobRecord, Shaped, ArgumentShape
  <2>3. ActorShape(r)
    BY <1>0, <1>2
       DEF ReadToDestroyCaller, JobRecord, Shaped, ActorShape
  <2>4. CallerShape(r)
    BY <1>0, <1>2
       DEF ReadToDestroyCaller, JobRecord, Shaped, CallerShape
  <2>5. LoopShape(r)
    BY <1>0, <1>2
       DEF ReadToDestroyCaller, JobRecord, Shaped, LoopShape
  <2>6. NotSaving(r)
    BY <1>0, <1>2
       DEF ReadToDestroyCaller, JobRecord, NotSaving
  <2> QED BY <2>1, <2>2, <2>3, <2>4, <2>5, <2>6 DEF Shaped
<1> QED BY <1>3, <1>4, QuietStepType DEF ReadToDestroyCaller, found

LEMMA HdelCallerType ==
  ASSUME TypeInv, NEW j \in Job, HdelCaller(j)
  PROVE  TypeInv'
<1>0. job[j] \in JobRecord /\ Shaped(job[j])
  BY DEF TypeInv, TypeOK
<1> DEFINE r == Await(job[j], "hdelCallerIdx")
<1>1. r \in JobRecord
  BY <1>0, SMTT(30)
     DEF Await, JobRecord, Command
<1>2. Shaped(r) /\ NotSaving(r)
  <2>1. SocketShape(r)
    BY <1>0
       DEF HdelCaller, Await, Shaped, JobRecord, ActorEvent, CallerEvent,
           SocketShape
  <2>2. ArgumentShape(r)
    BY <1>0
       DEF HdelCaller, Await, JobRecord, Shaped, ArgumentShape
  <2>3. ActorShape(r)
    BY <1>0
       DEF HdelCaller, Await, JobRecord, Shaped, ActorShape
  <2>4. CallerShape(r)
    BY <1>0
       DEF HdelCaller, Await, JobRecord, Shaped, CallerShape
  <2>5. LoopShape(r)
    BY <1>0
       DEF HdelCaller, Await, JobRecord, Shaped, LoopShape
  <2>6. NotSaving(r)
    BY <1>0
       DEF HdelCaller, Await, JobRecord, NotSaving
  <2> QED BY <2>1, <2>2, <2>3, <2>4, <2>5, <2>6 DEF Shaped
<1>3. queue' \in [Service -> [Hub -> Seq(Job)]] /\ SavesTakeTurns'
  BY <1>1, <1>2, QueueKept DEF HdelCaller
<1>4. job[j].caller \in Caller
  BY <1>0 DEF HdelCaller, JobRecord, Shaped, CallerShape
<1>5. callers' \in [CallerKey -> Caller \cup {None}]
  BY <1>4 DEF HdelCaller, TypeInv, TypeOK, StorageOK, Caller
<1>6. StorageOK' /\ HistoryOK' /\ conn' \in [Socket -> {"fresh", "open", "gone"}]
  BY <1>5 DEF HdelCaller, TypeInv, TypeOK, StorageOK, HistoryOK, history
<1> QED BY <1>1, <1>2, <1>3, <1>6, StepType DEF HdelCaller

LEMMA ReadToDestroyInvocationType ==
  ASSUME TypeInv, NEW j \in Job, ReadToDestroyInvocation(j)
  PROVE  TypeInv'
<1>0. job[j] \in JobRecord /\ Shaped(job[j])
  BY DEF TypeInv, TypeOK
<1> DEFINE r == Await(job[j], "hdelInvocation")
<1>1. r \in JobRecord
  BY <1>0, SMTT(30)
     DEF Await, JobRecord, Command
<1>2. Shaped(r) /\ NotSaving(r)
  <2>1. SocketShape(r)
    BY <1>0
       DEF ReadToDestroyInvocation, Await, Shaped, JobRecord, ActorEvent,
           CallerEvent, SocketShape
  <2>2. ArgumentShape(r)
    BY <1>0
       DEF ReadToDestroyInvocation, Await, JobRecord, Shaped, ArgumentShape
  <2>3. ActorShape(r)
    BY <1>0
       DEF ReadToDestroyInvocation, Await, JobRecord, Shaped, ActorShape
  <2>4. CallerShape(r)
    BY <1>0
       DEF ReadToDestroyInvocation, Await, JobRecord, Shaped, CallerShape
  <2>5. LoopShape(r)
    BY <1>0
       DEF ReadToDestroyInvocation, Await, JobRecord, Shaped, LoopShape
  <2>6. NotSaving(r)
    BY <1>0
       DEF ReadToDestroyInvocation, Await, JobRecord, NotSaving
  <2> QED BY <2>1, <2>2, <2>3, <2>4, <2>5, <2>6 DEF Shaped
<1> QED BY <1>1, <1>2, QuietStepType DEF ReadToDestroyInvocation

-----------------------------------------------------------------------------
(* What several handlers have in common *)

\* A handler that has an actor in hand, and all that its event needs, may save it.
LEMMA SavingActorShaped ==
  ASSUME NEW r \in JobRecord, Shaped(r), NEW a \in Actor, r.ev # None,
         r.ev \in {"JOIN", "LEAVE", "CALLER_DISCONNECT"} => r.caller # None,
         r.ev = "CALLER_DISCONNECT" => r.actorsLeft # <<>>
  PROVE  /\ SavingActor(r, a) \in JobRecord
         /\ Shaped(SavingActor(r, a)) /\ NotSaving(SavingActor(r, a))
<1> DEFINE t == SavingActor(r, a)
<1>1. t \in JobRecord
  BY SavingActorType
<1>2. a # None
  BY NoneIsNothing
<1>3. SocketShape(t)
  BY DEF SavingActor, Shaped, SocketShape, JobRecord
<1>4. ArgumentShape(t)
  BY DEF SavingActor, Shaped, ArgumentShape, JobRecord
<1>5. ActorShape(t)
  BY <1>2 DEF SavingActor, ActorShape, JobRecord
<1>6. CallerShape(t)
  BY DEF SavingActor, CallerShape, JobRecord
<1>7. LoopShape(t) /\ NotSaving(t)
  BY DEF SavingActor, LoopShape, JobRecord, NotSaving
<1> QED BY <1>1, <1>3, <1>4, <1>5, <1>6, <1>7 DEF Shaped

LEMMA SaveBegins ==
  ASSUME TypeInv, NEW j \in Job, NEW a \in Actor, job[j].ev # None,
         job[j].ev \in {"JOIN", "LEAVE",
         "CALLER_DISCONNECT"} => job[j].caller # None,
         job[j].ev = "CALLER_DISCONNECT" => job[j].actorsLeft # <<>>,
         Become(j, SavingActor(job[j], a)), Push("actor", j),
         UNCHANGED <<conn, storage, history>>, out' = {}
  PROVE  TypeInv'
<1> DEFINE r == SavingActor(job[j], a)
<1>1. job[j] \in JobRecord /\ Shaped(job[j])
  BY DEF TypeInv, TypeOK
<1>2. r \in JobRecord /\ Shaped(r) /\ NotSaving(r)
  BY <1>1, SavingActorShaped
<1>3. job[j].sock \in Socket /\ "actor" \in Service
  BY <1>1 DEF JobRecord, Shaped, SocketShape, Socket, Service
<1>4. queue' \in [Service -> [Hub -> Seq(Job)]] /\ SavesTakeTurns'
  BY <1>2, <1>3, QueuePushed
<1>5. StorageOK' /\ HistoryOK' /\ conn' \in [Socket -> {"fresh", "open", "gone"}]
  BY DEF TypeInv, TypeOK, StorageOK, HistoryOK, storage, history
<1> QED BY <1>2, <1>4, <1>5, StepType

\* The end of an actor's save.
LEMMA SaveEnds ==
  ASSUME TypeInv, NEW j \in Job, NEW r \in JobRecord, Shaped(r), NotSaving(r),
         ActorSaved(j, r), out' \in SUBSET MessageRecord, HistoryOK',
         UNCHANGED <<conn, actors, callers, callerIdx, invocations>>
  PROVE  TypeInv'
<1>1. job[j] \in JobRecord /\ Shaped(job[j])
  BY DEF TypeInv, TypeOK
<1>2. job[j].sock \in Socket /\ Turn("actor", j)
  BY SavingHasSocket DEF ActorSaved, NotSaving, TypeInv, SavesTakeTurns
<1>3. Become(j, r) /\ Pop("actor", j) /\ "actor" \in Service
  BY DEF ActorSaved, Service
<1>4. queue' \in [Service -> [Hub -> Seq(Job)]] /\ SavesTakeTurns'
  BY <1>2, <1>3, QueuePopped
<1>5. job[j].actor \in Actor
  BY <1>1 DEF ActorSaved, JobRecord, Shaped, ActorShape
<1>6. actorIdx' \in [ActorSocket -> ActorKey \cup {None}]
  BY <1>5 DEF ActorSaved, Actor, TypeInv, TypeOK, StorageOK
<1>7. StorageOK' /\ conn' \in [Socket -> {"fresh", "open", "gone"}]
  BY <1>6 DEF TypeInv, TypeOK, StorageOK
<1> QED BY <1>3, <1>4, <1>7, StepType

\* The loop of broadcastToCallers, and what follows it.
LEMMA CastingType ==
  ASSUME NEW r \in JobRecord, r.sock \in ActorSocket, r.actor # None,
         r.ev \in {"SPEC", "DESPEC", "ACTOR_PIPE", "ACTOR_DISCONNECT"},
         r.ev \in {"SPEC", "DESPEC"} => r.name # None
  PROVE  Casting(r) \in JobRecord /\ Shaped(Casting(r)) /\ NotSaving(Casting(r))
<1>1. CASE r.callersLeft = <<>> /\ r.ev # "ACTOR_DISCONNECT"
  BY <1>1, IdleType DEF Casting
<1> DEFINE t(pc) == Await(r, pc)
<1>2. CASE r.callersLeft # <<>> \/ r.ev = "ACTOR_DISCONNECT"
  <2>1. PICK pc \in {"cast", "destroyActor"} :
          /\ Casting(r) = t(pc)
          /\ pc = "cast" => r.callersLeft # <<>>
          /\ pc = "destroyActor" => r.ev = "ACTOR_DISCONNECT"
    BY <1>2 DEF Casting
  <2>2. t(pc) \in JobRecord
    BY <2>1, AwaitType DEF Command
  <2>3. t(pc).pc = pc /\ \A f \in {"ev", "sock", "actor", "name", "callersLeft"} :
                           t(pc)[f] = r[f]
    BY DEF Await, JobRecord
  <2>4. SocketShape(t(pc)) /\ ArgumentShape(t(pc))
    BY <2>1, NoneIsNothing DEF Await, SocketShape, ArgumentShape, JobRecord,
       ActorEvent, CallerEvent
  <2>5. ActorShape(t(pc)) /\ CallerShape(t(pc))
    BY <2>1 DEF Await, ActorShape, CallerShape, JobRecord
  <2>6. LoopShape(t(pc)) /\ NotSaving(t(pc))
    BY <2>1 DEF Await, LoopShape, JobRecord, NotSaving
  <2> QED BY <2>1, <2>2, <2>4, <2>5, <2>6 DEF Shaped
<1> QED BY <1>1, <1>2

\* The loop of DISCONNECT over the callers of the actor, and what follows it.
LEMMA SweepingType ==
  ASSUME NEW r \in JobRecord, r.sock \in ActorSocket, r.actor \in Actor,
         r.ev = "ACTOR_DISCONNECT"
  PROVE  Sweeping(r) \in JobRecord /\ Shaped(Sweeping(r)) /\ NotSaving(Sweeping(r))
<1>0. r.actor # None
  BY NoneIsNothing
<1>1. CASE r.callersLeft # <<>>
  <2> DEFINE t == [r EXCEPT !.pc = "sweep", !.ckey = None, !.pid = None, !.hits = <<>>]
  <2>1. t \in JobRecord
    BY EmptySeq DEF JobRecord, Command
  <2>2. SocketShape(t) /\ ArgumentShape(t)
    BY NoneIsNothing DEF SocketShape, ArgumentShape, JobRecord, ActorEvent,
       CallerEvent
  <2>3. ActorShape(t) /\ CallerShape(t)
    BY <1>0 DEF ActorShape, CallerShape, JobRecord
  <2>4. LoopShape(t) /\ NotSaving(t)
    BY <1>1 DEF LoopShape, JobRecord, NotSaving
  <2> QED BY <1>1, <2>1, <2>2, <2>3, <2>4 DEF Sweeping, Shaped
<1>2. CASE r.callersLeft = <<>>
  <2> DEFINE t == [r EXCEPT !.callersLeft = r.actor.callers, !.ckey = None,
                            !.pid = None, !.hits = <<>>]
  <2>1. t \in JobRecord
    BY EmptySeq DEF JobRecord, Actor
  <2>2. t.sock = r.sock /\ t.actor = r.actor /\ t.ev = r.ev
    BY DEF JobRecord
  <2> QED BY <1>0, <1>2, <2>1, <2>2, CastingType DEF Sweeping
<1> QED BY <1>1, <1>2

LEMMA NextCallerType ==
  ASSUME NEW r \in JobRecord, Shaped(r), r.ev = "ACTOR_DISCONNECT",
         r.actor # None, r.callersLeft # <<>>
  PROVE  NextCaller(r) \in JobRecord /\ Shaped(NextCaller(r)) /\ NotSaving(NextCaller(r))
<1> DEFINE t == [r EXCEPT !.callersLeft = Tail(@)]
<1>1. Tail(r.callersLeft) \in Seq(CallerKey)
  BY HeadTailProperties DEF JobRecord
<1>2. t \in JobRecord
  BY <1>1 DEF JobRecord
<1>3. t.sock \in ActorSocket /\ t.actor \in Actor /\ t.ev = "ACTOR_DISCONNECT"
  BY DEF JobRecord, Shaped, SocketShape, ActorEvent
<1> HIDE DEF t
<1>4. Sweeping(t) \in JobRecord /\ Shaped(Sweeping(t)) /\ NotSaving(Sweeping(t))
  BY <1>2, <1>3, SweepingType
<1> QED BY <1>4 DEF NextCaller, t

\* The loop of CALLER_DISCONNECT over the actors of the caller.
LEMMA VisitingType ==
  ASSUME NEW r \in JobRecord, r.sock \in CallerSocket, r.caller # None,
         r.ev = "CALLER_DISCONNECT"
  PROVE  Visiting(r) \in JobRecord /\ Shaped(Visiting(r)) /\ NotSaving(Visiting(r))
<1>1. PICK pc \in {"hkeys", "actor"} :
        Visiting(r) = Await(r, pc) /\ (pc = "actor" => r.actorsLeft # <<>>)
  BY DEF Visiting
<1> DEFINE t == Await(r, pc)
<1>2. t \in JobRecord
  BY <1>1, AwaitType DEF Command
<1>3. SocketShape(t) /\ ArgumentShape(t)
  BY <1>1, NoneIsNothing DEF Await, SocketShape, ArgumentShape, JobRecord,
     ActorEvent, CallerEvent
<1>4. ActorShape(t) /\ CallerShape(t)
  BY <1>1 DEF Await, ActorShape, CallerShape, JobRecord
<1>5. LoopShape(t) /\ NotSaving(t)
  BY <1>1 DEF Await, LoopShape, JobRecord, NotSaving
<1> QED BY <1>1, <1>2, <1>3, <1>4, <1>5 DEF Shaped

LEMMA NextActorType ==
  ASSUME NEW r \in JobRecord, Shaped(r), r.ev = "CALLER_DISCONNECT",
         r.caller # None, r.actorsLeft # <<>>
  PROVE  NextActor(r) \in JobRecord /\ Shaped(NextActor(r)) /\ NotSaving(NextActor(r))
<1> DEFINE t == [r EXCEPT !.actorsLeft = Tail(@)]
<1>1. Tail(r.actorsLeft) \in Seq(ActorKey)
  BY HeadTailProperties DEF JobRecord
<1>2. t \in JobRecord
  BY <1>1 DEF JobRecord
<1>3. t.sock \in CallerSocket /\ t.caller # None /\ t.ev = "CALLER_DISCONNECT"
  BY DEF JobRecord, Shaped, SocketShape, CallerEvent
<1> HIDE DEF t
<1>4. Visiting(t) \in JobRecord /\ Shaped(Visiting(t)) /\ NotSaving(Visiting(t))
  BY <1>2, <1>3, VisitingType
<1> QED BY <1>4 DEF NextActor, t

LEMMA LeavingType ==
  ASSUME NEW r \in JobRecord, Shaped(r), r.ev = "CALLER_DISCONNECT", r.caller # None
  PROVE  Leaving(r) \in JobRecord /\ Shaped(Leaving(r)) /\ NotSaving(Leaving(r))
<1> DEFINE t == Leaving(r)
<1>1. t \in JobRecord
  BY AwaitType DEF Leaving, Command
<1>2. SocketShape(t) /\ ArgumentShape(t)
  BY NoneIsNothing DEF Leaving, Await, Shaped, SocketShape, ArgumentShape,
     JobRecord, ActorEvent, CallerEvent
<1>3. ActorShape(t) /\ CallerShape(t)
  BY DEF Leaving, Await, ActorShape, CallerShape, JobRecord
<1>4. LoopShape(t) /\ NotSaving(t)
  BY DEF Leaving, Await, LoopShape, JobRecord, NotSaving
<1> QED BY <1>1, <1>2, <1>3, <1>4 DEF Shaped

LEMMA FinishingType ==
  ASSUME NEW r \in JobRecord, NEW p \in Pid
  PROVE  [r EXCEPT !.pid = p, !.pc = "destroyInvocation"] \in JobRecord
<1>1. "destroyInvocation" \in Command
  BY DEF Command
<1> QED BY <1>1 DEF JobRecord

LEMMA ScanningType ==
  ASSUME NEW r \in JobRecord, NEW pids \in SUBSET Pid
  PROVE  [r EXCEPT !.scan = pids, !.pc = "scan"] \in JobRecord
<1>1. "scan" \in Command
  BY DEF Command
<1> QED BY <1>1 DEF JobRecord

LEMMA ScannedType ==
  ASSUME NEW r \in JobRecord, NEW p, NEW list \in Seq(Invocation)
  PROVE  [r EXCEPT !.scan = @ \ {p}, !.hits = list] \in JobRecord
BY DEF JobRecord

LEMMA HitsTailType ==
  ASSUME NEW r \in JobRecord, r.hits # <<>>
  PROVE  [r EXCEPT !.hits = Tail(@)] \in JobRecord
<1>1. Tail(r.hits) \in Seq(Invocation)
  BY HeadTailProperties DEF JobRecord
<1> QED BY <1>1 DEF JobRecord

\* The loop over the invocations found: the next one, or what comes after.
LEMMA FinishNextType ==
  ASSUME NEW r \in JobRecord, SocketShape(r), ArgumentShape(r), ActorShape(r),
         CallerShape(r), r.ev \in {"ACTOR_DISCONNECT", "CALLER_DISCONNECT"},
         r.ev = "ACTOR_DISCONNECT" => r.actor # None /\ r.callersLeft # <<>>,
         r.ev = "CALLER_DISCONNECT" => r.caller # None,
         NEW after \in JobRecord, Shaped(after), NotSaving(after)
  PROVE  /\ FinishNext(r, after) \in JobRecord
         /\ Shaped(FinishNext(r, after)) /\ NotSaving(FinishNext(r, after))
<1>1. CASE r.hits = <<>>
  BY <1>1 DEF FinishNext
<1>2. CASE r.hits # <<>>
  <2> DEFINE p == Head(r.hits).pid
             t == [r EXCEPT !.pid = p, !.pc = "destroyInvocation"]
  <2>1. /\ r.hits \in Seq(Invocation) /\ Head(r.hits) \in Invocation
        /\ Head(r.hits) = r.hits[1]
    BY <1>2, HeadTailProperties DEF JobRecord
  <2>2. p \in Pid /\ p = r.hits[1].pid
    BY <2>1 DEF Invocation
  <2>0. FinishNext(r, after) = t
    BY <1>2 DEF FinishNext
  <2> HIDE DEF p
  <2>3. t \in JobRecord
    BY <2>2, FinishingType
  <2>4. SocketShape(t) /\ ArgumentShape(t)
    BY NoneIsNothing, <2>2 DEF SocketShape, ArgumentShape, JobRecord, ActorEvent,
       CallerEvent
  <2>5. ActorShape(t) /\ CallerShape(t)
    BY DEF ActorShape, CallerShape, JobRecord
  <2>6. LoopShape(t) /\ NotSaving(t)
    BY <1>2, <2>2, NoneIsNothing DEF LoopShape, JobRecord, NotSaving
  <2> QED BY <2>0, <2>3, <2>4, <2>5, <2>6 DEF Shaped
<1> QED BY <1>1, <1>2

-----------------------------------------------------------------------------
(* The handlers of actors *)

LEMMA HiFindType ==
  ASSUME TypeInv, NEW j \in Job, HiFind(j)
  PROVE  TypeInv'
<1>0. job[j] \in JobRecord /\ Shaped(job[j])
  BY DEF TypeInv, TypeOK
<1> DEFINE found == actors[job[j].key]
           actor == IF found = None THEN NewActor(job[j].key, job[j].sock)
                    ELSE [found EXCEPT !.socketId = job[j].sock]
<1>1. job[j].key \in ActorKey /\ job[j].sock \in ActorSocket
  BY <1>0 DEF HiFind, At, JobRecord, Shaped, SocketShape, ArgumentShape, ActorEvent
<1>2. found \in Actor \cup {None}
  BY <1>1 DEF TypeInv, TypeOK, StorageOK
<1>3. actor \in Actor
  BY <1>1, <1>2, EmptySeq DEF NewActor, Actor
<1>4. Become(j, SavingActor(job[j], actor)) /\ Push("actor", j) /\ job[j].ev = "HI"
  BY DEF HiFind, At
<1> HIDE DEF actor
<1> QED BY <1>3, <1>4, NoneIsNothing, SaveBegins DEF HiFind, ActorEvent

LEMMA HiSavedType ==
  ASSUME TypeInv, NEW j \in Job, HiSaved(j)
  PROVE  TypeInv'
<1>0. job[j] \in JobRecord /\ Shaped(job[j])
  BY DEF TypeInv, TypeOK
<1>1. job[j].actor.socketId \in Socket
  BY <1>0 DEF HiSaved, ActorSaved, JobRecord, Shaped, ActorShape, Actor, Socket
<1>2. out' \in SUBSET MessageRecord
  BY <1>1
     DEF HiSaved, MessageRecord, Message
<1>3. HistoryOK'
  BY DEF HiSaved, TypeInv, TypeOK, HistoryOK, history
<1> QED BY <1>2, <1>3, IdleType, SaveEnds DEF HiSaved

LEMMA UpdateFindType ==
  ASSUME TypeInv, NEW j \in Job, UpdateFind(j)
  PROVE  TypeInv'
<1>0. job[j] \in JobRecord /\ Shaped(job[j])
  BY DEF TypeInv, TypeOK
<1> DEFINE found == actors[job[j].key]
           actor == [found EXCEPT !.specs = SpecsAfter(job[j], found)]
<1>1. job[j].key \in ActorKey
  BY <1>0 DEF UpdateFind, JobRecord, Shaped, ArgumentShape
<1>2. found \in Actor \cup {None}
  BY <1>1 DEF TypeInv, TypeOK, StorageOK
<1>3. CASE found = None
  <2>1. Become(j, Idle) /\ UNCHANGED <<conn, storage, queue, history>> /\ out' = {}
    BY <1>3 DEF UpdateFind
  <2> QED BY <2>1, IdleType, QuietStepType
<1>4. CASE found # None
  <2>1. job[j].ev \in {"SPEC", "DESPEC"} => job[j].name \in SpecName
    BY <1>0 DEF JobRecord, Shaped, ArgumentShape
  <2>2. found \in Actor /\ found.specs \in SUBSET SpecName
    BY <1>2, <1>4 DEF Actor
  <2>3. job[j].ev \in {"BYE", "SPEC", "DESPEC"}
    BY DEF UpdateFind
  <2>4. SpecsAfter(job[j], found) \in SUBSET SpecName
    BY <2>1, <2>2, <2>3 DEF SpecsAfter
  <2> DEFINE specs == SpecsAfter(job[j], found)
  <2> HIDE DEF specs
  <2>5. [found EXCEPT !.specs = specs] \in Actor
    BY <2>2, <2>4 DEF Actor, specs
  <2>6. Become(j, SavingActor(job[j], actor)) /\ Push("actor", j)
    BY <1>4 DEF UpdateFind
  <2>7. UNCHANGED <<conn, storage, history>> /\ out' = {}
    BY DEF UpdateFind
  <2>8. actor \in Actor
    BY <2>5 DEF specs
  <2>9. job[j].ev # None
    BY <2>3, NoneIsNothing DEF ActorEvent
  <2> HIDE DEF actor
  <2> QED BY <2>3, <2>6, <2>7, <2>8, <2>9, SaveBegins
<1> QED BY <1>3, <1>4

LEMMA ByeSavedType ==
  ASSUME TypeInv, NEW j \in Job, ByeSaved(j)
  PROVE  TypeInv'
<1>0. job[j] \in JobRecord /\ Shaped(job[j])
  BY DEF TypeInv, TypeOK
<1>1. HistoryOK'
  BY DEF ByeSaved, TypeInv, TypeOK, HistoryOK, history
<1> QED BY <1>1, IdleType, SaveEnds DEF ByeSaved

LEMMA SpecSavedType ==
  ASSUME TypeInv, NEW j \in Job, SpecSaved(j)
  PROVE  TypeInv'
<1>0. job[j] \in JobRecord /\ Shaped(job[j])
  BY DEF TypeInv, TypeOK
<1> DEFINE t == [job[j] EXCEPT !.callersLeft = job[j].actor.callers]
<1>1. HistoryOK' /\ out' = {}
  BY DEF SpecSaved, TypeInv, TypeOK, HistoryOK, history
<1>2. job[j].actor \in Actor /\ job[j].actor # None
  BY <1>0 DEF SpecSaved, ActorSaved, JobRecord, Shaped, ActorShape
<1>3. t \in JobRecord
  BY <1>0, <1>2 DEF JobRecord, Actor
<1>4. job[j].sock \in ActorSocket /\ job[j].name # None
  BY <1>0 DEF SpecSaved, JobRecord, Shaped, SocketShape, ArgumentShape, ActorEvent
<1>5. t.sock = job[j].sock /\ t.actor = job[j].actor /\ t.ev = job[j].ev /\ t.name = job[j].name
  BY <1>0 DEF JobRecord
<1>6. job[j].ev \in {"SPEC", "DESPEC"} /\ ActorSaved(j, Casting(t))
  BY DEF SpecSaved
<1> HIDE DEF t
<1>7. Casting(t) \in JobRecord /\ Shaped(Casting(t)) /\ NotSaving(Casting(t))
  BY <1>2, <1>3, <1>4, <1>5, <1>6, CastingType
<1> QED BY <1>1, <1>6, <1>7, SaveEnds DEF SpecSaved

LEMMA CastType ==
  ASSUME TypeInv, NEW j \in Job, Cast(j)
  PROVE  TypeInv'
<1>0. job[j] \in JobRecord /\ Shaped(job[j])
  BY DEF TypeInv, TypeOK
<1> DEFINE t == [job[j] EXCEPT !.callersLeft = Tail(@)]
           ev == job[j].ev
           caller == callers[Head(job[j].callersLeft)]
<1>1. /\ ev \in {"SPEC", "DESPEC", "ACTOR_PIPE", "ACTOR_DISCONNECT"}
      /\ job[j].sock \in ActorSocket
      /\ job[j].actor # None /\ job[j].actor \in Actor
      /\ job[j].callersLeft # <<>>
      /\ ev \in {"SPEC", "DESPEC"} => job[j].name # None
  <2>1. ev \in {"SPEC", "DESPEC", "ACTOR_PIPE", "ACTOR_DISCONNECT"}
        /\ job[j].sock \in ActorSocket
    BY <1>0 DEF Cast, Shaped, SocketShape, ActorEvent
  <2>2. job[j].actor # None /\ job[j].actor \in Actor
    BY <1>0 DEF Cast, Shaped, ActorShape, JobRecord
  <2>3. job[j].callersLeft # <<>>
    BY <1>0 DEF Cast, Shaped, LoopShape
  <2>4. ev \in {"SPEC", "DESPEC"} => job[j].name # None
    BY <1>0 DEF Shaped, ArgumentShape
  <2> QED BY <2>1, <2>2, <2>3, <2>4
<1>2. /\ Head(job[j].callersLeft) \in CallerKey
      /\ Tail(job[j].callersLeft) \in Seq(CallerKey)
  BY <1>0, <1>1, HeadTailProperties DEF JobRecord
<1>3. t \in JobRecord
  BY <1>0, <1>2 DEF JobRecord
<1>4. t.sock = job[j].sock /\ t.actor = job[j].actor /\ t.ev = job[j].ev /\ t.name = job[j].name
  BY <1>0 DEF JobRecord
<1>5. Become(j, Casting(t))
  BY DEF Cast
<1>6. UNCHANGED <<conn, storage, queue, join, call>>
  BY DEF Cast
<1>7. caller \in Caller \cup {None}
  BY <1>2 DEF TypeInv, TypeOK, StorageOK
<1>8. joined' \in [CallerSocket -> SUBSET ActorKey]
  <2>1. joined \in [CallerSocket -> SUBSET ActorKey]
    BY DEF TypeInv, TypeOK, HistoryOK
  <2>2. CASE caller = None
    BY <2>1, <2>2 DEF Cast
  <2>3. CASE caller # None
    <3>1. caller.socketId \in CallerSocket
      BY <1>7, <2>3 DEF Caller
    <3>2. joined' = joined
          \/ joined' = [joined EXCEPT ![caller.socketId] = @ \ {job[j].actor.key}]
      BY <2>3 DEF Cast
    <3> HIDE DEF caller
    <3> QED BY <2>1, <3>1, <3>2
  <2> QED BY <2>2, <2>3
<1>9. out' \in SUBSET MessageRecord
  <2>1. \/ out' = {}
        \/ /\ caller # None
           /\ out' = {Message(CastAs(ev), caller.socketId, job[j].actor.key, None)}
    BY DEF Cast
  <2>2. CastAs(ev) \in {"PIPE", "NOTICE", "SPEC", "DESPEC"}
    BY <1>1 DEF CastAs
  <2>3. job[j].actor.key \in ActorKey
    BY <1>1 DEF Actor
  <2>4. caller # None => caller.socketId \in Socket
    BY <1>7 DEF Caller, Socket
  <2> HIDE DEF caller, ev
  <2>5. caller # None =>
          Message(CastAs(ev), caller.socketId, job[j].actor.key, None) \in MessageRecord
    BY <2>2, <2>3, <2>4 DEF Message, MessageRecord
  <2> QED BY <2>1, <2>5
<1> HIDE DEF t
<1>10. Casting(t) \in JobRecord /\ Shaped(Casting(t)) /\ NotSaving(Casting(t))
  BY <1>1, <1>3, <1>4, CastingType
<1>11. queue' \in [Service -> [Hub -> Seq(Job)]] /\ SavesTakeTurns'
  BY <1>5, <1>6, <1>10, QueueKept
<1>12. StorageOK' /\ HistoryOK' /\ conn' \in [Socket -> {"fresh", "open", "gone"}]
  BY <1>6, <1>8 DEF TypeInv, TypeOK, StorageOK, HistoryOK, storage
<1> QED BY <1>5, <1>9, <1>10, <1>11, <1>12, StepType

LEMMA ActorPipeFindType ==
  ASSUME TypeInv, NEW j \in Job, ActorPipeFind(j)
  PROVE  TypeInv'
<1>0. job[j] \in JobRecord /\ Shaped(job[j])
  BY DEF TypeInv, TypeOK
<1> DEFINE found == actors[job[j].key]
           t == [job[j] EXCEPT !.actor = found, !.callersLeft = found.callers]
<1>1. job[j].key \in ActorKey /\ job[j].sock \in ActorSocket
  BY <1>0 DEF ActorPipeFind, At, JobRecord, Shaped, SocketShape, ArgumentShape,
     ActorEvent
<1>2. found \in Actor \cup {None}
  BY <1>1 DEF TypeInv, TypeOK, StorageOK
<1>3. CASE found = None
  <2>1. Become(j, Idle)
    BY <1>3 DEF ActorPipeFind
  <2> QED BY <2>1, IdleType, QuietStepType DEF ActorPipeFind
<1>4. CASE found # None
  <2>1. found \in Actor /\ found.callers \in Seq(CallerKey)
    BY <1>2, <1>4 DEF Actor
  <2>2. Become(j, Casting(t)) /\ job[j].ev = "ACTOR_PIPE"
    BY <1>4 DEF ActorPipeFind, At
  <2>3. out' = {} /\ UNCHANGED <<conn, storage, queue, history>>
    BY DEF ActorPipeFind
  <2> HIDE DEF found
  <2>4. t \in JobRecord
    BY <1>0, <2>1 DEF JobRecord
  <2>5. t.sock = job[j].sock /\ t.actor = found /\ t.ev = job[j].ev
    BY <1>0 DEF JobRecord
  <2> HIDE DEF t
  <2>6. Casting(t) \in JobRecord /\ Shaped(Casting(t)) /\ NotSaving(Casting(t))
    BY <1>1, <1>4, <2>2, <2>4, <2>5, CastingType
  <2> QED BY <2>2, <2>3, <2>6, QuietStepType
<1> QED BY <1>3, <1>4

LEMMA ResultFindType ==
  ASSUME TypeInv, NEW j \in Job, ResultFind(j)
  PROVE  TypeInv'
<1>0. job[j] \in JobRecord /\ Shaped(job[j])
  BY DEF TypeInv, TypeOK
<1> DEFINE found == invocations[job[j].pid]
           hits == IF found = None THEN <<>> ELSE <<found>>
           r == [job[j] EXCEPT !.pc = "destroyInvocation", !.hits = hits]
<1>1. job[j].pid \in Pid /\ job[j].sock \in ActorSocket /\ job[j].ev = "RESULT"
  BY <1>0 DEF ResultFind, At, JobRecord, Shaped, SocketShape, ArgumentShape,
     ActorEvent
<1>2. found \in Invocation \cup {None}
  BY <1>1 DEF TypeInv, TypeOK, StorageOK
<1>3. hits \in Seq(Invocation)
  BY <1>2, EmptySeq
<1>5. out' \in SUBSET MessageRecord
  BY <1>1 DEF ResultFind, Message, MessageRecord, Socket
<1>6. Become(j, r) /\ UNCHANGED <<conn, storage, queue, history>>
  BY DEF ResultFind
<1> HIDE DEF found, hits
<1>4. r \in JobRecord
  <2>1. "destroyInvocation" \in Command
    BY DEF Command
  <2> QED BY <1>0, <1>3, <2>1 DEF JobRecord
<1>7. SocketShape(r) /\ ArgumentShape(r)
  <2>1. SocketShape(r)
    BY <1>0, <1>1, NoneIsNothing DEF SocketShape, JobRecord, ActorEvent, CallerEvent
  <2>2. ArgumentShape(r)
    BY <1>0, <1>1, NoneIsNothing DEF ArgumentShape, JobRecord
  <2> QED BY <2>1, <2>2
<1>8. ActorShape(r) /\ CallerShape(r)
  BY <1>0, <1>1 DEF Shaped, ActorShape, CallerShape, JobRecord
<1>9. LoopShape(r) /\ NotSaving(r)
  BY <1>0, <1>1, NoneIsNothing DEF LoopShape, JobRecord, NotSaving
<1> QED BY <1>4, <1>5, <1>6, <1>7, <1>8, <1>9, QuietStepType DEF Shaped

\* The answers of RESULT and of ActorGone errors.
LEMMA ReplyType ==
  ASSUME HistoryOK, NEW hits \in Seq(Invocation), NEW key \in ActorKey \cup {None},
         Reply(ResultTo(hits, key)), UNCHANGED <<join, joined>>
  PROVE  out' \in SUBSET MessageRecord /\ HistoryOK'
<1> DEFINE msgs == ResultTo(hits, key)
<1>1. msgs \in SUBSET MessageRecord
  <2>1. CASE hits = <<>>
    BY <2>1 DEF ResultTo
  <2>2. CASE hits # <<>>
    <3>1. Head(hits) \in Invocation
      BY <2>2, HeadTailProperties
    <3>2. Head(hits).callerSocket \in Socket /\ Head(hits).pid \in Pid
      BY <3>1 DEF Invocation, Socket
    <3>3. msgs = {Message("RESULT", Head(hits).callerSocket, key, Head(hits).pid)}
      BY <2>2 DEF ResultTo
    <3> QED BY <3>2, <3>3 DEF Message, MessageRecord
  <2> QED BY <2>1, <2>2
<1> HIDE DEF msgs
<1>2. out' = msgs /\ call' = [p \in Pid |->
               IF call[p] # None /\ (\E m \in msgs : m.ev = "RESULT" /\ m.pid = p)
               THEN [call[p] EXCEPT !.answers = @ + 1]
               ELSE call[p]]
  BY DEF Reply, msgs
<1>3. ASSUME NEW p \in Pid PROVE call'[p] \in CallRecord \cup {None}
  <2>1. call[p] \in CallRecord \cup {None}
    BY DEF HistoryOK
  <2>2. \/ call'[p] = call[p]
        \/ call[p] # None /\ call'[p] = [call[p] EXCEPT !.answers = @ + 1]
    BY <1>2
  <2>3. ASSUME NEW c \in CallRecord PROVE [c EXCEPT !.answers = @ + 1] \in CallRecord
    BY DEF CallRecord
  <2> QED BY <2>1, <2>2, <2>3
<1>4. call' \in [Pid -> CallRecord \cup {None}]
  <2>1. call' = [p \in Pid |-> call'[p]]
    BY <1>2
  <2> QED BY <1>3, <2>1
<1> QED BY <1>1, <1>2, <1>4 DEF HistoryOK

LEMMA InvocationDestroyedType ==
  ASSUME TypeInv, NEW j \in Job, InvocationDestroyed(j)
  PROVE  invocations' \in [Pid -> Invocation \cup {None}]
BY DEF InvocationDestroyed, TypeInv, TypeOK, StorageOK

\* An invocation is finished and the handler goes on as r.
LEMMA FinishedStepType ==
  ASSUME TypeInv, NEW j \in Job, InvocationDestroyed(j),
         NEW r \in JobRecord, Shaped(r), NotSaving(r), Become(j, r),
         out' \in SUBSET MessageRecord, HistoryOK',
         UNCHANGED <<conn, actors, actorIdx, callers, callerIdx, queue>>
  PROVE  TypeInv'
<1>1. invocations' \in [Pid -> Invocation \cup {None}]
  BY InvocationDestroyedType
<1>2. StorageOK' /\ conn' \in [Socket -> {"fresh", "open", "gone"}]
  BY <1>1 DEF TypeInv, TypeOK, StorageOK
<1>3. queue' \in [Service -> [Hub -> Seq(Job)]] /\ SavesTakeTurns'
  BY QueueKept
<1> QED BY <1>2, <1>3, StepType

LEMMA FinishedHistory ==
  ASSUME TypeInv, UNCHANGED history
  PROVE  HistoryOK'
BY DEF TypeInv, TypeOK, HistoryOK, history

\* What was finished is to be answered next.
LEMMA AwaitingReplyType ==
  ASSUME NEW r \in JobRecord, Shaped(r), r.ev \in {"RESULT", "ACTOR_DISCONNECT"},
         r.pc \in {"destroyInvocation", "hdelInvocation"}, r.hits # <<>>
  PROVE  /\ Await(r, "reply") \in JobRecord /\ Shaped(Await(r, "reply"))
         /\ NotSaving(Await(r, "reply"))
<1> DEFINE t == Await(r, "reply")
<1>1. t \in JobRecord
  <2>1. "reply" \in Command
    BY DEF Command
  <2> QED BY <2>1, AwaitType
<1>2. SocketShape(t)
  BY DEF Await, Shaped, JobRecord, ActorEvent, CallerEvent, SocketShape
<1>3. ArgumentShape(t)
  BY DEF Await, JobRecord, Shaped, ArgumentShape
<1>4. ActorShape(t)
  BY DEF Await, JobRecord, Shaped, ActorShape
<1>5. CallerShape(t)
  BY DEF Await, JobRecord, Shaped, CallerShape
<1>6. LoopShape(t) /\ NotSaving(t)
  BY DEF Await, JobRecord, Shaped, LoopShape, NotSaving
<1> QED BY <1>1, <1>2, <1>3, <1>4, <1>5, <1>6 DEF Shaped

LEMMA ResultFinishedType ==
  ASSUME TypeInv, NEW j \in Job, ResultFinished(j)
  PROVE  TypeInv'
<1>0. job[j] \in JobRecord /\ Shaped(job[j])
  BY DEF TypeInv, TypeOK
<1>1. out' = {} /\ HistoryOK' /\ InvocationDestroyed(j)
  BY FinishedHistory DEF ResultFinished
<1>2. CASE job[j].hits = <<>>
  BY <1>1, <1>2, IdleType, FinishedStepType DEF ResultFinished
<1>3. CASE job[j].hits # <<>>
  <2>1. job[j].ev = "RESULT" /\ job[j].pc \in {"destroyInvocation", "hdelInvocation"}
    BY DEF ResultFinished, InvocationDestroyed
  <2>2. Become(j, Await(job[j], "reply"))
    BY <1>3 DEF ResultFinished
  <2> QED BY <1>0, <1>1, <1>3, <2>1, <2>2, AwaitingReplyType, FinishedStepType
          DEF ResultFinished
<1> QED BY <1>2, <1>3

LEMMA ResultRepliedType ==
  ASSUME TypeInv, NEW j \in Job, ResultReplied(j)
  PROVE  TypeInv'
<1>0. job[j] \in JobRecord
  BY DEF TypeInv, TypeOK
<1>1. job[j].hits \in Seq(Invocation) /\ HistoryOK
  BY <1>0 DEF JobRecord, TypeInv, TypeOK
<1>2. out' \in SUBSET MessageRecord /\ HistoryOK'
  BY <1>1, ReplyType DEF ResultReplied
<1>3. StorageOK' /\ conn' \in [Socket -> {"fresh", "open", "gone"}]
  BY DEF ResultReplied, TypeInv, TypeOK, StorageOK, storage
<1>4. Become(j, Idle) /\ UNCHANGED queue
  BY DEF ResultReplied
<1>5. queue' \in [Service -> [Hub -> Seq(Job)]] /\ SavesTakeTurns'
  BY <1>4, IdleType, QueueKept
<1> QED BY <1>2, <1>3, <1>4, <1>5, IdleType, StepType

LEMMA ActorDisconnectFindType ==
  ASSUME TypeInv, NEW j \in Job, ActorDisconnectFind(j)
  PROVE  TypeInv'
<1>0. job[j] \in JobRecord /\ Shaped(job[j])
  BY DEF TypeInv, TypeOK
<1> DEFINE found == actors[job[j].key]
           t == [job[j] EXCEPT !.actor = found, !.callersLeft = found.callers]
<1>1. job[j].key \in ActorKey /\ job[j].sock \in ActorSocket
  BY <1>0 DEF ActorDisconnectFind, At, JobRecord, Shaped, SocketShape,
     ArgumentShape, ActorEvent
<1>2. found \in Actor \cup {None}
  BY <1>1 DEF TypeInv, TypeOK, StorageOK
<1>3. CASE found = None
  <2>1. Become(j, Idle)
    BY <1>3 DEF ActorDisconnectFind
  <2> QED BY <2>1, IdleType, QuietStepType DEF ActorDisconnectFind
<1>4. CASE found # None
  <2>1. found \in Actor /\ found.callers \in Seq(CallerKey)
    BY <1>2, <1>4 DEF Actor
  <2>2. Become(j, Sweeping(t)) /\ job[j].ev = "ACTOR_DISCONNECT"
    BY <1>4 DEF ActorDisconnectFind, At
  <2>3. out' = {} /\ UNCHANGED <<conn, storage, queue, history>>
    BY DEF ActorDisconnectFind
  <2> HIDE DEF found
  <2>4. t \in JobRecord
    BY <1>0, <2>1 DEF JobRecord
  <2>5. t.sock = job[j].sock /\ t.actor = found /\ t.ev = job[j].ev
    BY <1>0 DEF JobRecord
  <2> HIDE DEF t
  <2>6. Sweeping(t) \in JobRecord /\ Shaped(Sweeping(t)) /\ NotSaving(Sweeping(t))
    BY <1>1, <2>1, <2>2, <2>4, <2>5, SweepingType
  <2> QED BY <2>2, <2>3, <2>6, QuietStepType
<1> QED BY <1>3, <1>4

LEMMA SweepHolds ==
  ASSUME NEW r \in JobRecord, Shaped(r), r.ev = "ACTOR_DISCONNECT",
         r.pc \in {"sweep", "hkeys", "scan", "destroyInvocation", "hdelInvocation",
                  "reply"}
  PROVE  /\ r.actor \in Actor /\ r.actor # None /\ r.callersLeft # <<>>
         /\ r.sock \in ActorSocket
         /\ NextCaller(r) \in JobRecord /\ Shaped(NextCaller(r))
         /\ NotSaving(NextCaller(r))
<1>1. r.actor \in Actor /\ r.actor # None
  BY DEF Shaped, ActorShape, JobRecord
<1>2. r.callersLeft # <<>>
  BY DEF Shaped, LoopShape
<1>3. r.sock \in ActorSocket
  BY DEF Shaped, SocketShape, ActorEvent
<1> QED BY <1>1, <1>2, <1>3, NextCallerType

LEMMA LeaveHolds ==
  ASSUME NEW r \in JobRecord, Shaped(r), r.ev = "CALLER_DISCONNECT",
         r.pc \in {"hkeys", "scan", "destroyInvocation", "hdelInvocation"}
  PROVE  /\ r.caller # None
         /\ Leaving(r) \in JobRecord /\ Shaped(Leaving(r)) /\ NotSaving(Leaving(r))
<1>1. r.caller # None
  BY DEF Shaped, CallerShape
<1> QED BY <1>1, LeavingType

LEMMA SweepCallerType ==
  ASSUME TypeInv, NEW j \in Job, SweepCaller(j)
  PROVE  TypeInv'
<1>0. job[j] \in JobRecord /\ Shaped(job[j])
  BY DEF TypeInv, TypeOK
<1> DEFINE key == Head(job[j].callersLeft)
           r == [job[j] EXCEPT !.ckey = key, !.pc = "hkeys"]
<1>1. /\ job[j].actor # None /\ job[j].callersLeft # <<>> /\ job[j].sock \in ActorSocket
      /\ NextCaller(job[j]) \in JobRecord /\ Shaped(NextCaller(job[j]))
      /\ NotSaving(NextCaller(job[j]))
      /\ job[j].ev = "ACTOR_DISCONNECT"
  BY <1>0, SweepHolds DEF SweepCaller, At
<1>2. key \in CallerKey
  BY <1>0, <1>1, HeadTailProperties DEF JobRecord
<1>3. Become(j, NextCaller(job[j])) \/ Become(j, r)
  BY DEF SweepCaller
<1>4. out' = {} /\ UNCHANGED <<conn, storage, queue, history>>
  BY DEF SweepCaller
<1> HIDE DEF key
<1>5. r \in JobRecord
  <2>1. "hkeys" \in Command
    BY DEF Command
  <2> QED BY <1>0, <1>2, <2>1 DEF JobRecord
<1>6. SocketShape(r) /\ ArgumentShape(r)
  <2>1. SocketShape(r)
    BY <1>0, <1>1, NoneIsNothing DEF SocketShape, JobRecord, ActorEvent, CallerEvent
  <2>2. ArgumentShape(r)
    BY <1>0, <1>1 DEF ArgumentShape, JobRecord
  <2> QED BY <2>1, <2>2
<1>7. ActorShape(r) /\ CallerShape(r)
  BY <1>1, <1>0 DEF ActorShape, CallerShape, JobRecord
<1>8. LoopShape(r) /\ NotSaving(r)
  BY <1>1, <1>0 DEF LoopShape, JobRecord, NotSaving
<1> HIDE DEF r
<1> QED BY <1>1, <1>3, <1>4, <1>5, <1>6, <1>7, <1>8, QuietStepType DEF Shaped

\* The listing of the pids, in both handlers that clean up invocations.
LEMMA ListInvocationsType ==
  ASSUME TypeInv, NEW j \in Job, NEW after \in JobRecord, Shaped(after),
         NotSaving(after), ListInvocations(j, after),
         job[j].ev \in {"ACTOR_DISCONNECT", "CALLER_DISCONNECT"}
  PROVE  TypeInv'
<1>0. job[j] \in JobRecord /\ Shaped(job[j])
  BY DEF TypeInv, TypeOK
<1> DEFINE stored == {p \in Pid : invocations[p] # None}
           r == [job[j] EXCEPT !.scan = stored, !.pc = "scan"]
<1>1. Become(j, after) \/ Become(j, r)
  BY DEF ListInvocations
<1>2. out' = {} /\ UNCHANGED <<conn, storage, queue,
history>> /\ job[j].pc = "hkeys"
  BY DEF ListInvocations
<1>3. stored \in SUBSET Pid
  OBVIOUS
<1> HIDE DEF stored
<1>4. r \in JobRecord
  BY <1>0, <1>3, ScanningType
<1>5. SocketShape(r) /\ ArgumentShape(r)
  BY <1>0, <1>2 DEF Shaped, SocketShape, ArgumentShape, JobRecord, ActorEvent,
     CallerEvent
<1>6. ActorShape(r) /\ CallerShape(r)
  BY <1>0, <1>2 DEF Shaped, ActorShape, CallerShape, JobRecord
<1>7. LoopShape(r) /\ NotSaving(r)
  BY <1>0, <1>2 DEF Shaped, LoopShape, JobRecord, NotSaving
<1> HIDE DEF r
<1> QED BY <1>1, <1>2, <1>4, <1>5, <1>6, <1>7, QuietStepType DEF Shaped

LEMMA ScanInvocationType ==
  ASSUME TypeInv, NEW j \in Job, NEW after \in JobRecord, Shaped(after),
         NotSaving(after), ScanInvocation(j, after),
         job[j].ev \in {"ACTOR_DISCONNECT", "CALLER_DISCONNECT"}
  PROVE  TypeInv'
<1>0. job[j] \in JobRecord /\ Shaped(job[j])
  BY DEF TypeInv, TypeOK
<1>1. job[j].pc = "scan" /\ out' = {} /\ UNCHANGED <<conn, storage, queue, history>>
  BY DEF ScanInvocation
<1>2. PICK p \in job[j].scan, list \in Seq(Invocation) :
        LET r == [job[j] EXCEPT !.scan = @ \ {p}, !.hits = list]
        IN Become(j, IF r.scan = {} THEN FinishNext(r, after) ELSE r)
  <2>1. PICK p \in job[j].scan :
          LET hit == invocations[p] # None /\ invocations[p].caller = job[j].ckey
              r == [job[j] EXCEPT !.scan = @ \ {p},
                                  !.hits = IF hit THEN Append(@,
                                  invocations[p]) ELSE @]
          IN Become(j, IF r.scan = {} THEN FinishNext(r, after) ELSE r)
    BY DEF ScanInvocation
  <2> DEFINE hit == invocations[p] # None /\ invocations[p].caller = job[j].ckey
             list == IF hit THEN Append(job[j].hits, invocations[p]) ELSE job[j].hits
  <2>2. p \in Pid /\ job[j].hits \in Seq(Invocation)
    BY <1>0 DEF JobRecord
  <2>3. invocations[p] # None => invocations[p] \in Invocation
    BY <2>2 DEF TypeInv, TypeOK, StorageOK
  <2>4. list \in Seq(Invocation)
    BY <2>2, <2>3, AppendProperties
  <2>5. LET r == [job[j] EXCEPT !.scan = @ \ {p}, !.hits = list]
        IN Become(j, IF r.scan = {} THEN FinishNext(r, after) ELSE r)
    BY <2>1
  <2> QED BY <2>4, <2>5
<1> DEFINE r == [job[j] EXCEPT !.scan = @ \ {p}, !.hits = list]
<1>3. r \in JobRecord
  BY <1>0, ScannedType
<1>4. r.pc = "scan" /\ r.ev = job[j].ev /\ r.actor = job[j].actor
      /\ r.caller = job[j].caller /\ r.callersLeft = job[j].callersLeft
  BY <1>0, <1>1 DEF JobRecord
<1>5. SocketShape(r) /\ ArgumentShape(r)
  BY <1>0, <1>1 DEF Shaped, SocketShape, ArgumentShape, JobRecord
<1>6. ActorShape(r) /\ CallerShape(r)
  BY <1>0, <1>1 DEF Shaped, ActorShape, CallerShape, JobRecord
<1>7. LoopShape(r) /\ NotSaving(r)
  BY <1>0, <1>1 DEF Shaped, LoopShape, JobRecord, NotSaving
<1>8. Become(j, FinishNext(r, after)) \/ Become(j, r)
  BY <1>2
<1>9. /\ r.ev = "ACTOR_DISCONNECT" => r.actor # None /\ r.callersLeft # <<>>
      /\ r.ev = "CALLER_DISCONNECT" => r.caller # None
  BY <1>0, <1>1, <1>4, SweepHolds, LeaveHolds
<1> HIDE DEF r
<1>10. /\ FinishNext(r, after) \in JobRecord
       /\ Shaped(FinishNext(r, after)) /\ NotSaving(FinishNext(r, after))
  BY <1>3, <1>4, <1>5, <1>6, <1>9, FinishNextType
<1> QED BY <1>1, <1>3, <1>5, <1>6, <1>7, <1>8, <1>10, QuietStepType DEF Shaped

\* The step from one invocation found to the next one.
LEMMA FinishedOneShape ==
  ASSUME NEW r \in JobRecord, Shaped(r), NEW after \in JobRecord,
         Shaped(after), NotSaving(after), r.ev \in {"ACTOR_DISCONNECT", "CALLER_DISCONNECT"},
         r.pc \in {"destroyInvocation", "hdelInvocation", "reply"}
  PROVE  LET t == FinishNext([r EXCEPT !.hits = Tail(@)], after)
         IN t \in JobRecord /\ Shaped(t) /\ NotSaving(t)
<1> DEFINE t == [r EXCEPT !.hits = Tail(@)]
<1>2. r.hits # <<>>
  BY DEF Shaped, LoopShape
<1>3. t \in JobRecord
  BY <1>2, HitsTailType
<1>4. t.ev = r.ev /\ t.actor = r.actor /\ t.caller = r.caller
      /\ t.callersLeft = r.callersLeft
  BY DEF JobRecord
<1>5. SocketShape(t) /\ ArgumentShape(t)
  BY DEF Shaped, SocketShape, ArgumentShape, JobRecord
<1>6. ActorShape(t) /\ CallerShape(t)
  BY DEF Shaped, ActorShape, CallerShape, JobRecord
<1>7. /\ t.ev = "ACTOR_DISCONNECT" => t.actor # None /\ t.callersLeft # <<>>
      /\ t.ev = "CALLER_DISCONNECT" => t.caller # None
  <2>1. r.ev = "CALLER_DISCONNECT" => r.caller # None
    BY DEF Shaped, CallerShape
  <2>2. r.ev = "ACTOR_DISCONNECT" => r.actor # None /\ r.callersLeft # <<>>
    BY SweepHolds
  <2> QED BY <1>4, <2>1, <2>2
<1> HIDE DEF t
<1>8. /\ FinishNext(t, after) \in JobRecord
      /\ Shaped(FinishNext(t, after)) /\ NotSaving(FinishNext(t, after))
  BY <1>3, <1>4, <1>5, <1>6, <1>7, FinishNextType
<1> QED BY <1>8 DEF t

LEMMA SweepListType ==
  ASSUME TypeInv, NEW j \in Job, SweepList(j)
  PROVE  TypeInv'
<1>0. job[j] \in JobRecord /\ Shaped(job[j])
  BY DEF TypeInv, TypeOK
<1>1. job[j].pc \in {"hkeys", "scan"} /\ job[j].ev = "ACTOR_DISCONNECT"
  BY DEF SweepList, ListInvocations
<1> QED BY <1>0, <1>1, SweepHolds, ListInvocationsType DEF SweepList

LEMMA SweepScanType ==
  ASSUME TypeInv, NEW j \in Job, SweepScan(j)
  PROVE  TypeInv'
<1>0. job[j] \in JobRecord /\ Shaped(job[j])
  BY DEF TypeInv, TypeOK
<1>1. job[j].pc \in {"hkeys", "scan"} /\ job[j].ev = "ACTOR_DISCONNECT"
  BY DEF SweepScan, ScanInvocation
<1> QED BY <1>0, <1>1, SweepHolds, ScanInvocationType DEF SweepScan

LEMMA SweepFinishedType ==
  ASSUME TypeInv, NEW j \in Job, SweepFinished(j)
  PROVE  TypeInv'
<1>0. job[j] \in JobRecord /\ Shaped(job[j])
  BY DEF TypeInv, TypeOK
<1>1. /\ job[j].ev = "ACTOR_DISCONNECT"
      /\ job[j].pc \in {"destroyInvocation", "hdelInvocation"}
  BY DEF SweepFinished, InvocationDestroyed
<1>2. job[j].hits # <<>>
  BY <1>0, <1>1 DEF Shaped, LoopShape
<1>3. out' = {} /\ HistoryOK' /\ InvocationDestroyed(j)
  BY FinishedHistory DEF SweepFinished
<1> QED BY <1>0, <1>1, <1>2, <1>3, AwaitingReplyType, FinishedStepType DEF SweepFinished

LEMMA SweepRepliedType ==
  ASSUME TypeInv, NEW j \in Job, SweepReplied(j)
  PROVE  TypeInv'
<1>0. job[j] \in JobRecord /\ Shaped(job[j])
  BY DEF TypeInv, TypeOK
<1>1. job[j].ev = "ACTOR_DISCONNECT" /\ job[j].pc = "reply"
  BY DEF SweepReplied, At
<1>2. /\ job[j].actor \in Actor
      /\ NextCaller(job[j]) \in JobRecord /\ Shaped(NextCaller(job[j]))
      /\ NotSaving(NextCaller(job[j]))
  BY <1>0, <1>1, SweepHolds
<1>3. out' \in SUBSET MessageRecord /\ HistoryOK'
  <2>1. job[j].hits \in Seq(Invocation) /\ HistoryOK /\ job[j].actor.key \in ActorKey
    BY <1>0, <1>2 DEF JobRecord, TypeInv, TypeOK, Actor
  <2> QED BY <2>1, ReplyType DEF SweepReplied
<1> DEFINE t == FinishNext([job[j] EXCEPT !.hits = Tail(@)], NextCaller(job[j]))
<1>4. t \in JobRecord /\ Shaped(t) /\ NotSaving(t)
  BY <1>0, <1>1, <1>2, FinishedOneShape
<1>5. Become(j, t) /\ UNCHANGED queue
  BY DEF SweepReplied
<1> HIDE DEF t
<1>6. queue' \in [Service -> [Hub -> Seq(Job)]] /\ SavesTakeTurns'
  BY <1>4, <1>5, QueueKept
<1>7. StorageOK' /\ conn' \in [Socket -> {"fresh", "open", "gone"}]
  BY DEF SweepReplied, TypeInv, TypeOK, StorageOK, storage
<1> QED BY <1>3, <1>4, <1>5, <1>6, <1>7, StepType

LEMMA ActorDisconnectedType ==
  ASSUME TypeInv, NEW j \in Job, ActorDisconnected(j)
  PROVE  TypeInv'
<1>0. job[j] \in JobRecord /\ Shaped(job[j])
  BY DEF TypeInv, TypeOK
<1>1. job[j].actor \in Actor
  BY <1>0 DEF ActorDisconnected, ActorDestroyed, JobRecord, Shaped, ActorShape
<1>2. actorIdx' \in [ActorSocket -> ActorKey \cup {None}]
  BY <1>1 DEF ActorDisconnected, ActorDestroyed, Actor, TypeInv, TypeOK, StorageOK
<1>3. queue' \in [Service -> [Hub -> Seq(Job)]] /\ SavesTakeTurns'
  BY IdleType, QueueKept DEF ActorDisconnected
<1>4. StorageOK' /\ HistoryOK' /\ conn' \in [Socket -> {"fresh", "open", "gone"}]
  BY <1>2 DEF ActorDisconnected, TypeInv, TypeOK, StorageOK, HistoryOK, history
<1> QED BY <1>3, <1>4, IdleType, StepType DEF ActorDisconnected

-----------------------------------------------------------------------------
(* The handlers of callers *)

LEMMA FoundCallerType ==
  ASSUME TypeInv, NEW j \in Job
  PROVE  FoundCaller(j) \in Caller \cup {None}
<1>1. job[j].ckey \in CallerKey \cup {None}
  BY DEF TypeInv, TypeOK, JobRecord
<1>2. callers \in [CallerKey -> Caller \cup {None}]
  BY DEF TypeInv, TypeOK, StorageOK
<1> QED BY <1>1, <1>2 DEF FoundCaller

\* A handler that has a caller in hand may save it.
LEMMA SavingCallerShaped ==
  ASSUME NEW r \in JobRecord, Shaped(r), NEW c \in Caller, r.ev \in CallerEvent,
         r.ev \in {"JOIN", "LEAVE", "PERFORM"} => r.actor # None
  PROVE  /\ SavingCaller(r, c) \in JobRecord
         /\ Shaped(SavingCaller(r, c)) /\ NotSaving(SavingCaller(r, c))
<1> DEFINE t == SavingCaller(r, c)
<1>1. t \in JobRecord
  <2>1. "hsetCaller" \in Command
    BY DEF Command
  <2> QED BY <2>1 DEF SavingCaller, JobRecord
<1>2. c # None /\ r.ev \notin ActorEvent
  BY NoneIsNothing DEF ActorEvent, CallerEvent
<1>3. SocketShape(t)
  BY <1>2, NoneIsNothing DEF SavingCaller, Shaped, SocketShape, JobRecord
<1>4. ArgumentShape(t)
  BY DEF SavingCaller, Shaped, ArgumentShape, JobRecord
<1>5. ActorShape(t)
  BY <1>2 DEF SavingCaller, ActorShape, JobRecord, ActorEvent
<1>6. CallerShape(t)
  BY <1>2 DEF SavingCaller, CallerShape, JobRecord
<1>7. LoopShape(t) /\ NotSaving(t)
  BY DEF SavingCaller, LoopShape, JobRecord, NotSaving
<1> QED BY <1>1, <1>3, <1>4, <1>5, <1>6, <1>7 DEF Shaped

LEMMA CallerSaveBegins ==
  ASSUME TypeInv, NEW j \in Job, NEW c \in Caller, job[j].ev \in CallerEvent,
         job[j].ev \in {"JOIN", "LEAVE", "PERFORM"} => job[j].actor # None,
         Become(j, SavingCaller(job[j], c)), Push("caller", j),
         UNCHANGED <<conn, storage, history>>, out' = {}
  PROVE  TypeInv'
<1> DEFINE r == SavingCaller(job[j], c)
<1>1. job[j] \in JobRecord /\ Shaped(job[j])
  BY DEF TypeInv, TypeOK
<1>2. r \in JobRecord /\ Shaped(r) /\ NotSaving(r)
  BY <1>1, SavingCallerShaped
<1>3. job[j].sock \in Socket /\ "caller" \in Service
  BY <1>1 DEF JobRecord, Shaped, SocketShape, Socket, Service
<1>4. queue' \in [Service -> [Hub -> Seq(Job)]] /\ SavesTakeTurns'
  BY <1>2, <1>3, QueuePushed
<1>5. StorageOK' /\ HistoryOK' /\ conn' \in [Socket -> {"fresh", "open", "gone"}]
  BY DEF TypeInv, TypeOK, StorageOK, HistoryOK, storage, history
<1> QED BY <1>2, <1>4, <1>5, StepType

LEMMA RequestFindType ==
  ASSUME TypeInv, NEW j \in Job, RequestFind(j)
  PROVE  TypeInv'
<1>0. job[j] \in JobRecord /\ Shaped(job[j])
  BY DEF TypeInv, TypeOK
<1> DEFINE found == actors[job[j].key]
           r == [job[j] EXCEPT !.actor = found, !.pc = "callerIdx"]
<1>1. job[j].key \in ActorKey /\ job[j].ev \in {"JOIN", "LEAVE", "PERFORM"}
  BY <1>0 DEF RequestFind, JobRecord, Shaped, ArgumentShape
<1>2. found \in Actor \cup {None}
  BY <1>1 DEF TypeInv, TypeOK, StorageOK
<1>3. out' = {} /\ UNCHANGED <<conn, storage, queue, history>>
  BY DEF RequestFind
<1>4. CASE found = None
  <2>1. Become(j, Idle)
    BY <1>4 DEF RequestFind
  <2> QED BY <1>3, <2>1, IdleType, QuietStepType
<1>5. CASE found # None
  <2>1. Become(j, r)
    BY <1>5 DEF RequestFind
  <2> HIDE DEF found
  <2>2. r \in JobRecord
    <3>1. "callerIdx" \in Command
      BY DEF Command
    <3> QED BY <1>0, <1>2, <1>5, <3>1 DEF JobRecord
  <2>3. SocketShape(r)
    <3>1. job[j].sock \in CallerSocket
      BY <1>0, <1>1 DEF Shaped, SocketShape, CallerEvent
    <3> QED BY <1>0, <1>1, <3>1, NoneIsNothing DEF SocketShape, JobRecord,
               ActorEvent, CallerEvent
  <2>4. ArgumentShape(r) /\ ActorShape(r)
    BY <1>0, <1>1, <1>5 DEF Shaped, ArgumentShape, ActorShape, JobRecord
  <2>5. CallerShape(r) /\ LoopShape(r) /\ NotSaving(r)
    BY <1>0, <1>1 DEF CallerShape, LoopShape, JobRecord, NotSaving
  <2> QED BY <1>3, <2>1, <2>2, <2>3, <2>4, <2>5, QuietStepType DEF Shaped
<1> QED BY <1>4, <1>5

LEMMA JoinCallerType ==
  ASSUME TypeInv, NEW j \in Job, JoinCaller(j)
  PROVE  TypeInv'
<1>0. job[j] \in JobRecord /\ Shaped(job[j])
  BY DEF TypeInv, TypeOK
<1> DEFINE found == FoundCaller(j)
           caller == IF found = None THEN NewCaller(job[j].uuid, job[j].sock)
                     ELSE [found EXCEPT !.socketId = job[j].sock]
<1>1. /\ job[j].ev = "JOIN" /\ job[j].uuid \in CallerKey
      /\ job[j].sock \in CallerSocket /\ job[j].actor \in Actor /\ job[j].actor # None
  BY <1>0 DEF JoinCaller, At, JobRecord, Shaped, SocketShape, ArgumentShape,
     ActorShape, CallerEvent
<1>2. found \in Caller \cup {None}
  BY FoundCallerType
<1> HIDE DEF found
<1>3. caller \in Caller
  BY <1>1, <1>2, EmptySeq DEF NewCaller, Caller
<1>4. Become(j, SavingCaller(job[j], AddActor(caller,
job[j].actor))) /\ Push("caller", j)
  BY DEF JoinCaller, found
<1>5. UNCHANGED <<conn, storage, history>> /\ out' = {}
  BY DEF JoinCaller
<1> HIDE DEF caller
<1>6. AddActor(caller, job[j].actor) \in Caller
  BY <1>1, <1>3, AddActorType
<1>7. job[j].ev \in CallerEvent
  BY <1>1 DEF CallerEvent
<1> QED BY <1>1, <1>4, <1>5, <1>6, <1>7, CallerSaveBegins

LEMMA CallerSavedType ==
  ASSUME TypeInv, NEW j \in Job, CallerSaved(j)
  PROVE  /\ callerIdx' \in [CallerSocket -> CallerKey \cup {None}]
         /\ job[j].caller \in Caller /\ job[j].caller # None
         /\ job[j].sock \in Socket /\ Turn("caller", j)
<1>0. job[j] \in JobRecord /\ Shaped(job[j])
  BY DEF TypeInv, TypeOK
<1>1. job[j].caller \in Caller /\ job[j].caller # None
  BY <1>0 DEF CallerSaved, JobRecord, Shaped, CallerShape
<1>2. callerIdx' \in [CallerSocket -> CallerKey \cup {None}]
  BY <1>1 DEF CallerSaved, Caller, TypeInv, TypeOK, StorageOK
<1>3. job[j].sock \in Socket /\ Turn("caller", j)
  BY SavingHasSocket DEF CallerSaved, NotSaving, TypeInv, SavesTakeTurns
<1> QED BY <1>1, <1>2, <1>3

LEMMA CallerDestroyedType ==
  ASSUME TypeInv, NEW j \in Job, CallerDestroyed(j)
  PROVE  /\ callerIdx' \in [CallerSocket -> CallerKey \cup {None}]
         /\ job[j].caller \in Caller /\ job[j].caller # None
<1>0. job[j] \in JobRecord /\ Shaped(job[j])
  BY DEF TypeInv, TypeOK
<1>1. job[j].caller \in Caller /\ job[j].caller # None
  BY <1>0 DEF CallerDestroyed, JobRecord, Shaped, CallerShape
<1>2. callerIdx' \in [CallerSocket -> CallerKey \cup {None}]
  BY <1>1 DEF CallerDestroyed, Caller, TypeInv, TypeOK, StorageOK
<1> QED BY <1>1, <1>2

LEMMA JoinCallerSavedType ==
  ASSUME TypeInv, NEW j \in Job, JoinCallerSaved(j)
  PROVE  TypeInv'
<1>0. job[j] \in JobRecord /\ Shaped(job[j])
  BY DEF TypeInv, TypeOK
<1> DEFINE actor == AddCaller(job[j].actor, job[j].caller)
           r == SavingActor(job[j], actor)
<1>1. /\ CallerSaved(j) /\ FromCallerToActorQueue(j) /\ Become(j, r) /\ out' = {}
      /\ job[j].ev = "JOIN" /\ job[j].pc = "hsetCallerIdx"
  BY DEF JoinCallerSaved, CallerSaved
<1>2. UNCHANGED <<conn, actors, actorIdx, callers, invocations, history>>
  BY DEF JoinCallerSaved
<1>3. job[j].actor \in Actor /\ job[j].ev # None
  BY <1>0, <1>1, NoneIsNothing DEF JobRecord, Shaped, ActorShape, CallerEvent
<1>4. /\ callerIdx' \in [CallerSocket -> CallerKey \cup {None}]
      /\ job[j].caller \in Caller /\ job[j].caller # None
      /\ job[j].sock \in Socket /\ Turn("caller", j)
  BY <1>1, CallerSavedType
<1>5. actor \in Actor
  BY <1>3, <1>4, AddCallerType
<1> HIDE DEF actor
<1>6. r \in JobRecord /\ Shaped(r) /\ NotSaving(r)
  BY <1>0, <1>1, <1>3, <1>4, <1>5, SavingActorShaped
<1> HIDE DEF r
<1>7. queue' \in [Service -> [Hub -> Seq(Job)]] /\ SavesTakeTurns'
  BY <1>1, <1>4, <1>6, QueuePassed
<1>8. StorageOK' /\ HistoryOK' /\ conn' \in [Socket -> {"fresh", "open", "gone"}]
  BY <1>2, <1>4 DEF TypeInv, TypeOK, StorageOK, HistoryOK, history
<1> QED BY <1>1, <1>6, <1>7, <1>8, StepType

LEMMA JoinSavedType ==
  ASSUME TypeInv, NEW j \in Job, JoinSaved(j)
  PROVE  TypeInv'
<1>0. job[j] \in JobRecord /\ Shaped(job[j])
  BY DEF TypeInv, TypeOK
<1>1. /\ job[j].actor \in Actor /\ job[j].caller \in Caller
      /\ job[j].key \in ActorKey /\ job[j].sock \in CallerSocket
  BY <1>0 DEF JoinSaved, ActorSaved, JobRecord, Shaped, SocketShape, ArgumentShape,
     ActorShape, CallerShape, CallerEvent
<1>2. job[j].actor.socketId \in Socket /\ job[j].caller.key \in CallerKey
  BY <1>1 DEF Actor, Caller, Socket
<1>3. out' \in SUBSET MessageRecord
  BY <1>2 DEF JoinSaved, Message, MessageRecord
<1>4. HistoryOK'
  BY <1>1 DEF JoinSaved, TypeInv, TypeOK, HistoryOK
<1> QED BY <1>3, <1>4, IdleType, SaveEnds DEF JoinSaved

LEMMA LeaveCallerType ==
  ASSUME TypeInv, NEW j \in Job, LeaveCaller(j)
  PROVE  TypeInv'
<1>0. job[j] \in JobRecord /\ Shaped(job[j])
  BY DEF TypeInv, TypeOK
<1> DEFINE found == FoundCaller(j)
           caller == RemoveActor(found, job[j].actor)
           r == [job[j] EXCEPT !.caller = caller, !.pc = "destroyCaller"]
<1>1. /\ job[j].ev = "LEAVE" /\ job[j].pc = "caller"
      /\ job[j].sock \in CallerSocket /\ job[j].actor \in Actor /\ job[j].actor # None
  BY <1>0 DEF LeaveCaller, At, JobRecord, Shaped, SocketShape, ActorShape,
     CallerEvent
<1>2. found \in Caller \cup {None}
  BY FoundCallerType
<1>3. UNCHANGED <<conn, storage, history>> /\ out' = {}
  BY DEF LeaveCaller
<1>4. \/ found = None /\ Become(j, Idle) /\ UNCHANGED queue
      \/ found # None /\ Become(j, r) /\ UNCHANGED queue
      \/ found # None /\ Become(j, SavingCaller(job[j], caller)) /\ Push("caller", j)
  BY DEF LeaveCaller
<1> HIDE DEF found
<1>5. CASE found = None
  BY <1>3, <1>4, <1>5, IdleType, QuietStepType
<1>6. CASE found # None
  <2>1. caller \in Caller /\ caller # None
    BY <1>1, <1>2, <1>6, RemoveActorType, NoneIsNothing
  <2> HIDE DEF caller
  <2>2. r \in JobRecord
    <3>1. "destroyCaller" \in Command
      BY DEF Command
    <3> QED BY <1>0, <2>1, <3>1 DEF JobRecord
  <2>3. SocketShape(r) /\ ArgumentShape(r)
    BY <1>0, <1>1 DEF Shaped, SocketShape, ArgumentShape, JobRecord, ActorEvent,
       CallerEvent
  <2>4. ActorShape(r) /\ CallerShape(r)
    BY <1>0, <1>1, <2>1 DEF ActorShape, CallerShape, JobRecord
  <2>5. LoopShape(r) /\ NotSaving(r)
    BY <1>0, <1>1 DEF LoopShape, JobRecord, NotSaving
  <2> HIDE DEF r
  <2>6. CASE Become(j, r) /\ UNCHANGED queue
    BY <1>3, <2>2, <2>3, <2>4, <2>5, <2>6, QuietStepType DEF Shaped
  <2>7. CASE Become(j, SavingCaller(job[j], caller)) /\ Push("caller", j)
    BY <1>1, <1>3, <2>1, <2>7, CallerSaveBegins DEF CallerEvent
  <2> QED BY <1>4, <1>6, <2>6, <2>7
<1> QED BY <1>5, <1>6

LEMMA LeaveActorType ==
  ASSUME TypeInv, NEW j \in Job, LeaveActor(j)
  PROVE  TypeInv'
<1>0. job[j] \in JobRecord /\ Shaped(job[j])
  BY DEF TypeInv, TypeOK
<1> DEFINE actor == RemoveCaller(job[j].actor, job[j].caller)
           r == SavingActor(job[j], actor)
<1>1. /\ Become(j, r) /\ out' = {} /\ job[j].ev = "LEAVE"
      /\ \/ CallerSaved(j) /\ FromCallerToActorQueue(j)
         \/ CallerDestroyed(j) /\ Push("actor", j)
  BY DEF LeaveActor
<1>2. UNCHANGED <<conn, actors, actorIdx, callers, invocations, history>>
  BY DEF LeaveActor
<1>3. job[j].pc # "actor"
  BY <1>1 DEF CallerSaved, CallerDestroyed
<1>4. job[j].actor \in Actor /\ job[j].ev # None /\ job[j].sock \in Socket
  BY <1>0, <1>1, <1>3, NoneIsNothing DEF JobRecord, Shaped, ActorShape,
     SocketShape, CallerEvent, Socket
<1>5. /\ callerIdx' \in [CallerSocket -> CallerKey \cup {None}]
      /\ job[j].caller \in Caller /\ job[j].caller # None
      /\ CallerSaved(j) => Turn("caller", j)
  BY <1>1, CallerSavedType, CallerDestroyedType
<1>6. actor \in Actor
  BY <1>4, <1>5, RemoveCallerType
<1> HIDE DEF actor
<1>7. r \in JobRecord /\ Shaped(r) /\ NotSaving(r)
  BY <1>0, <1>1, <1>4, <1>5, <1>6, SavingActorShaped
<1> HIDE DEF r
<1>8. queue' \in [Service -> [Hub -> Seq(Job)]] /\ SavesTakeTurns'
  <2>1. CASE CallerSaved(j) /\ FromCallerToActorQueue(j)
    BY <1>1, <1>4, <1>5, <1>7, <2>1, QueuePassed
  <2>2. CASE CallerDestroyed(j) /\ Push("actor", j)
    BY <1>1, <1>4, <1>7, <2>2, QueuePushed DEF Service
  <2> QED BY <1>1, <2>1, <2>2
<1>9. StorageOK' /\ HistoryOK' /\ conn' \in [Socket -> {"fresh", "open", "gone"}]
  BY <1>2, <1>5 DEF TypeInv, TypeOK, StorageOK, HistoryOK, history
<1> QED BY <1>1, <1>7, <1>8, <1>9, StepType

LEMMA LeaveSavedType ==
  ASSUME TypeInv, NEW j \in Job, LeaveSaved(j)
  PROVE  TypeInv'
<1>0. job[j] \in JobRecord /\ Shaped(job[j])
  BY DEF TypeInv, TypeOK
<1>1. job[j].actor \in Actor /\ job[j].caller \in Caller
  BY <1>0 DEF LeaveSaved, ActorSaved, JobRecord, Shaped, ActorShape, CallerShape
<1>2. job[j].actor.socketId \in Socket /\ job[j].caller.key \in CallerKey
  BY <1>1 DEF Actor, Caller, Socket
<1>3. out' \in SUBSET MessageRecord
  BY <1>2 DEF LeaveSaved, Message, MessageRecord
<1>4. HistoryOK'
  BY DEF LeaveSaved, TypeInv, TypeOK, HistoryOK, history
<1> QED BY <1>3, <1>4, IdleType, SaveEnds DEF LeaveSaved

LEMMA PerformCallerType ==
  ASSUME TypeInv, NEW j \in Job, PerformCaller(j)
  PROVE  TypeInv'
<1>0. job[j] \in JobRecord /\ Shaped(job[j])
  BY DEF TypeInv, TypeOK
<1> DEFINE found == FoundCaller(j)
           r == [job[j] EXCEPT !.caller = found, !.pc = "hsetInvocation"]
<1>1. /\ job[j].ev = "PERFORM" /\ job[j].pc = "caller"
      /\ job[j].sock \in CallerSocket /\ job[j].actor # None
  BY <1>0 DEF PerformCaller, At, Shaped, SocketShape, ActorShape, CallerEvent
<1>2. found \in Caller \cup {None}
  BY FoundCallerType
<1>3. UNCHANGED <<conn, storage, history>> /\ out' = {}
  BY DEF PerformCaller
<1>4. \/ found = None /\ Become(j, Idle) /\ UNCHANGED queue
      \/ found # None /\ Become(j, r) /\ Push("invocation", j)
  BY DEF PerformCaller
<1> HIDE DEF found
<1>5. CASE Become(j, Idle) /\ UNCHANGED queue
  BY <1>3, <1>5, IdleType, QuietStepType
<1>6. CASE found # None /\ Become(j, r) /\ Push("invocation", j)
  <2>1. r \in JobRecord
    <3>1. "hsetInvocation" \in Command
      BY DEF Command
    <3> QED BY <1>0, <1>2, <1>6, <3>1 DEF JobRecord
  <2>2. SocketShape(r) /\ ArgumentShape(r)
    BY <1>0, <1>1 DEF Shaped, SocketShape, ArgumentShape, JobRecord, ActorEvent,
       CallerEvent
  <2>3. ActorShape(r) /\ CallerShape(r)
    BY <1>0, <1>1, <1>6 DEF ActorShape, CallerShape, JobRecord
  <2>4. LoopShape(r) /\ NotSaving(r)
    BY <1>0, <1>1 DEF LoopShape, JobRecord, NotSaving
  <2>5. job[j].sock \in Socket /\ "invocation" \in Service
    BY <1>1 DEF Socket, Service
  <2> HIDE DEF r
  <2>6. queue' \in [Service -> [Hub -> Seq(Job)]] /\ SavesTakeTurns'
    BY <1>6, <2>1, <2>4, <2>5, QueuePushed
  <2>7. StorageOK' /\ HistoryOK' /\ conn' \in [Socket -> {"fresh", "open", "gone"}]
    BY <1>3 DEF TypeInv, TypeOK, StorageOK, HistoryOK, storage, history
  <2> QED BY <1>3, <1>6, <2>1, <2>2, <2>3, <2>4, <2>6, <2>7, StepType DEF Shaped
<1> QED BY <1>4, <1>5, <1>6

LEMMA NoteType ==
  ASSUME HistoryOK, NEW p \in Pid, NEW known,
         call[p] \in CallRecord => known \in CallRecord, Note(p, known),
         UNCHANGED <<join, joined>>
  PROVE  HistoryOK'
BY DEF Note, HistoryOK

LEMMA PerformSavedType ==
  ASSUME TypeInv, NEW j \in Job, PerformSaved(j)
  PROVE  TypeInv'
<1>0. job[j] \in JobRecord /\ Shaped(job[j])
  BY DEF TypeInv, TypeOK
<1> DEFINE p == job[j].pid
           inv == [pid |-> p, caller |-> job[j].caller.key,
                   callerSocket |-> job[j].caller.socketId]
           r == Await(job[j], "send")
<1>1. job[j].ev = "PERFORM" /\ job[j].pc = "hsetInvocation"
  BY <1>0 DEF PerformSaved, Shaped, SocketShape
<1>2. p \in Pid /\ job[j].caller \in Caller
  BY <1>0, <1>1 DEF JobRecord, Shaped, ArgumentShape, CallerShape
<1>4. inv \in Invocation
  BY <1>2 DEF Invocation, Caller
<1>5. /\ invocations' = [invocations EXCEPT ![p] = inv]
      /\ out' = {} /\ Become(j, r) /\ Turn("invocation", j)
      /\ Note(p, [call[p] EXCEPT !.begun = TRUE])
      /\ UNCHANGED <<conn, actors, actorIdx, callers, callerIdx, queue, join, joined>>
  BY DEF PerformSaved
<1> HIDE DEF inv
<1>7. StorageOK' /\ conn' \in [Socket -> {"fresh", "open", "gone"}]
  BY <1>2, <1>4, <1>5 DEF TypeInv, TypeOK, StorageOK
<1>8. HistoryOK'
  <2>1. HistoryOK
    BY DEF TypeInv, TypeOK
  <2>2. call[p] \in CallRecord => [call[p] EXCEPT !.begun = TRUE] \in CallRecord
    BY DEF CallRecord
  <2> QED BY <1>2, <1>5, <2>1, <2>2, NoteType
<1>9. "send" \in Command
  BY DEF Command
<1>10. queue' \in [Service -> [Hub -> Seq(Job)]] /\ SavesTakeTurns'
  BY <1>5, <1>9, TurnKept
<1>11. r \in JobRecord
  BY <1>0, <1>9, AwaitType
<1>12. Shaped(r)
  <2>1. SocketShape(r)
    BY <1>0, <1>1 DEF Await, Shaped, JobRecord, ActorEvent, CallerEvent, SocketShape
  <2>2. ArgumentShape(r)
    BY <1>0, <1>1 DEF Await, JobRecord, Shaped, ArgumentShape
  <2>3. ActorShape(r)
    BY <1>0, <1>1 DEF Await, JobRecord, Shaped, ActorShape
  <2>4. CallerShape(r)
    BY <1>0, <1>1 DEF Await, JobRecord, Shaped, CallerShape
  <2>5. LoopShape(r)
    BY <1>0, <1>1 DEF Await, JobRecord, Shaped, LoopShape
  <2> QED BY <2>1, <2>2, <2>3, <2>4, <2>5 DEF Shaped
<1> HIDE DEF r
<1> QED BY <1>5, <1>7, <1>8, <1>10, <1>11, <1>12, StepType

LEMMA PerformSentType ==
  ASSUME TypeInv, NEW j \in Job, PerformSent(j)
  PROVE  TypeInv'
<1>0. job[j] \in JobRecord /\ Shaped(job[j])
  BY DEF TypeInv, TypeOK
<1> DEFINE p == job[j].pid
           to == job[j].actor.socketId
<1>1. job[j].ev = "PERFORM" /\ job[j].pc = "send"
  BY <1>0 DEF PerformSent, Shaped, SocketShape
<1>2. /\ p \in Pid /\ job[j].sock \in CallerSocket
      /\ job[j].caller \in Caller /\ job[j].actor \in Actor
  BY <1>0, <1>1 DEF JobRecord, Shaped, SocketShape, ArgumentShape, ActorShape,
     CallerShape, CallerEvent
<1>3. to \in ActorSocket /\ job[j].caller.key \in CallerKey
  BY <1>2 DEF Actor, Caller
<1>4. /\ out' = {Message("PERFORM", to, job[j].caller.key, p)}
      /\ Note(p, [call[p] EXCEPT !.to = to])
      /\ UNCHANGED <<conn, storage, join, joined>>
      /\ Pop("invocation", j) /\ Become(j, Idle)
  BY DEF PerformSent
<1>5. Turn("invocation", j)
  BY <1>1 DEF TypeInv, SavesTakeTurns
<1>6. out' \in SUBSET MessageRecord
  BY <1>2, <1>3, <1>4 DEF Message, MessageRecord, Socket
<1>7. StorageOK' /\ conn' \in [Socket -> {"fresh", "open", "gone"}]
  BY <1>4 DEF TypeInv, TypeOK, StorageOK, storage
<1>8. HistoryOK'
  <2>1. HistoryOK
    BY DEF TypeInv, TypeOK
  <2>2. call[p] \in CallRecord => [call[p] EXCEPT !.to = to] \in CallRecord
    BY <1>3 DEF CallRecord
  <2> QED BY <1>2, <1>4, <2>1, <2>2, NoteType
<1>9. job[j].sock \in Socket /\ "invocation" \in Service
  BY <1>2 DEF Socket, Service
<1>10. queue' \in [Service -> [Hub -> Seq(Job)]] /\ SavesTakeTurns'
  BY <1>4, <1>5, <1>9, IdleType, QueuePopped
<1> QED BY <1>4, <1>6, <1>7, <1>8, <1>10, IdleType, StepType

LEMMA CallerPipeFindType ==
  ASSUME TypeInv, NEW j \in Job, CallerPipeFind(j)
  PROVE  TypeInv'
<1>0. job[j] \in JobRecord /\ Shaped(job[j])
  BY DEF TypeInv, TypeOK
<1> DEFINE found == actors[job[j].key]
<1>1. job[j].key \in ActorKey
  BY <1>0 DEF CallerPipeFind, At, JobRecord, Shaped, ArgumentShape
<1>2. found \in Actor \cup {None}
  BY <1>1 DEF TypeInv, TypeOK, StorageOK
<1>3. out' = {} \/ (found # None /\ out' = {Message("PIPE", found.socketId, None,
None)})
  BY DEF CallerPipeFind
<1> HIDE DEF found
<1>4. out' \in SUBSET MessageRecord
  BY <1>2, <1>3 DEF Message, MessageRecord, Actor, Socket
<1> QED BY <1>4, IdleType, QuietStepType DEF CallerPipeFind

LEMMA CallerDisconnectFindType ==
  ASSUME TypeInv, NEW j \in Job, CallerDisconnectFind(j)
  PROVE  TypeInv'
<1>0. job[j] \in JobRecord /\ Shaped(job[j])
  BY DEF TypeInv, TypeOK
<1> DEFINE found == FoundCaller(j)
           t == [job[j] EXCEPT !.caller = found, !.actorsLeft = found.actors]
<1>1. job[j].ev = "CALLER_DISCONNECT" /\ job[j].sock \in CallerSocket
  BY <1>0 DEF CallerDisconnectFind, At, Shaped, SocketShape, CallerEvent
<1>2. found \in Caller \cup {None}
  BY FoundCallerType
<1>3. out' = {} /\ UNCHANGED <<conn, storage, queue, history>>
  BY DEF CallerDisconnectFind
<1>4. \/ Become(j, Idle)
      \/ found # None /\ Become(j, Visiting(t))
  BY DEF CallerDisconnectFind
<1> HIDE DEF found
<1>5. CASE found # None /\ Become(j, Visiting(t))
  <2>1. found.actors \in Seq(ActorKey)
    BY <1>2, <1>5 DEF Caller
  <2>2. t \in JobRecord
    BY <1>0, <1>2, <2>1, ZenonT(60) DEF JobRecord
  <2>3. t.sock = job[j].sock /\ t.caller = found /\ t.ev = job[j].ev
    BY <1>0 DEF JobRecord
  <2> HIDE DEF t
  <2>4. Visiting(t) \in JobRecord /\ Shaped(Visiting(t)) /\ NotSaving(Visiting(t))
    BY <1>1, <1>5, <2>2, <2>3, VisitingType
  <2> QED BY <1>3, <1>5, <2>4, QuietStepType
<1> QED BY <1>3, <1>4, <1>5, IdleType, QuietStepType

LEMMA VisitActorType ==
  ASSUME TypeInv, NEW j \in Job, VisitActor(j)
  PROVE  TypeInv'
<1>0. job[j] \in JobRecord /\ Shaped(job[j])
  BY DEF TypeInv, TypeOK
<1> DEFINE found == actors[Head(job[j].actorsLeft)]
           actor == RemoveCaller(found, job[j].caller)
<1>1. /\ job[j].ev = "CALLER_DISCONNECT" /\ job[j].actorsLeft # <<>>
      /\ job[j].caller \in Caller /\ job[j].caller # None
  BY <1>0 DEF VisitActor, At, JobRecord, Shaped, CallerShape, LoopShape
<1>2. Head(job[j].actorsLeft) \in ActorKey
  BY <1>0, <1>1, HeadTailProperties DEF JobRecord
<1>3. found \in Actor \cup {None}
  BY <1>2 DEF TypeInv, TypeOK, StorageOK
<1>4. UNCHANGED <<conn, storage, history>> /\ out' = {}
  BY DEF VisitActor
<1>5. \/ Become(j, NextActor(job[j])) /\ UNCHANGED queue
      \/ found # None /\ Become(j, SavingActor(job[j], actor)) /\ Push("actor", j)
  BY DEF VisitActor
<1> HIDE DEF found
<1>6. CASE Become(j, NextActor(job[j])) /\ UNCHANGED queue
  <2>1. /\ NextActor(job[j]) \in JobRecord /\ Shaped(NextActor(job[j]))
        /\ NotSaving(NextActor(job[j]))
    BY <1>0, <1>1, NextActorType
  <2> QED BY <1>4, <1>6, <2>1, QuietStepType
<1>7. CASE found # None /\ Become(j, SavingActor(job[j], actor)) /\ Push("actor", j)
  <2>1. actor \in Actor
    BY <1>1, <1>3, <1>7, RemoveCallerType
  <2> HIDE DEF actor
  <2> QED BY <1>1, <1>4, <1>7, <2>1, NoneIsNothing, SaveBegins DEF CallerEvent
<1> QED BY <1>5, <1>6, <1>7

LEMMA VisitSavedType ==
  ASSUME TypeInv, NEW j \in Job, VisitSaved(j)
  PROVE  TypeInv'
<1>0. job[j] \in JobRecord /\ Shaped(job[j])
  BY DEF TypeInv, TypeOK
<1>1. /\ job[j].ev = "CALLER_DISCONNECT" /\ job[j].actorsLeft # <<>>
      /\ job[j].caller \in Caller /\ job[j].caller # None /\ job[j].actor \in Actor
  BY <1>0 DEF VisitSaved, ActorSaved, JobRecord, Shaped, ActorShape, CallerShape,
     LoopShape
<1>2. job[j].actor.socketId \in Socket /\ job[j].caller.key \in CallerKey
  BY <1>1 DEF Actor, Caller, Socket
<1>3. out' \in SUBSET MessageRecord
  BY <1>2 DEF VisitSaved, Message, MessageRecord
<1>4. HistoryOK'
  BY DEF VisitSaved, TypeInv, TypeOK, HistoryOK, history
<1>5. /\ NextActor(job[j]) \in JobRecord /\ Shaped(NextActor(job[j]))
      /\ NotSaving(NextActor(job[j]))
  BY <1>0, <1>1, NextActorType
<1> QED BY <1>3, <1>4, <1>5, SaveEnds DEF VisitSaved

LEMMA CallerListType ==
  ASSUME TypeInv, NEW j \in Job, CallerList(j)
  PROVE  TypeInv'
<1>0. job[j] \in JobRecord /\ Shaped(job[j])
  BY DEF TypeInv, TypeOK
<1>1. job[j].pc \in {"hkeys", "scan"} /\ job[j].ev = "CALLER_DISCONNECT"
  BY DEF CallerList, ListInvocations
<1> QED BY <1>0, <1>1, LeaveHolds, ListInvocationsType DEF CallerList

LEMMA CallerScanType ==
  ASSUME TypeInv, NEW j \in Job, CallerScan(j)
  PROVE  TypeInv'
<1>0. job[j] \in JobRecord /\ Shaped(job[j])
  BY DEF TypeInv, TypeOK
<1>1. job[j].pc \in {"hkeys", "scan"} /\ job[j].ev = "CALLER_DISCONNECT"
  BY DEF CallerScan, ScanInvocation
<1> QED BY <1>0, <1>1, LeaveHolds, ScanInvocationType DEF CallerScan

LEMMA CallerFinishedType ==
  ASSUME TypeInv, NEW j \in Job, CallerFinished(j)
  PROVE  TypeInv'
<1>0. job[j] \in JobRecord /\ Shaped(job[j])
  BY DEF TypeInv, TypeOK
<1>1. /\ job[j].ev = "CALLER_DISCONNECT"
      /\ job[j].pc \in {"destroyInvocation", "hdelInvocation"}
  BY DEF CallerFinished, InvocationDestroyed
<1>2. Leaving(job[j]) \in JobRecord /\ Shaped(Leaving(job[j])) /\ NotSaving(Leaving(job[j]))
  BY <1>0, <1>1, LeaveHolds
<1>3. out' = {} /\ HistoryOK' /\ InvocationDestroyed(j)
  BY FinishedHistory DEF CallerFinished
<1> DEFINE t == FinishNext([job[j] EXCEPT !.hits = Tail(@)], Leaving(job[j]))
<1>4. t \in JobRecord /\ Shaped(t) /\ NotSaving(t)
  BY <1>0, <1>1, <1>2, FinishedOneShape
<1>5. Become(j, t)
  BY DEF CallerFinished
<1> HIDE DEF t
<1> QED BY <1>3, <1>4, <1>5, FinishedStepType DEF CallerFinished

LEMMA CallerDisconnectedType ==
  ASSUME TypeInv, NEW j \in Job, CallerDisconnected(j)
  PROVE  TypeInv'
<1>0. job[j] \in JobRecord /\ Shaped(job[j])
  BY DEF TypeInv, TypeOK
<1>1. callerIdx' \in [CallerSocket -> CallerKey \cup {None}]
  BY CallerDestroyedType DEF CallerDisconnected
<1>2. queue' \in [Service -> [Hub -> Seq(Job)]] /\ SavesTakeTurns'
  BY IdleType, QueueKept DEF CallerDisconnected
<1>3. StorageOK' /\ HistoryOK' /\ conn' \in [Socket -> {"fresh", "open", "gone"}]
  BY <1>1 DEF CallerDisconnected, TypeInv, TypeOK, StorageOK, HistoryOK, history
<1> QED BY <1>2, <1>3, IdleType, StepType DEF CallerDisconnected

-----------------------------------------------------------------------------
(* The hub *)

LEMMA ConnectType ==
  ASSUME TypeInv, NEW s \in Socket, Connect(s)
  PROVE  TypeInv'
<1>1. conn' \in [Socket -> {"fresh", "open", "gone"}] /\ out' = {}
  BY DEF Connect, TypeInv, TypeOK
<1>2. UNCHANGED <<storage, queue, job, history>>
  BY DEF Connect
<1>3. StorageOK' /\ HistoryOK'
  BY <1>2 DEF TypeInv, TypeOK, StorageOK, HistoryOK, storage, history
<1>4. \A j \in Job : Shaped(job[j])'
  BY <1>2 DEF TypeInv
<1>5. SavesTakeTurns'
  BY <1>2 DEF TypeInv, SavesTakeTurns, Turn, Waiting
<1> QED BY <1>1, <1>2, <1>3, <1>4, <1>5 DEF TypeInv, TypeOK

LEMMA CrashType ==
  ASSUME TypeInv, NEW h \in Hub, Crash(h)
  PROVE  TypeInv'
<1>1. conn' \in [Socket -> {"fresh", "open", "gone"}] /\ out' = {}
  BY DEF Crash, TypeInv, TypeOK
<1>2. /\ job' = [j \in Job |-> IF job[j] # Idle /\ HubOf[job[j].sock] = h THEN Idle ELSE job[j]]
      /\ queue' = [svc \in Service |-> [queue[svc] EXCEPT ![h] = <<>>]]
      /\ UNCHANGED <<storage, join, joined>>
  BY DEF Crash
<1>3. StorageOK' /\ HistoryOK'
  <2>1. StorageOK'
    BY <1>2 DEF TypeInv, TypeOK, StorageOK, storage
  <2>2. \A p \in Pid :
          call'[p] = call[p] \/ (call[p] # None /\ call'[p] = [call[p] EXCEPT !.lost = TRUE])
    BY DEF Crash
  <2>3. \A c \in CallRecord : [c EXCEPT !.lost = TRUE] \in CallRecord
    BY DEF CallRecord
  <2>4. call' = [p \in Pid |-> call'[p]]
    BY DEF Crash
  <2>5. call \in [Pid -> CallRecord \cup {None}]
    BY DEF TypeInv, TypeOK, HistoryOK
  <2>6. \A p \in Pid : call'[p] \in CallRecord \cup {None}
    BY <2>2, <2>3, <2>5
  <2>7. call' \in [Pid -> CallRecord \cup {None}]
    BY <2>4, <2>6
  <2> QED BY <1>2, <2>1, <2>7 DEF TypeInv, TypeOK, HistoryOK
<1>4. ASSUME NEW j \in Job
      PROVE  /\ job'[j] \in JobRecord /\ Shaped(job'[j])
             /\ ~ NotSaving(job'[j]) => job'[j] = job[j] /\ HubOf[job[j].sock] # h
  <2>1. job[j] \in JobRecord /\ Shaped(job[j])
    BY DEF TypeInv, TypeOK
  <2>2. CASE job[j] # Idle /\ HubOf[job[j].sock] = h
    BY <1>2, <2>2, IdleType
  <2>3. CASE ~ (job[j] # Idle /\ HubOf[job[j].sock] = h)
    BY <1>2, <2>1, <2>3, IdleType
  <2> QED BY <2>2, <2>3
<1>5. job' \in [Job -> JobRecord]
  BY <1>2, <1>4
<1>6. queue' \in [Service -> [Hub -> Seq(Job)]]
  BY <1>2, EmptySeq DEF TypeInv, TypeOK
<1>7. ASSUME NEW j \in Job, NEW svc \in Service, ~ NotSaving(job'[j]), Turn(svc, j)
      PROVE  Turn(svc, j)'
  <2>1. job'[j] = job[j] /\ HubOf[job[j].sock] # h /\ HubOf[job[j].sock] \in Hub
    BY <1>4, <1>7, SavingHasSocket
  <2>2. queue'[svc][HubOf[job[j].sock]] = queue[svc][HubOf[job[j].sock]]
    BY <1>2, <2>1 DEF TypeInv, TypeOK
  <2> QED BY <1>7, <2>1, <2>2 DEF Turn, Waiting
<1>8. SavesTakeTurns'
  BY <1>4, <1>7 DEF TypeInv, SavesTakeTurns, NotSaving, Service
<1>9. \A j \in Job : Shaped(job[j])'
  BY <1>4
<1> QED BY <1>1, <1>3, <1>5, <1>6, <1>8, <1>9 DEF TypeInv, TypeOK

LEMMA InitType == Init => TypeInv
<1> SUFFICES ASSUME Init PROVE TypeInv
  OBVIOUS
<1>1. StorageOK /\ HistoryOK /\ conn \in [Socket -> {"fresh", "open", "gone"}] /\ out = {}
  BY DEF Init, StorageOK, HistoryOK
<1>2. queue \in [Service -> [Hub -> Seq(Job)]]
  BY EmptySeq DEF Init
<1>3. job \in [Job -> JobRecord] /\ \A j \in Job : Shaped(job[j]) /\ NotSaving(job[j])
  BY IdleType DEF Init
<1>4. SavesTakeTurns
  BY <1>3 DEF SavesTakeTurns, NotSaving
<1> QED BY <1>1, <1>2, <1>3, <1>4 DEF TypeInv, TypeOK

LEMMA ServiceStepType ==
  ASSUME TypeInv, NEW j \in Job, ServiceStep(j)
  PROVE  TypeInv'
BY HsetActorType, HsetCallerType, FindActorBySocketType, FindCallerBySocketType,
   ReadToDestroyActorType, HdelActorType, ReadToDestroyCallerType, HdelCallerType,
   ReadToDestroyInvocationType DEF ServiceStep

LEMMA ActorStepType ==
  ASSUME TypeInv, NEW j \in Job, ActorStep(j)
  PROVE  TypeInv'
BY HiFindType, HiSavedType, UpdateFindType, ByeSavedType, SpecSavedType,
   ActorPipeFindType, CastType, ResultFindType, ResultFinishedType, ResultRepliedType,
   ActorDisconnectFindType, SweepCallerType, SweepListType, SweepScanType,
   SweepFinishedType, SweepRepliedType, ActorDisconnectedType DEF ActorStep

LEMMA CallerStepType ==
  ASSUME TypeInv, NEW j \in Job, CallerStep(j)
  PROVE  TypeInv'
BY RequestFindType, JoinCallerType, JoinCallerSavedType, JoinSavedType,
   LeaveCallerType, LeaveActorType, LeaveSavedType, PerformCallerType,
   PerformSavedType, PerformSentType, CallerPipeFindType, CallerDisconnectFindType, VisitActorType,
   VisitSavedType, CallerListType, CallerScanType, CallerFinishedType,
   CallerDisconnectedType DEF CallerStep

LEMMA NextType ==
  ASSUME TypeInv, Next
  PROVE  TypeInv'
<1>1. ASSUME NEW j \in Job, ActorRequest(j) PROVE TypeInv'
  BY <1>1, HiType, ActorPipeType, UpdateSpecType, DelSpecType, ResultType, ByeType,
     ActorDisconnectType DEF ActorRequest
<1>2. ASSUME NEW j \in Job, CallerRequest(j) PROVE TypeInv'
  BY <1>2, JoinType, LeaveType, PerformType, CallerPipeType, CallerDisconnectType
     DEF CallerRequest
<1>3. ASSUME NEW j \in Job, HandlerStep(j) PROVE TypeInv'
  BY <1>3, ServiceStepType, ActorStepType, CallerStepType DEF HandlerStep
<1> QED BY <1>1, <1>2, <1>3, ConnectType, CrashType DEF Next

LEMMA StutterType ==
  ASSUME TypeInv, UNCHANGED vars
  PROVE  TypeInv'
<1>1. StorageOK' /\ HistoryOK'
  BY DEF TypeInv, TypeOK, StorageOK, HistoryOK, vars, storage, history
<1>2. SavesTakeTurns'
  BY DEF TypeInv, SavesTakeTurns, Turn, Waiting, vars
<1> QED BY <1>1, <1>2 DEF TypeInv, TypeOK, vars

\* What every job holds at every command, and who has the turn in the queues.
THEOREM TypeInvariant == Spec => []TypeInv
<1>1. TypeInv /\ [Next]_vars => TypeInv'
  BY NextType, StutterType
<1> QED BY <1>1, InitType, PTL DEF Spec

\* Storage, handlers and messages keep their types in every run of the hub,
\* whatever the number of processes, sockets, keys, calls and handlers in flight.
THEOREM TypeCorrect == Spec => []TypeOK
<1>1. TypeInv => TypeOK
  BY DEF TypeInv
<1> QED BY <1>1, TypeInvariant, PTL

=============================================================================
