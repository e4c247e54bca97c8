----------------------------- MODULE Observers ------------------------------
(***************************************************************************)
(* Observers of one hub process (lib/connectors/observer_connector.js,     *)
(* lib/services/observer_service.js): their entities in storage, and their *)
(* listeners on the actor service and the caller service, which pass on as *)
(* CHANGE what these services emit (SETUP, UPDATE, TEARDOWN; JOIN, LEAVE). *)
(* As in Services, a job is at the storage command it awaits (pc), and one *)
(* step is the effect of that command with the code that runs on its reply.*)
(***************************************************************************)
EXTENDS Naturals, Sequences, FiniteSets

CONSTANTS
  ObserverSocket,  \* ids of sockets connected to the observer endpoint
  Polite,          \* those that wait for each ack and START or STOP in turn
  ObserverKey,     \* uuids the hub draws for observers (bound)
  Job,             \* handlers that may be in flight at a time (bound)
  MaxListener,     \* STARTs in force for one socket (bound)
  None

ASSUME PoliteSockets == Polite \subseteq ObserverSocket
ASSUME NoneIsNoObserver ==
  None \notin ObserverSocket \cup ObserverKey \cup {"START", "STOP", "DISCONNECT"}

VARIABLES
  conn,         \* socket -> "open" or "gone"
  observers,    \* sg:observer:entities
  observerIdx,  \* sg:observer:indices:socketId
  queue,        \* the jobs that save, in order
  job,          \* the handlers in flight
  listeners,    \* service -> socket -> times its listeners are registered
  out,          \* the CHANGE copies of the latest emission
  client,       \* history: what the socket's client was last told
  drawn,        \* history: the socket each uuid was drawn for
  trouble       \* history: sockets that hung up, or whose storage command
                \* rejected, while a handler of theirs was in flight

storage == <<observers, observerIdx>>
history == <<client, drawn, trouble>>
vars == <<conn, storage, queue, job, listeners, out, history>>

Emitter == {"actor", "caller"}  \* the services observers listen to

Observer == [key : ObserverKey, socketId : ObserverSocket, observing : BOOLEAN]
ASSUME NoneIsNoEntity == None \notin Observer

Idle == [ev |-> None, sock |-> None, pc |-> "idle", key |-> None, entity |-> None]
Silent == [svc |-> None, copies |-> [s \in ObserverSocket |-> 0]]

Init ==
  /\ conn = [s \in ObserverSocket |-> "open"]
  /\ observers = [k \in ObserverKey |-> None]
  /\ observerIdx = [s \in ObserverSocket |-> None]
  /\ queue = <<>>
  /\ job = [j \in Job |-> Idle]
  /\ listeners = [svc \in Emitter |-> [s \in ObserverSocket |-> 0]]
  /\ out = Silent
  /\ client = [s \in ObserverSocket |-> "stopped"]
  /\ drawn = [k \in ObserverKey |-> None]
  /\ trouble = {}

-----------------------------------------------------------------------------
(* Jobs *)

InFlight(s) == {j \in Job : job[j].sock = s}
At(j, ev, pc) == job[j].ev = ev /\ job[j].pc = pc
Become(j, r) == job' = [job EXCEPT ![j] = r]

Take(j, ev, s) ==
  /\ job[j] = Idle
  /\ conn[s] = "open"
  /\ Become(j, [Idle EXCEPT !.ev = ev, !.sock = s, !.pc = "idx"])

\* The ack of job j: the client learns how its request ended.
Told(j, how) == client' = [client EXCEPT ![job[j].sock] = how]

\* What the client is back to when its request is answered with NG.
Before(ev) == IF ev = "START" THEN "stopped" ELSE "started"

Turn(j) == queue # <<>> /\ Head(queue) = j

-----------------------------------------------------------------------------
(* Requests and disconnections *)

Start(j, s) ==
  /\ s \in Polite => client[s] = "stopped"
  /\ listeners["actor"][s] + Cardinality(InFlight(s)) < MaxListener
  /\ Cardinality({i \in Job : job[i].ev = "START"})
       < Cardinality({k \in ObserverKey : drawn[k] = None})
  /\ Take(j, "START", s)
  /\ client' = [client EXCEPT ![s] = "starting"]
  /\ UNCHANGED <<conn, storage, queue, listeners, drawn, trouble>>

Stop(j, s) ==
  /\ s \in Polite => client[s] = "started"
  /\ Take(j, "STOP", s)
  /\ client' = [client EXCEPT ![s] = "stopping"]
  /\ UNCHANGED <<conn, storage, queue, listeners, drawn, trouble>>

\* The listeners on the two services stay as they are.
Disconnect(j, s) ==
  /\ Take(j, "DISCONNECT", s)
  /\ conn' = [conn EXCEPT ![s] = "gone"]
  /\ trouble' = IF InFlight(s) = {} THEN trouble ELSE trouble \cup {s}
  /\ UNCHANGED <<storage, queue, listeners, client, drawn>>

-----------------------------------------------------------------------------
(* findBySocketId: the index, then the entity; find(null) gives null. *)

FindKey(j) ==
  /\ job[j].pc = "idx"
  /\ Become(j, [job[j] EXCEPT !.key = observerIdx[job[j].sock], !.pc = "entity"])
  /\ UNCHANGED <<conn, storage, queue, listeners, history>>

Found(j) == IF job[j].key = None THEN None ELSE observers[job[j].key]

\* Service.save: the entity waits for its turn to be written.
Save(j, entity) ==
  /\ Become(j, [job[j] EXCEPT !.entity = entity, !.pc = "hset"])
  /\ queue' = Append(queue, j)

Started(entity, s) == [entity EXCEPT !.socketId = s, !.observing = TRUE]
NewObserver(key, s) == [key |-> key, socketId |-> s, observing |-> TRUE]

StartFound(j) ==
  /\ At(j, "START", "entity")
  /\ Found(j) # None
  /\ Save(j, Started(Found(j), job[j].sock))
  /\ UNCHANGED <<conn, storage, listeners, history>>

\* Fault: the keys of observers are not drawn to differ.
StartNewAnyKey(j) ==
  /\ At(j, "START", "entity")
  /\ Found(j) = None
  /\ \E k \in ObserverKey :
       /\ drawn' = [drawn EXCEPT ![k] = job[j].sock]
       /\ Save(j, NewObserver(k, job[j].sock))
  /\ UNCHANGED <<conn, storage, listeners, client, trouble>>

StartNew(j) ==
  /\ At(j, "START", "entity")
  /\ Found(j) = None
  /\ \E k \in ObserverKey :
       /\ drawn[k] = None
       /\ drawn' = [drawn EXCEPT ![k] = job[j].sock]
       /\ Save(j, NewObserver(k, job[j].sock))
  /\ UNCHANGED <<conn, storage, listeners, client, trouble>>

\* Fault: STOP does not clear the flag.
StopFoundUnmarked(j) ==
  /\ At(j, "STOP", "entity")
  /\ Found(j) # None
  /\ Save(j, Found(j))
  /\ UNCHANGED <<conn, storage, listeners, history>>

StopFound(j) ==
  /\ At(j, "STOP", "entity")
  /\ Found(j) # None
  /\ Save(j, [Found(j) EXCEPT !.observing = FALSE])
  /\ UNCHANGED <<conn, storage, listeners, history>>

\* stopObserving found nothing: reading its socketId throws, the ack is NG.
StopMissed(j) ==
  /\ At(j, "STOP", "entity")
  /\ Found(j) = None
  /\ Become(j, Idle)
  /\ Told(j, Before("STOP"))
  /\ UNCHANGED <<conn, storage, queue, listeners, drawn, trouble>>

\* Fault: DISCONNECT marks the observer instead of destroying it.
DisconnectMarks(j) ==
  /\ At(j, "DISCONNECT", "entity")
  /\ Become(j, Idle)
  /\ UNCHANGED <<conn, storage, queue, listeners, history>>

DisconnectFind(j) ==
  /\ At(j, "DISCONNECT", "entity")
  /\ Become(j, IF Found(j) = None THEN Idle ELSE [job[j] EXCEPT !.pc = "destroy"])
  /\ UNCHANGED <<conn, storage, queue, listeners, history>>

-----------------------------------------------------------------------------
(* The two writes of a save, and the listeners once both are done *)

Hset(j) ==
  /\ job[j].pc = "hset"
  /\ Turn(j)
  /\ observers' = [observers EXCEPT ![job[j].entity.key] = job[j].entity]
  /\ Become(j, [job[j] EXCEPT !.pc = "hsetIdx"])
  /\ UNCHANGED <<conn, observerIdx, queue, listeners, history>>

\* Fault: the index is written without the queue being released.
SavedQueueHeld(j) ==
  /\ observerIdx' = [observerIdx EXCEPT ![job[j].entity.socketId] = job[j].entity.key]
  /\ Become(j, Idle)
  /\ UNCHANGED <<observers, queue>>

Saved(j) ==
  /\ observerIdx' = [observerIdx EXCEPT ![job[j].entity.socketId] = job[j].entity.key]
  /\ queue' = Tail(queue)
  /\ Become(j, Idle)
  /\ UNCHANGED observers

registerListeners(s) ==
  listeners' = [svc \in Emitter |-> [listeners[svc] EXCEPT ![s] = @ + 1]]

\* Fault: only the listeners on the actor service are removed.
deregisterActorListeners(s) ==
  listeners' = [listeners EXCEPT !["actor"][s] = IF @ = 0 THEN 0 ELSE @ - 1]

\* Fault: the registrations are counted, and counted down unasked.
deregisterUnregistered(s) ==
  listeners' = [svc \in Emitter |-> [listeners[svc] EXCEPT ![s] = @ - 1]]

\* removeListener takes one registration away, if there is one.
deregisterListeners(s) ==
  listeners' = [svc \in Emitter |->
                  [listeners[svc] EXCEPT ![s] = IF @ = 0 THEN 0 ELSE @ - 1]]

StartSaved(j) ==
  /\ At(j, "START", "hsetIdx")
  /\ Saved(j)
  /\ registerListeners(job[j].sock)
  /\ Told(j, "started")
  /\ UNCHANGED <<conn, drawn, trouble>>

StopSaved(j) ==
  /\ At(j, "STOP", "hsetIdx")
  /\ Saved(j)
  /\ deregisterListeners(job[j].sock)
  /\ Told(j, "stopped")
  /\ UNCHANGED <<conn, drawn, trouble>>

-----------------------------------------------------------------------------
(* Service.destroy *)

ReadToDestroy(j) ==
  /\ job[j].pc = "destroy"
  /\ Become(j, IF Found(j) = None THEN Idle
               ELSE [job[j] EXCEPT !.entity = Found(j), !.pc = "hdel"])
  /\ UNCHANGED <<conn, storage, queue, listeners, history>>

Hdel(j) ==
  /\ job[j].pc = "hdel"
  /\ observers' = [observers EXCEPT ![job[j].key] = None]
  /\ Become(j, [job[j] EXCEPT !.pc = "hdelIdx"])
  /\ UNCHANGED <<conn, observerIdx, queue, listeners, history>>

\* Fault: the index of another socket goes too.
HdelEveryIdx(j) ==
  /\ job[j].pc = "hdelIdx"
  /\ observerIdx' = [s \in ObserverSocket |-> None]
  /\ Become(j, Idle)
  /\ UNCHANGED <<conn, observers, queue, listeners, history>>

HdelIdx(j) ==
  /\ job[j].pc = "hdelIdx"
  /\ observerIdx' = [observerIdx EXCEPT ![job[j].entity.socketId] = None]
  /\ Become(j, Idle)
  /\ UNCHANGED <<conn, observers, queue, listeners, history>>

-----------------------------------------------------------------------------
(* The storage command job j awaits rejects, without effect.  START and STOP *)
(* are answered NG before any listener is touched; a DISCONNECT just ends.   *)

Saving(j) == job[j].pc \in {"hset", "hsetIdx"}

Reject(j) ==
  /\ job[j] # Idle
  /\ job[j].pc = "entity" => job[j].key # None
  /\ Saving(j) => Turn(j)
  /\ queue' = IF Saving(j) THEN Tail(queue) ELSE queue
  /\ client' = IF job[j].ev = "DISCONNECT" THEN client
               ELSE [client EXCEPT ![job[j].sock] = Before(job[j].ev)]
  /\ trouble' = trouble \cup {job[j].sock}
  /\ Become(j, Idle)
  /\ UNCHANGED <<conn, storage, listeners, drawn>>

-----------------------------------------------------------------------------
(* A handler of an actor or of a caller has saved, and its service emits:    *)
(* every listener on the service sends a CHANGE; to a gone socket it is lost. *)

Emit(svc) ==
  /\ out' = [svc |-> svc,
             copies |-> [s \in ObserverSocket |->
                           IF conn[s] = "open" THEN listeners[svc][s] ELSE 0]]
  /\ UNCHANGED <<conn, storage, queue, job, listeners, history>>

RequestStep(j) ==
  /\ out' = Silent
  /\ \E s \in ObserverSocket : Start(j, s) \/ Stop(j, s) \/ Disconnect(j, s)

HandlerStep(j) ==
  /\ out' = Silent
  /\ \/ FindKey(j)
     \/ StartFound(j) \/ StartNew(j) \/ StopFound(j) \/ StopMissed(j)
     \/ DisconnectFind(j)
     \/ Hset(j) \/ StartSaved(j) \/ StopSaved(j)
     \/ ReadToDestroy(j) \/ Hdel(j) \/ HdelIdx(j)

RejectStep(j) == out' = Silent /\ Reject(j)

Next ==
  \/ \E j \in Job : RequestStep(j) \/ HandlerStep(j) \/ RejectStep(j)
  \/ \E svc \in Emitter : Emit(svc)

Spec == Init /\ [][Next]_vars

\* The storage answers every command, so every handler goes on.
FairSpec == Spec /\ \A j \in Job : WF_vars(HandlerStep(j))

-----------------------------------------------------------------------------
(* Properties *)

ClientState == {"stopped", "starting", "started", "stopping"}

JobRecord ==
  [ev : {"START", "STOP", "DISCONNECT", None},
   sock : ObserverSocket \cup {None},
   pc : {"idle", "idx", "entity", "hset", "hsetIdx", "destroy", "hdel", "hdelIdx"},
   key : ObserverKey \cup {None},
   entity : Observer \cup {None}]

TypeOK ==
  /\ conn \in [ObserverSocket -> {"open", "gone"}]
  /\ observers \in [ObserverKey -> Observer \cup {None}]
  /\ observerIdx \in [ObserverSocket -> ObserverKey \cup {None}]
  /\ queue \in Seq(Job)
  /\ job \in [Job -> JobRecord]
  /\ listeners \in [Emitter -> [ObserverSocket -> Nat]]
  /\ out \in [svc : Emitter \cup {None}, copies : [ObserverSocket -> Nat]]
  /\ client \in [ObserverSocket -> ClientState]
  /\ drawn \in [ObserverKey -> ObserverSocket \cup {None}]
  /\ trouble \in SUBSET ObserverSocket

\* An entity and an index entry belong to the socket the uuid was drawn for:
\* no handler of one observer, however delayed, writes or deletes another's.
EntitiesOwned ==
  /\ \A k \in ObserverKey : observers[k] # None =>
       observers[k].key = k /\ observers[k].socketId = drawn[k]
  /\ \A s \in ObserverSocket : observerIdx[s] # None => drawn[observerIdx[s]] = s

\* While listeners of an open socket are registered, its index leads to an
\* entity: a STOP is never refused because stopObserving finds nothing,
\* although listeners live in memory and entities in storage.
StopReaches ==
  \A s \in ObserverSocket, svc \in Emitter :
    conn[s] = "open" /\ listeners[svc][s] > 0 =>
      observerIdx[s] # None /\ observers[observerIdx[s]] # None

\* A client that was told it is observing gets each event of either service
\* once; one that was told it is not, or never asked, gets none.
HeardOnce ==
  \A s \in Polite : out.svc # None /\ conn[s] = "open" =>
    /\ client[s] = "started" => out.copies[s] = 1
    /\ client[s] = "stopped" => out.copies[s] = 0

\* The stored entity says whether its client is observing, as long as no
\* storage command of the socket was rejected.
ObservingSaved ==
  \A s \in Polite \ trouble : conn[s] = "open" =>
    LET k == observerIdx[s] IN
      /\ client[s] = "started" => k # None /\ observers[k].observing
      /\ client[s] = "stopped" => k = None \/ ~observers[k].observing

\* A socket that hung up between its requests leaves no entity and no index
\* once its DISCONNECT is handled.  (Its listeners stay, see README.)
RestingLeavesNothing ==
  \A s \in Polite \ trouble : conn[s] = "gone" /\ InFlight(s) = {} =>
    /\ observerIdx[s] = None
    /\ \A k \in ObserverKey : observers[k] # None => observers[k].socketId # s

\* Every START and STOP is answered: no save of any observer holds up the
\* queue for ever.
RequestsAnswered ==
  \A s \in Polite :
    client[s] \in {"starting", "stopping"} ~> client[s] \in {"started", "stopped"}
=============================================================================
