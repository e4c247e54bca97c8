------------------------------ MODULE Services ------------------------------
(***************************************************************************)
(* The storage shared by the hub processes, the save queue of each service *)
(* and the socket event handlers in flight (lib/services).                 *)
(*                                                                         *)
(* A handler is an async function.  It runs without interruption from one  *)
(* await to the next, so a job is at the storage command it awaits (pc),   *)
(* and one step is that command's effect with the code that runs on its    *)
(* reply, up to the next command.  Where the process may stop between the  *)
(* two and a property can tell, they are two steps: an invocation is       *)
(* written, then PERFORM goes out ("send"); it is deleted, then RESULT     *)
(* does ("reply").  Commands of different handlers are ordered by nothing  *)
(* but the save queues.                                                    *)
(***************************************************************************)
EXTENDS Entities

CONSTANTS
  Hub,        \* hub processes on one storage
  HubOf,      \* the hub process each socket connects to
  Job,        \* handlers that may be in flight at a time (bound)
  Event       \* the events that occur in this instance

Socket == ActorSocket \cup CallerSocket
Service == {"actor", "caller", "invocation"}

ActorEvent == {"HI", "BYE", "SPEC", "DESPEC", "RESULT", "ACTOR_PIPE",
               "ACTOR_DISCONNECT"}
CallerEvent == {"JOIN", "LEAVE", "PERFORM", "CALLER_PIPE",
                "CALLER_DISCONNECT"}

ASSUME NoneIsNothing ==
  /\ None \notin ActorKey \cup CallerKey \cup Pid \cup SpecName \cup Socket
  /\ None \notin Actor \cup Caller \cup Invocation
  /\ None \notin ActorEvent \cup CallerEvent
ASSUME JobsFinite == IsFiniteSet(Job)
ASSUME SocketsDiffer == ActorSocket \cap CallerSocket = {}
ASSUME HubOfSockets == HubOf \in [Socket -> Hub]
ASSUME EventsKnown == Event \subseteq ActorEvent \cup CallerEvent \cup {"CRASH"}

VARIABLES
  conn,         \* socket -> "fresh", "open" or "gone"
  actors,       \* sg:actor:entities
  actorIdx,     \* sg:actor:indices:socketId
  callers,      \* sg:caller:entities
  callerIdx,    \* sg:caller:indices:socketId
  invocations,  \* sg:invocation:entities
  queue,        \* the sg-queue of each service of each hub: jobs that save
  job,          \* the handlers in flight
  out,          \* the messages the latest step emitted
  join,         \* history: the JOIN request each caller uuid was drawn for
  call,         \* history: the PERFORM request each pid was drawn for
  joined        \* the actors each caller's client takes itself to be joined to

storage == <<actors, actorIdx, callers, callerIdx, invocations>>
history == <<join, call, joined>>
vars == <<conn, storage, queue, job, out, history>>

-----------------------------------------------------------------------------
(* Jobs *)

Idle == [ev |-> None, sock |-> None, pc |-> "idle", key |-> None,
         name |-> None, uuid |-> None, ckey |-> None, pid |-> None, actor |-> None,
         caller |-> None, callersLeft |-> <<>>, actorsLeft |-> <<>>,
         scan |-> {}, hits |-> <<>>]

Request(ev, s, pc) == [Idle EXCEPT !.ev = ev, !.sock = s, !.pc = pc]

\* A job slot takes up a request that socket s sends (or its disconnection).
Start(j, ev, s, r) ==
  /\ ev \in Event
  /\ job[j] = Idle
  /\ conn[s] = "open"
  /\ job' = [job EXCEPT ![j] = r]

At(j, ev, pc) == job[j].ev = ev /\ job[j].pc = pc
Become(j, r) == job' = [job EXCEPT ![j] = r]
Await(r, pc) == [r EXCEPT !.pc = pc]

-----------------------------------------------------------------------------
(* Messages.  One emitted to a socket that is gone is lost. *)

Message(ev, to, key, pid) == [ev |-> ev, to |-> to, key |-> key, pid |-> pid]

-----------------------------------------------------------------------------
(* Service.save: the job waits for its turn, writes the entity, then its    *)
(* index, and only then lets the next one in.                               *)

Waiting(svc, j) == queue[svc][HubOf[job[j].sock]]
Turn(svc, j) == Waiting(svc, j) # <<>> /\ Head(Waiting(svc, j)) = j

\* The queues with the job's own replaced by list.
Queued(svc, j, list) == [queue[svc] EXCEPT ![HubOf[job[j].sock]] = list]
Requeue(svc, j, list) == queue' = [queue EXCEPT ![svc] = Queued(svc, j, list)]

Push(svc, j) == Requeue(svc, j, Append(Waiting(svc, j), j))
Pop(svc, j) == Requeue(svc, j, Tail(Waiting(svc, j)))

SavingActor(r, actor) == [r EXCEPT !.actor = actor, !.pc = "hsetActor"]
SavingCaller(r, caller) == [r EXCEPT !.caller = caller, !.pc = "hsetCaller"]

HsetActor(j) ==
  /\ job[j].pc = "hsetActor"
  /\ Turn("actor", j)
  /\ actors' = [actors EXCEPT ![job[j].actor.key] = job[j].actor]
  /\ Become(j, Await(job[j], "hsetActorIdx"))
  /\ out' = {}
  /\ UNCHANGED <<conn, actorIdx, callers, callerIdx, invocations, queue, history>>

HsetCaller(j) ==
  /\ job[j].pc = "hsetCaller"
  /\ Turn("caller", j)
  /\ callers' = [callers EXCEPT ![job[j].caller.key] = job[j].caller]
  /\ Become(j, Await(job[j], "hsetCallerIdx"))
  /\ out' = {}
  /\ UNCHANGED <<conn, actors, actorIdx, callerIdx, invocations, queue, history>>

\* Fault: the queue is not released when a save ends.
ActorSavedQueueHeld(j, r) ==
  /\ job[j].pc = "hsetActorIdx"
  /\ actorIdx' = [actorIdx EXCEPT ![job[j].actor.socketId] = job[j].actor.key]
  /\ UNCHANGED queue
  /\ Become(j, r)

\* The index write that ends a save; the handler goes on as r.
ActorSaved(j, r) ==
  /\ job[j].pc = "hsetActorIdx"
  /\ actorIdx' = [actorIdx EXCEPT ![job[j].actor.socketId] = job[j].actor.key]
  /\ Pop("actor", j)
  /\ Become(j, r)

-----------------------------------------------------------------------------
(* Service.findByIndex: the index first, then the entity.  A socket with no *)
(* index ends every handler of actors that asks: the strict ones throw, and *)
(* DISCONNECT returns.                                                      *)

FindActorBySocket(j) ==
  /\ job[j].pc = "actorIdx"
  /\ LET key == actorIdx[job[j].sock] IN
       Become(j, IF key = None THEN Idle
                 ELSE [job[j] EXCEPT !.key = key, !.pc = "actor"])
  /\ out' = {}
  /\ UNCHANGED <<conn, storage, queue, history>>

\* JOIN, PERFORM and DISCONNECT go on to find(null), which retries and gives
\* null; LEAVE is strict.
FindCallerBySocket(j) ==
  /\ job[j].pc = "callerIdx"
  /\ LET key == callerIdx[job[j].sock] IN
       Become(j, IF key = None /\ job[j].ev = "LEAVE" THEN Idle
                 ELSE [job[j] EXCEPT !.ckey = key, !.pc = "caller"])
  /\ out' = {}
  /\ UNCHANGED <<conn, storage, queue, history>>

\* Service.find of the caller whose key the index gave.
FoundCaller(j) == IF job[j].ckey = None THEN None ELSE callers[job[j].ckey]

-----------------------------------------------------------------------------
(* Service.destroy: read the entity, delete it, delete its index.  It does  *)
(* not go through the save queue.  XDestroyed ends it: the index is gone, or *)
(* there was no entity to destroy.                                          *)

ReadToDestroyActor(j) ==
  /\ job[j].pc = "destroyActor"
  /\ actors[job[j].actor.key] # None
  /\ Become(j, [job[j] EXCEPT !.actor = actors[job[j].actor.key],
                              !.pc = "hdelActor"])
  /\ out' = {}
  /\ UNCHANGED <<conn, storage, queue, history>>

\* Fault: the callers on the list are deleted with the actor.
HdelActorAndCallers(j) ==
  /\ job[j].pc = "hdelActor"
  /\ actors' = [actors EXCEPT ![job[j].actor.key] = None]
  /\ callers' = [c \in CallerKey |-> IF c \in ToSet(job[j].actor.callers) THEN None
                                     ELSE callers[c]]
  /\ Become(j, Await(job[j], "hdelActorIdx"))
  /\ out' = {}
  /\ UNCHANGED <<conn, actorIdx, callerIdx, invocations, queue, history>>

HdelActor(j) ==
  /\ job[j].pc = "hdelActor"
  /\ actors' = [actors EXCEPT ![job[j].actor.key] = None]
  /\ Become(j, Await(job[j], "hdelActorIdx"))
  /\ out' = {}
  /\ UNCHANGED <<conn, actorIdx, callers, callerIdx, invocations, queue, history>>

ActorDestroyed(j) ==
  \/ /\ job[j].pc = "destroyActor"
     /\ actors[job[j].actor.key] = None
     /\ UNCHANGED actorIdx
  \/ /\ job[j].pc = "hdelActorIdx"
     /\ actorIdx' = [actorIdx EXCEPT ![job[j].actor.socketId] = None]

ReadToDestroyCaller(j) ==
  /\ job[j].pc = "destroyCaller"
  /\ callers[job[j].caller.key] # None
  /\ Become(j, [job[j] EXCEPT !.caller = callers[job[j].caller.key],
                              !.pc = "hdelCaller"])
  /\ out' = {}
  /\ UNCHANGED <<conn, storage, queue, history>>

HdelCaller(j) ==
  /\ job[j].pc = "hdelCaller"
  /\ callers' = [callers EXCEPT ![job[j].caller.key] = None]
  /\ Become(j, Await(job[j], "hdelCallerIdx"))
  /\ out' = {}
  /\ UNCHANGED <<conn, actors, actorIdx, callerIdx, invocations, queue, history>>

CallerDestroyed(j) ==
  \/ /\ job[j].pc = "destroyCaller"
     /\ callers[job[j].caller.key] = None
     /\ UNCHANGED callerIdx
  \/ /\ job[j].pc = "hdelCallerIdx"
     /\ callerIdx' = [callerIdx EXCEPT ![job[j].caller.socketId] = None]

ReadToDestroyInvocation(j) ==
  /\ job[j].pc = "destroyInvocation"
  /\ invocations[job[j].pid] # None
  /\ Become(j, Await(job[j], "hdelInvocation"))
  /\ out' = {}
  /\ UNCHANGED <<conn, storage, queue, history>>

\* Fault: finishInvocation deletes nothing.
InvocationKept(j) ==
  /\ \/ job[j].pc = "destroyInvocation" /\ invocations[job[j].pid] = None
     \/ job[j].pc = "hdelInvocation"
  /\ UNCHANGED invocations

InvocationDestroyed(j) ==
  \/ /\ job[j].pc = "destroyInvocation"
     /\ invocations[job[j].pid] = None
     /\ UNCHANGED invocations
  \/ /\ job[j].pc = "hdelInvocation"
     /\ invocations' = [invocations EXCEPT ![job[j].pid] = None]

-----------------------------------------------------------------------------
(* InvocationService.findInvocationsForCaller lists the stored pids, reads  *)
(* each, and keeps those of the caller; the handler then finishes them one  *)
(* by one.  It goes on as after when none is left.                          *)

FinishNext(r, after) ==
  IF r.hits = <<>> THEN after
  ELSE [r EXCEPT !.pid = Head(r.hits).pid, !.pc = "destroyInvocation"]

ListInvocations(j, after) ==
  /\ job[j].pc = "hkeys"
  /\ LET stored == {p \in Pid : invocations[p] # None} IN
       Become(j, IF stored = {} THEN after
                 ELSE [job[j] EXCEPT !.scan = stored, !.pc = "scan"])
  /\ out' = {}
  /\ UNCHANGED <<conn, storage, queue, history>>

\* Fault: the caller of an invocation is not compared.
ScanEveryInvocation(j, after) ==
  /\ job[j].pc = "scan"
  /\ \E p \in job[j].scan :
       LET hit == invocations[p] # None
           r == [job[j] EXCEPT !.scan = @ \ {p},
                               !.hits = IF hit THEN Append(@, invocations[p]) ELSE @]
       IN Become(j, IF r.scan = {} THEN FinishNext(r, after) ELSE r)
  /\ out' = {}
  /\ UNCHANGED <<conn, storage, queue, history>>

ScanInvocation(j, after) ==
  /\ job[j].pc = "scan"
  /\ \E p \in job[j].scan :
       LET hit == invocations[p] # None /\ invocations[p].caller = job[j].ckey
           r == [job[j] EXCEPT !.scan = @ \ {p},
                               !.hits = IF hit THEN Append(@, invocations[p]) ELSE @]
       IN Become(j, IF r.scan = {} THEN FinishNext(r, after) ELSE r)
  /\ out' = {}
  /\ UNCHANGED <<conn, storage, queue, history>>

ServiceStep(j) ==
  \/ HsetActor(j) \/ HsetCaller(j)
  \/ FindActorBySocket(j) \/ FindCallerBySocket(j)
  \/ ReadToDestroyActor(j) \/ HdelActor(j)
  \/ ReadToDestroyCaller(j) \/ HdelCaller(j)
  \/ ReadToDestroyInvocation(j)
=============================================================================
