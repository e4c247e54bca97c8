------------------------------ MODULE SugoHub -------------------------------
(***************************************************************************)
(* The hub (lib/sugo_hub.js): sockets connect to the two endpoints of one   *)
(* or more hub processes, send requests and disconnect; the handlers of     *)
(* both connectors run on the same storage; a process may crash, losing     *)
(* its sockets, its handlers and its save queues but not the storage.       *)
(***************************************************************************)
EXTENDS ActorConnector, CallerConnector

Init ==
  /\ conn = [s \in Socket |-> "fresh"]
  /\ actors = [k \in ActorKey |-> None]
  /\ actorIdx = [s \in ActorSocket |-> None]
  /\ callers = [k \in CallerKey |-> None]
  /\ callerIdx = [s \in CallerSocket |-> None]
  /\ invocations = [p \in Pid |-> None]
  /\ queue = [svc \in Service |-> [h \in Hub |-> <<>>]]
  /\ job = [j \in Job |-> Idle]
  /\ out = {}
  /\ join = [k \in CallerKey |-> None]
  /\ call = [p \in Pid |-> None]
  /\ joined = [s \in CallerSocket |-> {}]

Connect(s) ==
  /\ conn[s] = "fresh"
  /\ conn' = [conn EXCEPT ![s] = "open"]
  /\ out' = {}
  /\ UNCHANGED <<storage, queue, job, history>>

\* The handler has had the record of call p deleted and is to answer the caller.
Answering(j, p) == job[j].pc = "reply" /\ job[j].pid = p

\* The process stops without running a disconnect handler; one that is started
\* again on the same storage takes new sockets.
Crash(h) ==
  /\ "CRASH" \in Event
  /\ \E s \in Socket : HubOf[s] = h /\ conn[s] = "open"
  /\ conn' = [s \in Socket |->
               IF HubOf[s] = h /\ conn[s] = "open" THEN "gone" ELSE conn[s]]
  /\ job' = [j \in Job |->
              IF job[j] # Idle /\ HubOf[job[j].sock] = h THEN Idle ELSE job[j]]
  /\ queue' = [svc \in Service |-> [queue[svc] EXCEPT ![h] = <<>>]]
  /\ call' = [p \in Pid |->
               IF /\ call[p] # None
                  /\ \E j \in Job : Answering(j, p) /\ HubOf[job[j].sock] = h
               THEN [call[p] EXCEPT !.lost = TRUE] ELSE call[p]]
  /\ out' = {}
  /\ UNCHANGED <<storage, join, joined>>

HandlerStep(j) == ServiceStep(j) \/ ActorStep(j) \/ CallerStep(j)

Next ==
  \/ \E s \in Socket : Connect(s)
  \/ \E j \in Job : ActorRequest(j) \/ CallerRequest(j) \/ HandlerStep(j)
  \/ \E h \in Hub : Crash(h)

Spec == Init /\ [][Next]_vars

\* A handler that can go on does: its storage command is answered.
FairSpec == Spec /\ \A j \in Job : WF_vars(HandlerStep(j))

-----------------------------------------------------------------------------
(* Types *)

Command ==
  {"idle", "actor", "actorIdx", "caller", "callerIdx", "invocation",
   "hsetActor", "hsetActorIdx", "hsetCaller", "hsetCallerIdx",
   "hsetInvocation", "send", "destroyActor", "hdelActor", "hdelActorIdx",
   "destroyCaller", "hdelCaller", "hdelCallerIdx", "destroyInvocation",
   "hdelInvocation", "reply", "cast", "sweep", "hkeys", "scan"}

JobRecord ==
  [ev : ActorEvent \cup CallerEvent \cup {None}, sock : Socket \cup {None},
   pc : Command, key : ActorKey \cup {None}, name : SpecName \cup {None},
   uuid : CallerKey \cup {None}, ckey : CallerKey \cup {None},
   pid : Pid \cup {None}, actor : Actor \cup {None}, caller : Caller \cup {None},
   callersLeft : Seq(CallerKey), actorsLeft : Seq(ActorKey),
   scan : SUBSET Pid, hits : Seq(Invocation)]

MessageRecord ==
  [ev : {"PURGE", "SPEC", "DESPEC", "PIPE", "NOTICE", "RESULT", "ERROR", "JOIN",
         "LEAVE", "PERFORM"},
   to : Socket, key : ActorKey \cup CallerKey \cup {None}, pid : Pid \cup {None}]

StorageOK ==
  /\ actors \in [ActorKey -> Actor \cup {None}]
  /\ actorIdx \in [ActorSocket -> ActorKey \cup {None}]
  /\ callers \in [CallerKey -> Caller \cup {None}]
  /\ callerIdx \in [CallerSocket -> CallerKey \cup {None}]
  /\ invocations \in [Pid -> Invocation \cup {None}]

\* The JOIN a uuid, and the PERFORM a pid, was drawn for.
JoinRecord == [socket : CallerSocket, key : ActorKey]
CallRecord == [socket : CallerSocket, key : ActorKey, begun : BOOLEAN,
               to : ActorSocket \cup {None}, answers : Nat, lost : BOOLEAN]

ASSUME NoneIsNoRequest == None \notin JoinRecord \cup CallRecord

HistoryOK ==
  /\ join \in [CallerKey -> JoinRecord \cup {None}]
  /\ call \in [Pid -> CallRecord \cup {None}]
  /\ joined \in [CallerSocket -> SUBSET ActorKey]

\* Storage holds entities of its hash or nothing, handlers hold entities of the
\* right kind, messages have an addressee.
TypeOK ==
  /\ conn \in [Socket -> {"fresh", "open", "gone"}]
  /\ StorageOK
  /\ queue \in [Service -> [Hub -> Seq(Job)]]
  /\ job \in [Job -> JobRecord]
  /\ out \in SUBSET MessageRecord
  /\ HistoryOK

-----------------------------------------------------------------------------
(* Properties of every interleaving *)

\* RESULT events, an actor's answer or an ActorGone error, go only to the
\* socket that performed the call: callerSocket is copied from an entity
\* found through an index (beginInvocation, RESULT, DISCONNECT).
ResultRouted ==
  \A m \in out : m.ev = "RESULT" => call[m.pid] # None /\ m.to = call[m.pid].socket

\* A call that was answered has no record any more, and gets none again: a
\* second answer finds nothing once the first is out.
AnsweredIsErased ==
  \A p \in Pid : call[p] # None /\ call[p].answers > 0 => invocations[p] = None

\* A call that was recorded and has no answer keeps its record while its caller's
\* socket is open, or a handler that had it deleted is about to answer it: an
\* answer is delivered whatever other calls, disconnections and second answers
\* are being handled.  Nothing takes it away but a process that stops between the
\* deletion and the emission (RESULT and DISCONNECT of actors).
PendingIsAnswerable ==
  \A p \in Pid :
    /\ call[p] # None
    /\ call[p].begun
    /\ call[p].answers = 0
    /\ conn[call[p].socket] = "open"
    /\ ~ call[p].lost
    => invocations[p] # None \/ \E j \in Job : Answering(j, p)

\* A call is answered no more often than there are handlers in flight at a time:
\* each that found the record answers once, and none finds it after an answer
\* (RESULT and the loop of DISCONNECT over a caller's invocations).
AnswersBounded ==
  \A p \in Pid : call[p] # None => call[p].answers <= Cardinality(Job)

\* A caller's entity changes only in a step of a handler of its own socket.
CallerIsolation ==
  [][\A k \in CallerKey : callers'[k] # callers[k] =>
       \E j \in Job : /\ job'[j] # job[j]
                      /\ job[j].sock = join[k].socket]_vars

\* What is about an actor, be it a SPEC, DESPEC or PIPE event, an ActorGone notice
\* or the ActorGone error of a call, goes only to sockets that asked to join that
\* very actor (broadcastToCallers, actorGoneInvocationError).
BroadcastToMembers ==
  \A m \in out : m.key # None /\ m.to \in CallerSocket =>
    \E k \in CallerKey : join[k] = [socket |-> m.to, key |-> m.key]

\* Every handler comes to an end: no save queue is left locked, no loop over
\* callers, actors or invocations goes on for ever.
HandlersFinish == \A j \in Job : job[j] # Idle ~> job[j] = Idle

Lifecycle == INSTANCE CallLifecycle WITH
  owner <- [p \in Pid |-> IF call[p] = None THEN None ELSE call[p].socket],
  life <- [p \in Pid |-> IF call[p] = None \/ ~ call[p].begun THEN "unborn"
                         ELSE IF invocations[p] # None THEN "open" ELSE "closed"],
  replies <- {<<m.pid, m.to>> : m \in {n \in out : n.ev = "RESULT"}}

\* The hub implements the promise of CallLifecycle about its calls.
CallsKept == Lifecycle!Spec

-----------------------------------------------------------------------------
(* Properties of handlers that run one at a time (Job a singleton), between *)
(* two of them.  Interleaving, or an actor that comes back under its key,    *)
(* breaks them.                                                              *)

Quiet == \A j \in Job : job[j] = Idle

Count(list, e) == Cardinality({n \in DOMAIN list : list[n] = e})

\* An actor and a caller list each other equally often, so that leaving and
\* disconnecting take a caller off every list it is on, and a splice never
\* takes the entry of another (removeActor, removeCaller).
ListsAgree ==
  Quiet => \A k \in ActorKey, c \in CallerKey : actors[k] # None =>
             Count(actors[k].callers, c) =
               IF callers[c] = None THEN 0 ELSE Count(callers[c].actors, k)

\* A client that joined an actor, has not left it and was not told that it is
\* gone is on the list of an actor that lives, under a caller of its socket:
\* so it will be told (DISCONNECT of the actor).
JoinedIsListed ==
  Quiet => \A s \in CallerSocket : conn[s] = "open" =>
             \A k \in joined[s] :
               /\ actors[k] # None
               /\ \E c \in ToSet(actors[k].callers) :
                    callers[c] # None /\ callers[c].socketId = s

\* Every stored actor is that of an open socket whose index entry leads to it, and
\* no actor socket that is gone has an index entry left (DISCONNECT, destroy).
ActorsTidy ==
  Quiet =>
    /\ \A k \in ActorKey : actors[k] # None =>
         /\ conn[actors[k].socketId] = "open"
         /\ actorIdx[actors[k].socketId] = k
    /\ \A s \in ActorSocket : actorIdx[s] # None => conn[s] = "open"

\* An ActorGone error is about the actor the call was made to.
ActorGoneIsAboutCall ==
  \A m \in out : m.ev = "RESULT" /\ m.key # None => m.key = call[m.pid].key
=============================================================================
