------------------------------ MODULE Cluster -------------------------------
(***************************************************************************)
(* Cluster mode (lib/mixins/cluster_mixin.js): the master forks one worker *)
(* for the hub and, once that listens, one for each local actor; every     *)
(* process runs the application, which calls listenAsCluster and, when it  *)
(* ends, closeAsCluster.  Worker processes may exit at any time.           *)
(***************************************************************************)
EXTENDS Naturals

CONSTANTS
  ActorName,  \* names local actors may be registered by
  HubWorker   \* the worker forked with SUGOS_CLUSTER_HUB

ASSUME HubWorkerIsNoActor == HubWorker \notin ActorName

Worker == ActorName \cup {HubWorker}

VARIABLES
  localActors,  \* the names of options.localActors, the same in every process
  master,       \* where the master's listenAsCluster has come
  listening,    \* hub.listening of the master
  called,       \* has the master's callback been called?
  proc,         \* worker -> "none"; "forked" until its listenAsCluster resolves ("up")
                \* or rejects ("failed"); "closing", "closed", "exited"
  promise,      \* worker -> the promise of newClusterWorker
  connected,    \* local actors connected to the hub
  bound,        \* is the port bound?
  listened      \* history: the workers that emitted "listening"

masterState == <<master, listening, called>>
port == <<bound, connected>>
vars == <<localActors, masterState, proc, promise, listened, port>>

Init ==
  /\ localActors \in SUBSET ActorName
  /\ master = "new" /\ listening = FALSE /\ called = FALSE
  /\ proc = [w \in Worker |-> "none"]
  /\ promise = [w \in Worker |-> "none"]
  /\ listened = {}
  /\ bound = FALSE /\ connected = {}

-----------------------------------------------------------------------------
(* The master *)

\* newClusterWorker for each of ws.
newClusterWorkers(ws) ==
  /\ proc' = [w \in Worker |-> IF w \in ws THEN "forked" ELSE proc[w]]
  /\ promise' = [w \in Worker |-> IF w \in ws THEN "pending" ELSE promise[w]]

Listen ==
  /\ master = "new" /\ master' = "hub"
  /\ newClusterWorkers({HubWorker})
  /\ UNCHANGED <<listening, called, listened, port>>

\* Fault: the callback is not called.
HubListensUncalled ==
  /\ master = "hub" /\ master' = "actors"
  /\ promise[HubWorker] = "resolved"
  /\ newClusterWorkers(localActors)
  /\ UNCHANGED <<listening, called, listened, port>>

\* Fault: a worker is forked for every name.
HubListensForksAll ==
  /\ master = "hub" /\ master' = "actors"
  /\ promise[HubWorker] = "resolved"
  /\ called' = TRUE
  /\ newClusterWorkers(ActorName)
  /\ UNCHANGED <<listening, listened, port>>

\* The hub's promise is resolved: callback, then the workers of the actors.
HubListens ==
  /\ master = "hub" /\ master' = "actors"
  /\ promise[HubWorker] = "resolved"
  /\ called' = TRUE
  /\ newClusterWorkers(localActors)
  /\ UNCHANGED <<listening, listened, port>>

\* Promise.all of the actors' promises is resolved, and listenAsCluster too.
ActorsListen ==
  /\ master = "actors" /\ master' = "up"
  /\ \A a \in localActors : promise[a] = "resolved"
  /\ listening' = TRUE
  /\ UNCHANGED <<called, proc, promise, listened, port>>

\* Promise.all rejects with the first promise that does.
ListenRejects ==
  /\ \/ master = "hub" /\ promise[HubWorker] = "rejected"
     \/ master = "actors" /\ \E a \in localActors : promise[a] = "rejected"
  /\ master' = "failed"
  /\ UNCHANGED <<listening, called, proc, promise, listened, port>>

\* closeAsCluster does nothing but reset listening.
CloseMaster ==
  /\ master \in {"up", "failed"} /\ master' = "closed"
  /\ listening' = FALSE
  /\ UNCHANGED <<called, proc, promise, listened, port>>

-----------------------------------------------------------------------------
(* Workers *)

Goes(w, from, to) == proc[w] = from /\ proc' = [proc EXCEPT ![w] = to]

\* A worker's "listening" and "error" events settle its promise.
Settle(w, how) ==
  promise' = [promise EXCEPT ![w] = IF @ = "pending" THEN how ELSE @]

\* The hub's worker binds the port, which emits "listening" in the master.
HubBinds ==
  /\ Goes(HubWorker, "forked", "up")
  /\ bound' = TRUE
  /\ listened' = listened \cup {HubWorker}
  /\ Settle(HubWorker, "resolved")
  /\ UNCHANGED <<masterState, connected>>

\* Its server.listen, or the connect of an actor, rejects: so does the
\* worker's listenAsCluster, which the master does not see.
ListenFails(w) ==
  /\ Goes(w, "forked", "failed")
  /\ UNCHANGED <<masterState, promise, listened, port>>

\* connectLocalActors of the one actor: its socket connects to the hub's port.
\* It binds none itself, so no "listening" is emitted.
ActorConnects(a) ==
  /\ Goes(a, "forked", "up")
  /\ bound
  /\ connected' = connected \cup {a}
  /\ UNCHANGED <<masterState, promise, listened, bound>>

\* closeAsCluster in an actor's worker: disconnectLocalActors of the one actor.
CloseActor(a) ==
  /\ Goes(a, "up", "closed")
  /\ connected' = connected \ {a}
  /\ UNCHANGED <<masterState, promise, listened, bound>>

\* In the hub's worker: a pause of 100 ms, then server.close().  Without the
\* port no actor is connected.
Unbind == bound' = FALSE /\ connected' = {}

CloseHub ==
  /\ Goes(HubWorker, "up", "closing")
  /\ UNCHANGED <<masterState, promise, listened, port>>

CloseServer ==
  /\ Goes(HubWorker, "closing", "closed")
  /\ Unbind
  /\ UNCHANGED <<masterState, promise, listened>>

\* A fork that fails emits "error"; the process never ran.
ForkFails(w) ==
  /\ Goes(w, "forked", "exited")
  /\ Settle(w, "rejected")
  /\ UNCHANGED <<masterState, listened, port>>

Exited(w) ==
  /\ proc[w] \notin {"none", "exited"}
  /\ proc' = [proc EXCEPT ![w] = "exited"]
  /\ IF w = HubWorker THEN Unbind
     ELSE connected' = connected \ {w} /\ UNCHANGED bound

\* Fault: the exit of a worker is taken for the end of its start.
ExitSettles(w) ==
  /\ Exited(w)
  /\ Settle(w, "resolved")
  /\ UNCHANGED <<masterState, listened>>

\* "exit" is logged; it settles no promise and starts no other worker.
Exit(w) ==
  /\ Exited(w)
  /\ UNCHANGED <<masterState, promise, listened>>

-----------------------------------------------------------------------------

MasterStep == UNCHANGED localActors /\ (HubListens \/ ActorsListen \/ ListenRejects)
HubWorkerStep == UNCHANGED localActors /\ (HubBinds \/ CloseServer)
ActorStep(a) == UNCHANGED localActors /\ ActorConnects(a)

ApplicationStep ==
  /\ UNCHANGED localActors
  /\ \/ Listen \/ CloseMaster \/ CloseHub
     \/ \E a \in ActorName : CloseActor(a)

WorkerFault(w) == UNCHANGED localActors /\ (ListenFails(w) \/ ForkFails(w) \/ Exit(w))

Next ==
  \/ ApplicationStep \/ MasterStep \/ HubWorkerStep
  \/ \E a \in ActorName : ActorStep(a)
  \/ \E w \in Worker : WorkerFault(w)

Spec == Init /\ [][Next]_vars

\* The processes run, and an actor that can connect does.  No worker has to
\* exit, nor the application to close.
FairSpec ==
  /\ Spec
  /\ WF_vars(MasterStep)
  /\ WF_vars(HubWorkerStep)
  /\ \A a \in ActorName : WF_vars(ActorStep(a))

-----------------------------------------------------------------------------
(* Properties *)

TypeOK ==
  /\ localActors \in SUBSET ActorName
  /\ master \in {"new", "hub", "actors", "up", "failed", "closed"}
  /\ listening \in BOOLEAN
  /\ called \in BOOLEAN
  /\ proc \in [Worker -> {"none", "forked", "up", "failed", "closing", "closed",
                         "exited"}]
  /\ promise \in [Worker -> {"none", "pending", "resolved", "rejected"}]
  /\ connected \in SUBSET localActors
  /\ bound \in BOOLEAN
  /\ listened \in SUBSET Worker

\* The callback is called, and workers for actors are forked, only once the
\* hub has listened: not when its worker has exited or could not be forked.
HubFirst ==
  called \/ (\E a \in ActorName : proc[a] # "none") => HubWorker \in listened

\* Once the hub has listened its application hears of it, and without local
\* actors listenAsCluster resolves, even if the worker exits right after.
HubAnnounced ==
  HubWorker \in listened ~> called /\ (localActors = {} => master \in {"up", "closed"})

\* listenAsCluster of the master settles once the hub has listened, unless a worker
\* fails, exits or is closed: the processes it forked are up, and its caller goes on.
ListenResolves ==
  called ~> \/ master \in {"up", "failed", "closed"}
            \/ \E w \in Worker : proc[w] \in {"failed", "exited", "closing", "closed"}
=============================================================================
