---------------------------- MODULE ClusterProofs -----------------------------
(***************************************************************************)
(* Cluster mode starts in order (HubFirst), and the master never comes to  *)
(* listen when there are local actors: why ListenResolves fails (run       *)
(* cluster_wait), for every set of them.                                   *)
(***************************************************************************)
EXTENDS Cluster, TLAPS

\* Only the worker of the hub listens, so only its promise is ever resolved.
ResolvedListened ==
  \A w \in Worker : promise[w] = "resolved" => w = HubWorker /\ w \in listened

\* How far the start has come tells which workers were forked.
ForkedInTurn ==
  /\ master = "new" => \A w \in Worker : proc[w] = "none"
  /\ master = "hub" => \A a \in ActorName : proc[a] = "none"
  /\ master = "actors" => HubWorker \in listened
  /\ \A a \in ActorName : proc[a] # "none" => a \in localActors

\* The master is listening with no local actors only: no worker of an actor
\* binds a port, so their promises are never resolved.
ListensWithoutActors == listening \/ master = "up" => localActors = {}

IInv ==
  /\ TypeOK
  /\ ResolvedListened
  /\ ForkedInTurn
  /\ HubFirst
  /\ ListensWithoutActors

-----------------------------------------------------------------------------

LEMMA InitHolds == Init => IInv
BY HubWorkerIsNoActor
   DEF Init, IInv, TypeOK, ResolvedListened, ForkedInTurn, HubFirst,
       ListensWithoutActors, Worker

LEMMA MasterHolds ==
  ASSUME IInv, UNCHANGED localActors,
         Listen \/ HubListens \/ ActorsListen \/ ListenRejects \/ CloseMaster
  PROVE  IInv'
<1> USE HubWorkerIsNoActor
    DEF IInv, TypeOK, ResolvedListened, ForkedInTurn, HubFirst,
        ListensWithoutActors, Worker, port
<1>1. CASE Listen
  BY <1>1 DEF Listen, newClusterWorkers
<1>2. CASE HubListens
  BY <1>2 DEF HubListens, newClusterWorkers
<1>3. CASE ActorsListen
  BY <1>3 DEF ActorsListen
<1>4. CASE ListenRejects
  BY <1>4 DEF ListenRejects
<1>5. CASE CloseMaster
  BY <1>5 DEF CloseMaster
<1> QED BY <1>1, <1>2, <1>3, <1>4, <1>5

LEMMA HubWorkerHolds ==
  ASSUME IInv, UNCHANGED localActors, HubBinds \/ CloseHub \/ CloseServer
  PROVE  IInv'
<1> USE HubWorkerIsNoActor
    DEF IInv, TypeOK, ResolvedListened, ForkedInTurn, HubFirst,
        ListensWithoutActors, Worker, port, masterState, Goes
<1>1. CASE HubBinds
  BY <1>1 DEF HubBinds, Settle
<1>2. CASE CloseHub
  BY <1>2 DEF CloseHub
<1>3. CASE CloseServer
  BY <1>3 DEF CloseServer, Unbind
<1> QED BY <1>1, <1>2, <1>3

LEMMA ActorWorkerHolds ==
  ASSUME IInv, UNCHANGED localActors, NEW a \in ActorName,
         ActorConnects(a) \/ CloseActor(a)
  PROVE  IInv'
<1> USE HubWorkerIsNoActor
    DEF IInv, TypeOK, ResolvedListened, ForkedInTurn, HubFirst,
        ListensWithoutActors, Worker, masterState, Goes
<1>1. CASE ActorConnects(a)
  BY <1>1 DEF ActorConnects
<1>2. CASE CloseActor(a)
  BY <1>2 DEF CloseActor
<1> QED BY <1>1, <1>2

LEMMA FaultHolds ==
  ASSUME IInv, UNCHANGED localActors, NEW w \in Worker,
         ListenFails(w) \/ ForkFails(w) \/ Exit(w)
  PROVE  IInv'
<1> USE HubWorkerIsNoActor
    DEF IInv, TypeOK, ResolvedListened, ForkedInTurn, HubFirst,
        ListensWithoutActors, Worker, masterState, port
<1>1. CASE ListenFails(w)
  BY <1>1 DEF ListenFails, Goes
<1>2. CASE ForkFails(w)
  BY <1>2 DEF ForkFails, Goes, Settle
<1>3. CASE Exit(w)
  <2>1. CASE w = HubWorker
    BY <1>3, <2>1 DEF Exit, Exited, Unbind
  <2>2. CASE w # HubWorker
    BY <1>3, <2>2 DEF Exit, Exited
  <2> QED BY <2>1, <2>2
<1> QED BY <1>1, <1>2, <1>3

LEMMA NextHolds == IInv /\ [Next]_vars => IInv'
<1> SUFFICES ASSUME IInv, [Next]_vars PROVE IInv'
  OBVIOUS
<1>1. CASE Next
  BY <1>1, MasterHolds, HubWorkerHolds, ActorWorkerHolds, FaultHolds
     DEF Next, ApplicationStep, MasterStep, HubWorkerStep, ActorStep, WorkerFault
<1>2. CASE UNCHANGED vars
  BY <1>2 DEF vars, masterState, port, IInv, TypeOK, ResolvedListened, ForkedInTurn,
              HubFirst, ListensWithoutActors
<1> QED BY <1>1, <1>2

\* The order of the start is invariant, whatever the workers do.
THEOREM StartInvariant == Spec => []IInv
BY InitHolds, NextHolds, PTL DEF Spec

\* Whichever workers exit and whenever, the application's callback and the
\* workers of the actors come after the hub has listened.
THEOREM HubComesFirst == Spec => []HubFirst
BY StartInvariant, PTL DEF IInv

\* For any set of local actors, listenAsCluster of the master resolves only if
\* it is empty: a worker of an actor never settles its promise by listening.
THEOREM ListeningMeansNoActors == Spec => []ListensWithoutActors
BY StartInvariant, PTL DEF IInv

\* Workers and their promises are in one of their states at every moment.
THEOREM ClusterTyped == Spec => []TypeOK
BY StartInvariant, PTL DEF IInv
=============================================================================
