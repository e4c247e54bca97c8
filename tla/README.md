# Formal models of sugo-hub

sugo-hub relays calls between *actors* (servers of modules) and *callers*
(their clients) over socket.io. Both kinds connect to the hub; a caller joins
an actor, performs methods on it, and the hub carries the invocation to the
actor's socket and the result back to the caller's. Everything the hub knows is
in a storage (a redis server, or JSON files), so that several hub processes can
share it.

This directory holds TLA+ models of the hub's code (`lib/`), the TLC
configurations that check them and TLAPS proofs about them. `PROJECT.json`
lists the components, the runs, the mutants that show each property can fail,
the source lines of each definition, the findings and the hazards.

## 1. Inventory

| Part | State | Operations | Interacts with |
|---|---|---|---|
| Entities (`lib/entities`) | records: an actor with its socket, specs and list of callers; a caller with its socket and list of actors; an invocation with pid, caller and caller's socket | add and remove of list members | created, changed and saved by the services and connectors |
| Service (`lib/services/service.js`) | two hashes in the storage per kind of entity (entities by key, keys by socket id), one in-memory save queue per service and process | `save`, `find`, `findByIndex`, `destroy` | storage commands, each awaited |
| Actor, caller, invocation services | none of their own | `setupActor`, `teardownActor`, `updateSpec`, `delSpec`; `joinToActor`, `leaveFromActor`; `beginInvocation`, `finishInvocation`, `findInvocationsForCaller` | Service; emit events for observers |
| Actor connector | none | `HI`, `BYE`, `SPEC`, `DESPEC`, `RESULT`, `PIPE`, `DISCONNECT` of an actor socket | actor, caller, invocation services; emits to caller sockets |
| Caller connector | none | `JOIN`, `LEAVE`, `PERFORM`, `PIPE`, `DISCONNECT` of a caller socket | the same services; emits to actor sockets |
| Observer connector and service | observer entities; listeners on the actor and caller services, in memory | `START`, `STOP`, `DISCONNECT` | events of the other services, sent on as `CHANGE` |
| Hub (`lib/sugo_hub.js`) | listening or not; servers, storage | constructor, `listen`, `close` | composes all of the above |
| Local actors (`lib/mixins/local_mixin.js`) | client connections of the process to itself | `connectLocalActors`, `disconnectLocalActors` | `listen` and `close`; the hub's own endpoints |
| Cluster (`lib/mixins/cluster_mixin.js`) | worker processes and a promise for each | `listenAsCluster`, `closeAsCluster` | processes; local actors |
| Interceptors (`lib/helpers/io_interceptor.js`) | none | decide whether a socket gets into a namespace | socket.io |
| HTTP endpoints, agent, logger, command line | none | read-only listings, formatting | services |

What is hard here is not any single handler: each is an async function of a
dozen lines. It is that every line awaits a storage command, that handlers of
all sockets (and of all processes) interleave at each await, and that the
handlers work on copies: they read an entity, change the copy and save it whole
some awaits later. Sockets may disconnect at any time, also in the middle of
their own requests, actors come back under the same key on another socket, and
a process may die with handlers half done.

What makes each part correct:

- *Calls.* The answer of a call, or the error that its actor is gone, reaches
  the socket that made it and no other, and no more often than there are handlers
  at work on it; a call that has not been answered can still be; one that has been
  leaves no record; calls to an actor that went are answered.
- *Membership.* The list of callers of an actor and the list of actors of a
  caller agree; broadcasts reach members only; who joined an actor and did not
  leave is on its list and so will be told that it goes.
- *Life of entities.* Entities and index entries in storage belong to sockets
  that are open, the disconnection of a socket removes its own: entity, index
  entry and, of a caller, its pending calls.
- *Handlers.* Each ends; none changes the entity of another caller's socket; no
  save queue stays locked.
- *Observers.* Listeners live in memory and entities in storage: who was told it
  observes gets each event once, a STOP finds what the START left, and that also
  when storage commands are rejected.
- *Life of a hub.* `listen` resolves only with every local actor connected;
  `close` takes everybody out before the storage quits, and its wait should be
  long enough for the handlers it leaves behind; nobody should get in that an
  interceptor was not asked about.
- *Cluster.* The hub comes before its actors; `listenAsCluster` should settle.

Several of these hold only as long as handlers do not overlap, or only of clients
that wait for an ack before they go on, and some not even then: section 4 says
which.

## 2. The modules

    Entities          records and list updates
      Services        storage, save queues, jobs (handlers in flight), one
       |              action per storage command of Service
       +- ActorConnector    the handlers of an actor socket
       +- CallerConnector   the handlers of a caller socket
            SugoHub         both on one storage; connections, crashes; TypeOK
             |              and most properties
             +- CallLifecycle   (instance) what the hub promises about a call
             +- MCSugoHub       instances for TLC
             +- CalmCallers     who gave the hub no time, and what the others get
             |    MCCalmCallers instances for TLC
             +- SugoHubInv      inductive invariants
                  TypeProofs            TLAPS: types
                    OwnerProofs         TLAPS: frames, owners of callers, members
                      SweepProofs       TLAPS: whose calls a disconnection ends
                        CallProofs      TLAPS: calls, CallLifecycle
                          AnswerProofs  TLAPS: how often a call is answered

    Observers         observers, their listeners, rejecting storage commands
      +- MCObservers, ObserverProofs
    Admission         the interceptors of a namespace
      HubProcess      listen and close, local actors, the wait to flush
        +- MCHubProcess, HubProofs
    Cluster           master and workers
      +- MCCluster, ClusterProofs

**Jobs and steps.** A handler in flight is a *job*, a record with the event it
handles (`ev`), its socket, the storage command it awaits (`pc`) and its local
variables. One action is the effect of the awaited storage command together
with the code that runs when its reply arrives, up to the next command: this is
the granularity of a single-threaded JavaScript process on a remote storage.
`HiFind` for instance is the `hget` of `setupActor` with the code that makes or
changes the entity and pushes its save on the queue; `HsetActor` writes the
entity when the queue comes to it, and `HiSaved` writes the index, releases the
queue and emits `PURGE`. Commands of different jobs are answered in any order:
the default storage works on files, a redis storage is shared by processes, and
nothing but the save queues orders commands.

A process may stop between the effect of a command and the code that follows it.
Where a property can tell, the two are steps of their own: an invocation is written
(`PerformSaved`), and `PERFORM` goes out when the storage has answered
(`PerformSent`, in `process.nextTick`); it is deleted (`ResultFinished`,
`SweepFinished`), and `RESULT` goes out later (`ResultReplied`, `SweepReplied`).
The job waits at `send` or `reply` in between, and a `Crash` there leaves a record
whose `PERFORM` never went out, or an answer that nobody gets with its record gone.
The other emissions (`JOIN`, `LEAVE`, `PURGE`, notices) carry no state that any
property relates to storage, and stay with the command before them.

**State.** `actors`, `callers` and `invocations` are the hashes
`sg:*:entities`, `actorIdx` and `callerIdx` the hashes `sg:*:indices:socketId`;
`queue` the save queue of each service of each process; `conn` the sockets;
`out` the messages the latest step emitted. `join`, `call` and `joined` are
histories: which socket asked to join under which uuid, who performed which
call, whether it was recorded, where it went, how often it was answered and
whether a process stopped that was about to (`lost`), and what each client takes
itself to be joined to. `CalmCallers` adds `hasty`: the clients that sent
something, or hung up, while a request of theirs was being handled, that left an
actor with a call pending, or whose process stopped. What a hub leaves behind of
these is the subject of section 4; what it leaves of the others is `CallersTidy`,
and the others are there in every interleaving with them.

**What is abstracted.** Keys, uuids and pids are model values. Of an actor's
specs the set of names is kept. Acknowledgements, logging, timestamps, socket
rooms and the events for observers are left out: no handler reads them. `find`
retries three times with a pause; with no clock in the model that is one read
at whatever moment the last attempt falls, so the model has one read (a
non-strict find without a key, which pauses and gives null, keeps its step).
`broadcastToCallers` and the loop of `PIPE` are the same `Cast` action.

**The environment.** Clients are outside `lib/`. A caller's client leaves,
performs on and pipes to only actors it joined; an actor answers only calls
that were sent to it, possibly twice; `Announces` says which keys the client of
a socket may greet with, and `Takeover` whether it may do so while another open
socket may hold the key. Socket ids are not reused.

**Bounds** (of SugoHub). The number of sockets, `|CallerKey|` JOIN requests and `|Pid|`
PERFORM requests (each draws a uuid), `|Job|` handlers in flight. All other
requests may be repeated without limit. A run ends when every socket is gone
and every uuid is used, which TLC would call a deadlock: hence
`CHECK_DEADLOCK FALSE` in every configuration (a handler that is stuck is
caught by `HandlersFinish` instead).

**Fairness** (of SugoHub). `FairSpec` assumes weak fairness of `HandlerStep(j)` for each
job: the storage answers every command, and a queued save runs when its turn
comes. Nothing is assumed of clients: no request or disconnection ever has to
happen.

**CallLifecycle** is the abstract specification: a call has an owner, it is
opened once and closed once, replies go to the owner only and only when it is
closed. It allows a closed call no reply, or several, because the code does: a
`RESULT` that read the invocation before another handler deleted it replies as
well, and a process may stop before it replies. `CallsKept` in SugoHub is the
refinement; `AnswersBounded` and `PendingIsAnswerable` say how many replies.

**Observers** has the same jobs and steps for the third kind of socket: `FindKey`
and `StartFound`/`StartNew`/`StopFound` are `findBySocketId` with the code that
follows it, `Hset` and `StartSaved`/`StopSaved` the two writes of `save`, the
second with `registerListeners` or `deregisterListeners` and the ack. It is a
module of its own because it shares no state with the others: what it hears of
the actor and the caller service are their events, which `Emit` lets happen at
any time and whose listeners are counted per service and socket. Here storage
commands may also reject (`Reject`): the handler ends between two writes with
the listeners untouched and the ack `NG`, and the save queue goes on with the
next job. `Polite` sockets wait for each ack before the next request and START
and STOP in turn; the others send anything at any time. `trouble` remembers
sockets that hung up in the middle of a request or met a rejection, for the two
properties that hold only of the others. Only the process of the observer is
modelled: services emit in their own process.

**HubProcess** follows one process through `listen` and `close`, one phase per
await: `Listen`, `Bound`, the loop over the local actors (`turn`), `Close`, the
loop back, `StopServer`, `ServerClosed`, `Quit`. Sockets come in through
**Admission**, one step per interceptor. Time is in ticks of 33 ms, the retry
interval of `find`, and a storage command takes none: the question is whether
the 300 ms that `close` waits outlast the DISCONNECT handlers, and these sleep
three intervals for each find that misses. Of such a handler the model keeps how
many finds it has left (`todo`) and how long it sleeps (`wait`). `Lookups` counts
them: an actor looks each caller of its list up twice, a caller each actor once;
either then destroys each pending call and last itself, and `destroy` begins with
a find. One may miss when another socket is gone too, whose handler deletes what it
looks for. `MaxListed` and `MaxCalls` bound names and pending calls of each socket
for TLC; the code has no limit for either, and the wait is enough for three finds
that miss and no more (`unflushed`).

**Cluster** models the master and its workers, each at the point its
`listenAsCluster` or `closeAsCluster` has come to. A worker may fail to fork,
fail to listen, or exit at any time; `exit` settles no promise, since the code
only logs it. `localActors` is chosen in `Init`, so that a run covers every
set of them. That the worker of an actor binds no port, and hence emits no
`listening`, is what `cluster_wait` is about.

External, modelled from how `lib/` uses it: `server.close` of sg-server
disconnects every socket and then resolves; sg-queue runs the next job whatever
became of the last; `connect` of a sugo-actor resolves when its socket is in and
rejects when it is refused, `disconnect` of one that never connected may do
either; the `cluster` module emits `listening` for a worker when, and only when,
it binds a port. A local actor keeps its connection until the hub takes it down.

## 3. Runs that pass

| Run | Instance | Shows |
|---|---|---|
| `relay` | one actor, two callers, one call, 2 jobs, all interleavings | `ResultRouted`, `AnsweredIsErased`, `PendingIsAnswerable`, `AnswersBounded`, `CallersTidy`, `CallerIsolation`, and that the hub implements `CallLifecycle` (`CallsKept`) |
| `takeover` | two processes, either of which may crash, two actor sockets claiming one key, one caller, 2 jobs | `PendingIsAnswerable`, `CallersTidy` and `CallsKept` all the same |
| `sequential` | two actors of different keys, two callers, three JOINs, 1 job | `BroadcastToMembers`, `ListsAgree`, `JoinedIsListed`, `ActorsTidy`, `GoneCallsAnswered` |
| `finish` | one actor, one caller, all events and a crash, 2 jobs, `FairSpec` | `TypeOK`, `HandlersFinish` |
| `observers` | two observers, one of them polite, 2 uuids, 2 jobs, two STARTs in force, `FairSpec` | `TypeOK`, `EntitiesOwned`, `StopReaches`, `HeardOnce`, `ObservingSaved`, `RestingLeavesNothing`, `RequestsAnswered` |
| `lifecycle` | two local actors, a remote actor and a remote caller, an interceptor on `/actors`, `FairSpec` | `TypeOK`, `LocalsLeaveFirst`, `LocalsServed`, `EveryInterceptorAgreed`, `ListenSettles`, `CloseEnds` |
| `cluster` | every set of up to two local actors, `FairSpec` | `TypeOK`, `HubFirst`, `HubAnnounced` |

The bounds are small but the interesting cases need no more: every race of
section 4 is between two handlers, two callers are enough for a message to go
to the wrong one or a list to lose the wrong member, two actors for a caller
with two memberships, and two jobs for every pair of handlers; each job is
reused, so that a long sequence of requests is explored. Symmetry is used in
the safety runs only, over sets that no definition of the instance names.

`sequential` has one job on purpose: its properties are about long sequences of
requests of several clients, and all but `BroadcastToMembers` (which is proved for
any number of jobs) do not hold when handlers overlap. It says nothing of
overlaps. Section 4 lists what these do; `CallersTidy`, in `relay` and
`takeover`, is the part of the cleanup that survives them, for clients that are
not `hasty`.

`observers` has two STARTs of one socket in force, the least for listeners to be
registered twice, and an impolite socket beside the polite one, so that the
queue is shared with a client that does as it likes. In `lifecycle` two local
actors make a loop with a middle. `cluster` is small by nature.

**Fairness** of these three. `Observers`: each handler goes on, a rejection never
has to happen, nor a request. `HubProcess`: the process takes its steps, time
passes (`TimeStep`), and each socket's interceptors settle, its handler runs and
the closing server cuts it off (`SocketStep`); nobody has to connect, hang up or
call `close`. `Cluster`: the master, the hub's worker and an actor that can
connect go on; no exit and no failure ever has to happen, and none is ruled out.

## 4. Findings

Five runs end in a counterexample:

- `wrong_removal`: `removeCaller` of a caller that is not listed removes the
  last one (`splice(-1, 1)`). Reached without any overlap, when an actor went
  and came back and a caller of the old one disconnects.
- `wrong_actor_gone`: the disconnection of an actor fails calls its callers
  made to other actors. It needs a caller socket joined to two actors, which
  the hub's lists provide for and sugo-caller, which opens a socket per actor,
  does not use.
- `skipped_interceptor`: the constructor spreads the interceptors of an url into
  `ioInterceptor`, which "composes multiple" handlers but takes one parameter:
  with two on an url the second is never asked.
- `unflushed`: when `close` cuts an actor and its caller, both DISCONNECT handlers
  finish the same pending calls, and each call that the other handler was faster
  to delete costs a find that misses, 99 ms. Four of them outlast the 300 ms "to
  flush": the storage quits before the caller is destroyed. Names on the lists that
  are gone cost the same. The run has an instant storage and four pending calls.
- `cluster_wait`: with a local actor `listenAsCluster` of the master never
  resolves, because the worker of the actor binds no port and so never emits
  `listening`; the fixture of the test of cluster mode awaits just that call (and
  the test does not notice, since the fixture has nothing to do after it). The run
  rules out every other reason to wait: no worker fails, exits or is closed.

More of what the code does can be seen with the same modules by changing one line
of a configuration. No text of the repository says otherwise, so none is a run:

- *Lost update.* A JOIN saves a copy of the actor that it read two awaits before:
  of two callers that join at once one is lost from the list, and an actor that
  disconnected meanwhile is back without a socket. `ListsAgree`, `JoinedIsListed`
  and `ActorsTidy` in `sequential` with two jobs.
- *Zombie actor.* An actor that disconnects while its HI is being saved stays in
  storage: `ActorsTidy` with two jobs.
- *Zombie caller.* The same of a caller and its JOIN; two JOINs of one socket at
  once create two callers, of which one stays; LEAVE of the last actor with a call
  pending leaves the invocation for good: `CallersTidy` in `relay` without the
  condition on `hasty`, the last with LEAVE among the events.
- *Wrong takedown.* An actor that greets from a new socket leaves its old index
  entry; the old socket's disconnection destroys the actor that lives on:
  `ActorsTidy` with `Takeover` and both sockets on one key.
- *Unanswered call.* A PERFORM that records its call when the DISCONNECT of the
  actor has already listed the calls waits for ever: `GoneCallsAnswered` with two
  jobs.

And some the models show but no property names as wrong: the DISCONNECT of an
observer leaves its listeners on both services for as long as the process runs;
a second START of the same socket registers them twice and one STOP removes one
(`HeardOnce` is about polite clients for that reason); `listening` stays true
after a `listen` that failed; `listenAsCluster` also waits for ever when a worker
exits before it listens; and a call gets an answer from each handler that read its
record in time, so with a RESULT that overlaps the actor's disconnection two.

## 5. Proofs

All theorems are about the `Spec` of their module, with no bound on processes,
sockets, keys, calls or handlers in flight (that are finitely many), and assume of
the constants no more than named assumptions, which TLC evaluates for each
instance. Of SugoHub: `NoneIsNothing`, `SocketsDiffer`, `HubOfSockets`,
`EventsKnown`, `AnnouncesKeys`, `TakeoverIsBoolean` and `NoneIsNoRequest` (`None`
is none of the other values, the two endpoints have their own socket ids, a socket
is connected to one process), and `JobsFinite` for `AnswersAreBounded`. Of
Observers: `PoliteSockets`, `NoneIsNoObserver`, `NoneIsNoEntity`. Of HubProcess:
types (`UrlOfSockets`, `InterceptorLists`, `LocalActorSockets`, `Bounds`) and
`LocalActorsDiffer` (each is registered once). Of Cluster: `HubWorkerIsNoActor`.

One theorem has a hypothesis besides, because what it states is false without it
(`skipped_interceptor`): `ShortListsAgreed`, that no url has two interceptors.

| Module | Theorem | States |
|---|---|---|
| TypeProofs | `TypeCorrect` | `Spec => []TypeOK` |
| TypeProofs | `TypeInvariant` | `Spec => []TypeInv` |
| OwnerProofs | `CallersAreOwn` | `Spec => []Owned` |
| OwnerProofs | `CallersIsolated` | `Spec => CallerIsolation` |
| OwnerProofs | `MembersAsked` | `Spec => []Listed` |
| SweepProofs | `BroadcastsReachMembers` | `Spec => []BroadcastToMembers` |
| CallProofs | `CallsAgree` | `Spec => [](Swept /\ Inductive)` |
| CallProofs | `ResultsReachTheirCaller` | `Spec => []ResultRouted` |
| CallProofs | `AnsweredCallsAreErased` | `Spec => []AnsweredIsErased` |
| CallProofs | `PendingCallsAreAnswerable` | `Spec => []PendingIsAnswerable` |
| CallProofs | `CallsAreKept` | `Spec => CallsKept` |
| AnswerProofs | `AnswersAreBounded` | `Spec => []AnswersBounded` |
| ObserverProofs | `ObserverInvariant` | `Spec => []IInv` |
| ObserverProofs | `ObserversTyped` | `Spec => []TypeOK` |
| ObserverProofs | `ObserversOwn` | `Spec => []EntitiesOwned` |
| ObserverProofs | `StopsReach` | `Spec => []StopReaches` |
| ObserverProofs | `EventsHeardOnce` | `Spec => []HeardOnce` |
| ObserverProofs | `ClientsSettled` | `Spec => []SavedInv` |
| ObserverProofs | `ObservingIsSaved` | `Spec => []ObservingSaved` |
| ObserverProofs | `NothingIsLeft` | `Spec => []RestingLeavesNothing` |
| HubProofs | `LifeInvariant` | `Spec => []IInv` |
| HubProofs | `ProcessTyped` | `Spec => []TypeOK` |
| HubProofs | `LocalActorsLeaveFirst` | `Spec => []LocalsLeaveFirst` |
| HubProofs | `LocalActorsAreServed` | `Spec => []LocalsServed` |
| HubProofs | `ShortListsAgreed` | `Spec => []EveryInterceptorAgreed`, if no url has two interceptors |
| ClusterProofs | `StartInvariant` | `Spec => []IInv` |
| ClusterProofs | `ClusterTyped` | `Spec => []TypeOK` |
| ClusterProofs | `HubComesFirst` | `Spec => []HubFirst` |
| ClusterProofs | `ListeningMeansNoActors` | `Spec => []ListensWithoutActors` |

**Types.** `TypeOK` is not inductive: `HsetActor` files `job[j].actor` under
its key, and for that it must be an entity and not `None`. `TypeInv` adds what
each handler holds at each command it may await (`Shaped`, in five parts:
socket, request arguments, actor, caller, loop variables) and `SavesTakeTurns`:
a handler that writes an index is first in the save queue of its process,
without which releasing the queue would take another job off it. There is one
lemma per action, which shows that the handler's next record is a job record
(`JobRecord`) and is `Shaped`; the lemmas about sequences at the head of the
module give the type of the library's `Front` and `RemoveFirst`.

**Frames.** Most handler actions change little that matters to what follows.
The head of OwnerProofs states it once per action: an `OwnerFrame` step keeps whose
request the job handles and which caller it holds, a `CallFrame` step touches no
call and replies to none, and `Begins` is what all requests have in common.

**Owners.** A handler works on a copy of a caller it found by an index that
another handler may change under it. `Owned` is why the copy is nevertheless its
own: `Of(key, s)` says that a JOIN of socket `s` drew the uuid `key` (a history,
so it never changes again), and every caller stored, indexed or held is `Of` the
socket it names (`CallersOwned`, `Owns`). The index of a socket hence leads to
callers of that socket only, whatever the order of writes, and `CallersIsolated`
follows because only two commands, `HsetCaller` and `HdelCaller`, change
callers.

**Members.** `Invitees(k)` are the callers of sockets that asked to join the
actor `k`. `Listed` says that the list of every stored actor consists of them
(`ActorsInvite`), and so does the copy a handler holds and what is left of the
list it loops over (`Lists`). It is inductive although handlers overwrite each
other's lists: what is overwritten is another list of invitees. The one step that
makes a list longer is `JoinCallerSaved`, whose handler still carries the key its
request named, and whose caller is of its own socket by `Owned`; `RemoveCaller`
splices, wrong index or not, and leaves a part of the list. That a caller who
left may hear a broadcast once more, or one who joined miss it, does not
contradict it. `BroadcastsReachMembers` follows at `Cast`: the entity of an
invitee names the socket that asked.

**Sweeps.** The ActorGone error of a call is about an actor too, and goes to the
socket its record names. `Swept` follows the disconnection of an actor through
its loop: the caller whose calls it asks for is one it lists, hence invited
(`Sweeps`), a record is filed under a caller of the socket it came from
(`Sourced`), and so the socket of each record it has collected asked to join the
actor. With `NoticesToMembers` of `Listed`, which is about all other broadcasts,
this is `BroadcastToMembers`.

**Calls.** `Inductive` adds that invocations, in storage or in the `hits` a
handler has found and not yet answered, are those of the call their pid was drawn
for (`InvocationsOfCalls`, `Carries`), and that a pid is in the hands of one
PERFORM (`OnePerformPerPid`), so that a record that was deleted does not come
back. A deletion and the emission after it are two steps, so what an unanswered
call has is its record or a handler at `reply`. The delicate steps are those that
delete a record (`Erases`): `ResultFinished` goes on to `reply` when it had found
the record and otherwise had nothing to delete; `SweepFinished` always goes on;
`CallerFinished` replies to nobody, but deletes only records whose caller is the
one it looked for, which is of its own socket by `Swept`, and that is gone. Those
that reply (`Answers`) find it deleted. `Crash` is the one step that takes a
handler at `reply` away, and marks the call `lost`; `PendingIsAnswerable` excepts
these calls and no others, so no other moment of a crash can lose one.

**Refinement.** `Perform` maps to `Own`, `PerformSaved` to `Open`, an `Erases` step
to `Close` or to a step that touches no call (another handler had deleted the
record), an `Answers` step to `Reply`, and every other action touches no call.

**How often.** `Counted` counts for each call the answers given and the handlers
that hold its record and may still answer (`Holders`): together never more than
there are handlers, since a handler can find the record only while there is no
answer yet (`InvocationsOfCalls`), and gives up the record it answers
(`HitsDiffer`: a disconnection holds each call once). The two counts move against
each other when a handler answers, and a request that begins takes up a job that
holds nothing.

**Observers.** Here `TypeOK` is inductive but says too little. `OwnInv` keeps each
handler to keys and entities whose uuid was drawn for its own socket
(`JobsOwn`); with the same of storage (`EntitiesOwned`) no delay brings it to
another's. `ReachInv` is the chain from listeners to entity: listeners were
registered after an index was written (`ListenersIndexed`), the index leads to
an entity (`IndexLeadsToEntity`), and the entity a save wrote is still there
when the index follows (`WrittenStays`), because only a DISCONNECT deletes and
then the socket is gone. `HeadWrites` is what makes a release of the queue take
the right job. `ToldInv` is about polite clients: with one request in flight
(`OneRequest`) listeners are what the last ack said (`ListenersAsTold`), a
rejection included, and `HeardOnce` follows at each emission. `SavedInv` adds
storage, for the polite clients that met neither a rejection nor the end of their
socket in the middle of a request (`Calm`): each has at most one handler and one
entity, the one its index leads to, and while a handler of it is under way the
entity it holds says how far it has come (`Settled`, in six parts). Handlers of
other sockets leave all of this alone (`Apart`), by `OwnInv`. `ObservingSaved`
and `RestingLeavesNothing` follow.

**Life of a hub.** `ProcessInv` ties the loop over the local actors to the phase:
those before `turn` are connected, or disconnected; only the current one may be
asking to get in. Nothing is proved about the wait of `close`, which is not long
enough.

**Cluster.** Only the worker of the hub ever listens, so only its promise is ever
resolved (`ResolvedListened`), and workers are forked in turn (`ForkedInTurn`).
`ListeningMeansNoActors` is the other side of `cluster_wait`: for any set of local
actors that is not empty `listening` of the master stays false.

**Interceptors.** With lists of one at most, what `io_interceptor` asks is all
there is, and `AgreedInOrder` (what a socket has passed is a beginning of its
list, and all of it once it is in) gives `EveryInterceptorAgreed`. With longer
lists it is false, which `skipped_interceptor` shows.

Only model-checked: the liveness properties (`HandlersFinish`, `RequestsAnswered`,
`ListenSettles`, `CloseEnds`, `HubAnnounced`), which are out of the prover's reach;
`CallersTidy`; and the properties of `sequential` about handlers that run one at a
time (`ListsAgree`, `JoinedIsListed`, `ActorsTidy`, `GoneCallsAnswered`): nothing in
the code makes them run so, and a theorem with that hypothesis would say little.
Every other invariant and action property of a passing run is the property of a
theorem.

## 6. Not modelled

- Storage commands that reject in the actor, caller and invocation services.
  Observers has them; in SugoHub every handler could then stop between any two
  writes, and what that breaks is what a crash of the process breaks, which
  `takeover` has.
- `invalidate`: nothing calls it. Entities of a hub that was restarted stay in a
  shared redis.
- Clocks other than the wait of `close`. The pauses of a cluster worker's
  `closeAsCluster` are a step each.
- HTTP endpoints, api format, agent, logger and command line: they read and
  format, and keep no state. socketio-auth and the storages are libraries; the
  choice of a storage and of a redis adaptor from the options is configuration.
- Several observers' processes: `CHANGE` of a handler that runs in another
  process never arrives, since services emit in their own.
- Handlers other than DISCONNECT at the end of `close`: a request that was being
  handled when its socket was cut may also meet the storage that quits.

Worth doing next: `CallersTidy` as a theorem, with an invariant that follows each
calm client through its requests as `SavedInv` does for observers.
