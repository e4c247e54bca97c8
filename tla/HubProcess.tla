----------------------------- MODULE HubProcess -----------------------------
(***************************************************************************)
(* One hub process from listen to close (lib/sugo_hub.js), with its local  *)
(* actors (lib/mixins/local_mixin.js) and its remote sockets.              *)
(*                                                                         *)
(* close waits 300 ms for the DISCONNECT handlers of the sockets it closed *)
(* and then quits the storage.  To compare, time passes in ticks of 33 ms, *)
(* the retry interval of Service.find, and the storage is as fast as can   *)
(* be: only the sleeps take time.  Of what a DISCONNECT handler looks up   *)
(* the model keeps the number of finds, of which those may miss that look  *)
(* for what the handler of another socket deletes.                         *)
(***************************************************************************)
EXTENDS Admission

CONSTANTS
  localActors,  \* options.localActors: their sockets, in order
  ActorSocket,  \* the sockets of actors, local ones included
  MaxListed,    \* names on a socket's list when it hangs up, at most (bound)
  MaxCalls      \* pending calls it then is to finish, at most (bound)

Local == {localActors[n] : n \in 1..Len(localActors)}

ASSUME LocalActorSockets == /\ ActorSocket \subseteq Socket
                            /\ localActors \in Seq(ActorSocket)
ASSUME LocalActorsDiffer ==
  \A m, n \in 1..Len(localActors) : localActors[m] = localActors[n] => m = n
ASSUME Bounds == MaxListed \in [Socket -> Nat] /\ MaxCalls \in [Socket -> Nat]

VARIABLES
  phase,      \* how far the application's listen and close have come
  listening,  \* hub.listening
  server,     \* the http server: "off", "on" or "closed"
  turn,       \* position in localActors of the loop over them
  misnamed,   \* local actors whose key is not the one they are registered by
  todo,       \* finds left to the DISCONNECT handler of each socket
  wait,       \* ticks each DISCONNECT handler still sleeps
  timer       \* ticks left of "Wait to flush"

lifecycle == <<phase, listening, server, turn>>
cleanup == <<todo, wait>>
vars == <<admission, lifecycle, misnamed, cleanup, timer>>

RetryTicks == 3  \* a find that misses: retryMax times retryInterval
FlushTicks == 9  \* asleep(300) outlasts nine retry intervals of 33 ms, not ten

(***************************************************************************)
(* The finds of a DISCONNECT handler, once it has found its entity: an     *)
(* actor's looks each caller up twice (invocations, NOTICE), a caller's    *)
(* looks each actor up; either destroys each pending call and then itself, *)
(* and destroy begins with a find.                                         *)
(***************************************************************************)
Lookups(s, listed, calls) ==
  (IF s \in ActorSocket THEN 2 * listed ELSE listed) + calls + 1

Init ==
  /\ sock = [s \in Socket |-> "away"]
  /\ agreed = [s \in Socket |-> <<>>]
  /\ phase = "new"
  /\ listening = FALSE
  /\ server = "off"
  /\ turn = 1
  /\ misnamed \in SUBSET Local
  /\ todo = [s \in Socket |-> 0]
  /\ wait = [s \in Socket |-> 0]
  /\ timer = 0

-----------------------------------------------------------------------------
(* listen *)

Goes(from, to) == phase \in from /\ phase' = to

Listen ==
  /\ Goes({"new"}, "binding")
  /\ listening' = TRUE
  /\ UNCHANGED <<admission, server, turn, cleanup, timer>>

\* server.listen(port) resolves; the callback is called.
Bound ==
  /\ Goes({"binding"}, "connecting")
  /\ server' = "on"
  /\ UNCHANGED <<admission, listening, turn, cleanup, timer>>

\* The port is taken: listen rejects, with listening set.
BindFails ==
  /\ Goes({"binding"}, "failed")
  /\ UNCHANGED <<admission, listening, server, turn, cleanup, timer>>

-----------------------------------------------------------------------------
(* connectLocalActors *)

More == turn <= Len(localActors)
Current == localActors[turn]

ConnectLocal ==
  /\ phase = "connecting"
  /\ More
  /\ Current \notin misnamed
  /\ Connect(Current)
  /\ UNCHANGED <<lifecycle, cleanup, timer>>

\* Fault: the loop does not await connect.
LocalConnectedUnawaited ==
  /\ phase = "connecting"
  /\ More
  /\ sock[Current] \in {"asking", "open"}
  /\ turn' = turn + 1
  /\ UNCHANGED <<admission, phase, listening, server, cleanup, timer>>

LocalConnected ==
  /\ phase = "connecting"
  /\ More
  /\ sock[Current] = "open"
  /\ turn' = turn + 1
  /\ UNCHANGED <<admission, phase, listening, server, cleanup, timer>>

\* Fault: a refused connection is never reported.
LocalFailsUnheard ==
  /\ Goes({"connecting"}, "failed")
  /\ More
  /\ Current \in misnamed
  /\ UNCHANGED <<admission, listening, server, turn, cleanup, timer>>

\* An invalid key throws before connect, a refused connection after.
LocalFails ==
  /\ Goes({"connecting"}, "failed")
  /\ More
  /\ Current \in misnamed \/ sock[Current] = "refused"
  /\ UNCHANGED <<admission, listening, server, turn, cleanup, timer>>

\* listen resolves.
Listened ==
  /\ Goes({"connecting"}, "up")
  /\ ~More
  /\ UNCHANGED <<admission, listening, server, turn, cleanup, timer>>

-----------------------------------------------------------------------------
(* Sockets come and go *)

Dial(s) ==
  /\ s \notin Local
  /\ server = "on"
  /\ Connect(s)
  /\ UNCHANGED <<lifecycle, cleanup, timer>>

Intercept(s) ==
  /\ Agree(s) \/ Refuse(s) \/ LetIn(s)
  /\ UNCHANGED <<lifecycle, cleanup, timer>>

\* The socket is gone, and its DISCONNECT handler starts: it finds no entity
\* (and sleeps until find has given up), or one with some names on its list.
Leave(s) ==
  /\ sock[s] = "open"
  /\ sock' = [sock EXCEPT ![s] = "gone"]
  /\ \/ wait' = [wait EXCEPT ![s] = RetryTicks] /\ UNCHANGED todo
     \/ /\ \E listed \in 0..MaxListed[s], calls \in 0..MaxCalls[s] :
             todo' = [todo EXCEPT ![s] = Lookups(s, listed, calls)]
        /\ UNCHANGED wait
  /\ UNCHANGED <<agreed, timer>>

\* A socket that goes before it is let in has no handler.
GiveUp(s) ==
  /\ sock[s] = "asking"
  /\ sock' = [sock EXCEPT ![s] = "gone"]
  /\ UNCHANGED <<agreed, cleanup, timer>>

HangUp(s) ==
  /\ s \notin Local
  /\ Leave(s) \/ GiveUp(s)
  /\ UNCHANGED lifecycle

-----------------------------------------------------------------------------
(* DISCONNECT handlers *)

Runnable(s) == todo[s] > 0 /\ wait[s] = 0

Hit(s) ==
  /\ Runnable(s)
  /\ todo' = [todo EXCEPT ![s] = @ - 1]
  /\ UNCHANGED <<admission, lifecycle, wait, timer>>

\* What it looks for went with another socket; its own entity, which it looks up
\* last, did not.
Miss(s) ==
  /\ Runnable(s)
  /\ todo[s] > 1
  /\ \E t \in Socket \ {s} : sock[t] = "gone"
  /\ todo' = [todo EXCEPT ![s] = @ - 1]
  /\ wait' = [wait EXCEPT ![s] = RetryTicks]
  /\ UNCHANGED <<admission, lifecycle, timer>>

Finished(s) == todo[s] = 0 /\ wait[s] = 0

Passed(n) == IF n = 0 THEN 0 ELSE n - 1

Tick ==
  /\ \A s \in Socket : ~Runnable(s)
  /\ timer > 0 \/ \E s \in Socket : wait[s] > 0
  /\ wait' = [s \in Socket |-> Passed(wait[s])]
  /\ timer' = Passed(timer)
  /\ UNCHANGED <<admission, lifecycle, todo>>

-----------------------------------------------------------------------------
(* close: the application calls it when listen has settled. *)

\* Fault: the server is closed before the local actors are disconnected.
CloseServerFirst ==
  /\ Goes({"up", "failed"}, "disconnecting")
  /\ listening' = FALSE
  /\ server' = "closed"
  /\ turn' = 1
  /\ UNCHANGED <<admission, cleanup, timer>>

Close ==
  /\ Goes({"up", "failed"}, "disconnecting")
  /\ listening' = FALSE
  /\ turn' = 1
  /\ UNCHANGED <<admission, server, cleanup, timer>>

\* disconnectLocalActors
DisconnectLocal ==
  /\ phase = "disconnecting"
  /\ More
  /\ Leave(Current)
  /\ turn' = turn + 1
  /\ UNCHANGED <<phase, listening, server>>

\* Fault: an actor that is not connected is passed over with the one after it.
DisconnectAbsentAndNext ==
  /\ phase = "disconnecting"
  /\ More
  /\ sock[Current] # "open"
  /\ \/ turn' = turn + 2 /\ UNCHANGED phase
     \/ phase' = "stuck" /\ UNCHANGED turn
  /\ UNCHANGED <<admission, listening, server, cleanup, timer>>

\* disconnect of an actor that never connected may resolve or reject; close
\* rejects with it.
DisconnectAbsent ==
  /\ phase = "disconnecting"
  /\ More
  /\ sock[Current] # "open"
  /\ \/ turn' = turn + 1 /\ UNCHANGED phase
     \/ phase' = "stuck" /\ UNCHANGED turn
  /\ UNCHANGED <<admission, listening, server, cleanup, timer>>

\* server.close(): no new connections, the open ones are closed.
StopServer ==
  /\ Goes({"disconnecting"}, "closing")
  /\ ~More
  /\ server' = "closed"
  /\ UNCHANGED <<admission, listening, turn, cleanup, timer>>

\* close of a server that never listened may reject.
StopServerFails ==
  /\ Goes({"disconnecting"}, "stuck")
  /\ ~More
  /\ server = "off"
  /\ UNCHANGED <<admission, listening, server, turn, cleanup, timer>>

\* Fault: server.close waits for the open sockets instead of closing them.
CutAsking(s) ==
  /\ phase = "closing"
  /\ GiveUp(s)
  /\ UNCHANGED lifecycle

Cut(s) ==
  /\ phase = "closing"
  /\ Leave(s) \/ GiveUp(s)
  /\ UNCHANGED lifecycle

Connected(s) == sock[s] \in {"asking", "open"}

\* server.close() resolves, the redis adaptor is closed whatever it answers,
\* and the wait starts.
ServerClosed ==
  /\ Goes({"closing"}, "flushing")
  /\ \A s \in Socket : ~Connected(s)
  /\ timer' = FlushTicks
  /\ UNCHANGED <<admission, listening, server, turn, cleanup>>

\* storage.quit(), once the wait is over.
Quit ==
  /\ Goes({"flushing"}, "quit")
  /\ timer = 0
  /\ \A s \in Socket : ~Runnable(s)
  /\ UNCHANGED <<admission, listening, server, turn, cleanup, timer>>

-----------------------------------------------------------------------------

HubStep ==
  /\ UNCHANGED misnamed
  /\ \/ Bound \/ BindFails
     \/ ConnectLocal \/ LocalConnected \/ LocalFails \/ Listened
     \/ DisconnectLocal \/ DisconnectAbsent \/ StopServer \/ StopServerFails
     \/ ServerClosed \/ Quit

SocketStep(s) == UNCHANGED misnamed /\ (Intercept(s) \/ Cut(s) \/ Hit(s) \/ Miss(s))
ClientStep(s) == UNCHANGED misnamed /\ (Dial(s) \/ HangUp(s))
ApplicationStep == UNCHANGED misnamed /\ (Listen \/ Close)
TimeStep == UNCHANGED misnamed /\ Tick

Next ==
  \/ ApplicationStep \/ HubStep \/ TimeStep
  \/ \E s \in Socket : ClientStep(s) \/ SocketStep(s)

Spec == Init /\ [][Next]_vars

\* Time passes, the process runs, and every interceptor settles; nobody has to
\* connect, hang up, listen or close.
FairSpec ==
  /\ Spec
  /\ WF_vars(HubStep)
  /\ WF_vars(TimeStep)
  /\ \A s \in Socket : WF_vars(SocketStep(s))

-----------------------------------------------------------------------------
(* Properties *)

TypeOK ==
  /\ sock \in [Socket -> {"away", "asking", "open", "refused", "gone"}]
  /\ agreed \in [Socket -> Seq(Interceptor)]
  /\ phase \in {"new", "binding", "connecting", "up", "failed", "disconnecting",
                "closing", "flushing", "quit", "stuck"}
  /\ listening \in BOOLEAN
  /\ server \in {"off", "on", "closed"}
  /\ turn \in 1..(Len(localActors) + 1)
  /\ misnamed \in SUBSET Local
  /\ todo \in [Socket -> Nat]
  /\ wait \in [Socket -> 0..RetryTicks]
  /\ timer \in 0..FlushTicks


\* Local actors say BYE to a server that still answers: none is connected any
\* more when the server is closed.
LocalsLeaveFirst == server = "closed" => \A s \in Local : sock[s] # "open"

\* listen resolves only when every local actor is connected under its own
\* key, and then they are there until close.
LocalsServed == phase = "up" => misnamed = {} /\ \A s \in Local : sock[s] = "open"

\* A socket that is let in has passed every interceptor of its url, in order
\* ("Compose multiple socket io middleware into one").
EveryInterceptorAgreed ==
  \A s \in Socket : sock[s] = "open" => agreed[s] = interceptors[UrlOf[s]]

\* listen settles: the port is bound or not, and each local actor connects or
\* is refused.
ListenSettles == phase = "binding" ~> phase \in {"up", "failed"}

\* close of a hub whose listen had resolved comes to its end: local actors,
\* server, redis adaptor and storage.
CloseEnds ==
  phase = "disconnecting" /\ turn = 1 /\ (\A s \in Local : sock[s] = "open")
    /\ server = "on" ~> phase = "quit"
=============================================================================
