----------------------------- MODULE SugoHubInv -----------------------------
(***************************************************************************)
(* The inductive invariants of the hub, each proved from those before it:   *)
(*   TypeInv    what a handler holds at each command it may be waiting for  *)
(*              (TypeProofs);                                               *)
(*   Owned      whose callers it holds (OwnerProofs);                       *)
(*   Listed     who is on the lists of actors (OwnerProofs);                *)
(*   Swept      whose calls the disconnection of an actor ends              *)
(*              (SweepProofs);                                              *)
(*   Inductive  how its copies of calls relate to the requests they come    *)
(*              from (CallProofs);                                          *)
(*   Counted    how often each call may still be answered (AnswerProofs).   *)
(***************************************************************************)
EXTENDS SugoHub

\* What the fields of a job hold, by its event and the command it awaits.
SocketShape(r) ==
  /\ r.ev = None => r.pc = "idle"
  /\ r.ev \in ActorEvent => r.sock \in ActorSocket
  /\ r.ev \in CallerEvent => r.sock \in CallerSocket
  /\ r.pc = "actorIdx" => r.ev \in ActorEvent
  /\ r.pc \in {"callerIdx", "caller"} => r.ev \in CallerEvent
  /\ r.pc \in {"hsetInvocation", "send"} => r.ev = "PERFORM"
  /\ r.pc = "cast" => r.ev \in {"SPEC", "DESPEC", "ACTOR_PIPE", "ACTOR_DISCONNECT"}
  /\ r.pc = "invocation" => r.ev = "RESULT"
  /\ r.pc = "reply" => r.ev \in {"RESULT", "ACTOR_DISCONNECT"}

ArgumentShape(r) ==
  /\ r.ev = "JOIN" => r.uuid # None
  /\ r.ev \in {"JOIN", "PERFORM"} => r.key # None
  /\ r.ev \in {"SPEC", "DESPEC"} => r.name # None
  /\ r.ev \in {"PERFORM", "RESULT"} => r.pid # None
  /\ r.pc = "actor" /\ r.ev # "CALLER_DISCONNECT" => r.key # None

ActorShape(r) ==
  /\ r.ev \in {"JOIN", "LEAVE", "PERFORM"} /\ r.pc # "actor" => r.actor # None
  /\ r.ev = "ACTOR_DISCONNECT" /\ r.pc \notin {"actorIdx", "actor"} => r.actor # None
  /\ r.pc \in {"hsetActor", "hsetActorIdx", "destroyActor", "hdelActor",
               "hdelActorIdx", "cast"} => r.actor # None

CallerShape(r) ==
  /\ r.ev = "CALLER_DISCONNECT" /\ r.pc \notin {"callerIdx", "caller"} =>
       r.caller # None
  /\ r.ev \in {"JOIN", "LEAVE"} /\ r.pc \in {"hsetActor", "hsetActorIdx"} =>
       r.caller # None
  /\ r.pc \in {"hsetCaller", "hsetCallerIdx", "destroyCaller", "hdelCaller",
               "hdelCallerIdx", "hsetInvocation", "send"} => r.caller # None

LoopShape(r) ==
  /\ r.pc \in {"cast", "sweep"} => r.callersLeft # <<>>
  /\ r.ev = "ACTOR_DISCONNECT" /\ r.pc \in {"hkeys", "scan", "destroyInvocation",
                                            "hdelInvocation", "reply"} =>
       r.callersLeft # <<>>
  /\ r.ev = "CALLER_DISCONNECT" /\ r.pc \in {"actor", "hsetActor", "hsetActorIdx"} =>
       r.actorsLeft # <<>>
  /\ r.pc = "reply" => r.hits # <<>>
  /\ r.pc \in {"destroyInvocation", "hdelInvocation", "reply"} =>
       /\ r.pid # None
       /\ r.ev # "RESULT" => r.hits # <<>> /\ r.hits[1].pid = r.pid

Shaped(r) ==
  SocketShape(r) /\ ArgumentShape(r) /\ ActorShape(r) /\ CallerShape(r) /\ LoopShape(r)

\* The job that is in the middle of a save is the first of its queue.
SavesTakeTurns ==
  \A j \in Job : /\ job[j].pc = "hsetActorIdx" => Turn("actor", j)
                 /\ job[j].pc = "hsetCallerIdx" => Turn("caller", j)
                 /\ job[j].pc = "send" => Turn("invocation", j)

TypeInv ==
  /\ TypeOK
  /\ \A j \in Job : Shaped(job[j])
  /\ SavesTakeTurns

-----------------------------------------------------------------------------
(* Who owns what: no handler holds, or files, a record of another socket's. *)

\* The caller of uuid key is one a JOIN of socket s asked for.
Of(key, s) == join[key] # None /\ join[key].socket = s

CallersOwned ==
  /\ \A c \in CallerKey : callers[c] # None =>
       callers[c].key = c /\ Of(c, callers[c].socketId)
  /\ \A s \in CallerSocket : callerIdx[s] # None => Of(callerIdx[s], s)

Owns(r) ==
  /\ r.ev = "JOIN" => Of(r.uuid, r.sock)
  /\ r.ev \in CallerEvent /\ r.ckey # None => Of(r.ckey, r.sock)
  /\ r.caller # None => /\ r.ev \in CallerEvent
                        /\ Of(r.caller.key, r.sock)
                        /\ r.caller.socketId = r.sock
  /\ r.ev = "CALLER_DISCONNECT" => conn[r.sock] = "gone"

Owned ==
  /\ TypeInv
  /\ CallersOwned
  /\ \A j \in Job : Owns(job[j])

-----------------------------------------------------------------------------
(* Who is on whose list. *)

\* Callers of sockets that asked to join the actor with key k.
Invitees(k) ==
  {c \in CallerKey :
     /\ join[c] # None
     /\ \E u \in CallerKey : join[u] = [socket |-> join[c].socket, key |-> k]}

Invites(actor) == actor.callers \in Seq(Invitees(actor.key))

ActorsInvite ==
  \A k \in ActorKey : actors[k] # None => actors[k].key = k /\ Invites(actors[k])

\* The copy of an actor that a handler holds, and what is left of its list.
Lists(r) ==
  /\ r.actor # None => Invites(r.actor)
  /\ r.callersLeft # <<>> =>
       /\ r.ev \in ActorEvent
       /\ r.pc \notin {"actorIdx", "actor", "hsetActor", "hsetActorIdx"}
       /\ r.actor # None
       /\ r.callersLeft \in Seq(Invitees(r.actor.key))
  /\ r.ev = "JOIN" =>
       /\ join[r.uuid] = [socket |-> r.sock, key |-> r.key]
       /\ r.actor # None => r.actor.key = r.key

\* Broadcasts, the errors of calls aside, reach members only.
NoticesToMembers ==
  \A m \in out : m.ev # "RESULT" /\ m.key # None /\ m.to \in CallerSocket =>
    \E k \in CallerKey : join[k] = [socket |-> m.to, key |-> m.key]

Listed ==
  /\ Owned
  /\ ActorsInvite
  /\ \A j \in Job : Lists(job[j])
  /\ NoticesToMembers

\* An invocation is filed under a caller of the socket it came from.
Sourced(inv) == Of(inv.caller, inv.callerSocket)

InvocationsSourced ==
  \A p \in Pid : invocations[p] # None => Sourced(invocations[p])

\* The disconnection of an actor asks for, and finds, calls of invited callers.
Sweeps(r) ==
  r.ev = "ACTOR_DISCONNECT" =>
    /\ r.pc \in {"hkeys", "scan"} => r.ckey \in Invitees(r.actor.key)
    /\ r.hits # <<>> => r.actor # None
    /\ \A n \in DOMAIN r.hits : /\ Sourced(r.hits[n])
                                /\ r.hits[n].caller \in Invitees(r.actor.key)

Swept ==
  /\ Listed
  /\ InvocationsSourced
  /\ \A j \in Job : Sweeps(job[j])
  /\ BroadcastToMembers

-----------------------------------------------------------------------------
(* Which call a record is about. *)

\* An invocation, stored or held, is that of a call that was recorded, from the
\* socket that asked for it.
OfCall(inv) ==
  /\ call[inv.pid] # None
  /\ call[inv.pid].begun
  /\ call[inv.pid].socket = inv.callerSocket

InvocationsOfCalls ==
  \A p \in Pid : invocations[p] # None =>
    /\ invocations[p].pid = p
    /\ OfCall(invocations[p])
    /\ call[p].answers = 0

CallsBegun ==
  \A p \in Pid : call[p] # None =>
    /\ conn[call[p].socket] # "fresh"
    /\ ~ call[p].begun => call[p].to = None /\ call[p].answers = 0

\* A PERFORM has its pid to itself until it has gone out; a RESULT is about a
\* call that was recorded, and has nothing to reply with once it found nothing;
\* what is replied to is no longer recorded.
Carries(r) ==
  /\ r.ev = "PERFORM" => /\ call[r.pid] # None
                         /\ call[r.pid].begun <=> r.pc = "send"
                         /\ call[r.pid].socket = r.sock
  /\ r.ev = "RESULT" =>
       /\ call[r.pid] # None
       /\ call[r.pid].begun
       /\ r.pc # "invocation" /\ r.hits = <<>> => invocations[r.pid] = None
  /\ r.pc = "reply" => invocations[r.pid] = None
  /\ \A n \in DOMAIN r.hits :
       /\ OfCall(r.hits[n])
       /\ r.ev = "RESULT" => r.hits[n].pid = r.pid
       /\ r.ev = "CALLER_DISCONNECT" => r.hits[n].callerSocket = r.sock

OnePerformPerPid ==
  \A i, j \in Job : job[i].ev = "PERFORM" /\ job[j].ev = "PERFORM"
                    /\ job[i].pid = job[j].pid => i = j

\* The strengthening under which the properties of calls are inductive.
Inductive ==
  /\ Owned
  /\ InvocationsOfCalls
  /\ CallsBegun
  /\ \A j \in Job : Carries(job[j])
  /\ OnePerformPerPid
  /\ ResultRouted
  /\ PendingIsAnswerable

-----------------------------------------------------------------------------
(* How often a call may still be answered. *)

\* A disconnection finds each call once, and has not it before it in its scan.
HitsDiffer(r) ==
  r.ev = "ACTOR_DISCONNECT" =>
    /\ r.pc \in {"sweep", "hkeys"} => r.hits = <<>>
    /\ r.pc = "scan" => \A n \in DOMAIN r.hits : r.hits[n].pid \notin r.scan
    /\ \A m, n \in DOMAIN r.hits : r.hits[m].pid = r.hits[n].pid => m = n

\* The handlers that found the record of call p and may answer it.
Holds(r, p) ==
  /\ r.ev \in {"RESULT", "ACTOR_DISCONNECT"}
  /\ \E n \in DOMAIN r.hits : r.hits[n].pid = p

Holders(p) == {j \in Job : Holds(job[j], p)}

\* No handler finds the record after an answer, so the answers given and those
\* to come are no more than the handlers that may have found it before.
AnswersCounted ==
  \A p \in Pid : call[p] # None =>
    call[p].answers + Cardinality(Holders(p)) =< Cardinality(Job)

Counted ==
  /\ \A j \in Job : HitsDiffer(job[j])
  /\ AnswersCounted
=============================================================================
