-------------------------- MODULE CallerConnector ---------------------------
(***************************************************************************)
(* The handlers of a socket on the caller endpoint                         *)
(* (lib/connectors/caller_connector.js, lib/services/caller_service.js,    *)
(* lib/services/invocation_service.js).                                    *)
(***************************************************************************)
EXTENDS Services

\* JOIN, LEAVE and PERFORM begin with a find of the actor the request names.
\* Without one the handler ends: LEAVE returns, the others throw.
RequestFind(j) ==
  /\ job[j].ev \in {"JOIN", "LEAVE", "PERFORM"}
  /\ job[j].pc = "actor"
  /\ LET found == actors[job[j].key] IN
       Become(j, IF found = None THEN Idle
                 ELSE [job[j] EXCEPT !.actor = found, !.pc = "callerIdx"])
  /\ out' = {}
  /\ UNCHANGED <<conn, storage, queue, history>>

-----------------------------------------------------------------------------
(* JOIN.  Every JOIN draws a uuid, so CallerKey bounds their number; it is  *)
(* used only when the socket has no caller yet.                             *)

Join(j, s, k, uuid) ==
  /\ join[uuid] = None
  /\ Start(j, "JOIN", s,
           [Request("JOIN", s, "actor") EXCEPT !.key = k, !.uuid = uuid])
  /\ join' = [join EXCEPT ![uuid] = [socket |-> s, key |-> k]]
  /\ out' = {}
  /\ UNCHANGED <<conn, storage, queue, call, joined>>

JoinCaller(j) ==
  /\ At(j, "JOIN", "caller")
  /\ LET found == FoundCaller(j)
         caller == IF found = None THEN NewCaller(job[j].uuid, job[j].sock)
                   ELSE [found EXCEPT !.socketId = job[j].sock]
     IN Become(j, SavingCaller(job[j], AddActor(caller, job[j].actor)))
  /\ Push("caller", j)
  /\ out' = {}
  /\ UNCHANGED <<conn, storage, history>>

\* One job is in one queue at a time: the end of the caller's save and the
\* start of the actor's.
CallerSaved(j) ==
  /\ job[j].pc = "hsetCallerIdx"
  /\ callerIdx' = [callerIdx EXCEPT ![job[j].caller.socketId] = job[j].caller.key]

FromCallerToActorQueue(j) ==
  queue' = [queue EXCEPT
              !["caller"] = Queued("caller", j, Tail(Waiting("caller", j))),
              !["actor"] = Queued("actor", j, Append(Waiting("actor", j), j))]

\* Fault: the caller is not added to the actor's list.
JoinCallerSavedUnlisted(j) ==
  /\ job[j].ev = "JOIN"
  /\ CallerSaved(j)
  /\ FromCallerToActorQueue(j)
  /\ Become(j, SavingActor(job[j], job[j].actor))
  /\ out' = {}
  /\ UNCHANGED <<conn, actors, actorIdx, callers, invocations, history>>

JoinCallerSaved(j) ==
  /\ job[j].ev = "JOIN"
  /\ CallerSaved(j)
  /\ FromCallerToActorQueue(j)
  /\ Become(j, SavingActor(job[j], AddCaller(job[j].actor, job[j].caller)))
  /\ out' = {}
  /\ UNCHANGED <<conn, actors, actorIdx, callers, invocations, history>>

JoinSaved(j) ==
  /\ job[j].ev = "JOIN"
  /\ ActorSaved(j, Idle)
  /\ out' = {Message("JOIN", job[j].actor.socketId, job[j].caller.key, None)}
  /\ joined' = [joined EXCEPT ![job[j].sock] = @ \cup {job[j].key}]
  /\ UNCHANGED <<conn, actors, callers, callerIdx, invocations, join, call>>

-----------------------------------------------------------------------------
(* LEAVE.  A client leaves, performs on and pipes to only an actor it takes *)
(* itself to be joined to; the hub checks none of it.                       *)

Leave(j, s, k) ==
  /\ k \in joined[s]
  /\ Start(j, "LEAVE", s, [Request("LEAVE", s, "actor") EXCEPT !.key = k])
  /\ joined' = [joined EXCEPT ![s] = @ \ {k}]
  /\ out' = {}
  /\ UNCHANGED <<conn, storage, queue, join, call>>

\* A caller that leaves its last actor is destroyed, any other is saved.
LeaveCaller(j) ==
  /\ At(j, "LEAVE", "caller")
  /\ LET found == FoundCaller(j)
         caller == RemoveActor(found, job[j].actor)
     IN \/ /\ found = None
           /\ Become(j, Idle)
           /\ UNCHANGED queue
        \/ /\ found # None
           /\ caller.actors = <<>>
           /\ Become(j, [job[j] EXCEPT !.caller = caller, !.pc = "destroyCaller"])
           /\ UNCHANGED queue
        \/ /\ found # None
           /\ caller.actors # <<>>
           /\ Become(j, SavingCaller(job[j], caller))
           /\ Push("caller", j)
  /\ out' = {}
  /\ UNCHANGED <<conn, storage, history>>

\* Fault: the caller stays on the actor's list.
LeaveActorListed(j) ==
  /\ job[j].ev = "LEAVE"
  /\ \/ CallerSaved(j) /\ FromCallerToActorQueue(j)
     \/ CallerDestroyed(j) /\ Push("actor", j)
  /\ Become(j, SavingActor(job[j], job[j].actor))
  /\ out' = {}
  /\ UNCHANGED <<conn, actors, actorIdx, callers, invocations, history>>

LeaveActor(j) ==
  /\ job[j].ev = "LEAVE"
  /\ \/ CallerSaved(j) /\ FromCallerToActorQueue(j)
     \/ CallerDestroyed(j) /\ Push("actor", j)
  /\ Become(j, SavingActor(job[j], RemoveCaller(job[j].actor, job[j].caller)))
  /\ out' = {}
  /\ UNCHANGED <<conn, actors, actorIdx, callers, invocations, history>>

LeaveSaved(j) ==
  /\ job[j].ev = "LEAVE"
  /\ ActorSaved(j, Idle)
  /\ out' = {Message("LEAVE", job[j].actor.socketId, job[j].caller.key, None)}
  /\ UNCHANGED <<conn, actors, callers, callerIdx, invocations, history>>

-----------------------------------------------------------------------------
(* PERFORM.  Each draws a pid, so Pid bounds their number.                  *)

\* begun: its invocation was written; to: the socket PERFORM went out to; lost:
\* a process stopped that was about to answer it.
NewCall(s, k) == [socket |-> s, key |-> k, begun |-> FALSE, to |-> None,
                  answers |-> 0, lost |-> FALSE]

\* What is known of call p from now on.
Note(p, known) == call' = [call EXCEPT ![p] = IF @ = None THEN None ELSE known]

Perform(j, s, k, p) ==
  /\ k \in joined[s]
  /\ call[p] = None
  /\ Start(j, "PERFORM", s,
           [Request("PERFORM", s, "actor") EXCEPT !.key = k, !.pid = p])
  /\ call' = [call EXCEPT ![p] = NewCall(s, k)]
  /\ out' = {}
  /\ UNCHANGED <<conn, storage, queue, join, joined>>

PerformCaller(j) ==
  /\ At(j, "PERFORM", "caller")
  /\ LET found == FoundCaller(j) IN
       IF found = None
       THEN Become(j, Idle) /\ UNCHANGED queue
       ELSE /\ Become(j, [job[j] EXCEPT !.caller = found, !.pc = "hsetInvocation"])
            /\ Push("invocation", j)
  /\ out' = {}
  /\ UNCHANGED <<conn, storage, history>>

\* beginInvocation; there is no index to write.
PerformSaved(j) ==
  LET p == job[j].pid IN
  /\ job[j].pc = "hsetInvocation"
  /\ Turn("invocation", j)
  /\ invocations' = [invocations EXCEPT ![p] =
                       [pid |-> p, caller |-> job[j].caller.key,
                        callerSocket |-> job[j].caller.socketId]]
  /\ Become(j, Await(job[j], "send"))
  /\ out' = {}
  /\ Note(p, [call[p] EXCEPT !.begun = TRUE])
  /\ UNCHANGED <<conn, actors, actorIdx, callers, callerIdx, queue, join, joined>>

\* The storage has answered: the next save may begin, and the request goes out.
PerformSent(j) ==
  LET p == job[j].pid  to == job[j].actor.socketId IN
  /\ job[j].pc = "send"
  /\ Pop("invocation", j)
  /\ Become(j, Idle)
  /\ out' = {Message("PERFORM", to, job[j].caller.key, p)}
  /\ Note(p, [call[p] EXCEPT !.to = to])
  /\ UNCHANGED <<conn, storage, join, joined>>

-----------------------------------------------------------------------------
(* PIPE *)

CallerPipe(j, s, k) ==
  /\ k \in joined[s]
  /\ Start(j, "CALLER_PIPE", s, [Request("CALLER_PIPE", s, "actor") EXCEPT !.key = k])
  /\ out' = {}
  /\ UNCHANGED <<conn, storage, queue, history>>

CallerPipeFind(j) ==
  /\ At(j, "CALLER_PIPE", "actor")
  /\ LET found == actors[job[j].key] IN
       out' = IF found = None THEN {}
              ELSE {Message("PIPE", found.socketId, None, None)}
  /\ Become(j, Idle)
  /\ UNCHANGED <<conn, storage, queue, history>>

-----------------------------------------------------------------------------
(* DISCONNECT: leave the list of each actor, with a CallerGone notice to    *)
(* it; then finish the caller's invocations; then destroy the caller.       *)

CallerDisconnect(j, s) ==
  /\ Start(j, "CALLER_DISCONNECT", s, Request("CALLER_DISCONNECT", s, "callerIdx"))
  /\ conn' = [conn EXCEPT ![s] = "gone"]
  /\ out' = {}
  /\ UNCHANGED <<storage, queue, history>>

\* Fault: the caller is destroyed without finishing its invocations.
VisitingOnly(r) ==
  Await(r, IF r.actorsLeft = <<>> THEN "destroyCaller" ELSE "actor")

Visiting(r) == Await(r, IF r.actorsLeft = <<>> THEN "hkeys" ELSE "actor")
NextActor(r) == Visiting([r EXCEPT !.actorsLeft = Tail(@)])

CallerDisconnectFind(j) ==
  /\ At(j, "CALLER_DISCONNECT", "caller")
  /\ LET found == FoundCaller(j) IN
       Become(j, IF found = None THEN Idle
                 ELSE Visiting([job[j] EXCEPT !.caller = found,
                                              !.actorsLeft = found.actors]))
  /\ out' = {}
  /\ UNCHANGED <<conn, storage, queue, history>>

VisitActor(j) ==
  /\ At(j, "CALLER_DISCONNECT", "actor")
  /\ LET found == actors[Head(job[j].actorsLeft)] IN
       IF found = None
       THEN Become(j, NextActor(job[j])) /\ UNCHANGED queue
       ELSE /\ Become(j, SavingActor(job[j], RemoveCaller(found, job[j].caller)))
            /\ Push("actor", j)
  /\ out' = {}
  /\ UNCHANGED <<conn, storage, history>>

VisitSaved(j) ==
  /\ job[j].ev = "CALLER_DISCONNECT"
  /\ ActorSaved(j, NextActor(job[j]))
  /\ out' = {Message("NOTICE", job[j].actor.socketId, job[j].caller.key, None)}
  /\ UNCHANGED <<conn, actors, callers, callerIdx, invocations, history>>

Leaving(r) == Await(r, "destroyCaller")

CallerList(j) ==
  job[j].ev = "CALLER_DISCONNECT" /\ ListInvocations(j, Leaving(job[j]))

CallerScan(j) ==
  job[j].ev = "CALLER_DISCONNECT" /\ ScanInvocation(j, Leaving(job[j]))

CallerFinished(j) ==
  /\ job[j].ev = "CALLER_DISCONNECT"
  /\ InvocationDestroyed(j)
  /\ Become(j, FinishNext([job[j] EXCEPT !.hits = Tail(@)], Leaving(job[j])))
  /\ out' = {}
  /\ UNCHANGED <<conn, actors, actorIdx, callers, callerIdx, queue, history>>

CallerDisconnected(j) ==
  /\ job[j].ev = "CALLER_DISCONNECT"
  /\ CallerDestroyed(j)
  /\ Become(j, Idle)
  /\ out' = {}
  /\ UNCHANGED <<conn, actors, actorIdx, callers, invocations, queue, history>>

-----------------------------------------------------------------------------
CallerRequest(j) ==
  \E s \in CallerSocket :
    \/ \E k \in ActorKey :
         \/ \E uuid \in CallerKey : Join(j, s, k, uuid)
         \/ Leave(j, s, k)
         \/ \E p \in Pid : Perform(j, s, k, p)
         \/ CallerPipe(j, s, k)
    \/ CallerDisconnect(j, s)

CallerStep(j) ==
  \/ RequestFind(j)
  \/ JoinCaller(j) \/ JoinCallerSaved(j) \/ JoinSaved(j)
  \/ LeaveCaller(j) \/ LeaveActor(j) \/ LeaveSaved(j)
  \/ PerformCaller(j) \/ PerformSaved(j) \/ PerformSent(j)
  \/ CallerPipeFind(j)
  \/ CallerDisconnectFind(j) \/ VisitActor(j) \/ VisitSaved(j)
  \/ CallerList(j) \/ CallerScan(j) \/ CallerFinished(j) \/ CallerDisconnected(j)
=============================================================================
