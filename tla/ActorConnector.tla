--------------------------- MODULE ActorConnector ---------------------------
(***************************************************************************)
(* The handlers of a socket on the actor endpoint                          *)
(* (lib/connectors/actor_connector.js, lib/services/actor_service.js).     *)
(***************************************************************************)
EXTENDS Services

CONSTANTS
  Announces,  \* the actor keys the client of each actor socket may greet with
  Takeover    \* may a client announce a key another open socket may announce?

ASSUME AnnouncesKeys == Announces \in [ActorSocket -> SUBSET ActorKey]
ASSUME TakeoverIsBoolean == Takeover \in BOOLEAN

-----------------------------------------------------------------------------
(* HI *)

MayAnnounce(s, k) ==
  /\ k \in Announces[s]
  /\ Takeover \/ \A t \in ActorSocket \ {s} :
                   conn[t] = "open" => k \notin Announces[t]

Hi(j, s, k) ==
  /\ MayAnnounce(s, k)
  /\ Start(j, "HI", s, [Request("HI", s, "actor") EXCEPT !.key = k])
  /\ out' = {}
  /\ UNCHANGED <<conn, storage, queue, history>>

\* setupActor keeps the entity of an earlier connection and makes it its own.
HiFind(j) ==
  /\ At(j, "HI", "actor")
  /\ LET found == actors[job[j].key]
         actor == IF found = None THEN NewActor(job[j].key, job[j].sock)
                  ELSE [found EXCEPT !.socketId = job[j].sock]
     IN Become(j, SavingActor(job[j], actor))
  /\ Push("actor", j)
  /\ out' = {}
  /\ UNCHANGED <<conn, storage, history>>

\* PURGE goes out when the client asked for force.
HiSaved(j) ==
  /\ job[j].ev = "HI"
  /\ ActorSaved(j, Idle)
  /\ \E force \in BOOLEAN :
       out' = IF force THEN {Message("PURGE", job[j].actor.socketId, None, None)}
              ELSE {}
  /\ UNCHANGED <<conn, actors, callers, callerIdx, invocations, history>>

-----------------------------------------------------------------------------
(* BYE: only a timestamp changes, but the copy that was read is saved back. *)

Bye(j, s) ==
  /\ Start(j, "BYE", s, Request("BYE", s, "actorIdx"))
  /\ out' = {}
  /\ UNCHANGED <<conn, storage, queue, history>>

\* Fault: DESPEC stores null in place of deleting.
SpecsAfterNulled(r, actor) ==
  IF r.ev = "SPEC" THEN actor.specs \cup {r.name}
  ELSE IF r.ev = "DESPEC" THEN (actor.specs \ {r.name}) \cup {None}
  ELSE actor.specs

\* SPEC and DESPEC differ in the update.
SpecsAfter(r, actor) ==
  CASE r.ev = "SPEC"   -> actor.specs \cup {r.name}
    [] r.ev = "DESPEC" -> actor.specs \ {r.name}
    [] r.ev = "BYE"    -> actor.specs

\* The strict find of BYE, SPEC and DESPEC, the update and the start of save.
UpdateFind(j) ==
  /\ job[j].ev \in {"BYE", "SPEC", "DESPEC"}
  /\ job[j].pc = "actor"
  /\ LET found == actors[job[j].key] IN
       IF found = None
       THEN Become(j, Idle) /\ UNCHANGED queue
       ELSE /\ Become(j, SavingActor(job[j],
                           [found EXCEPT !.specs = SpecsAfter(job[j], found)]))
            /\ Push("actor", j)
  /\ out' = {}
  /\ UNCHANGED <<conn, storage, history>>

ByeSaved(j) ==
  /\ job[j].ev = "BYE"
  /\ ActorSaved(j, Idle)
  /\ out' = {}
  /\ UNCHANGED <<conn, actors, callers, callerIdx, invocations, history>>

-----------------------------------------------------------------------------
(* SPEC, DESPEC, PIPE, and the ActorGone notice of DISCONNECT go to the     *)
(* callers of the actor's list, each looked up when its turn comes.         *)

Casting(r) == IF r.callersLeft # <<>> THEN Await(r, "cast")
              ELSE IF r.ev = "ACTOR_DISCONNECT" THEN Await(r, "destroyActor")
              ELSE Idle

CastAs(ev) == CASE ev = "ACTOR_PIPE" -> "PIPE"
                [] ev = "ACTOR_DISCONNECT" -> "NOTICE"
                [] OTHER -> ev

\* Fault: the message is emitted to the whole namespace.
CastToAll(j) ==
  /\ job[j].pc = "cast"
  /\ out' = {Message(CastAs(job[j].ev), s, job[j].actor.key, None) :
                s \in CallerSocket}
  /\ Become(j, Casting([job[j] EXCEPT !.callersLeft = Tail(@)]))
  /\ UNCHANGED <<conn, storage, queue, history>>

\* PIPE skips a caller its optional "only" does not name.
Cast(j) ==
  /\ job[j].pc = "cast"
  /\ LET caller == callers[Head(job[j].callersLeft)]
         ev == job[j].ev
         skip == /\ ev = "ACTOR_PIPE"
                 /\ job[j].ckey # None
                 /\ caller.key # job[j].ckey
     IN /\ out' = IF caller = None \/ skip THEN {}
                  ELSE {Message(CastAs(ev), caller.socketId,
                                job[j].actor.key, None)}
        /\ joined' = IF caller # None /\ ev = "ACTOR_DISCONNECT"
                     THEN [joined EXCEPT ![caller.socketId] =
                                            @ \ {job[j].actor.key}]
                     ELSE joined
  /\ Become(j, Casting([job[j] EXCEPT !.callersLeft = Tail(@)]))
  /\ UNCHANGED <<conn, storage, queue, join, call>>

UpdateSpec(j, s, name) ==
  /\ Start(j, "SPEC", s, [Request("SPEC", s, "actorIdx") EXCEPT !.name = name])
  /\ out' = {}
  /\ UNCHANGED <<conn, storage, queue, history>>

DelSpec(j, s, name) ==
  /\ Start(j, "DESPEC", s,
           [Request("DESPEC", s, "actorIdx") EXCEPT !.name = name])
  /\ out' = {}
  /\ UNCHANGED <<conn, storage, queue, history>>

SpecSaved(j) ==
  /\ job[j].ev \in {"SPEC", "DESPEC"}
  /\ ActorSaved(j, Casting([job[j] EXCEPT !.callersLeft = job[j].actor.callers]))
  /\ out' = {}
  /\ UNCHANGED <<conn, actors, callers, callerIdx, invocations, history>>

\* The client pipes under a key it may announce; no guard of the hub checks it.
ActorPipe(j, s, k, only) ==
  /\ k \in Announces[s]
  /\ Start(j, "ACTOR_PIPE", s,
           [Request("ACTOR_PIPE", s, "actor") EXCEPT !.key = k, !.ckey = only])
  /\ out' = {}
  /\ UNCHANGED <<conn, storage, queue, history>>

ActorPipeFind(j) ==
  /\ At(j, "ACTOR_PIPE", "actor")
  /\ LET found == actors[job[j].key] IN
       Become(j, IF found = None THEN Idle
                 ELSE Casting([job[j] EXCEPT !.actor = found,
                                             !.callersLeft = found.callers]))
  /\ out' = {}
  /\ UNCHANGED <<conn, storage, queue, history>>

-----------------------------------------------------------------------------
(* RESULT.  The hub takes a pid from any actor; actors answer the calls     *)
(* that reached them, and may answer twice.                                 *)

\* The emission of RESULT messages, and the count of answers per call.
Reply(msgs) ==
  /\ out' = msgs
  /\ call' = [p \in Pid |->
               IF call[p] # None /\ (\E m \in msgs : m.ev = "RESULT" /\ m.pid = p)
               THEN [call[p] EXCEPT !.answers = @ + 1]
               ELSE call[p]]

\* Fault: the result is emitted to the whole namespace.
ResultToAll(hits, key) ==
  IF hits = <<>> THEN {}
  ELSE {Message("RESULT", s, key, Head(hits).pid) : s \in CallerSocket}

\* The RESULT for the invocation found last; key names the actor that is gone.
ResultTo(hits, key) ==
  IF hits = <<>> THEN {}
  ELSE {Message("RESULT", Head(hits).callerSocket, key, Head(hits).pid)}

Result(j, s, p) ==
  /\ call[p] # None
  /\ call[p].to = s
  /\ Start(j, "RESULT", s, [Request("RESULT", s, "invocation") EXCEPT !.pid = p])
  /\ out' = {}
  /\ UNCHANGED <<conn, storage, queue, history>>

\* Fault: the result is emitted before the invocation is finished.
ResultFindReplies(j) ==
  /\ At(j, "RESULT", "invocation")
  /\ LET found == invocations[job[j].pid] IN
       Reply(IF found = None THEN {} ELSE ResultTo(<<found>>, None))
  /\ Become(j, [job[j] EXCEPT !.pc = "destroyInvocation"])
  /\ UNCHANGED <<conn, storage, queue, join, joined>>

\* Found or not, the handler goes on to finishInvocation.
ResultFind(j) ==
  /\ At(j, "RESULT", "invocation")
  /\ LET found == invocations[job[j].pid] IN
       /\ out' = IF found = None
                 THEN {Message("ERROR", job[j].sock, None, job[j].pid)} ELSE {}
       /\ Become(j, [job[j] EXCEPT !.pc = "destroyInvocation",
                                   !.hits = IF found = None THEN <<>>
                                            ELSE <<found>>])
  /\ UNCHANGED <<conn, storage, queue, history>>

ResultFinished(j) ==
  /\ job[j].ev = "RESULT"
  /\ InvocationDestroyed(j)
  /\ Become(j, IF job[j].hits = <<>> THEN Idle ELSE Await(job[j], "reply"))
  /\ out' = {}
  /\ UNCHANGED <<conn, actors, actorIdx, callers, callerIdx, queue, history>>

\* The storage has answered; what nextTick runs.
ResultReplied(j) ==
  /\ At(j, "RESULT", "reply")
  /\ Become(j, Idle)
  /\ Reply(ResultTo(job[j].hits, None))
  /\ UNCHANGED <<conn, storage, queue, join, joined>>

-----------------------------------------------------------------------------
(* DISCONNECT: for each caller of the list, finish its invocations with an  *)
(* ActorGone error; then notify the callers; then destroy the actor.        *)

ActorDisconnect(j, s) ==
  /\ Start(j, "ACTOR_DISCONNECT", s, Request("ACTOR_DISCONNECT", s, "actorIdx"))
  /\ conn' = [conn EXCEPT ![s] = "gone"]
  /\ out' = {}
  /\ UNCHANGED <<storage, queue, history>>

\* Fault: the invocations are not looked at.
SweepingNone(r) ==
  Casting([r EXCEPT !.callersLeft = r.actor.callers, !.ckey = None,
                    !.pid = None, !.hits = <<>>])

Sweeping(r) ==
  IF r.callersLeft # <<>> THEN [r EXCEPT !.pc = "sweep", !.ckey = None,
                                         !.pid = None, !.hits = <<>>]
  ELSE Casting([r EXCEPT !.callersLeft = r.actor.callers, !.ckey = None,
                         !.pid = None, !.hits = <<>>])

NextCaller(r) == Sweeping([r EXCEPT !.callersLeft = Tail(@)])

\* Fault: an actor without callers is taken to need no cleanup.
ActorDisconnectFindCallers(j) ==
  /\ At(j, "ACTOR_DISCONNECT", "actor")
  /\ LET found == actors[job[j].key] IN
       Become(j, IF found = None \/ found.callers = <<>> THEN Idle
                 ELSE Sweeping([job[j] EXCEPT !.actor = found,
                                              !.callersLeft = found.callers]))
  /\ out' = {}
  /\ UNCHANGED <<conn, storage, queue, history>>

ActorDisconnectFind(j) ==
  /\ At(j, "ACTOR_DISCONNECT", "actor")
  /\ LET found == actors[job[j].key] IN
       Become(j, IF found = None THEN Idle
                 ELSE Sweeping([job[j] EXCEPT !.actor = found,
                                              !.callersLeft = found.callers]))
  /\ out' = {}
  /\ UNCHANGED <<conn, storage, queue, history>>

SweepCaller(j) ==
  /\ At(j, "ACTOR_DISCONNECT", "sweep")
  /\ LET key == Head(job[j].callersLeft) IN
       Become(j, IF callers[key] = None THEN NextCaller(job[j])
                 ELSE [job[j] EXCEPT !.ckey = key, !.pc = "hkeys"])
  /\ out' = {}
  /\ UNCHANGED <<conn, storage, queue, history>>

SweepList(j) ==
  job[j].ev = "ACTOR_DISCONNECT" /\ ListInvocations(j, NextCaller(job[j]))

SweepScan(j) ==
  job[j].ev = "ACTOR_DISCONNECT" /\ ScanInvocation(j, NextCaller(job[j]))

SweepFinished(j) ==
  /\ job[j].ev = "ACTOR_DISCONNECT"
  /\ InvocationDestroyed(j)
  /\ Become(j, Await(job[j], "reply"))
  /\ out' = {}
  /\ UNCHANGED <<conn, actors, actorIdx, callers, callerIdx, queue, history>>

\* Fault: the invocation is finished without an error to its caller.
SweepSilent(j) ==
  /\ At(j, "ACTOR_DISCONNECT", "reply")
  /\ Become(j, FinishNext([job[j] EXCEPT !.hits = Tail(@)], NextCaller(job[j])))
  /\ out' = {}
  /\ UNCHANGED <<conn, storage, queue, history>>

\* actorGoneInvocationError
SweepReplied(j) ==
  /\ At(j, "ACTOR_DISCONNECT", "reply")
  /\ Become(j, FinishNext([job[j] EXCEPT !.hits = Tail(@)], NextCaller(job[j])))
  /\ Reply(ResultTo(job[j].hits, job[j].actor.key))
  /\ UNCHANGED <<conn, storage, queue, join, joined>>

ActorDisconnected(j) ==
  /\ job[j].ev = "ACTOR_DISCONNECT"
  /\ ActorDestroyed(j)
  /\ Become(j, Idle)
  /\ out' = {}
  /\ UNCHANGED <<conn, actors, callers, callerIdx, invocations, queue, history>>

-----------------------------------------------------------------------------
ActorRequest(j) ==
  \E s \in ActorSocket :
    \/ \E k \in ActorKey : Hi(j, s, k)
    \/ \E k \in ActorKey, only \in CallerKey \cup {None} : ActorPipe(j, s, k, only)
    \/ \E name \in SpecName : UpdateSpec(j, s, name) \/ DelSpec(j, s, name)
    \/ \E p \in Pid : Result(j, s, p)
    \/ Bye(j, s)
    \/ ActorDisconnect(j, s)

ActorStep(j) ==
  \/ HiFind(j) \/ HiSaved(j)
  \/ UpdateFind(j) \/ ByeSaved(j) \/ SpecSaved(j)
  \/ ActorPipeFind(j) \/ Cast(j)
  \/ ResultFind(j) \/ ResultFinished(j) \/ ResultReplied(j)
  \/ ActorDisconnectFind(j) \/ SweepCaller(j) \/ SweepList(j) \/ SweepScan(j)
  \/ SweepFinished(j) \/ SweepReplied(j) \/ ActorDisconnected(j)
=============================================================================
