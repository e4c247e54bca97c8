----------------------------- MODULE SweepProofs -----------------------------
(***************************************************************************)
(* Who hears of an actor: the disconnection of an actor finds, caller by    *)
(* caller of its list, calls of that very caller only (Swept), so that the  *)
(* ActorGone errors reach, like its other broadcasts, sockets that asked to *)
(* join it (BroadcastToMembers).                                            *)
(***************************************************************************)
EXTENDS OwnerProofs

\* No step but that of SweepReplied tells a caller that the actor is gone.
NoErrors == \A m \in out' : m.ev = "RESULT" => m.key = None

LEMMA NoErrorsReachMembers ==
  ASSUME Listed', NoErrors
  PROVE  BroadcastToMembers'
BY DEF Listed, NoticesToMembers, NoErrors, BroadcastToMembers

LEMMA SourcedGrows ==
  ASSUME JoinGrows, NEW inv \in Invocation, Sourced(inv)
  PROVE  Sourced(inv)'
<1>1. inv.caller \in CallerKey
  BY DEF Invocation
<1> QED BY <1>1, OfGrows DEF Sourced

\* Records are deleted, or left alone.
LEMMA SourcedKept ==
  ASSUME Swept, JoinGrows, \A p \in Pid : invocations'[p] \in {invocations[p], None}
  PROVE  InvocationsSourced'
<1>1. \A p \in Pid : invocations[p] # None =>
        invocations[p] \in Invocation /\ Sourced(invocations[p])
  BY DEF Swept, Listed, Owned, TypeInv, TypeOK, StorageOK, InvocationsSourced
<1>2. ASSUME NEW p \in Pid, invocations'[p] # None PROVE Sourced(invocations[p])'
  <2>1. invocations'[p] = invocations[p] /\ invocations[p] # None
    BY <1>2
  <2>2. Of(invocations[p].caller, invocations[p].callerSocket)
    BY <1>1, <2>1 DEF Sourced
  <2>3. invocations[p].caller \in CallerKey
    BY <1>1, <2>1 DEF Invocation
  <2>4. join'[invocations[p].caller] = join[invocations[p].caller]
    BY <2>2, <2>3 DEF Of, JoinGrows
  <2> QED BY <2>1, <2>2, <2>4 DEF Sourced, Of
<1> QED BY <1>2 DEF InvocationsSourced

\* A job keeps what it found while others step.
LEMMA SweepsGrow ==
  ASSUME TypeInv, JoinGrows, NEW i \in Job, Sweeps(job[i]), job'[i] = job[i]
  PROVE  Sweeps(job[i])'
<1> DEFINE r == job[i]
<1>1. r \in JobRecord /\ Shaped(r)
  BY DEF TypeInv, TypeOK
<1> SUFFICES ASSUME r.ev = "ACTOR_DISCONNECT"
             PROVE  (/\ r.pc \in {"hkeys", "scan"} => r.ckey \in Invitees(r.actor.key)
                     /\ r.hits # <<>> => r.actor # None
                     /\ \A n \in DOMAIN r.hits :
                          /\ Sourced(r.hits[n])
                          /\ r.hits[n].caller \in Invitees(r.actor.key))'
  BY DEF Sweeps
<1>2. r.actor # None => r.actor.key \in ActorKey
  BY <1>1 DEF JobRecord, Actor
<1>3. r.actor # None => Invitees(r.actor.key) \subseteq Invitees(r.actor.key)'
  BY <1>2, InviteesGrow
<1>4. r.pc \in {"hkeys", "scan"} =>
        r.actor # None /\ r.ckey \in Invitees(r.actor.key)
  BY <1>1 DEF Shaped, ActorShape, Sweeps
<1>5. ASSUME NEW n \in DOMAIN r.hits
      PROVE  (/\ Sourced(r.hits[n])
              /\ r.hits[n].caller \in Invitees(r.actor.key))'
  <2>1. r.hits[n] \in Invocation /\ r.hits # <<>>
    BY <1>1, <1>5 DEF JobRecord
  <2>2. r.actor # None /\ Sourced(r.hits[n]) /\ r.hits[n].caller \in Invitees(r.actor.key)
    BY <1>5, <2>1 DEF Sweeps
  <2>3. Sourced(r.hits[n])'
    BY <2>1, <2>2, SourcedGrows
  <2> QED BY <1>3, <2>2, <2>3
<1> QED BY <1>3, <1>4, <1>5 DEF Sweeps

LEMMA SweptStep ==
  ASSUME Swept, Listed', JoinGrows, NEW j \in Job, Others(j), Sweeps(job[j])',
         InvocationsSourced', BroadcastToMembers'
  PROVE  Swept'
<1>1. ASSUME NEW i \in Job, i # j PROVE Sweeps(job[i])'
  BY <1>1, SweepsGrow DEF Swept, Listed, Owned, Others
<1> QED BY <1>1 DEF Swept

-----------------------------------------------------------------------------
(* Steps that find no call *)

\* Record r of a job after a step, s before it.
KeepsSweep(r, s) ==
  \/ r.ev # "ACTOR_DISCONNECT"
  \/ /\ r.ev = s.ev
     /\ r.hits \in {s.hits, <<>>}
     /\ s.actor # None => r.actor # None /\ r.actor.key = s.actor.key
     /\ r.pc \in {"hkeys", "scan"} =>
          s.actor # None /\ s.pc \in {"hkeys", "scan"} /\ r.ckey = s.ckey

LEMMA KeepsSweepSweeps ==
  ASSUME NEW s, NEW r, Sweeps(s), KeepsSweep(r, s)
  PROVE  Sweeps(r)
BY DEF Sweeps, KeepsSweep

\* A step of job j that neither deletes nor records a call, or joins.
LEMMA SweepFrameSwept ==
  ASSUME Swept, Listed', NEW j \in Job, Others(j), Sweeps(job'[j]),
         UNCHANGED <<invocations, join>>, NoErrors
  PROVE  Swept'
<1>1. JoinGrows
  BY DEF JoinGrows
<1>2. InvocationsSourced'
  BY <1>1, SourcedKept
<1>3. Sweeps(job[j])'
  BY DEF Sweeps, Sourced, Of, Invitees
<1> QED BY <1>1, <1>2, <1>3, NoErrorsReachMembers, SweptStep

LEMMA CallFrameSwept ==
  ASSUME Swept, Listed', NEW j \in Job, CallFrame(j),
         \/ job[j].ev # "ACTOR_DISCONNECT"
         \/ KeepsSweep(job'[j], job[j])
         \/ Sweeps(job'[j])
  PROVE  Swept'
<1>1. None # "ACTOR_DISCONNECT"
  BY NoneIsNothing DEF ActorEvent
<1>2. Sweeps(job'[j])
  BY <1>1, KeepsSweepSweeps DEF CallFrame, KeepsCall, KeepsSweep, Idle, Swept
<1>3. NoErrors
  BY DEF CallFrame, NoReply, NoErrors
<1> QED BY <1>2, <1>3, SweepFrameSwept DEF CallFrame

LEMMA ServiceStepSwept ==
  ASSUME Swept, Listed', NEW j \in Job, ServiceStep(j)
  PROVE  Swept'
<1>1. TypeInv /\ job \in [Job -> JobRecord] /\ job[j] \in JobRecord /\ Shaped(job[j])
  BY DEF Swept, Listed, Owned, TypeInv, TypeOK
<1>2. CASE HsetActor(j) \/ HdelActor(j)
  <2>1. \E pc \in {"hsetActorIdx", "hdelActorIdx"} : job'[j] = Await(job[j], pc)
    BY <1>1, <1>2 DEF HsetActor, HdelActor, Become
  <2>2. KeepsSweep(job'[j], job[j])
    BY <1>1, <2>1 DEF Await, JobRecord, KeepsSweep
  <2> QED BY <1>1, <1>2, <2>2, HsetActorFrame, HdelActorFrame, CallFrameSwept
<1>3. CASE FindActorBySocket(j)
  <2>1. \/ job'[j] = Idle
        \/ \E k : job'[j] = [job[j] EXCEPT !.key = k, !.pc = "actor"]
    BY <1>1, <1>3 DEF FindActorBySocket, Become
  <2>2. Idle.ev # "ACTOR_DISCONNECT"
    BY NoneIsNothing DEF ActorEvent, Idle
  <2>3. KeepsSweep(job'[j], job[j])
    BY <1>1, <2>1, <2>2 DEF JobRecord, KeepsSweep
  <2> QED BY <1>1, <1>3, <2>3, FindActorBySocketFrame, CallFrameSwept
<1>4. CASE ReadToDestroyActor(j)
  <2> DEFINE found == actors[job[j].actor.key]
  <2>1. job'[j] = [job[j] EXCEPT !.actor = found, !.pc = "hdelActor"] /\ found # None
    BY <1>1, <1>4 DEF ReadToDestroyActor, Become
  <2>2. job[j].actor # None
    BY <1>1, <1>4 DEF ReadToDestroyActor, Shaped, ActorShape
  <2>3. found.key = job[j].actor.key
    BY <2>1, <2>2, HeldActorInvites, StoredActorInvites DEF Swept
  <2>4. /\ job'[j].ev = job[j].ev /\ job'[j].hits = job[j].hits
        /\ job'[j].actor = found /\ job'[j].pc = "hdelActor"
    BY <1>1, <2>1 DEF JobRecord
  <2>5. KeepsSweep(job'[j], job[j])
    BY <2>1, <2>3, <2>4 DEF KeepsSweep
  <2> QED BY <1>1, <1>4, <2>5, ReadToDestroyActorFrame, CallFrameSwept
<1>5. CASE ReadToDestroyInvocation(j)
  <2>1. job'[j] = Await(job[j], "hdelInvocation")
    BY <1>1, <1>5 DEF ReadToDestroyInvocation, Become
  <2>2. KeepsSweep(job'[j], job[j])
    BY <1>1, <2>1 DEF Await, JobRecord, KeepsSweep
  <2> QED BY <1>1, <1>5, <2>2, ReadToDestroyInvocationFrame, CallFrameSwept
<1>6. CASE HsetCaller(j) \/ ReadToDestroyCaller(j) \/ HdelCaller(j)
  <2>1. job[j].caller # None
    BY <1>1, <1>6 DEF HsetCaller, ReadToDestroyCaller, HdelCaller, Shaped, CallerShape
  <2>2. job[j].ev \in CallerEvent
    BY <2>1 DEF Swept, Listed, Owned, Owns
  <2>3. job[j].ev # "ACTOR_DISCONNECT"
    BY <2>2 DEF CallerEvent
  <2> QED BY <1>1, <1>6, <2>3, HsetCallerFrame, ReadToDestroyCallerFrame, HdelCallerFrame,
             CallFrameSwept
<1>7. CASE FindCallerBySocket(j)
  <2>1. job[j].ev # "ACTOR_DISCONNECT"
    BY <1>1, <1>7 DEF FindCallerBySocket, Shaped, SocketShape, CallerEvent
  <2> QED BY <1>1, <1>7, <2>1, FindCallerBySocketFrame, CallFrameSwept
<1> QED BY <1>2, <1>3, <1>4, <1>5, <1>6, <1>7 DEF ServiceStep

LEMMA CallerStepSwept ==
  ASSUME Swept, Listed', NEW j \in Job, CallerStep(j), ~ PerformSaved(j)
  PROVE  Swept'
<1>1. TypeInv /\ job \in [Job -> JobRecord] /\ job[j] \in JobRecord /\ Shaped(job[j])
  BY DEF Swept, Listed, Owned, TypeInv, TypeOK
<1>2. CASE \/ RequestFind(j) \/ JoinCaller(j) \/ JoinCallerSaved(j) \/ JoinSaved(j)
           \/ LeaveCaller(j) \/ LeaveActor(j) \/ LeaveSaved(j) \/ PerformCaller(j)
  <2>1. job[j].ev # "ACTOR_DISCONNECT"
    BY <1>2 DEF RequestFind, JoinCaller, JoinCallerSaved, JoinSaved, LeaveCaller, LeaveActor,
                LeaveSaved, PerformCaller, At
  <2> QED BY <1>1, <1>2, <2>1, RequestFindFrame, JoinCallerFrame, JoinCallerSavedFrame,
             JoinSavedFrame, LeaveCallerFrame, LeaveActorFrame, LeaveSavedFrame,
             PerformCallerFrame, CallFrameSwept
<1>3. CASE \/ CallerPipeFind(j) \/ CallerDisconnectFind(j) \/ VisitActor(j) \/ VisitSaved(j)
           \/ CallerList(j) \/ CallerDisconnected(j)
  <2>1. job[j].ev # "ACTOR_DISCONNECT"
    BY <1>3 DEF CallerPipeFind, CallerDisconnectFind, VisitActor, VisitSaved, CallerList,
                CallerDisconnected, At
  <2> QED BY <1>1, <1>3, <2>1, CallerPipeFindFrame, CallerDisconnectFindFrame,
             VisitActorFrame, VisitSavedFrame, CallerListFrame, CallerDisconnectedFrame,
             CallFrameSwept
<1>4. CASE PerformSent(j) \/ CallerScan(j) \/ CallerFinished(j)
  <2>1. OwnerFrame(j)
    BY <1>1, <1>4, PerformSentFrame, CallerScanFrame, CallerFinishedFrame
  <2>2. job[j].ev # "ACTOR_DISCONNECT"
    BY <1>1, <1>4 DEF PerformSent, CallerScan, CallerFinished, Shaped, SocketShape
  <2>3. job'[j].ev # "ACTOR_DISCONNECT"
    BY <2>1, <2>2, NoneIsNothing DEF OwnerFrame, KeepsOwner, Idle, ActorEvent
  <2>4. \A p \in Pid : invocations'[p] \in {invocations[p], None}
    BY <1>1, <1>4 DEF PerformSent, CallerScan, CallerFinished, ScanInvocation,
                      InvocationDestroyed, storage, TypeInv, TypeOK, StorageOK
  <2>5. NoErrors
    <3>1. CASE PerformSent(j)
      <4>1. \A m \in out' : m.ev = "PERFORM"
        BY <3>1 DEF PerformSent, Message
      <4> QED BY <4>1 DEF NoErrors
    <3>2. CASE CallerScan(j) \/ CallerFinished(j)
      BY <3>2 DEF CallerScan, CallerFinished, ScanInvocation, NoErrors
    <3> QED BY <1>4, <3>1, <3>2
  <2>6. JoinGrows
    BY <2>1 DEF OwnerFrame, JoinGrows
  <2>7. Sweeps(job[j])'
    BY <2>3 DEF Sweeps
  <2> QED BY <2>1, <2>4, <2>5, <2>6, <2>7, SourcedKept, NoErrorsReachMembers, SweptStep
             DEF OwnerFrame
<1> QED BY <1>2, <1>3, <1>4 DEF CallerStep

\* An invocation is recorded under a caller of the socket that performs.
LEMMA PerformSavedSwept ==
  ASSUME Swept, Listed', NEW j \in Job, PerformSaved(j)
  PROVE  Swept'
<1> DEFINE p == job[j].pid
           inv == [pid |-> p, caller |-> job[j].caller.key,
                   callerSocket |-> job[j].caller.socketId]
<1>1. TypeInv /\ job[j] \in JobRecord /\ Shaped(job[j]) /\ Owns(job[j])
  BY DEF Swept, Listed, Owned, TypeInv, TypeOK
<1>2. OwnerFrame(j)
  BY <1>1, PerformSavedFrame
<1>3. job[j].ev = "PERFORM" /\ job[j].caller # None
  BY <1>1 DEF PerformSaved, Shaped, SocketShape, CallerShape
<1>4. Sourced(inv)
  BY <1>1, <1>3 DEF Owns, Sourced
<1>5. JoinGrows /\ UNCHANGED join
  BY <1>2 DEF OwnerFrame, JoinGrows
<1>6. ASSUME NEW q \in Pid, invocations'[q] # None PROVE Sourced(invocations[q])'
  <2>1. invocations'[q] = inv \/ invocations'[q] = invocations[q]
    BY <1>1 DEF PerformSaved, TypeInv, TypeOK, StorageOK
  <2>2. Sourced(invocations'[q])
    BY <1>4, <1>6, <2>1 DEF Swept, InvocationsSourced
  <2> QED BY <1>5, <2>2 DEF Sourced, Of
<1>7. InvocationsSourced'
  BY <1>6 DEF InvocationsSourced
<1>8. NoErrors
  BY DEF PerformSaved, NoErrors
<1>9. Sweeps(job[j])'
  BY <1>2, <1>3, NoneIsNothing DEF OwnerFrame, KeepsOwner, Idle, ActorEvent, Sweeps
<1> QED BY <1>2, <1>5, <1>7, <1>8, <1>9, NoErrorsReachMembers, SweptStep DEF OwnerFrame

-----------------------------------------------------------------------------
(* The disconnection of an actor *)

LEMMA CastingSweeps ==
  ASSUME NEW r \in JobRecord
  PROVE  /\ r.ev = "ACTOR_DISCONNECT" => Casting(r) # Idle
         /\ Casting(r).ev # "ACTOR_DISCONNECT" \/
              /\ Casting(r).ev = r.ev /\ Casting(r).hits = r.hits
              /\ Casting(r).actor = r.actor
              /\ Casting(r).pc \notin {"hkeys", "scan"}
<1>1. Idle.ev # "ACTOR_DISCONNECT"
  BY NoneIsNothing DEF ActorEvent, Idle
<1> QED BY <1>1 DEF Casting, Await, JobRecord

LEMMA SweepingSweeps ==
  ASSUME NEW r \in JobRecord, r.ev = "ACTOR_DISCONNECT", r.actor \in Actor
  PROVE  Sweeps(Sweeping(r))
<1> DEFINE swept == [r EXCEPT !.pc = "sweep", !.ckey = None, !.pid = None, !.hits = <<>>]
           listed == [r EXCEPT !.callersLeft = r.actor.callers, !.ckey = None,
                               !.pid = None, !.hits = <<>>]
<1>1. Sweeps(swept)
  BY DEF Sweeps, JobRecord
<1>2. listed \in JobRecord /\ listed.ev = "ACTOR_DISCONNECT" /\ listed.hits = <<>>
  BY EmptySeq DEF JobRecord, Actor
<1> HIDE DEF swept, listed
<1>3. Sweeps(Casting(listed))
  BY <1>2, CastingSweeps DEF Sweeps
<1>4. Sweeping(r) = IF r.callersLeft # <<>> THEN swept ELSE Casting(listed)
  BY DEF Sweeping, swept, listed
<1> QED BY <1>1, <1>3, <1>4

LEMMA NextCallerSweeps ==
  ASSUME NEW r \in JobRecord, r.ev = "ACTOR_DISCONNECT", r.actor \in Actor,
         r.callersLeft # <<>>
  PROVE  Sweeps(NextCaller(r))
<1> DEFINE q == [r EXCEPT !.callersLeft = Tail(@)]
<1>1. Tail(r.callersLeft) \in Seq(CallerKey)
  BY HeadTailProperties DEF JobRecord
<1>2. q \in JobRecord /\ q.ev = "ACTOR_DISCONNECT" /\ q.actor \in Actor
  BY <1>1 DEF JobRecord
<1> HIDE DEF q
<1>3. Sweeps(Sweeping(q))
  BY <1>2, SweepingSweeps
<1> QED BY <1>3 DEF NextCaller, q

LEMMA FinishNextSweeps ==
  ASSUME NEW r \in JobRecord, Sweeps(r), NEW after, Sweeps(after)
  PROVE  Sweeps(FinishNext(r, after))
<1> DEFINE next == [r EXCEPT !.pid = Head(r.hits).pid, !.pc = "destroyInvocation"]
<1>1. Sweeps(next)
  BY DEF Sweeps, JobRecord
<1> HIDE DEF next
<1>2. FinishNext(r, after) = IF r.hits = <<>> THEN after ELSE next
  BY DEF FinishNext, next
<1> QED BY <1>1, <1>2

\* What a job of a disconnection is, once it has its actor.
LEMMA SweepingJob ==
  ASSUME Swept, NEW j \in Job, job[j].ev = "ACTOR_DISCONNECT",
         job[j].pc \notin {"actorIdx", "actor"}
  PROVE  job[j] \in JobRecord /\ job[j].actor \in Actor /\ job[j].actor # None
<1>1. job[j] \in JobRecord /\ Shaped(job[j])
  BY DEF Swept, Listed, Owned, TypeInv, TypeOK
<1> QED BY <1>1 DEF Shaped, ActorShape, JobRecord

LEMMA ActorDisconnectFindSwept ==
  ASSUME Swept, Listed', NEW j \in Job, ActorDisconnectFind(j)
  PROVE  Swept'
<1> DEFINE found == actors[job[j].key]
           r == [job[j] EXCEPT !.actor = found, !.callersLeft = found.callers]
<1>1. TypeInv /\ job \in [Job -> JobRecord] /\ job[j] \in JobRecord
  BY DEF Swept, Listed, Owned, TypeInv, TypeOK
<1>2. job[j].key \in ActorKey /\ job[j].ev = "ACTOR_DISCONNECT"
  BY DEF ActorDisconnectFind, At, Swept, Listed, Owned, TypeInv, TypeOK, JobRecord,
         Shaped, ArgumentShape
<1>3. job'[j] = Idle \/ (found # None /\ job'[j] = Sweeping(r))
  BY <1>1 DEF ActorDisconnectFind, Become
<1>4. CASE job'[j] = Idle
  <2>1. Sweeps(job'[j])
    BY <1>4, NoneIsNothing DEF Sweeps, Idle, ActorEvent
  <2> QED BY <1>1, <2>1, ActorDisconnectFindFrame, CallFrameSwept
<1>5. CASE found # None /\ job'[j] = Sweeping(r)
  <2>1. found \in Actor
    BY <1>2, <1>5, StoredActorInvites DEF Swept
  <2>2. found.callers \in Seq(CallerKey)
    BY <2>1 DEF Actor
  <2>3. r \in JobRecord /\ r.ev = "ACTOR_DISCONNECT" /\ r.actor \in Actor
    BY <1>1, <1>2, <2>1, <2>2 DEF JobRecord
  <2> HIDE DEF r
  <2>4. Sweeps(job'[j])
    BY <1>5, <2>3, SweepingSweeps
  <2> QED BY <1>1, <2>4, ActorDisconnectFindFrame, CallFrameSwept
<1> QED BY <1>3, <1>4, <1>5

LEMMA SweepCallerSwept ==
  ASSUME Swept, Listed', NEW j \in Job, SweepCaller(j)
  PROVE  Swept'
<1> DEFINE r == [job[j] EXCEPT !.ckey = Head(job[j].callersLeft), !.pc = "hkeys"]
<1>1. /\ TypeInv /\ job \in [Job -> JobRecord] /\ job[j] \in JobRecord
      /\ job[j].callersLeft # <<>> /\ job[j].ev = "ACTOR_DISCONNECT"
      /\ job[j].pc = "sweep"
  BY DEF SweepCaller, At, Swept, Listed, Owned, TypeInv, TypeOK, Shaped, LoopShape
<1>2. job'[j] = NextCaller(job[j]) \/ job'[j] = r
  BY <1>1 DEF SweepCaller, Become
<1>3. Sweeps(NextCaller(job[j]))
  BY <1>1, SweepingJob, NextCallerSweeps
<1>4. Head(job[j].callersLeft) \in Invitees(job[j].actor.key)
  BY <1>1, LoopLists, HeadTailProperties DEF Listing, Swept
<1>5. Sweeps(r)
  BY <1>1, <1>4 DEF Swept, Sweeps, JobRecord
<1> HIDE DEF r
<1> QED BY <1>1, <1>2, <1>3, <1>5, SweepCallerFrame, CallFrameSwept

LEMMA SweepListSwept ==
  ASSUME Swept, Listed', NEW j \in Job, SweepList(j)
  PROVE  Swept'
<1>1. /\ TypeInv /\ job \in [Job -> JobRecord] /\ job[j] \in JobRecord
      /\ job[j].callersLeft # <<>> /\ job[j].ev = "ACTOR_DISCONNECT"
      /\ job[j].pc = "hkeys"
  BY DEF SweepList, ListInvocations, Swept, Listed, Owned, TypeInv, TypeOK, Shaped, LoopShape
<1>2. \/ job'[j] = NextCaller(job[j])
      \/ \E l : job'[j] = [job[j] EXCEPT !.scan = l, !.pc = "scan"]
  BY <1>1 DEF SweepList, ListInvocations, Become
<1>3. Sweeps(NextCaller(job[j]))
  BY <1>1, SweepingJob, NextCallerSweeps
<1>4. ASSUME NEW l PROVE Sweeps([job[j] EXCEPT !.scan = l, !.pc = "scan"])
  BY <1>1 DEF Swept, Sweeps, JobRecord
<1> QED BY <1>1, <1>2, <1>3, <1>4, SweepListFrame, CallFrameSwept

LEMMA SweepScanSwept ==
  ASSUME Swept, Listed', NEW j \in Job, SweepScan(j)
  PROVE  Swept'
<1>1. /\ TypeInv /\ job \in [Job -> JobRecord] /\ job[j] \in JobRecord
      /\ job[j].callersLeft # <<>> /\ job[j].ev = "ACTOR_DISCONNECT"
      /\ job[j].pc = "scan" /\ Sweeps(job[j])
  BY DEF SweepScan, ScanInvocation, Swept, Listed, Owned, TypeInv, TypeOK, Shaped, LoopShape
<1>2. PICK p \in job[j].scan :
        LET hit == invocations[p] # None /\ invocations[p].caller = job[j].ckey
            r == [job[j] EXCEPT !.scan = @ \ {p},
                                !.hits = IF hit THEN Append(@, invocations[p]) ELSE @]
        IN Become(j, IF r.scan = {} THEN FinishNext(r, NextCaller(job[j])) ELSE r)
  BY DEF SweepScan, ScanInvocation
<1> DEFINE hit == invocations[p] # None /\ invocations[p].caller = job[j].ckey
           hits == IF hit THEN Append(job[j].hits, invocations[p]) ELSE job[j].hits
           r == [job[j] EXCEPT !.scan = @ \ {p}, !.hits = hits]
<1>3. job'[j] = FinishNext(r, NextCaller(job[j])) \/ job'[j] = r
  BY <1>1, <1>2 DEF Become
<1>4. job[j].actor # None /\ job[j].ckey \in Invitees(job[j].actor.key)
  BY <1>1, SweepingJob DEF Sweeps
<1>5. /\ hits \in Seq(Invocation)
      /\ \A n \in DOMAIN hits : /\ Sourced(hits[n])
                               /\ hits[n].caller \in Invitees(job[j].actor.key)
  <2>1. CASE ~ hit
    BY <1>1, <2>1 DEF Sweeps, JobRecord
  <2>2. CASE hit
    <3>1. p \in Pid /\ invocations[p] \in Invocation
      BY <1>1, <2>2 DEF JobRecord, TypeInv, TypeOK, StorageOK
    <3>2. Sourced(invocations[p]) /\ invocations[p].caller \in Invitees(job[j].actor.key)
      BY <1>4, <2>2, <3>1 DEF Swept, InvocationsSourced
    <3>3. job[j].hits \in Seq(Invocation) /\ hits = Append(job[j].hits, invocations[p])
      BY <1>1, <2>2 DEF JobRecord
    <3>4. \A n \in DOMAIN job[j].hits :
            /\ Sourced(job[j].hits[n])
            /\ job[j].hits[n].caller \in Invitees(job[j].actor.key)
      BY <1>1 DEF Sweeps
    <3>5. /\ hits \in Seq(Invocation)
          /\ \A n \in DOMAIN hits :
               \/ n \in DOMAIN job[j].hits /\ hits[n] = job[j].hits[n]
               \/ hits[n] = invocations[p]
      BY <3>1, <3>3
    <3> QED BY <3>2, <3>4, <3>5
  <2> QED BY <2>1, <2>2
<1> HIDE DEF hits
<1>6. r \in JobRecord /\ Sweeps(r)
  <2>1. job[j] \in JobRecord /\ job[j].ev = "ACTOR_DISCONNECT" /\ hits \in Seq(Invocation)
    BY <1>1, <1>5
  <2>2. r \in JobRecord
    BY <2>1, ZenonT(60) DEF JobRecord
  <2>3. /\ r.ev = "ACTOR_DISCONNECT" /\ r.hits = hits
        /\ r.actor = job[j].actor /\ r.ckey = job[j].ckey
    BY <2>1 DEF JobRecord
  <2> HIDE DEF r
  <2> QED BY <1>4, <1>5, <2>2, <2>3 DEF Sweeps
<1> HIDE DEF r
<1>7. Sweeps(NextCaller(job[j]))
  BY <1>1, SweepingJob, NextCallerSweeps
<1>8. Sweeps(job'[j])
  BY <1>3, <1>6, <1>7, FinishNextSweeps
<1>9. Others(j) /\ UNCHANGED <<invocations, join>>
  BY <1>1, SweepScanFrame DEF OwnerFrame, SweepScan, ScanInvocation, storage
<1>10. NoErrors
  BY DEF SweepScan, ScanInvocation, NoErrors
<1> QED BY <1>8, <1>9, <1>10, SweepFrameSwept

\* A step of job j that has a record deleted, and tells nobody.
LEMMA ErasureSwept ==
  ASSUME Swept, Listed', NEW j \in Job, OwnerFrame(j), InvocationDestroyed(j),
         Sweeps(job'[j]), NoErrors
  PROVE  Swept'
<1>1. \A p \in Pid : invocations'[p] \in {invocations[p], None}
  BY DEF InvocationDestroyed, Swept, Listed, Owned, TypeInv, TypeOK, StorageOK
<1>2. JoinGrows /\ Others(j) /\ UNCHANGED join
  BY DEF OwnerFrame, JoinGrows
<1>3. Sweeps(job[j])'
  BY <1>2 DEF Sweeps, Sourced, Of, Invitees
<1> QED BY <1>1, <1>2, <1>3, SourcedKept, NoErrorsReachMembers, SweptStep

LEMMA FinishedSwept ==
  ASSUME Swept, Listed', NEW j \in Job, ResultFinished(j) \/ SweepFinished(j)
  PROVE  Swept'
<1>1. /\ TypeInv /\ job \in [Job -> JobRecord] /\ job[j] \in JobRecord
      /\ Sweeps(job[j])
  BY DEF Swept, Listed, Owned, TypeInv, TypeOK
<1>2. job'[j] \in {Idle, Await(job[j], "reply")}
  BY <1>1 DEF ResultFinished, SweepFinished, Become
<1>3. Sweeps(Await(job[j], "reply"))
  BY <1>1 DEF Sweeps, Await, JobRecord
<1>4. Sweeps(Idle)
  BY NoneIsNothing DEF Sweeps, Idle, ActorEvent
<1>5. InvocationDestroyed(j) /\ NoErrors
  BY DEF ResultFinished, SweepFinished, NoErrors
<1> QED BY <1>1, <1>2, <1>3, <1>4, <1>5, ResultFinishedFrame, SweepFinishedFrame, ErasureSwept

\* The error goes to the socket of a caller of the list.
LEMMA SweepRepliedSwept ==
  ASSUME Swept, Listed', NEW j \in Job, SweepReplied(j)
  PROVE  Swept'
<1> DEFINE hit == Head(job[j].hits)
           k == job[j].actor.key
           r == [job[j] EXCEPT !.hits = Tail(@)]
<1>1. /\ TypeInv /\ job \in [Job -> JobRecord] /\ job[j] \in JobRecord
      /\ job[j].callersLeft # <<>> /\ job[j].hits # <<>>
      /\ job[j].ev = "ACTOR_DISCONNECT" /\ job[j].pc = "reply" /\ Sweeps(job[j])
  BY DEF SweepReplied, At, Swept, Listed, Owned, TypeInv, TypeOK, Shaped, LoopShape
<1>2. job[j].hits \in Seq(Invocation) /\ 1 \in DOMAIN job[j].hits /\ hit = job[j].hits[1]
  BY <1>1 DEF JobRecord
<1>3. Sourced(hit) /\ hit.caller \in Invitees(k)
  BY <1>1, <1>2 DEF Sweeps
<1>4. \E u \in CallerKey : join[u] = [socket |-> hit.callerSocket, key |-> k]
  BY <1>3 DEF Sourced, Of, Invitees
<1>5. out' = {Message("RESULT", hit.callerSocket, k, hit.pid)}
  BY <1>1 DEF SweepReplied, Reply, ResultTo
<1>6. Others(j) /\ UNCHANGED <<invocations, join>> /\ JoinGrows
  BY <1>1, SweepRepliedFrame DEF OwnerFrame, SweepReplied, storage, JoinGrows
<1>7. BroadcastToMembers'
  BY <1>4, <1>5, <1>6 DEF BroadcastToMembers, Message
<1>8. job'[j] = FinishNext(r, NextCaller(job[j]))
  BY <1>1 DEF SweepReplied, Become
<1>9. r \in JobRecord /\ Sweeps(r)
  <2>1. /\ Tail(job[j].hits) \in Seq(Invocation)
        /\ \A n \in DOMAIN Tail(job[j].hits) :
             n + 1 \in DOMAIN job[j].hits /\ Tail(job[j].hits)[n] = job[j].hits[n + 1]
    BY <1>1, <1>2
  <2>2. /\ r \in JobRecord /\ r.hits = Tail(job[j].hits)
        /\ r.ev = job[j].ev /\ r.actor = job[j].actor /\ r.pc = "reply"
    <3>1. /\ job[j] \in JobRecord /\ job[j].pc = "reply"
          /\ Tail(job[j].hits) \in Seq(Invocation)
      BY <1>1, <2>1
    <3>2. r \in JobRecord
      BY <3>1, ZenonT(60) DEF JobRecord
    <3> QED BY <3>1, <3>2 DEF JobRecord
  <2>3. job[j].actor # None
    BY <1>1 DEF Sweeps
  <2> HIDE DEF r
  <2> QED BY <1>1, <2>1, <2>2, <2>3 DEF Sweeps
<1> HIDE DEF r
<1>10. Sweeps(NextCaller(job[j]))
  BY <1>1, SweepingJob, NextCallerSweeps
<1>11. Sweeps(job'[j])
  BY <1>8, <1>9, <1>10, FinishNextSweeps
<1>12. Sweeps(job[j])'
  BY <1>6, <1>11 DEF Sweeps, Sourced, Of, Invitees
<1> QED BY <1>6, <1>7, <1>12, SourcedKept, SweptStep

LEMMA ActorStepSwept ==
  ASSUME Swept, Listed', NEW j \in Job, ActorStep(j)
  PROVE  Swept'
<1>1. TypeInv /\ job \in [Job -> JobRecord] /\ job[j] \in JobRecord /\ Shaped(job[j])
  BY DEF Swept, Listed, Owned, TypeInv, TypeOK
<1>2. CASE \/ HiFind(j) \/ HiSaved(j) \/ UpdateFind(j) \/ ByeSaved(j) \/ SpecSaved(j)
           \/ ActorPipeFind(j)
  <2>1. job[j].ev # "ACTOR_DISCONNECT"
    BY <1>2 DEF HiFind, HiSaved, UpdateFind, ByeSaved, SpecSaved, ActorPipeFind, At
  <2> QED BY <1>1, <1>2, <2>1, HiFindFrame, HiSavedFrame, UpdateFindFrame, ByeSavedFrame,
             SpecSavedFrame, ActorPipeFindFrame, CallFrameSwept
<1>3. CASE Cast(j)
  <2> DEFINE r == [job[j] EXCEPT !.callersLeft = Tail(@)]
  <2>1. job'[j] = Casting(r) /\ job[j].callersLeft # <<>>
    BY <1>1, <1>3 DEF Cast, Become, Shaped, LoopShape
  <2>2. Tail(job[j].callersLeft) \in Seq(CallerKey)
    BY <1>1, <2>1, HeadTailProperties DEF JobRecord
  <2>3. /\ r \in JobRecord /\ r.ev = job[j].ev /\ r.hits = job[j].hits
        /\ r.actor = job[j].actor
    <3>1. job[j] \in JobRecord /\ Tail(job[j].callersLeft) \in Seq(CallerKey)
      BY <1>1, <2>2
    <3>2. r \in JobRecord
      BY <3>1, ZenonT(60) DEF JobRecord
    <3> QED BY <3>1, <3>2 DEF JobRecord
  <2> HIDE DEF r
  <2>4. KeepsSweep(job'[j], job[j])
    BY <2>1, <2>3, CastingSweeps DEF KeepsSweep
  <2> QED BY <1>1, <1>3, <2>4, CastFrame, CallFrameSwept
<1>4. CASE ResultFind(j) \/ ResultReplied(j)
  <2>1. Others(j) /\ UNCHANGED <<invocations, join>>
    BY <1>1, <1>4, ResultFindFrame, ResultRepliedFrame
       DEF OwnerFrame, ResultFind, ResultReplied, storage
  <2>2. job'[j].ev # "ACTOR_DISCONNECT"
    <3>1. /\ job[j] \in JobRecord /\ job[j].ev = "RESULT"
          /\ \/ job'[j] = Idle
             \/ \E h : job'[j] = [job[j] EXCEPT !.pc = "destroyInvocation", !.hits = h]
      BY <1>1, <1>4 DEF ResultFind, ResultReplied, At, Become
    <3>2. job'[j].ev \in {job[j].ev, None}
      <4>1. CASE job'[j] = Idle
        BY <4>1 DEF Idle
      <4>2. CASE \E h : job'[j] = [job[j] EXCEPT !.pc = "destroyInvocation", !.hits = h]
        BY <3>1, <4>2 DEF JobRecord
      <4> QED BY <3>1, <4>1, <4>2
    <3> QED BY <3>1, <3>2, NoneIsNothing DEF ActorEvent
  <2>3. NoErrors
    BY <1>4 DEF ResultFind, ResultReplied, Reply, ResultTo, NoErrors, Message
  <2>4. Sweeps(job'[j])
    BY <2>2 DEF Sweeps
  <2> QED BY <2>1, <2>3, <2>4, SweepFrameSwept
<1>5. CASE ActorDisconnected(j)
  <2>1. Sweeps(job'[j])
    BY <1>1, <1>5, NoneIsNothing DEF ActorDisconnected, Become, Sweeps, Idle, ActorEvent
  <2> QED BY <1>1, <1>5, <2>1, ActorDisconnectedFrame, CallFrameSwept
<1> QED BY <1>2, <1>3, <1>4, <1>5, ActorDisconnectFindSwept, SweepCallerSwept,
           SweepListSwept, SweepScanSwept, FinishedSwept, SweepRepliedSwept DEF ActorStep

-----------------------------------------------------------------------------
(* Requests, and the theorem *)

LEMMA BeginsSwept ==
  ASSUME Swept, Listed', NEW j \in Job, NEW s, NEW ev, Begins(j, s, ev), JoinGrows
  PROVE  Swept'
<1>1. /\ Others(j) /\ UNCHANGED invocations /\ NoErrors
      /\ job'[j].hits = <<>> /\ job'[j].pc \notin {"hkeys", "scan"}
  BY DEF Begins, NoErrors
<1>2. InvocationsSourced'
  BY <1>1, SourcedKept
<1>3. Sweeps(job[j])'
  BY <1>1 DEF Sweeps
<1> QED BY <1>1, <1>2, <1>3, NoErrorsReachMembers, SweptStep

LEMMA RequestSwept ==
  ASSUME Swept, Listed', NEW j \in Job, ActorRequest(j) \/ CallerRequest(j)
  PROVE  Swept'
<1>0. TypeInv
  BY DEF Swept, Listed, Owned
<1>1. ASSUME UNCHANGED join PROVE JoinGrows
  BY <1>1 DEF JoinGrows
<1>2. CASE ActorRequest(j)
  <2>1. \E s, ev : Begins(j, s, ev) /\ UNCHANGED join
    BY <1>0, <1>2, HiBegins, ActorPipeBegins, UpdateSpecBegins, DelSpecBegins,
       ByeBegins, ResultBegins, ActorDisconnectBegins DEF ActorRequest
  <2> QED BY <1>1, <2>1, BeginsSwept
<1>3. CASE \E s \in CallerSocket, k \in ActorKey, uuid \in CallerKey : Join(j, s, k, uuid)
  <2>1. PICK s \in CallerSocket, k \in ActorKey, uuid \in CallerKey : Join(j, s, k, uuid)
    BY <1>3
  <2>2. join[uuid] = None /\ join' = [join EXCEPT ![uuid] = [socket |-> s, key |-> k]]
    BY <2>1 DEF Join
  <2>3. join \in [CallerKey -> JoinRecord \cup {None}]
    BY <1>0 DEF TypeInv, TypeOK, HistoryOK
  <2>4. JoinGrows
    BY <2>2, <2>3 DEF JoinGrows
  <2> QED BY <1>0, <2>1, <2>4, JoinBegins, BeginsSwept
<1>4. CASE \E s \in CallerSocket :
             \/ \E k \in ActorKey : \/ Leave(j, s, k) \/ CallerPipe(j, s, k)
                                   \/ \E p \in Pid : Perform(j, s, k, p)
             \/ CallerDisconnect(j, s)
  <2>1. \E s, ev : Begins(j, s, ev) /\ UNCHANGED join
    BY <1>0, <1>4, LeaveBegins, CallerPipeBegins, PerformBegins, CallerDisconnectBegins
  <2> QED BY <1>1, <2>1, BeginsSwept
<1> QED BY <1>2, <1>3, <1>4 DEF CallerRequest

LEMMA InitSwept == Init => Swept
<1> SUFFICES ASSUME Init PROVE Swept
  OBVIOUS
<1>1. Sweeps(Idle)
  BY NoneIsNothing DEF Sweeps, Idle, ActorEvent
<1>2. InvocationsSourced /\ BroadcastToMembers /\ \A j \in Job : Sweeps(job[j])
  BY <1>1 DEF Init, InvocationsSourced, BroadcastToMembers
<1> QED BY <1>2, InitListed DEF Swept

\* Connections and crashes find no call, and end handlers at most.
LEMMA ProcessSwept ==
  ASSUME Swept, Listed', UNCHANGED <<invocations, join>>, out' = {} \/ UNCHANGED out,
         \A i \in Job : job'[i] \in {job[i], Idle}
  PROVE  Swept'
<1>1. JoinGrows
  BY DEF JoinGrows
<1>2. InvocationsSourced'
  BY <1>1, SourcedKept
<1>3. BroadcastToMembers'
  BY DEF Swept, BroadcastToMembers
<1>4. ASSUME NEW i \in Job PROVE Sweeps(job[i])'
  <2>1. CASE job'[i] = job[i]
    BY <1>1, <2>1, SweepsGrow DEF Swept, Listed, Owned
  <2>2. CASE job'[i] = Idle
    BY <2>2, NoneIsNothing DEF Sweeps, Idle, ActorEvent
  <2>3. job'[i] \in {job[i], Idle}
    OBVIOUS
  <2> QED BY <2>1, <2>2, <2>3
<1> QED BY <1>2, <1>3, <1>4 DEF Swept

LEMMA StepSwept ==
  ASSUME Swept, [Next]_vars
  PROVE  Swept'
<1>1. Listed'
  BY StepListed DEF Swept
<1>2. ASSUME NEW s \in Socket, Connect(s) PROVE Swept'
  BY <1>1, <1>2, ProcessSwept DEF Connect, storage, history
<1>3. ASSUME NEW h \in Hub, Crash(h) PROVE Swept'
  <2>1. /\ UNCHANGED <<invocations, join>> /\ out' = {}
        /\ \A i \in Job : job'[i] \in {job[i], Idle}
    BY <1>3 DEF Crash, storage
  <2> QED BY <1>1, <2>1, ProcessSwept
<1>4. CASE UNCHANGED vars
  BY <1>1, <1>4, ProcessSwept DEF vars, storage, history
<1>5. ASSUME NEW j \in Job, HandlerStep(j) PROVE Swept'
  BY <1>1, <1>5, ServiceStepSwept, ActorStepSwept, CallerStepSwept, PerformSavedSwept
     DEF HandlerStep
<1> QED BY <1>1, <1>2, <1>3, <1>4, <1>5, RequestSwept DEF Next

\* SPEC, DESPEC, PIPE and ActorGone notices, and the ActorGone errors of calls, never
\* reach a client that did not ask to join the actor they are about, whatever
\* handlers overlap and processes crash.
THEOREM BroadcastsReachMembers == Spec => []BroadcastToMembers
<1>1. Init => Swept
  BY InitSwept
<1>2. Swept /\ [Next]_vars => Swept'
  BY StepSwept
<1>3. Swept => BroadcastToMembers
  BY DEF Swept
<1> QED BY <1>1, <1>2, <1>3, PTL DEF Spec
=============================================================================
