----------------------------- MODULE OwnerProofs -----------------------------
(***************************************************************************)
(* Who owns what: a handler holds, and files, callers of its own socket     *)
(* only (Owned), so that no handler changes the caller of another socket    *)
(* (CallerIsolation). And who is on whose list: the callers of an actor are *)
(* of sockets that asked to join it (Listed).                               *)
(***************************************************************************)
EXTENDS TypeProofs

-----------------------------------------------------------------------------
(* Frames: what the steps of handlers leave alone.  A step is a step of one  *)
(* job; most keep whose request the job handles and whose caller it holds    *)
(* (OwnerFrame), most neither touch a call nor reply to one (CallFrame).     *)

Others(j) == \A i \in Job \ {j} : job'[i] = job[i]

NoReply == \A m \in out' : m.ev # "RESULT"

\* Record r of a job after a step, s before it.
KeepsOwner(r, s) ==
  \/ r = Idle
  \/ /\ r.ev = s.ev /\ r.sock = s.sock /\ r.uuid = s.uuid /\ r.caller = s.caller
     /\ r.ckey = s.ckey \/ s.ev \in ActorEvent

KeepsCall(r, s) ==
  /\ {r.pc, s.pc} \cap {"send", "reply"} = {}
  /\ \/ r = Idle
     \/ /\ r.ev = s.ev /\ r.sock = s.sock
        /\ s.ev \in {"PERFORM", "RESULT"} => r.pid = s.pid
        /\ r.hits \in {s.hits, <<>>}
        /\ s.ev = "RESULT" => r.hits = s.hits /\ s.pc # "invocation"

OwnerFrame(j) ==
  /\ Others(j)
  /\ KeepsOwner(job'[j], job[j])
  /\ UNCHANGED <<conn, callers, callerIdx, join>>

CallFrame(j) ==
  /\ Others(j)
  /\ KeepsCall(job'[j], job[j])
  /\ UNCHANGED <<conn, invocations, join, call>>
  /\ NoReply

LEMMA SavingKeeps ==
  ASSUME NEW s \in JobRecord, NEW a, s.ev # "RESULT",
         s.pc \notin {"send", "reply"}
  PROVE  KeepsOwner(SavingActor(s, a), s) /\ KeepsCall(SavingActor(s, a), s)
BY DEF SavingActor, JobRecord, KeepsOwner, KeepsCall

-----------------------------------------------------------------------------
(* Steps that keep the owner and do not touch a call. *)

LEMMA HsetActorFrame ==
  ASSUME TypeInv, NEW j \in Job, HsetActor(j)
  PROVE  OwnerFrame(j) /\ CallFrame(j)
<1>1. job \in [Job -> JobRecord] /\ job[j] \in JobRecord
  BY DEF TypeInv, TypeOK
<1>2. Others(j)
  BY <1>1
     DEF HsetActor, Become, Others, Await
<1>3. KeepsOwner(job'[j], job[j])
  BY <1>1
     DEF HsetActor, Become, JobRecord, KeepsOwner, Await
<1>4. KeepsCall(job'[j], job[j])
  BY <1>1
     DEF HsetActor, Become, JobRecord, KeepsCall, Idle, Await
<1>5. NoReply
  BY DEF HsetActor, NoReply, Message
<1>6. UNCHANGED <<conn, callers, callerIdx, invocations, join, call>>
  BY DEF HsetActor, storage, history
<1> QED BY <1>2, <1>3, <1>4, <1>5, <1>6 DEF OwnerFrame, CallFrame

LEMMA FindActorBySocketFrame ==
  ASSUME TypeInv, NEW j \in Job, FindActorBySocket(j)
  PROVE  OwnerFrame(j) /\ CallFrame(j)
<1>1. job \in [Job -> JobRecord] /\ job[j] \in JobRecord
  BY DEF TypeInv, TypeOK
<1>2. Others(j)
  BY <1>1
     DEF FindActorBySocket, Become, Others
<1>3. KeepsOwner(job'[j], job[j])
  BY <1>1
     DEF FindActorBySocket, Become, JobRecord, KeepsOwner
<1>4. KeepsCall(job'[j], job[j])
  BY <1>1
     DEF FindActorBySocket, Become, JobRecord, KeepsCall, Idle
<1>5. NoReply
  BY DEF FindActorBySocket, NoReply, Message
<1>6. UNCHANGED <<conn, callers, callerIdx, invocations, join, call>>
  BY DEF FindActorBySocket, storage, history
<1> QED BY <1>2, <1>3, <1>4, <1>5, <1>6 DEF OwnerFrame, CallFrame

LEMMA ReadToDestroyActorFrame ==
  ASSUME TypeInv, NEW j \in Job, ReadToDestroyActor(j)
  PROVE  OwnerFrame(j) /\ CallFrame(j)
<1>1. job \in [Job -> JobRecord] /\ job[j] \in JobRecord
  BY DEF TypeInv, TypeOK
<1>2. Others(j)
  BY <1>1
     DEF ReadToDestroyActor, Become, Others
<1>3. KeepsOwner(job'[j], job[j])
  BY <1>1
     DEF ReadToDestroyActor, Become, JobRecord, KeepsOwner
<1>4. KeepsCall(job'[j], job[j])
  BY <1>1
     DEF ReadToDestroyActor, Become, JobRecord, KeepsCall, Idle
<1>5. NoReply
  BY DEF ReadToDestroyActor, NoReply, Message
<1>6. UNCHANGED <<conn, callers, callerIdx, invocations, join, call>>
  BY DEF ReadToDestroyActor, storage, history
<1> QED BY <1>2, <1>3, <1>4, <1>5, <1>6 DEF OwnerFrame, CallFrame

LEMMA HdelActorFrame ==
  ASSUME TypeInv, NEW j \in Job, HdelActor(j)
  PROVE  OwnerFrame(j) /\ CallFrame(j)
<1>1. job \in [Job -> JobRecord] /\ job[j] \in JobRecord
  BY DEF TypeInv, TypeOK
<1>2. Others(j)
  BY <1>1
     DEF HdelActor, Become, Others, Await
<1>3. KeepsOwner(job'[j], job[j])
  BY <1>1
     DEF HdelActor, Become, JobRecord, KeepsOwner, Await
<1>4. KeepsCall(job'[j], job[j])
  BY <1>1
     DEF HdelActor, Become, JobRecord, KeepsCall, Idle, Await
<1>5. NoReply
  BY DEF HdelActor, NoReply, Message
<1>6. UNCHANGED <<conn, callers, callerIdx, invocations, join, call>>
  BY DEF HdelActor, storage, history
<1> QED BY <1>2, <1>3, <1>4, <1>5, <1>6 DEF OwnerFrame, CallFrame

LEMMA ReadToDestroyInvocationFrame ==
  ASSUME TypeInv, NEW j \in Job, ReadToDestroyInvocation(j)
  PROVE  OwnerFrame(j) /\ CallFrame(j)
<1>1. job \in [Job -> JobRecord] /\ job[j] \in JobRecord
  BY DEF TypeInv, TypeOK
<1>2. Others(j)
  BY <1>1
     DEF ReadToDestroyInvocation, Become, Others, Await
<1>3. KeepsOwner(job'[j], job[j])
  BY <1>1
     DEF ReadToDestroyInvocation, Become, JobRecord, KeepsOwner, Await
<1>4. KeepsCall(job'[j], job[j])
  BY <1>1
     DEF ReadToDestroyInvocation, Become, JobRecord, KeepsCall, Idle, Await
<1>5. NoReply
  BY DEF ReadToDestroyInvocation, NoReply, Message
<1>6. UNCHANGED <<conn, callers, callerIdx, invocations, join, call>>
  BY DEF ReadToDestroyInvocation, storage, history
<1> QED BY <1>2, <1>3, <1>4, <1>5, <1>6 DEF OwnerFrame, CallFrame

LEMMA HiFindFrame ==
  ASSUME TypeInv, NEW j \in Job, HiFind(j)
  PROVE  OwnerFrame(j) /\ CallFrame(j)
<1>1. job \in [Job -> JobRecord] /\ job[j] \in JobRecord
  BY DEF TypeInv, TypeOK
<1>2. Others(j) /\ (\E a : job'[j] = SavingActor(job[j], a)) /\ job[j].ev = "HI"
      /\ job[j].pc = "actor"
  BY <1>1 DEF HiFind, Become, Others, At
<1>3. KeepsOwner(job'[j], job[j]) /\ KeepsCall(job'[j], job[j])
  BY <1>1, <1>2, SavingKeeps
<1>4. UNCHANGED <<conn, callers, callerIdx, invocations, join, call>> /\ NoReply
  BY DEF HiFind, NoReply, storage, history
<1> QED BY <1>2, <1>3, <1>4 DEF OwnerFrame, CallFrame

LEMMA HiSavedFrame ==
  ASSUME TypeInv, NEW j \in Job, HiSaved(j)
  PROVE  OwnerFrame(j) /\ CallFrame(j)
<1>1. job \in [Job -> JobRecord] /\ job[j] \in JobRecord
  BY DEF TypeInv, TypeOK
<1>2. Others(j)
  BY <1>1
     DEF HiSaved, Become, Others, ActorSaved
<1>3. KeepsOwner(job'[j], job[j])
  BY <1>1
     DEF HiSaved, Become, JobRecord, KeepsOwner, ActorSaved
<1>4. KeepsCall(job'[j], job[j])
  BY <1>1
     DEF HiSaved, Become, JobRecord, KeepsCall, Idle, ActorSaved
<1>5. NoReply
  BY DEF HiSaved, NoReply, Message, ActorSaved
<1>6. UNCHANGED <<conn, callers, callerIdx, invocations, join, call>>
  BY DEF HiSaved, storage, history, ActorSaved
<1> QED BY <1>2, <1>3, <1>4, <1>5, <1>6 DEF OwnerFrame, CallFrame

LEMMA UpdateFindFrame ==
  ASSUME TypeInv, NEW j \in Job, UpdateFind(j)
  PROVE  OwnerFrame(j) /\ CallFrame(j)
<1>1. job \in [Job -> JobRecord] /\ job[j] \in JobRecord
  BY DEF TypeInv, TypeOK
<1>2. /\ Others(j)
      /\ job'[j] = Idle \/ \E a : job'[j] = SavingActor(job[j], a)
      /\ job[j].ev # "RESULT" /\ job[j].pc = "actor"
  BY <1>1 DEF UpdateFind, Become, Others
<1>3. KeepsOwner(job'[j], job[j]) /\ KeepsCall(job'[j], job[j])
  <2>1. CASE job'[j] = Idle
    <3>1. {Idle.pc, job[j].pc} \cap {"send", "reply"} = {}
      BY <1>2 DEF Idle
    <3> QED BY <2>1, <3>1 DEF KeepsOwner, KeepsCall
  <2>2. CASE \E a : job'[j] = SavingActor(job[j], a)
    <3>1. job[j].pc \notin {"send", "reply"}
      BY <1>2
    <3> QED BY <1>1, <1>2, <2>2, <3>1, SavingKeeps
  <2> QED BY <1>2, <2>1, <2>2
<1>4. UNCHANGED <<conn, callers, callerIdx, invocations, join, call>> /\ NoReply
  BY DEF UpdateFind, NoReply, storage, history
<1> QED BY <1>2, <1>3, <1>4 DEF OwnerFrame, CallFrame

LEMMA ByeSavedFrame ==
  ASSUME TypeInv, NEW j \in Job, ByeSaved(j)
  PROVE  OwnerFrame(j) /\ CallFrame(j)
<1>1. job \in [Job -> JobRecord] /\ job[j] \in JobRecord
  BY DEF TypeInv, TypeOK
<1>2. Others(j)
  BY <1>1
     DEF ByeSaved, Become, Others, ActorSaved
<1>3. KeepsOwner(job'[j], job[j])
  BY <1>1
     DEF ByeSaved, Become, JobRecord, KeepsOwner, ActorSaved
<1>4. KeepsCall(job'[j], job[j])
  BY <1>1
     DEF ByeSaved, Become, JobRecord, KeepsCall, Idle, ActorSaved
<1>5. NoReply
  BY DEF ByeSaved, NoReply, Message, ActorSaved
<1>6. UNCHANGED <<conn, callers, callerIdx, invocations, join, call>>
  BY DEF ByeSaved, storage, history, ActorSaved
<1> QED BY <1>2, <1>3, <1>4, <1>5, <1>6 DEF OwnerFrame, CallFrame

LEMMA SpecSavedFrame ==
  ASSUME TypeInv, NEW j \in Job, SpecSaved(j)
  PROVE  OwnerFrame(j) /\ CallFrame(j)
<1>1. job \in [Job -> JobRecord] /\ job[j] \in JobRecord
  BY DEF TypeInv, TypeOK
<1>2. Others(j)
  BY <1>1
     DEF SpecSaved, Become, Others, Casting, Await, ActorSaved
<1>3. KeepsOwner(job'[j], job[j])
  BY <1>1
     DEF SpecSaved, Become, JobRecord, KeepsOwner, Casting, Await, ActorSaved
<1>4. KeepsCall(job'[j], job[j])
  BY <1>1
     DEF SpecSaved, Become, JobRecord, KeepsCall, Idle, Casting, Await, ActorSaved
<1>5. NoReply
  BY DEF SpecSaved, NoReply, Message, ActorSaved
<1>6. UNCHANGED <<conn, callers, callerIdx, invocations, join, call>>
  BY DEF SpecSaved, storage, history, ActorSaved
<1> QED BY <1>2, <1>3, <1>4, <1>5, <1>6 DEF OwnerFrame, CallFrame

LEMMA ActorPipeFindFrame ==
  ASSUME TypeInv, NEW j \in Job, ActorPipeFind(j)
  PROVE  OwnerFrame(j) /\ CallFrame(j)
<1>1. job \in [Job -> JobRecord] /\ job[j] \in JobRecord
  BY DEF TypeInv, TypeOK
<1>2. Others(j)
  BY <1>1
     DEF ActorPipeFind, Become, Others, Casting, Await, At
<1>3. KeepsOwner(job'[j], job[j])
  BY <1>1
     DEF ActorPipeFind, Become, JobRecord, KeepsOwner, Casting, Await, At
<1>4. KeepsCall(job'[j], job[j])
  BY <1>1
     DEF ActorPipeFind, Become, JobRecord, KeepsCall, Idle, Casting, Await, At
<1>5. NoReply
  BY DEF ActorPipeFind, NoReply, Message
<1>6. UNCHANGED <<conn, callers, callerIdx, invocations, join, call>>
  BY DEF ActorPipeFind, storage, history
<1> QED BY <1>2, <1>3, <1>4, <1>5, <1>6 DEF OwnerFrame, CallFrame

LEMMA CastFrame ==
  ASSUME TypeInv, NEW j \in Job, Cast(j)
  PROVE  OwnerFrame(j) /\ CallFrame(j)
<1>1. job \in [Job -> JobRecord] /\ job[j] \in JobRecord
  BY DEF TypeInv, TypeOK
<1>2. Others(j)
  BY <1>1 DEF Cast, Become, Others
<1>3. KeepsOwner(job'[j], job[j])
  BY <1>1 DEF Cast, Become, JobRecord, KeepsOwner, Casting, Await
<1>4. KeepsCall(job'[j], job[j])
  BY <1>1 DEF Cast, Become, JobRecord, KeepsCall, Idle, Casting, Await
<1>5. job[j].ev \in {"SPEC", "DESPEC", "ACTOR_PIPE", "ACTOR_DISCONNECT"}
  BY DEF Cast, TypeInv, Shaped, SocketShape
<1>6. CastAs(job[j].ev) # "RESULT"
  BY <1>5 DEF CastAs
<1>7. NoReply
  BY <1>6 DEF Cast, NoReply, Message
<1>8. UNCHANGED <<conn, callers, callerIdx, invocations, join, call>>
  BY DEF Cast, storage
<1> QED BY <1>2, <1>3, <1>4, <1>7, <1>8 DEF OwnerFrame, CallFrame

LEMMA ActorDisconnectFindFrame ==
  ASSUME TypeInv, NEW j \in Job, ActorDisconnectFind(j)
  PROVE  OwnerFrame(j) /\ CallFrame(j)
<1>1. job \in [Job -> JobRecord] /\ job[j] \in JobRecord
  BY DEF TypeInv, TypeOK
<1>2. Others(j)
  BY <1>1
     DEF ActorDisconnectFind, Become, Others, Sweeping, Casting, Await, At
<1>3. KeepsOwner(job'[j], job[j])
  BY <1>1
     DEF ActorDisconnectFind, Become, JobRecord, KeepsOwner, Sweeping, Casting,
         Await, At, ActorEvent
<1>4. KeepsCall(job'[j], job[j])
  BY <1>1
     DEF ActorDisconnectFind, Become, JobRecord, KeepsCall, Idle, Sweeping, Casting,
         Await, At
<1>5. NoReply
  BY DEF ActorDisconnectFind, NoReply, Message
<1>6. UNCHANGED <<conn, callers, callerIdx, invocations, join, call>>
  BY DEF ActorDisconnectFind, storage, history
<1> QED BY <1>2, <1>3, <1>4, <1>5, <1>6 DEF OwnerFrame, CallFrame

LEMMA SweepCallerFrame ==
  ASSUME TypeInv, NEW j \in Job, SweepCaller(j)
  PROVE  OwnerFrame(j) /\ CallFrame(j)
<1>1. job \in [Job -> JobRecord] /\ job[j] \in JobRecord
  BY DEF TypeInv, TypeOK
<1>2. Others(j)
  BY <1>1
     DEF SweepCaller, Become, Others, NextCaller, Sweeping, Casting, Await, At
<1>3. KeepsOwner(job'[j], job[j])
  BY <1>1
     DEF SweepCaller, Become, JobRecord, KeepsOwner, NextCaller, Sweeping,
         Casting, Await, At, ActorEvent
<1>4. KeepsCall(job'[j], job[j])
  BY <1>1
     DEF SweepCaller, Become, JobRecord, KeepsCall, Idle, NextCaller, Sweeping,
         Casting, Await, At
<1>5. NoReply
  BY DEF SweepCaller, NoReply, Message
<1>6. UNCHANGED <<conn, callers, callerIdx, invocations, join, call>>
  BY DEF SweepCaller, storage, history
<1> QED BY <1>2, <1>3, <1>4, <1>5, <1>6 DEF OwnerFrame, CallFrame

LEMMA SweepListFrame ==
  ASSUME TypeInv, NEW j \in Job, SweepList(j)
  PROVE  OwnerFrame(j) /\ CallFrame(j)
<1>1. job \in [Job -> JobRecord] /\ job[j] \in JobRecord
  BY DEF TypeInv, TypeOK
<1>2. Others(j)
  BY <1>1
     DEF SweepList, Become, Others, NextCaller, Sweeping, Casting, Await,
         ListInvocations
<1>3. KeepsOwner(job'[j], job[j])
  BY <1>1
     DEF SweepList, Become, JobRecord, KeepsOwner, NextCaller, Sweeping,
         Casting, Await, ListInvocations, ActorEvent
<1>4. KeepsCall(job'[j], job[j])
  BY <1>1
     DEF SweepList, Become, JobRecord, KeepsCall, Idle, NextCaller, Sweeping, Casting,
         Await, ListInvocations
<1>5. NoReply
  BY DEF SweepList, NoReply, Message, ListInvocations
<1>6. UNCHANGED <<conn, callers, callerIdx, invocations, join, call>>
  BY DEF SweepList, storage, history, ListInvocations
<1> QED BY <1>2, <1>3, <1>4, <1>5, <1>6 DEF OwnerFrame, CallFrame

LEMMA ActorDisconnectedFrame ==
  ASSUME TypeInv, NEW j \in Job, ActorDisconnected(j)
  PROVE  OwnerFrame(j) /\ CallFrame(j)
<1>1. job \in [Job -> JobRecord] /\ job[j] \in JobRecord
  BY DEF TypeInv, TypeOK
<1>2. Others(j)
  BY <1>1
     DEF ActorDisconnected, Become, Others
<1>3. KeepsOwner(job'[j], job[j])
  BY <1>1
     DEF ActorDisconnected, Become, JobRecord, KeepsOwner
<1>4. KeepsCall(job'[j], job[j])
  BY <1>1
     DEF ActorDisconnected, Become, JobRecord, KeepsCall, Idle
<1>5. NoReply
  BY DEF ActorDisconnected, NoReply, Message
<1>6. UNCHANGED <<conn, callers, callerIdx, invocations, join, call>>
  BY DEF ActorDisconnected, storage, history
<1> QED BY <1>2, <1>3, <1>4, <1>5, <1>6 DEF OwnerFrame, CallFrame

LEMMA RequestFindFrame ==
  ASSUME TypeInv, NEW j \in Job, RequestFind(j)
  PROVE  OwnerFrame(j) /\ CallFrame(j)
<1>1. job \in [Job -> JobRecord] /\ job[j] \in JobRecord
  BY DEF TypeInv, TypeOK
<1>2. Others(j)
  BY <1>1
     DEF RequestFind, Become, Others
<1>3. KeepsOwner(job'[j], job[j])
  BY <1>1
     DEF RequestFind, Become, JobRecord, KeepsOwner
<1>4. KeepsCall(job'[j], job[j])
  BY <1>1
     DEF RequestFind, Become, JobRecord, KeepsCall, Idle
<1>5. NoReply
  BY DEF RequestFind, NoReply, Message
<1>6. UNCHANGED <<conn, callers, callerIdx, invocations, join, call>>
  BY DEF RequestFind, storage, history
<1> QED BY <1>2, <1>3, <1>4, <1>5, <1>6 DEF OwnerFrame, CallFrame

LEMMA JoinSavedFrame ==
  ASSUME TypeInv, NEW j \in Job, JoinSaved(j)
  PROVE  OwnerFrame(j) /\ CallFrame(j)
<1>1. job \in [Job -> JobRecord] /\ job[j] \in JobRecord
  BY DEF TypeInv, TypeOK
<1>2. Others(j)
  BY <1>1
     DEF JoinSaved, Become, Others, ActorSaved
<1>3. KeepsOwner(job'[j], job[j])
  BY <1>1
     DEF JoinSaved, Become, JobRecord, KeepsOwner, ActorSaved
<1>4. KeepsCall(job'[j], job[j])
  BY <1>1
     DEF JoinSaved, Become, JobRecord, KeepsCall, Idle, ActorSaved
<1>5. NoReply
  BY DEF JoinSaved, NoReply, Message, ActorSaved
<1>6. UNCHANGED <<conn, callers, callerIdx, invocations, join, call>>
  BY DEF JoinSaved, storage, history, ActorSaved
<1> QED BY <1>2, <1>3, <1>4, <1>5, <1>6 DEF OwnerFrame, CallFrame

LEMMA LeaveSavedFrame ==
  ASSUME TypeInv, NEW j \in Job, LeaveSaved(j)
  PROVE  OwnerFrame(j) /\ CallFrame(j)
<1>1. job \in [Job -> JobRecord] /\ job[j] \in JobRecord
  BY DEF TypeInv, TypeOK
<1>2. Others(j)
  BY <1>1
     DEF LeaveSaved, Become, Others, ActorSaved
<1>3. KeepsOwner(job'[j], job[j])
  BY <1>1
     DEF LeaveSaved, Become, JobRecord, KeepsOwner, ActorSaved
<1>4. KeepsCall(job'[j], job[j])
  BY <1>1
     DEF LeaveSaved, Become, JobRecord, KeepsCall, Idle, ActorSaved
<1>5. NoReply
  BY DEF LeaveSaved, NoReply, Message, ActorSaved
<1>6. UNCHANGED <<conn, callers, callerIdx, invocations, join, call>>
  BY DEF LeaveSaved, storage, history, ActorSaved
<1> QED BY <1>2, <1>3, <1>4, <1>5, <1>6 DEF OwnerFrame, CallFrame

LEMMA CallerPipeFindFrame ==
  ASSUME TypeInv, NEW j \in Job, CallerPipeFind(j)
  PROVE  OwnerFrame(j) /\ CallFrame(j)
<1>1. job \in [Job -> JobRecord] /\ job[j] \in JobRecord
  BY DEF TypeInv, TypeOK
<1>2. Others(j)
  BY <1>1
     DEF CallerPipeFind, Become, Others
<1>3. KeepsOwner(job'[j], job[j])
  BY <1>1
     DEF CallerPipeFind, Become, JobRecord, KeepsOwner
<1>4. KeepsCall(job'[j], job[j])
  BY <1>1
     DEF CallerPipeFind, Become, JobRecord, KeepsCall, Idle
<1>5. NoReply
  BY DEF CallerPipeFind, NoReply, Message
<1>6. UNCHANGED <<conn, callers, callerIdx, invocations, join, call>>
  BY DEF CallerPipeFind, storage, history
<1> QED BY <1>2, <1>3, <1>4, <1>5, <1>6 DEF OwnerFrame, CallFrame

LEMMA VisitActorFrame ==
  ASSUME TypeInv, NEW j \in Job, VisitActor(j)
  PROVE  OwnerFrame(j) /\ CallFrame(j)
<1>1. job \in [Job -> JobRecord] /\ job[j] \in JobRecord
  BY DEF TypeInv, TypeOK
<1>2. /\ Others(j)
      /\ \/ job'[j] = NextActor(job[j])
         \/ \E a : job'[j] = SavingActor(job[j], a)
      /\ job[j].ev = "CALLER_DISCONNECT" /\ job[j].pc = "actor"
  BY <1>1 DEF VisitActor, Become, Others, At
<1>3. /\ KeepsOwner(NextActor(job[j]), job[j])
      /\ KeepsCall(NextActor(job[j]), job[j])
  BY <1>1, <1>2 DEF JobRecord, KeepsOwner, KeepsCall, NextActor, Visiting, Await
<1>4. KeepsOwner(job'[j], job[j]) /\ KeepsCall(job'[j], job[j])
  <2>1. job[j].ev # "RESULT" /\ job[j].pc \notin {"send", "reply"}
    BY <1>2
  <2> QED BY <1>1, <1>2, <1>3, <2>1, SavingKeeps
<1>5. UNCHANGED <<conn, callers, callerIdx, invocations, join, call>> /\ NoReply
  BY DEF VisitActor, NoReply, storage, history
<1> QED BY <1>2, <1>4, <1>5 DEF OwnerFrame, CallFrame

LEMMA VisitSavedFrame ==
  ASSUME TypeInv, NEW j \in Job, VisitSaved(j)
  PROVE  OwnerFrame(j) /\ CallFrame(j)
<1>1. job \in [Job -> JobRecord] /\ job[j] \in JobRecord
  BY DEF TypeInv, TypeOK
<1>2. Others(j)
  BY <1>1
     DEF VisitSaved, Become, Others, NextActor, Visiting, Await, ActorSaved
<1>3. KeepsOwner(job'[j], job[j])
  BY <1>1
     DEF VisitSaved, Become, JobRecord, KeepsOwner, NextActor, Visiting, Await,
         ActorSaved
<1>4. KeepsCall(job'[j], job[j])
  BY <1>1
     DEF VisitSaved, Become, JobRecord, KeepsCall, Idle, NextActor, Visiting, Await,
         ActorSaved
<1>5. NoReply
  BY DEF VisitSaved, NoReply, Message, ActorSaved
<1>6. UNCHANGED <<conn, callers, callerIdx, invocations, join, call>>
  BY DEF VisitSaved, storage, history, ActorSaved
<1> QED BY <1>2, <1>3, <1>4, <1>5, <1>6 DEF OwnerFrame, CallFrame

LEMMA CallerListFrame ==
  ASSUME TypeInv, NEW j \in Job, CallerList(j)
  PROVE  OwnerFrame(j) /\ CallFrame(j)
<1>1. job \in [Job -> JobRecord] /\ job[j] \in JobRecord
  BY DEF TypeInv, TypeOK
<1>2. Others(j)
  BY <1>1
     DEF CallerList, Become, Others, Leaving, Await, ListInvocations
<1>3. KeepsOwner(job'[j], job[j])
  BY <1>1
     DEF CallerList, Become, JobRecord, KeepsOwner, Leaving, Await,
         ListInvocations
<1>4. KeepsCall(job'[j], job[j])
  BY <1>1
     DEF CallerList, Become, JobRecord, KeepsCall, Idle, Leaving, Await,
         ListInvocations
<1>5. NoReply
  BY DEF CallerList, NoReply, Message, ListInvocations
<1>6. UNCHANGED <<conn, callers, callerIdx, invocations, join, call>>
  BY DEF CallerList, storage, history, ListInvocations
<1> QED BY <1>2, <1>3, <1>4, <1>5, <1>6 DEF OwnerFrame, CallFrame

-----------------------------------------------------------------------------
(* Steps about calls, and steps about callers. *)

LEMMA PerformSavedFrame ==
  ASSUME TypeInv, NEW j \in Job, PerformSaved(j)
  PROVE  OwnerFrame(j)
<1>1. job \in [Job -> JobRecord] /\ job[j] \in JobRecord
  BY DEF TypeInv, TypeOK
<1>2. Others(j)
  BY <1>1 DEF PerformSaved, Become, Others, Await
<1>3. KeepsOwner(job'[j], job[j])
  BY <1>1 DEF PerformSaved, Become, JobRecord, KeepsOwner, Await
<1>4. UNCHANGED <<conn, callers, callerIdx, join>>
  BY DEF PerformSaved, storage, history
<1> QED BY <1>2, <1>3, <1>4 DEF OwnerFrame

LEMMA PerformSentFrame ==
  ASSUME TypeInv, NEW j \in Job, PerformSent(j)
  PROVE  OwnerFrame(j)
<1>1. job \in [Job -> JobRecord] /\ job[j] \in JobRecord
  BY DEF TypeInv, TypeOK
<1>2. Others(j)
  BY <1>1 DEF PerformSent, Become, Others
<1>3. KeepsOwner(job'[j], job[j])
  BY <1>1 DEF PerformSent, Become, JobRecord, KeepsOwner
<1>4. UNCHANGED <<conn, callers, callerIdx, join>>
  BY DEF PerformSent, storage, history
<1> QED BY <1>2, <1>3, <1>4 DEF OwnerFrame

LEMMA SweepScanFrame ==
  ASSUME TypeInv, NEW j \in Job, SweepScan(j)
  PROVE  OwnerFrame(j)
<1>1. job \in [Job -> JobRecord] /\ job[j] \in JobRecord
  BY DEF TypeInv, TypeOK
<1>2. Others(j)
  BY <1>1
     DEF SweepScan, Become, Others, FinishNext, NextCaller, Sweeping, Casting,
         Await, ScanInvocation
<1>3. KeepsOwner(job'[j], job[j])
  BY <1>1
     DEF SweepScan, Become, JobRecord, KeepsOwner, FinishNext, NextCaller,
         Sweeping, Casting, Await, ScanInvocation, ActorEvent
<1>4. UNCHANGED <<conn, callers, callerIdx, join>>
  BY DEF SweepScan, storage, history, ScanInvocation
<1> QED BY <1>2, <1>3, <1>4 DEF OwnerFrame

LEMMA CallerScanFrame ==
  ASSUME TypeInv, NEW j \in Job, CallerScan(j)
  PROVE  OwnerFrame(j)
<1>1. job \in [Job -> JobRecord] /\ job[j] \in JobRecord
  BY DEF TypeInv, TypeOK
<1>2. Others(j)
  BY <1>1
     DEF CallerScan, Become, Others, FinishNext, Leaving, Await, ScanInvocation
<1>3. KeepsOwner(job'[j], job[j])
  BY <1>1
     DEF CallerScan, Become, JobRecord, KeepsOwner, FinishNext, Leaving, Await,
         ScanInvocation
<1>4. UNCHANGED <<conn, callers, callerIdx, join>>
  BY DEF CallerScan, storage, history, ScanInvocation
<1> QED BY <1>2, <1>3, <1>4 DEF OwnerFrame

LEMMA ResultFindFrame ==
  ASSUME TypeInv, NEW j \in Job, ResultFind(j)
  PROVE  OwnerFrame(j)
<1>1. job \in [Job -> JobRecord] /\ job[j] \in JobRecord
  BY DEF TypeInv, TypeOK
<1>2. Others(j)
  BY <1>1
     DEF ResultFind, Become, Others
<1>3. KeepsOwner(job'[j], job[j])
  BY <1>1
     DEF ResultFind, Become, JobRecord, KeepsOwner
<1>4. UNCHANGED <<conn, callers, callerIdx, join>>
  BY DEF ResultFind, storage, history
<1> QED BY <1>2, <1>3, <1>4 DEF OwnerFrame

LEMMA ResultFinishedFrame ==
  ASSUME TypeInv, NEW j \in Job, ResultFinished(j)
  PROVE  OwnerFrame(j)
<1>1. job \in [Job -> JobRecord] /\ job[j] \in JobRecord
  BY DEF TypeInv, TypeOK
<1>2. Others(j)
  BY <1>1 DEF ResultFinished, Become, Others, Await
<1>3. KeepsOwner(job'[j], job[j])
  BY <1>1 DEF ResultFinished, Become, JobRecord, KeepsOwner, Await
<1>4. UNCHANGED <<conn, callers, callerIdx, join>>
  BY DEF ResultFinished, storage, history
<1> QED BY <1>2, <1>3, <1>4 DEF OwnerFrame

LEMMA ResultRepliedFrame ==
  ASSUME TypeInv, NEW j \in Job, ResultReplied(j)
  PROVE  OwnerFrame(j)
<1>1. job \in [Job -> JobRecord] /\ job[j] \in JobRecord
  BY DEF TypeInv, TypeOK
<1>2. Others(j)
  BY <1>1 DEF ResultReplied, Become, Others, At
<1>3. KeepsOwner(job'[j], job[j])
  BY <1>1 DEF ResultReplied, Become, JobRecord, KeepsOwner, At
<1>4. UNCHANGED <<conn, callers, callerIdx, join>>
  BY DEF ResultReplied, storage, history
<1> QED BY <1>2, <1>3, <1>4 DEF OwnerFrame

LEMMA SweepFinishedFrame ==
  ASSUME TypeInv, NEW j \in Job, SweepFinished(j)
  PROVE  OwnerFrame(j)
<1>1. job \in [Job -> JobRecord] /\ job[j] \in JobRecord
  BY DEF TypeInv, TypeOK
<1>2. Others(j)
  BY <1>1 DEF SweepFinished, Become, Others, Await
<1>3. KeepsOwner(job'[j], job[j])
  BY <1>1 DEF SweepFinished, Become, JobRecord, KeepsOwner, Await
<1>4. UNCHANGED <<conn, callers, callerIdx, join>>
  BY DEF SweepFinished, storage, history
<1> QED BY <1>2, <1>3, <1>4 DEF OwnerFrame

LEMMA SweepRepliedFrame ==
  ASSUME TypeInv, NEW j \in Job, SweepReplied(j)
  PROVE  OwnerFrame(j)
<1>1. job \in [Job -> JobRecord] /\ job[j] \in JobRecord
  BY DEF TypeInv, TypeOK
<1>2. Others(j)
  BY <1>1
     DEF SweepReplied, Become, Others, At, FinishNext, NextCaller, Sweeping,
         Casting, Await
<1>3. KeepsOwner(job'[j], job[j])
  BY <1>1
     DEF SweepReplied, Become, JobRecord, KeepsOwner, At, FinishNext, NextCaller,
         Sweeping, Casting, Await, ActorEvent
<1>4. UNCHANGED <<conn, callers, callerIdx, join>>
  BY DEF SweepReplied, storage, history
<1> QED BY <1>2, <1>3, <1>4 DEF OwnerFrame

LEMMA CallerFinishedFrame ==
  ASSUME TypeInv, NEW j \in Job, CallerFinished(j)
  PROVE  OwnerFrame(j)
<1>1. job \in [Job -> JobRecord] /\ job[j] \in JobRecord
  BY DEF TypeInv, TypeOK
<1>2. Others(j)
  BY <1>1
     DEF CallerFinished, Become, Others, FinishNext, Leaving, Await
<1>3. KeepsOwner(job'[j], job[j])
  BY <1>1
     DEF CallerFinished, Become, JobRecord, KeepsOwner, FinishNext, Leaving,
         Await
<1>4. UNCHANGED <<conn, callers, callerIdx, join>>
  BY DEF CallerFinished, storage, history
<1> QED BY <1>2, <1>3, <1>4 DEF OwnerFrame

LEMMA FindCallerBySocketFrame ==
  ASSUME TypeInv, NEW j \in Job, FindCallerBySocket(j)
  PROVE  CallFrame(j)
<1>1. job \in [Job -> JobRecord] /\ job[j] \in JobRecord
  BY DEF TypeInv, TypeOK
<1>2. Others(j)
  BY <1>1
     DEF FindCallerBySocket, Become, Others
<1>3. KeepsCall(job'[j], job[j])
  BY <1>1
     DEF FindCallerBySocket, Become, JobRecord, KeepsCall, Idle
<1>4. NoReply
  BY DEF FindCallerBySocket, NoReply, Message
<1>5. UNCHANGED <<conn, invocations, join, call>>
  BY DEF FindCallerBySocket, storage, history
<1> QED BY <1>2, <1>3, <1>4, <1>5 DEF CallFrame

LEMMA HsetCallerFrame ==
  ASSUME TypeInv, NEW j \in Job, HsetCaller(j)
  PROVE  CallFrame(j)
<1>1. job \in [Job -> JobRecord] /\ job[j] \in JobRecord
  BY DEF TypeInv, TypeOK
<1>2. Others(j)
  BY <1>1
     DEF HsetCaller, Become, Others, Await
<1>3. KeepsCall(job'[j], job[j])
  BY <1>1
     DEF HsetCaller, Become, JobRecord, KeepsCall, Idle, Await
<1>4. NoReply
  BY DEF HsetCaller, NoReply, Message
<1>5. UNCHANGED <<conn, invocations, join, call>>
  BY DEF HsetCaller, storage, history
<1> QED BY <1>2, <1>3, <1>4, <1>5 DEF CallFrame

LEMMA ReadToDestroyCallerFrame ==
  ASSUME TypeInv, NEW j \in Job, ReadToDestroyCaller(j)
  PROVE  CallFrame(j)
<1>1. job \in [Job -> JobRecord] /\ job[j] \in JobRecord
  BY DEF TypeInv, TypeOK
<1>2. Others(j)
  BY <1>1
     DEF ReadToDestroyCaller, Become, Others
<1>3. KeepsCall(job'[j], job[j])
  BY <1>1
     DEF ReadToDestroyCaller, Become, JobRecord, KeepsCall, Idle
<1>4. NoReply
  BY DEF ReadToDestroyCaller, NoReply, Message
<1>5. UNCHANGED <<conn, invocations, join, call>>
  BY DEF ReadToDestroyCaller, storage, history
<1> QED BY <1>2, <1>3, <1>4, <1>5 DEF CallFrame

LEMMA HdelCallerFrame ==
  ASSUME TypeInv, NEW j \in Job, HdelCaller(j)
  PROVE  CallFrame(j)
<1>1. job \in [Job -> JobRecord] /\ job[j] \in JobRecord
  BY DEF TypeInv, TypeOK
<1>2. Others(j)
  BY <1>1
     DEF HdelCaller, Become, Others, Await
<1>3. KeepsCall(job'[j], job[j])
  BY <1>1
     DEF HdelCaller, Become, JobRecord, KeepsCall, Idle, Await
<1>4. NoReply
  BY DEF HdelCaller, NoReply, Message
<1>5. UNCHANGED <<conn, invocations, join, call>>
  BY DEF HdelCaller, storage, history
<1> QED BY <1>2, <1>3, <1>4, <1>5 DEF CallFrame

LEMMA JoinCallerFrame ==
  ASSUME TypeInv, NEW j \in Job, JoinCaller(j)
  PROVE  CallFrame(j)
<1>1. job \in [Job -> JobRecord] /\ job[j] \in JobRecord
  BY DEF TypeInv, TypeOK
<1>2. Others(j)
  BY <1>1
     DEF JoinCaller, Become, Others, SavingCaller, At
<1>3. KeepsCall(job'[j], job[j])
  BY <1>1
     DEF JoinCaller, Become, JobRecord, KeepsCall, Idle, SavingCaller, At
<1>4. NoReply
  BY DEF JoinCaller, NoReply, Message
<1>5. UNCHANGED <<conn, invocations, join, call>>
  BY DEF JoinCaller, storage, history
<1> QED BY <1>2, <1>3, <1>4, <1>5 DEF CallFrame

LEMMA JoinCallerSavedFrame ==
  ASSUME TypeInv, NEW j \in Job, JoinCallerSaved(j)
  PROVE  CallFrame(j)
<1>1. job \in [Job -> JobRecord] /\ job[j] \in JobRecord
  BY DEF TypeInv, TypeOK
<1>2. Others(j)
  BY <1>1
     DEF JoinCallerSaved, Become, Others, SavingActor, CallerSaved
<1>3. KeepsCall(job'[j], job[j])
  BY <1>1
     DEF JoinCallerSaved, Become, JobRecord, KeepsCall, Idle, SavingActor, CallerSaved
<1>4. NoReply
  BY DEF JoinCallerSaved, NoReply, Message, CallerSaved
<1>5. UNCHANGED <<conn, invocations, join, call>>
  BY DEF JoinCallerSaved, storage, history, CallerSaved
<1> QED BY <1>2, <1>3, <1>4, <1>5 DEF CallFrame

LEMMA LeaveCallerFrame ==
  ASSUME TypeInv, NEW j \in Job, LeaveCaller(j)
  PROVE  CallFrame(j)
<1>1. job \in [Job -> JobRecord] /\ job[j] \in JobRecord
  BY DEF TypeInv, TypeOK
<1>2. /\ Others(j)
      /\ \/ job'[j] = Idle
         \/ \E c : job'[j] = [job[j] EXCEPT !.caller = c, !.pc = "destroyCaller"]
         \/ \E c : job'[j] = SavingCaller(job[j], c)
      /\ job[j].ev = "LEAVE" /\ job[j].pc = "caller"
  BY <1>1 DEF LeaveCaller, Become, Others, At
<1>3. KeepsCall(job'[j], job[j])
  <2>1. {Idle.pc, job[j].pc} \cap {"send", "reply"} = {}
    BY <1>2 DEF Idle
  <2>2. CASE job'[j] = Idle
    BY <2>1, <2>2 DEF KeepsCall
  <2>3. ASSUME NEW c, NEW pc \in {"destroyCaller", "hsetCaller"},
               job'[j] = [job[j] EXCEPT !.caller = c, !.pc = pc]
        PROVE  KeepsCall(job'[j], job[j])
    <3>1. job[j].ev = "LEAVE" /\ job[j].pc = "caller"
      BY <1>2
    <3>2. job'[j].pc \in {"destroyCaller", "hsetCaller"}
      BY <1>1, <2>3 DEF JobRecord
    <3>3. /\ job'[j].ev = job[j].ev
          /\ job'[j].sock = job[j].sock
          /\ job'[j].hits = job[j].hits
      BY <1>1, <2>3 DEF JobRecord
    <3> QED BY <3>1, <3>2, <3>3 DEF KeepsCall
  <2> QED BY <1>2, <2>2, <2>3 DEF SavingCaller
<1>4. UNCHANGED <<conn, invocations, join, call>> /\ NoReply
  BY DEF LeaveCaller, NoReply, storage, history
<1> QED BY <1>2, <1>3, <1>4 DEF CallFrame

LEMMA LeaveActorFrame ==
  ASSUME TypeInv, NEW j \in Job, LeaveActor(j)
  PROVE  CallFrame(j)
<1>1. job \in [Job -> JobRecord] /\ job[j] \in JobRecord
  BY DEF TypeInv, TypeOK
<1>2. Others(j)
  BY <1>1
     DEF LeaveActor, Become, Others, SavingActor, CallerSaved, CallerDestroyed
<1>3. KeepsCall(job'[j], job[j])
  BY <1>1
     DEF LeaveActor, Become, JobRecord, KeepsCall, Idle, SavingActor, CallerSaved,
         CallerDestroyed
<1>4. NoReply
  BY DEF LeaveActor, NoReply, Message, CallerSaved, CallerDestroyed
<1>5. UNCHANGED <<conn, invocations, join, call>>
  BY DEF LeaveActor, storage, history, CallerSaved, CallerDestroyed
<1> QED BY <1>2, <1>3, <1>4, <1>5 DEF CallFrame

LEMMA PerformCallerFrame ==
  ASSUME TypeInv, NEW j \in Job, PerformCaller(j)
  PROVE  CallFrame(j)
<1>1. job \in [Job -> JobRecord] /\ job[j] \in JobRecord
  BY DEF TypeInv, TypeOK
<1>2. Others(j)
  BY <1>1
     DEF PerformCaller, Become, Others, At
<1>3. KeepsCall(job'[j], job[j])
  <2>1. /\ \/ job'[j] = Idle
           \/ \E c : job'[j] = [job[j] EXCEPT !.caller = c, !.pc = "hsetInvocation"]
        /\ job[j].ev = "PERFORM" /\ job[j].pc = "caller"
    BY <1>1 DEF PerformCaller, Become, At
  <2>2. CASE job'[j] = Idle
    <3>1. {Idle.pc, job[j].pc} \cap {"send", "reply"} = {}
      BY <2>1 DEF Idle
    <3> QED BY <2>2, <3>1 DEF KeepsCall
  <2>3. CASE \E c : job'[j] = [job[j] EXCEPT !.caller = c, !.pc = "hsetInvocation"]
    BY <1>1, <2>1, <2>3 DEF JobRecord, KeepsCall
  <2> QED BY <2>1, <2>2, <2>3
<1>4. NoReply
  BY DEF PerformCaller, NoReply, Message
<1>5. UNCHANGED <<conn, invocations, join, call>>
  BY DEF PerformCaller, storage, history
<1> QED BY <1>2, <1>3, <1>4, <1>5 DEF CallFrame

LEMMA CallerDisconnectFindFrame ==
  ASSUME TypeInv, NEW j \in Job, CallerDisconnectFind(j)
  PROVE  CallFrame(j)
<1>1. job \in [Job -> JobRecord] /\ job[j] \in JobRecord
  BY DEF TypeInv, TypeOK
<1>2. Others(j)
  BY <1>1
     DEF CallerDisconnectFind, Become, Others, Visiting, Await, At
<1>3. KeepsCall(job'[j], job[j])
  BY <1>1
     DEF CallerDisconnectFind, Become, JobRecord, KeepsCall, Idle, Visiting, Await, At
<1>4. NoReply
  BY DEF CallerDisconnectFind, NoReply, Message
<1>5. UNCHANGED <<conn, invocations, join, call>>
  BY DEF CallerDisconnectFind, storage, history
<1> QED BY <1>2, <1>3, <1>4, <1>5 DEF CallFrame

LEMMA CallerDisconnectedFrame ==
  ASSUME TypeInv, NEW j \in Job, CallerDisconnected(j)
  PROVE  CallFrame(j)
<1>1. job \in [Job -> JobRecord] /\ job[j] \in JobRecord
  BY DEF TypeInv, TypeOK
<1>2. Others(j)
  BY <1>1
     DEF CallerDisconnected, Become, Others
<1>3. KeepsCall(job'[j], job[j])
  BY <1>1
     DEF CallerDisconnected, Become, JobRecord, KeepsCall, Idle
<1>4. NoReply
  BY DEF CallerDisconnected, NoReply, Message
<1>5. UNCHANGED <<conn, invocations, join, call>>
  BY DEF CallerDisconnected, storage, history
<1> QED BY <1>2, <1>3, <1>4, <1>5 DEF CallFrame

-----------------------------------------------------------------------------
(* Requests: what each leaves alone, and what its job starts with. *)

Begins(j, s, ev) ==
  /\ Others(j)
  /\ job[j] = Idle
  /\ conn[s] = "open"
  /\ job'[j].ev = ev /\ job'[j].sock = s
  /\ job'[j].pc \in {"actor", "actorIdx", "callerIdx", "invocation"}
  /\ job'[j].caller = None
  /\ job'[j].ckey = None \/ ev \in ActorEvent
  /\ job'[j].actor = None /\ job'[j].callersLeft = <<>> /\ job'[j].hits = <<>>
  /\ UNCHANGED <<actors, callers, callerIdx, invocations>>
  /\ out' = {}

LEMMA HiBegins ==
  ASSUME TypeInv, NEW j \in Job, NEW s \in ActorSocket, NEW k \in ActorKey, Hi(j,
         s, k)
  PROVE  Begins(j, s, "HI") /\ UNCHANGED <<conn, join, call>>
BY DEF TypeInv, TypeOK, Hi, Start, Request, Idle, Others, Begins, storage, history

LEMMA ActorPipeBegins ==
  ASSUME TypeInv, NEW j \in Job, NEW s \in ActorSocket, NEW k \in ActorKey,
         NEW only \in CallerKey \cup {None}, ActorPipe(j, s, k, only)
  PROVE  Begins(j, s, "ACTOR_PIPE") /\ UNCHANGED <<conn, join, call>>
BY DEF TypeInv, TypeOK, ActorPipe, Start, Request, Idle, Others, Begins,
   ActorEvent, storage, history

LEMMA UpdateSpecBegins ==
  ASSUME TypeInv, NEW j \in Job, NEW s \in ActorSocket, NEW name \in SpecName,
         UpdateSpec(j, s, name)
  PROVE  Begins(j, s, "SPEC") /\ UNCHANGED <<conn, join, call>>
BY DEF TypeInv, TypeOK, UpdateSpec, Start, Request, Idle, Others, Begins, storage,
   history

LEMMA DelSpecBegins ==
  ASSUME TypeInv, NEW j \in Job, NEW s \in ActorSocket, NEW name \in SpecName,
         DelSpec(j, s, name)
  PROVE  Begins(j, s, "DESPEC") /\ UNCHANGED <<conn, join, call>>
BY DEF TypeInv, TypeOK, DelSpec, Start, Request, Idle, Others, Begins, storage,
   history

LEMMA ByeBegins ==
  ASSUME TypeInv, NEW j \in Job, NEW s \in ActorSocket, Bye(j, s)
  PROVE  Begins(j, s, "BYE") /\ UNCHANGED <<conn, join, call>>
BY DEF TypeInv, TypeOK, Bye, Start, Request, Idle, Others, Begins, storage, history

LEMMA LeaveBegins ==
  ASSUME TypeInv, NEW j \in Job, NEW s \in CallerSocket, NEW k \in ActorKey,
         Leave(j, s, k)
  PROVE  Begins(j, s, "LEAVE") /\ UNCHANGED <<conn, join, call>>
BY DEF TypeInv, TypeOK, Leave, Start, Request, Idle, Others, Begins, storage,
   history

LEMMA CallerPipeBegins ==
  ASSUME TypeInv, NEW j \in Job, NEW s \in CallerSocket, NEW k \in ActorKey,
         CallerPipe(j, s, k)
  PROVE  Begins(j, s, "CALLER_PIPE") /\ UNCHANGED <<conn, join, call>>
BY DEF TypeInv, TypeOK, CallerPipe, Start, Request, Idle, Others, Begins, storage,
   history

LEMMA ResultBegins ==
  ASSUME TypeInv, NEW j \in Job, NEW s \in ActorSocket, NEW p \in Pid, Result(j, s,
         p)
  PROVE  /\ Begins(j, s, "RESULT")
         /\ job'[j].pid = p /\ job'[j].pc = "invocation"
         /\ call[p] # None /\ call[p].to = s
         /\ UNCHANGED <<conn, join, call>>
BY DEF TypeInv, TypeOK, Result, Start, Request, Idle, Others, Begins, storage,
   history

LEMMA ActorDisconnectBegins ==
  ASSUME TypeInv, NEW j \in Job, NEW s \in ActorSocket, ActorDisconnect(j, s)
  PROVE  /\ Begins(j, s, "ACTOR_DISCONNECT")
         /\ conn' = [conn EXCEPT ![s] = "gone"]
         /\ UNCHANGED <<join, call>>
BY DEF TypeInv, TypeOK, ActorDisconnect, Start, Request, Idle, Others, Begins,
       storage, history

LEMMA JoinBegins ==
  ASSUME TypeInv, NEW j \in Job, NEW s \in CallerSocket, NEW k \in ActorKey,
         NEW uuid \in CallerKey, Join(j, s, k, uuid)
  PROVE  /\ Begins(j, s, "JOIN")
         /\ job'[j].uuid = uuid
         /\ join[uuid] = None
         /\ join' = [join EXCEPT ![uuid] = [socket |-> s, key |-> k]]
         /\ UNCHANGED <<conn, call>>
BY DEF TypeInv, TypeOK, Join, Start, Request, Idle, Others, Begins, storage

LEMMA PerformBegins ==
  ASSUME TypeInv, NEW j \in Job, NEW s \in CallerSocket, NEW k \in ActorKey,
         NEW p \in Pid, Perform(j, s, k, p)
  PROVE  /\ Begins(j, s, "PERFORM")
         /\ job'[j].pid = p
         /\ call[p] = None
         /\ call' = [call EXCEPT ![p] = NewCall(s, k)]
         /\ UNCHANGED <<conn, join>>
BY DEF TypeInv, TypeOK, Perform, Start, Request, Idle, Others, Begins, storage

LEMMA CallerDisconnectBegins ==
  ASSUME TypeInv, NEW j \in Job, NEW s \in CallerSocket, CallerDisconnect(j, s)
  PROVE  /\ Begins(j, s, "CALLER_DISCONNECT")
         /\ conn' = [conn EXCEPT ![s] = "gone"]
         /\ UNCHANGED <<join, call>>
BY DEF TypeInv, TypeOK, CallerDisconnect, Start, Request, Idle, Others, Begins,
       storage, history

-----------------------------------------------------------------------------
(* Owners and members *)

JoinGrows == \A c \in CallerKey : join[c] # None => join'[c] = join[c]
GoneStays == \A s \in Socket : conn[s] = "gone" => conn'[s] = "gone"

-----------------------------------------------------------------------------
(* Steps in general *)

LEMMA OfGrows ==
  ASSUME JoinGrows, NEW key \in CallerKey, NEW s, Of(key, s)
  PROVE  Of(key, s)'
BY DEF JoinGrows, Of

LEMMA EventsDiffer == ActorEvent \cap CallerEvent = {} /\ None \notin CallerEvent
BY NoneIsNothing DEF ActorEvent, CallerEvent

\* A job keeps what it owns while others step.
LEMMA OwnsGrows ==
  ASSUME TypeInv, JoinGrows, GoneStays, NEW i \in Job, Owns(job[i]), job'[i] = job[i]
  PROVE  Owns(job[i])'
<1> DEFINE r == job[i]
<1>1. r \in JobRecord /\ Shaped(r)
  BY DEF TypeInv, TypeOK
<1>2. r.ev = "JOIN" => r.uuid \in CallerKey
  BY <1>1 DEF JobRecord, Shaped, ArgumentShape
<1>3. r.ckey # None => r.ckey \in CallerKey
  BY <1>1 DEF JobRecord
<1>4. r.caller # None => r.caller.key \in CallerKey
  BY <1>1 DEF JobRecord, Caller
<1>5. r.ev = "CALLER_DISCONNECT" => r.sock \in Socket
  BY <1>1 DEF Shaped, SocketShape, CallerEvent, Socket
<1>6. (r.ev = "JOIN" => Of(r.uuid, r.sock))'
  BY <1>2, OfGrows DEF Owns
<1>7. (r.ev \in CallerEvent /\ r.ckey # None => Of(r.ckey, r.sock))'
  BY <1>3, OfGrows DEF Owns
<1>8. (r.caller # None => /\ r.ev \in CallerEvent
                          /\ Of(r.caller.key, r.sock)
                          /\ r.caller.socketId = r.sock)'
  BY <1>4, OfGrows DEF Owns
<1>9. (r.ev = "CALLER_DISCONNECT" => conn[r.sock] = "gone")'
  BY <1>5 DEF Owns, GoneStays
<1> QED BY <1>6, <1>7, <1>8, <1>9 DEF Owns

LEMMA OwnedStep ==
  ASSUME Owned, TypeInv', JoinGrows, GoneStays, CallersOwned',
         NEW j \in Job, Others(j), Owns(job[j])'
  PROVE  Owned'
<1>1. ASSUME NEW i \in Job, i # j PROVE Owns(job[i])'
  BY <1>1, OwnsGrows DEF Owned, Others
<1> QED BY <1>1 DEF Owned

LEMMA CallersOwnedGrows ==
  ASSUME Owned, JoinGrows, UNCHANGED <<callers, callerIdx>>
  PROVE  CallersOwned'
<1>1. callerIdx \in [CallerSocket -> CallerKey \cup {None}]
  BY DEF Owned, TypeInv, TypeOK, StorageOK
<1> QED BY <1>1, OfGrows DEF Owned, CallersOwned

LEMMA IdleOwns == Owns(Idle)'
BY EventsDiffer DEF Idle, Owns, CallerEvent

LEMMA OwnerFrameOwned ==
  ASSUME Owned, TypeInv', NEW j \in Job, OwnerFrame(j)
  PROVE  Owned'
<1>1. UNCHANGED <<conn, callers, callerIdx, join>> /\ Others(j)
  BY DEF OwnerFrame
<1>2. JoinGrows /\ GoneStays
  BY <1>1 DEF JoinGrows, GoneStays
<1>3. CallersOwned'
  BY <1>1, <1>2, CallersOwnedGrows
<1>4. Owns(job[j])'
  <2>1. CASE job'[j] = Idle
    BY <2>1, IdleOwns
  <2>2. CASE /\ job'[j].ev = job[j].ev
             /\ job'[j].sock = job[j].sock
             /\ job'[j].uuid = job[j].uuid
             /\ job'[j].caller = job[j].caller
             /\ job'[j].ckey = job[j].ckey \/ job[j].ev \in ActorEvent
    BY <1>1, <2>2, EventsDiffer DEF Owned, Owns, Of
  <2> QED BY <2>1, <2>2 DEF OwnerFrame, KeepsOwner
<1> QED BY <1>1, <1>2, <1>3, <1>4, OwnedStep

-----------------------------------------------------------------------------
(* Requests *)

LEMMA BeginsOwned ==
  ASSUME Owned, TypeInv', JoinGrows, GoneStays, NEW j \in Job, NEW s,
         NEW ev \in ActorEvent \cup CallerEvent, Begins(j, s, ev),
         ev = "JOIN" => Of(job[j].uuid, s)',
         ev = "CALLER_DISCONNECT" => conn'[s] = "gone"
  PROVE  Owned'
<1>1. CallersOwned'
  BY CallersOwnedGrows DEF Begins
<1>2. Owns(job[j])'
  BY EventsDiffer DEF Begins, Owns
<1> QED BY <1>1, <1>2, OwnedStep DEF Begins

LEMMA QuietBeginsOwned ==
  ASSUME Owned, TypeInv', NEW j \in Job, NEW s,
         NEW ev \in (ActorEvent \cup CallerEvent) \ {"JOIN", "CALLER_DISCONNECT"},
         Begins(j, s, ev), UNCHANGED <<conn, join, call>>
  PROVE  Owned'
<1>1. JoinGrows /\ GoneStays
  BY DEF JoinGrows, GoneStays
<1> QED BY <1>1, BeginsOwned

LEMMA ActorRequestOwned ==
  ASSUME Owned, TypeInv', NEW j \in Job, ActorRequest(j)
  PROVE  Owned'
<1>0. TypeInv
  BY DEF Owned
<1>1. ASSUME NEW s \in ActorSocket, ActorDisconnect(j, s) PROVE Owned'
  <2>1. conn \in [Socket -> {"fresh", "open", "gone"}]
    BY <1>0 DEF TypeInv, TypeOK
  <2>2. /\ Begins(j, s, "ACTOR_DISCONNECT")
        /\ conn' = [conn EXCEPT ![s] = "gone"] /\ UNCHANGED join
    BY <1>0, <1>1, ActorDisconnectBegins
  <2>3. JoinGrows /\ GoneStays
    BY <2>1, <2>2 DEF JoinGrows, GoneStays, Socket
  <2>4. "ACTOR_DISCONNECT" \in ActorEvent
    BY DEF ActorEvent
  <2> QED BY <2>2, <2>3, <2>4, BeginsOwned
<1>2. ASSUME NEW s \in ActorSocket, NEW k \in ActorKey, Hi(j, s, k) PROVE Owned'
  BY <1>0, <1>2, HiBegins, QuietBeginsOwned DEF ActorEvent
<1>3. ASSUME NEW s \in ActorSocket, NEW k \in ActorKey,
             NEW only \in CallerKey \cup {None}, ActorPipe(j, s, k, only)
      PROVE  Owned'
  BY <1>0, <1>3, ActorPipeBegins, QuietBeginsOwned DEF ActorEvent
<1>4. ASSUME NEW s \in ActorSocket, NEW name \in SpecName, UpdateSpec(j, s, name)
      PROVE  Owned'
  BY <1>0, <1>4, UpdateSpecBegins, QuietBeginsOwned DEF ActorEvent
<1>5. ASSUME NEW s \in ActorSocket, NEW name \in SpecName, DelSpec(j, s, name)
      PROVE  Owned'
  BY <1>0, <1>5, DelSpecBegins, QuietBeginsOwned DEF ActorEvent
<1>6. ASSUME NEW s \in ActorSocket, NEW p \in Pid, Result(j, s, p) PROVE Owned'
  BY <1>0, <1>6, ResultBegins, QuietBeginsOwned DEF ActorEvent
<1>7. ASSUME NEW s \in ActorSocket, Bye(j, s) PROVE Owned'
  BY <1>0, <1>7, ByeBegins, QuietBeginsOwned DEF ActorEvent
<1> QED BY <1>1, <1>2, <1>3, <1>4, <1>5, <1>6, <1>7 DEF ActorRequest

LEMMA JoinOwned ==
  ASSUME Owned, TypeInv', NEW j \in Job, NEW s \in CallerSocket, NEW k \in ActorKey,
         NEW uuid \in CallerKey, Join(j, s, k, uuid)
  PROVE  Owned'
<1>1. join \in [CallerKey -> JoinRecord \cup {None}]
  BY DEF Owned, TypeInv, TypeOK, HistoryOK
<1>2. /\ Begins(j, s, "JOIN") /\ job'[j].uuid = uuid
      /\ join[uuid] = None
      /\ join' = [join EXCEPT ![uuid] = [socket |-> s, key |-> k]]
      /\ UNCHANGED conn
  BY JoinBegins DEF Owned
<1>3. JoinGrows /\ GoneStays
  BY <1>1, <1>2 DEF JoinGrows, GoneStays
<1>4. join'[uuid] = [socket |-> s, key |-> k] /\ join'[uuid] \in JoinRecord
  BY <1>1, <1>2 DEF JoinRecord
<1>5. Of(job[j].uuid, s)'
  BY <1>2, <1>4, NoneIsNoRequest DEF Of
<1> QED BY <1>2, <1>3, <1>5, BeginsOwned DEF CallerEvent

LEMMA CallerDisconnectOwned ==
  ASSUME Owned, TypeInv', NEW j \in Job, NEW s \in CallerSocket, CallerDisconnect(j, s)
  PROVE  Owned'
<1>1. conn \in [Socket -> {"fresh", "open", "gone"}]
  BY DEF Owned, TypeInv, TypeOK
<1>2. /\ Begins(j, s, "CALLER_DISCONNECT")
      /\ conn' = [conn EXCEPT ![s] = "gone"] /\ UNCHANGED join
  BY CallerDisconnectBegins DEF Owned
<1>3. JoinGrows /\ GoneStays /\ conn'[s] = "gone"
  BY <1>1, <1>2 DEF JoinGrows, GoneStays, Socket
<1> QED BY <1>2, <1>3, BeginsOwned DEF CallerEvent

LEMMA CallerRequestOwned ==
  ASSUME Owned, TypeInv', NEW j \in Job, CallerRequest(j)
  PROVE  Owned'
<1>0. TypeInv
  BY DEF Owned
<1>1. ASSUME NEW s \in CallerSocket, NEW k \in ActorKey, Leave(j, s, k) PROVE Owned'
  BY <1>0, <1>1, LeaveBegins, QuietBeginsOwned DEF CallerEvent
<1>2. ASSUME NEW s \in CallerSocket, NEW k \in ActorKey, CallerPipe(j, s, k)
      PROVE  Owned'
  BY <1>0, <1>2, CallerPipeBegins, QuietBeginsOwned DEF CallerEvent
<1>3. ASSUME NEW s \in CallerSocket, NEW k \in ActorKey, NEW p \in Pid,
             Perform(j, s, k, p)
      PROVE  Owned'
  <2>1. Begins(j, s, "PERFORM") /\ UNCHANGED <<conn, join>>
    BY <1>0, <1>3, PerformBegins
  <2>2. JoinGrows /\ GoneStays
    BY <2>1 DEF JoinGrows, GoneStays
  <2> QED BY <2>1, <2>2, BeginsOwned DEF CallerEvent
<1> QED BY <1>1, <1>2, <1>3, JoinOwned, CallerDisconnectOwned DEF CallerRequest

-----------------------------------------------------------------------------
(* Steps about callers *)

\* Nothing but a job changes, and it holds what is its own.
LEMMA HolderOwned ==
  ASSUME Owned, TypeInv', NEW j \in Job, Others(j), Owns(job[j])',
         UNCHANGED <<conn, callers, callerIdx, join>>
  PROVE  Owned'
<1>1. JoinGrows /\ GoneStays
  BY DEF JoinGrows, GoneStays
<1> QED BY <1>1, CallersOwnedGrows, OwnedStep

LEMMA FindCallerBySocketOwned ==
  ASSUME Owned, TypeInv', NEW j \in Job, FindCallerBySocket(j)
  PROVE  Owned'
<1>1. /\ job \in [Job -> JobRecord] /\ job[j] \in JobRecord /\ Shaped(job[j])
      /\ Owns(job[j]) /\ CallersOwned
  BY DEF Owned, TypeInv, TypeOK
<1>2. UNCHANGED <<conn, callers, callerIdx, join>> /\ Others(j)
  BY <1>1 DEF FindCallerBySocket, storage, history, Become, Others
<1>3. job[j].sock \in CallerSocket
  BY <1>1 DEF FindCallerBySocket, Shaped, SocketShape
<1> DEFINE key == callerIdx[job[j].sock]
           r == [job[j] EXCEPT !.ckey = key, !.pc = "caller"]
<1>4. job'[j] = Idle \/ job'[j] = r
  BY <1>1 DEF FindCallerBySocket, Become
<1>5. key # None => Of(key, job[j].sock)
  BY <1>1, <1>3 DEF CallersOwned
<1>6. /\ r.ev = job[j].ev /\ r.sock = job[j].sock /\ r.uuid = job[j].uuid
      /\ r.caller = job[j].caller /\ r.ckey = key
  BY <1>1 DEF JobRecord
<1> HIDE DEF r, key
<1>7. Owns(r)
  BY <1>1, <1>5, <1>6 DEF Owns
<1>8. Owns(job[j])'
  BY <1>2, <1>4, <1>7, IdleOwns DEF Owns, Of
<1> QED BY <1>2, <1>8, HolderOwned

\* Nothing but a job changes, and it becomes a record that owns what it holds.
LEMMA BecomesOwned ==
  ASSUME Owned, TypeInv', NEW j \in Job, NEW r, Become(j, r), Owns(r),
         UNCHANGED <<conn, callers, callerIdx, join>>
  PROVE  Owned'
<1>1. Others(j) /\ job'[j] = r
  BY DEF Owned, TypeInv, TypeOK, Become, Others
<1>2. Owns(job[j])'
  BY <1>1 DEF Owns, Of
<1> QED BY <1>1, <1>2, HolderOwned

\* A record that says what r says of owners, and holds a caller of its own.
LEMMA HoldingOwns ==
  ASSUME NEW r, NEW t, Owns(r), r.ev \in CallerEvent, t.ev = r.ev, t.sock = r.sock,
         t.uuid = r.uuid, t.ckey = r.ckey,
         Of(t.caller.key, r.sock), t.caller.socketId = r.sock
  PROVE  Owns(t)
BY DEF Owns

LEMMA FoundCallerOwned ==
  ASSUME Owned, NEW j \in Job, job[j].ev \in CallerEvent, FoundCaller(j) # None
  PROVE  /\ FoundCaller(j) \in Caller
         /\ Of(FoundCaller(j).key, job[j].sock)
         /\ FoundCaller(j).socketId = job[j].sock
<1>1. job[j].ckey \in CallerKey /\ Of(job[j].ckey, job[j].sock)
  BY DEF FoundCaller, Owned, TypeInv, TypeOK, JobRecord, Owns
<1>2. FoundCaller(j) = callers[job[j].ckey] /\ callers[job[j].ckey] \in Caller
  BY <1>1, NoneIsNothing DEF FoundCaller, Owned, TypeInv, TypeOK, StorageOK
<1> QED BY <1>1, <1>2 DEF Owned, CallersOwned, Of

LEMMA HeldCallerOwned ==
  ASSUME Owned, NEW j \in Job, job[j].caller # None
  PROVE  /\ job[j].ev \in CallerEvent
         /\ job[j].sock \in CallerSocket
         /\ job[j].caller \in Caller
         /\ job[j].caller.key \in CallerKey
         /\ Of(job[j].caller.key, job[j].sock)
         /\ job[j].caller.socketId = job[j].sock
BY DEF Owned, TypeInv, TypeOK, JobRecord, Owns, Shaped, SocketShape, Caller

LEMMA ReadToDestroyCallerOwned ==
  ASSUME Owned, TypeInv', NEW j \in Job, ReadToDestroyCaller(j)
  PROVE  Owned'
<1>1. job[j] \in JobRecord /\ Owns(job[j]) /\ job[j].caller # None
  BY DEF ReadToDestroyCaller, Owned, TypeInv, TypeOK, Shaped, CallerShape
<1> DEFINE key == job[j].caller.key
           r == [job[j] EXCEPT !.caller = callers[key], !.pc = "hdelCaller"]
<1>2. Become(j, r) /\ UNCHANGED <<conn, callers, callerIdx, join>>
  BY DEF ReadToDestroyCaller, storage, history
<1>3. /\ job[j].ev \in CallerEvent /\ key \in CallerKey
      /\ Of(key, job[j].sock) /\ callers[key] # None
  BY <1>1, HeldCallerOwned DEF ReadToDestroyCaller
<1>4. Of(callers[key].key, job[j].sock) /\ callers[key].socketId = job[j].sock
  BY <1>3 DEF Owned, CallersOwned, Of
<1>5. /\ r.ev = job[j].ev /\ r.sock = job[j].sock /\ r.uuid = job[j].uuid
      /\ r.ckey = job[j].ckey /\ r.caller = callers[key]
  BY <1>1 DEF JobRecord
<1> HIDE DEF r, key
<1>6. Owns(r)
  BY <1>1, <1>3, <1>4, <1>5, HoldingOwns
<1> QED BY <1>2, <1>6, BecomesOwned

\* The record r a caller is saved as, or holds while it is destroyed.
LEMMA AwaitOwns ==
  ASSUME NEW r \in JobRecord, Owns(r), NEW pc
  PROVE  Owns(Await(r, pc))
BY DEF Await, Owns, JobRecord

\* A step of job j that writes the caller it holds, or deletes it.
LEMMA WriteOwned ==
  ASSUME Owned, TypeInv', NEW j \in Job, NEW pc, job[j].caller # None,
         Become(j, Await(job[j], pc)), UNCHANGED <<conn, callerIdx, join>>,
         NEW c \in {job[j].caller, None},
         callers' = [callers EXCEPT ![job[j].caller.key] = c]
  PROVE  Owned'
<1>1. job[j] \in JobRecord /\ Owns(job[j])
  BY DEF Owned, TypeInv, TypeOK
<1>2. callers \in [CallerKey -> Caller \cup {None}]
  BY DEF Owned, TypeInv, TypeOK, StorageOK
<1>3. JoinGrows /\ GoneStays
  BY DEF JoinGrows, GoneStays
<1>4. Others(j) /\ job'[j] = Await(job[j], pc)
  BY DEF Owned, TypeInv, TypeOK, Become, Others
<1>5. Owns(job[j])'
  BY <1>1, <1>4, AwaitOwns DEF Owns, Of
<1>6. /\ job[j].caller.key \in CallerKey
      /\ Of(job[j].caller.key, job[j].caller.socketId)
  BY HeldCallerOwned
<1>7. CallersOwned'
  BY <1>2, <1>6 DEF Owned, CallersOwned, Of
<1> QED BY <1>3, <1>4, <1>5, <1>7, OwnedStep

LEMMA HsetCallerOwned ==
  ASSUME Owned, TypeInv', NEW j \in Job, HsetCaller(j)
  PROVE  Owned'
<1>1. job[j].caller # None
  BY DEF HsetCaller, Owned, TypeInv, Shaped, CallerShape
<1> QED BY <1>1, WriteOwned DEF HsetCaller, history

LEMMA HdelCallerOwned ==
  ASSUME Owned, TypeInv', NEW j \in Job, HdelCaller(j)
  PROVE  Owned'
<1>1. job[j].caller # None
  BY DEF HdelCaller, Owned, TypeInv, Shaped, CallerShape
<1> QED BY <1>1, WriteOwned DEF HdelCaller, history

\* What job j saves for the caller it holds is that of its socket.
LEMMA SavingOwns ==
  ASSUME NEW r \in JobRecord, Owns(r), r.ev \in CallerEvent, NEW caller,
         Of(caller.key, r.sock), caller.socketId = r.sock
  PROVE  Owns(SavingCaller(r, caller))
<1>1. /\ SavingCaller(r, caller).ev = r.ev /\ SavingCaller(r, caller).sock = r.sock
      /\ SavingCaller(r, caller).uuid = r.uuid /\ SavingCaller(r, caller).ckey = r.ckey
      /\ SavingCaller(r, caller).caller = caller
  BY DEF SavingCaller, JobRecord
<1> QED BY <1>1, HoldingOwns

LEMMA JoinCallerOwned ==
  ASSUME Owned, TypeInv', NEW j \in Job, JoinCaller(j)
  PROVE  Owned'
<1>1. /\ job[j] \in JobRecord /\ Owns(job[j]) /\ job[j].ev = "JOIN"
      /\ job[j].ev \in CallerEvent
  BY DEF JoinCaller, At, Owned, TypeInv, TypeOK, CallerEvent
<1> DEFINE found == FoundCaller(j)
           caller == IF found = None THEN NewCaller(job[j].uuid, job[j].sock)
                     ELSE [found EXCEPT !.socketId = job[j].sock]
           added == AddActor(caller, job[j].actor)
<1>2. /\ Become(j, SavingCaller(job[j], added))
      /\ UNCHANGED <<conn, callers, callerIdx, join>>
  BY DEF JoinCaller, storage, history
<1>3. /\ caller.socketId = job[j].sock /\ Of(caller.key, job[j].sock)
      /\ added.key = caller.key /\ added.socketId = caller.socketId
  <2>1. CASE found = None
    BY <1>1, <2>1 DEF NewCaller, AddActor, Owns
  <2>2. CASE found # None
    BY <1>1, <2>2, FoundCallerOwned DEF Caller, AddActor
  <2> QED BY <2>1, <2>2
<1> HIDE DEF added, caller
<1> QED BY <1>1, <1>2, <1>3, SavingOwns, BecomesOwned

LEMMA RemoveActorKeeps ==
  ASSUME NEW c \in Caller, NEW a
  PROVE  RemoveActor(c, a).key = c.key /\ RemoveActor(c, a).socketId = c.socketId
BY DEF RemoveActor, Caller

LEMMA LeaveCallerOwned ==
  ASSUME Owned, TypeInv', NEW j \in Job, LeaveCaller(j)
  PROVE  Owned'
<1>1. /\ job[j] \in JobRecord /\ Owns(job[j]) /\ job[j].ev \in CallerEvent
      /\ job \in [Job -> JobRecord]
  BY DEF LeaveCaller, At, Owned, TypeInv, TypeOK, CallerEvent
<1>2. UNCHANGED <<conn, callers, callerIdx, join>>
  BY DEF LeaveCaller, storage, history
<1> DEFINE found == FoundCaller(j)
           caller == RemoveActor(found, job[j].actor)
           r == [job[j] EXCEPT !.caller = caller, !.pc = "destroyCaller"]
<1>3. CASE Become(j, Idle)
  <2>1. Others(j) /\ job'[j] = Idle
    BY <1>1, <1>3 DEF Become, Others
  <2> QED BY <1>2, <2>1, IdleOwns, HolderOwned
<1>4. found # None => Of(caller.key, job[j].sock) /\ caller.socketId = job[j].sock
  BY <1>1, FoundCallerOwned, RemoveActorKeeps
<1>5. CASE found # None /\ Become(j, r)
  <2>1. /\ r.ev = job[j].ev /\ r.sock = job[j].sock /\ r.uuid = job[j].uuid
        /\ r.ckey = job[j].ckey /\ r.caller = caller
    BY <1>1 DEF JobRecord
  <2> HIDE DEF r, caller
  <2> QED BY <1>1, <1>2, <1>4, <1>5, <2>1, HoldingOwns, BecomesOwned
<1>6. CASE found # None /\ Become(j, SavingCaller(job[j], caller))
  <2> HIDE DEF caller
  <2> QED BY <1>1, <1>2, <1>4, <1>6, SavingOwns, BecomesOwned
<1> QED BY <1>3, <1>5, <1>6 DEF LeaveCaller

LEMMA PerformCallerOwned ==
  ASSUME Owned, TypeInv', NEW j \in Job, PerformCaller(j)
  PROVE  Owned'
<1>1. /\ job[j] \in JobRecord /\ Owns(job[j]) /\ job[j].ev \in CallerEvent
      /\ job \in [Job -> JobRecord]
  BY DEF PerformCaller, At, Owned, TypeInv, TypeOK, CallerEvent
<1>2. UNCHANGED <<conn, callers, callerIdx, join>>
  BY DEF PerformCaller, storage, history
<1> DEFINE found == FoundCaller(j)
           r == [job[j] EXCEPT !.caller = found, !.pc = "hsetInvocation"]
<1>3. CASE Become(j, Idle)
  <2>1. Others(j) /\ job'[j] = Idle
    BY <1>1, <1>3 DEF Become, Others
  <2> QED BY <1>2, <2>1, IdleOwns, HolderOwned
<1>4. CASE found # None /\ Become(j, r)
  <2>1. /\ r.ev = job[j].ev /\ r.sock = job[j].sock /\ r.uuid = job[j].uuid
        /\ r.ckey = job[j].ckey /\ r.caller = found
    BY <1>1 DEF JobRecord
  <2>2. Of(found.key, job[j].sock) /\ found.socketId = job[j].sock
    BY <1>1, <1>4, FoundCallerOwned
  <2> HIDE DEF r, found
  <2> QED BY <1>1, <1>2, <1>4, <2>1, <2>2, HoldingOwns, BecomesOwned
<1> QED BY <1>3, <1>4 DEF PerformCaller

LEMMA CallerDisconnectFindOwned ==
  ASSUME Owned, TypeInv', NEW j \in Job, CallerDisconnectFind(j)
  PROVE  Owned'
<1>1. /\ job[j] \in JobRecord /\ Owns(job[j]) /\ job[j].ev \in CallerEvent
      /\ job \in [Job -> JobRecord]
  BY DEF CallerDisconnectFind, At, Owned, TypeInv, TypeOK, CallerEvent
<1>2. UNCHANGED <<conn, callers, callerIdx, join>>
  BY DEF CallerDisconnectFind, storage, history
<1> DEFINE found == FoundCaller(j)
           r == Visiting([job[j] EXCEPT !.caller = found, !.actorsLeft = found.actors])
<1>3. CASE Become(j, Idle)
  <2>1. Others(j) /\ job'[j] = Idle
    BY <1>1, <1>3 DEF Become, Others
  <2> QED BY <1>2, <2>1, IdleOwns, HolderOwned
<1>4. CASE found # None /\ Become(j, r)
  <2>1. /\ r.ev = job[j].ev /\ r.sock = job[j].sock /\ r.uuid = job[j].uuid
        /\ r.ckey = job[j].ckey /\ r.caller = found
    BY <1>1 DEF JobRecord, Visiting, Await
  <2>2. Of(found.key, job[j].sock) /\ found.socketId = job[j].sock
    BY <1>1, <1>4, FoundCallerOwned
  <2> HIDE DEF r, found
  <2> QED BY <1>1, <1>2, <1>4, <2>1, <2>2, HoldingOwns, BecomesOwned
<1> QED BY <1>3, <1>4 DEF CallerDisconnectFind

-----------------------------------------------------------------------------
(* Steps about the index of callers *)

\* A step of job j, which keeps what it holds, and writes or erases an entry.
LEMMA IndexOwned ==
  ASSUME Owned, TypeInv', NEW j \in Job, Others(j), Owns(job[j])',
         UNCHANGED <<conn, callers, join>>, CallerSaved(j) \/ CallerDestroyed(j)
  PROVE  Owned'
<1>1. callerIdx \in [CallerSocket -> CallerKey \cup {None}]
  BY DEF Owned, TypeInv, TypeOK, StorageOK
<1>2. JoinGrows /\ GoneStays
  BY DEF JoinGrows, GoneStays
<1>3. job[j].caller # None
  BY DEF CallerSaved, CallerDestroyed, Owned, TypeInv, Shaped, CallerShape
<1>4. /\ job[j].caller.socketId \in CallerSocket
      /\ Of(job[j].caller.key, job[j].caller.socketId)
  BY <1>3, HeldCallerOwned
<1>5. \A s \in CallerSocket :
        callerIdx'[s] # None => \/ callerIdx'[s] = callerIdx[s]
                                \/ /\ s = job[j].caller.socketId
                                   /\ callerIdx'[s] = job[j].caller.key
  BY <1>1 DEF CallerSaved, CallerDestroyed
<1>6. CallersOwned'
  BY <1>4, <1>5 DEF Owned, CallersOwned, Of
<1> QED BY <1>2, <1>6, OwnedStep

LEMMA SavingActorOwns ==
  ASSUME NEW r \in JobRecord, Owns(r), NEW a
  PROVE  Owns(SavingActor(r, a))
BY DEF SavingActor, Owns, JobRecord

LEMMA JoinCallerSavedOwned ==
  ASSUME Owned, TypeInv', NEW j \in Job, JoinCallerSaved(j)
  PROVE  Owned'
<1>1. job \in [Job -> JobRecord] /\ job[j] \in JobRecord /\ Owns(job[j])
  BY DEF Owned, TypeInv, TypeOK
<1>2. PICK a : Become(j, SavingActor(job[j], a))
  BY DEF JoinCallerSaved
<1>3. Others(j) /\ job'[j] = SavingActor(job[j], a)
  BY <1>1, <1>2 DEF Become, Others
<1>4. UNCHANGED <<conn, callers, join>> /\ CallerSaved(j)
  BY DEF JoinCallerSaved, history
<1>5. Owns(job[j])'
  BY <1>1, <1>3, <1>4, SavingActorOwns DEF Owns, Of
<1> QED BY <1>3, <1>4, <1>5, IndexOwned

LEMMA LeaveActorOwned ==
  ASSUME Owned, TypeInv', NEW j \in Job, LeaveActor(j)
  PROVE  Owned'
<1>1. job \in [Job -> JobRecord] /\ job[j] \in JobRecord /\ Owns(job[j])
  BY DEF Owned, TypeInv, TypeOK
<1>2. PICK a : Become(j, SavingActor(job[j], a))
  BY DEF LeaveActor
<1>3. Others(j) /\ job'[j] = SavingActor(job[j], a)
  BY <1>1, <1>2 DEF Become, Others
<1>4. UNCHANGED <<conn, callers, join>> /\ (CallerSaved(j) \/ CallerDestroyed(j))
  BY DEF LeaveActor, history
<1>5. Owns(job[j])'
  BY <1>1, <1>3, <1>4, SavingActorOwns DEF Owns, Of
<1> QED BY <1>3, <1>4, <1>5, IndexOwned

LEMMA CallerDisconnectedOwned ==
  ASSUME Owned, TypeInv', NEW j \in Job, CallerDisconnected(j)
  PROVE  Owned'
<1>1. Others(j) /\ job'[j] = Idle
  BY DEF CallerDisconnected, Become, Others, Owned, TypeInv, TypeOK
<1> QED BY <1>1, IdleOwns, IndexOwned DEF CallerDisconnected, history

-----------------------------------------------------------------------------
(* The invariant *)

LEMMA InitOwned == Init => Owned
<1> SUFFICES ASSUME Init PROVE Owned
  OBVIOUS
<1>1. CallersOwned
  BY DEF Init, CallersOwned
<1>2. \A j \in Job : Owns(job[j])
  BY EventsDiffer DEF Init, Idle, Owns, CallerEvent
<1> QED BY <1>1, <1>2, InitType DEF Owned

LEMMA ConnectOwned ==
  ASSUME Owned, TypeInv', NEW s \in Socket, Connect(s)
  PROVE  Owned'
<1>1. /\ conn \in [Socket -> {"fresh", "open", "gone"}]
      /\ conn[s] = "fresh" /\ conn' = [conn EXCEPT ![s] = "open"]
      /\ UNCHANGED <<callers, callerIdx, join, job>>
  BY DEF Connect, storage, history, Owned, TypeInv, TypeOK
<1>2. JoinGrows /\ GoneStays
  BY <1>1 DEF JoinGrows, GoneStays
<1>3. CallersOwned'
  BY <1>1, <1>2, CallersOwnedGrows
<1>4. ASSUME NEW i \in Job PROVE Owns(job[i])'
  BY <1>1, <1>2, OwnsGrows DEF Owned
<1> QED BY <1>3, <1>4 DEF Owned

LEMMA CrashOwned ==
  ASSUME Owned, TypeInv', NEW h \in Hub, Crash(h)
  PROVE  Owned'
<1>1. /\ conn \in [Socket -> {"fresh", "open", "gone"}]
      /\ conn' = [s \in Socket |->
                   IF HubOf[s] = h /\ conn[s] = "open" THEN "gone" ELSE conn[s]]
      /\ UNCHANGED <<callers, callerIdx, join>>
  BY DEF Crash, storage, history, Owned, TypeInv, TypeOK
<1>2. JoinGrows /\ GoneStays
  BY <1>1 DEF JoinGrows, GoneStays
<1>3. CallersOwned'
  BY <1>1, <1>2, CallersOwnedGrows
<1>4. ASSUME NEW i \in Job PROVE Owns(job[i])'
  <2>1. job'[i] = Idle \/ job'[i] = job[i]
    BY DEF Crash
  <2> QED BY <1>2, <2>1, IdleOwns, OwnsGrows DEF Owned
<1> QED BY <1>3, <1>4 DEF Owned

LEMMA HandlerOwned ==
  ASSUME Owned, TypeInv', NEW j \in Job, HandlerStep(j)
  PROVE  Owned'
<1>0. TypeInv
  BY DEF Owned
<1>1. CASE ServiceStep(j)
  BY <1>0, <1>1, OwnerFrameOwned, HsetActorFrame, FindActorBySocketFrame,
     ReadToDestroyActorFrame, HdelActorFrame, ReadToDestroyInvocationFrame,
     HsetCallerOwned, FindCallerBySocketOwned, ReadToDestroyCallerOwned,
     HdelCallerOwned DEF ServiceStep
<1>2. CASE ActorStep(j)
  BY <1>0, <1>2, OwnerFrameOwned, HiFindFrame, HiSavedFrame, UpdateFindFrame,
     ByeSavedFrame, SpecSavedFrame, ActorPipeFindFrame, CastFrame, ResultFindFrame,
     ResultFinishedFrame, ResultRepliedFrame, ActorDisconnectFindFrame, SweepCallerFrame, SweepListFrame,
     SweepScanFrame, SweepFinishedFrame, SweepRepliedFrame, ActorDisconnectedFrame DEF ActorStep
<1>3. CASE CallerStep(j)
  BY <1>0, <1>3, OwnerFrameOwned, RequestFindFrame, JoinCallerOwned,
     JoinCallerSavedOwned, JoinSavedFrame, LeaveCallerOwned, LeaveActorOwned,
     LeaveSavedFrame, PerformCallerOwned, PerformSavedFrame, PerformSentFrame, CallerPipeFindFrame,
     CallerDisconnectFindOwned, VisitActorFrame, VisitSavedFrame, CallerListFrame,
     CallerScanFrame, CallerFinishedFrame, CallerDisconnectedOwned DEF CallerStep
<1> QED BY <1>1, <1>2, <1>3 DEF HandlerStep

LEMMA StepOwned ==
  ASSUME Owned, [Next]_vars
  PROVE  Owned'
<1>1. TypeInv'
  BY NextType, StutterType DEF Owned
<1>2. CASE Next
  BY <1>1, <1>2, ActorRequestOwned, CallerRequestOwned, HandlerOwned, ConnectOwned,
     CrashOwned DEF Next
<1>3. CASE UNCHANGED vars
  <2>1. UNCHANGED <<conn, callers, callerIdx, join, job>>
    BY <1>3 DEF vars, storage, history
  <2>2. CallersOwned' /\ \A i \in Job : Owns(job[i])'
    BY <2>1 DEF Owned, CallersOwned, Owns, Of
  <2> QED BY <1>1, <2>2 DEF Owned
<1> QED BY <1>2, <1>3

\* Handlers hold, and storage files under a uuid or a socket, only callers of the
\* socket whose JOIN the uuid was drawn for.
THEOREM CallersAreOwn == Spec => []Owned
BY InitOwned, StepOwned, PTL DEF Spec

-----------------------------------------------------------------------------
(* Isolation *)

LEMMA WriteIsolates ==
  ASSUME Owned, NEW j \in Job, HsetCaller(j) \/ HdelCaller(j),
         NEW k \in CallerKey, callers'[k] # callers[k]
  PROVE  job'[j] # job[j] /\ job[j].sock = join[k].socket
<1>1. job \in [Job -> JobRecord] /\ callers \in [CallerKey -> Caller \cup {None}]
  BY DEF Owned, TypeInv, TypeOK, StorageOK
<1>2. job'[j].pc # job[j].pc
  BY <1>1 DEF HsetCaller, HdelCaller, Become, Await, JobRecord
<1>3. job[j].caller # None /\ k = job[j].caller.key
  BY <1>1 DEF HsetCaller, HdelCaller, Owned, TypeInv, Shaped, CallerShape
<1> QED BY <1>2, <1>3, HeldCallerOwned DEF Of

LEMMA HandlerIsolates ==
  ASSUME TypeInv, NEW j \in Job, HandlerStep(j), ~ HsetCaller(j), ~ HdelCaller(j)
  PROVE  UNCHANGED callers
<1>1. CASE ServiceStep(j)
  BY <1>1, HsetActorFrame, FindActorBySocketFrame, ReadToDestroyActorFrame,
     HdelActorFrame, ReadToDestroyInvocationFrame
     DEF ServiceStep, OwnerFrame, FindCallerBySocket, ReadToDestroyCaller, storage
<1>2. CASE ActorStep(j)
  BY <1>2, HiFindFrame, HiSavedFrame, UpdateFindFrame,
     ByeSavedFrame, SpecSavedFrame, ActorPipeFindFrame, CastFrame, ResultFindFrame,
     ResultFinishedFrame, ResultRepliedFrame, ActorDisconnectFindFrame, SweepCallerFrame, SweepListFrame,
     SweepScanFrame, SweepFinishedFrame, SweepRepliedFrame, ActorDisconnectedFrame
     DEF ActorStep, OwnerFrame
<1>3. CASE CallerStep(j)
  BY <1>3, RequestFindFrame, JoinSavedFrame, LeaveSavedFrame, PerformSavedFrame, PerformSentFrame,
     CallerPipeFindFrame, VisitActorFrame, VisitSavedFrame, CallerListFrame,
     CallerScanFrame, CallerFinishedFrame
     DEF CallerStep, OwnerFrame, JoinCaller, JoinCallerSaved, LeaveCaller, LeaveActor,
         PerformCaller, CallerDisconnectFind, CallerDisconnected, storage
<1> QED BY <1>1, <1>2, <1>3 DEF HandlerStep

LEMMA StepIsolates ==
  ASSUME Owned, Next, NEW k \in CallerKey, callers'[k] # callers[k]
  PROVE  \E j \in Job : job'[j] # job[j] /\ job[j].sock = join[k].socket
<1>1. TypeInv
  BY DEF Owned
<1>2. ASSUME NEW j \in Job, ActorRequest(j) PROVE FALSE
  BY <1>2 DEF ActorRequest, Hi, ActorPipe, UpdateSpec, DelSpec, Result, Bye,
              ActorDisconnect, storage
<1>3. ASSUME NEW j \in Job, CallerRequest(j) PROVE FALSE
  BY <1>3 DEF CallerRequest, Join, Leave, Perform, CallerPipe, CallerDisconnect, storage
<1>4. ASSUME NEW s \in Socket, Connect(s) PROVE FALSE
  BY <1>4 DEF Connect, storage
<1>5. ASSUME NEW h \in Hub, Crash(h) PROVE FALSE
  BY <1>5 DEF Crash, storage
<1>6. PICK j \in Job : HandlerStep(j)
  BY <1>2, <1>3, <1>4, <1>5 DEF Next
<1>7. HsetCaller(j) \/ HdelCaller(j)
  BY <1>1, <1>6, HandlerIsolates
<1> QED BY <1>7, WriteIsolates

\* The entity of a caller is written and deleted only by handlers of the socket
\* whose JOIN drew its uuid: no other client changes or removes it.
THEOREM CallersIsolated == Spec => CallerIsolation
<1>1. ASSUME Owned, [Next]_vars
      PROVE  [\A k \in CallerKey : callers'[k] # callers[k] =>
                \E j \in Job : /\ job'[j] # job[j]
                               /\ job[j].sock = join[k].socket]_vars
  BY <1>1, StepIsolates
<1> QED BY <1>1, CallersAreOwn, PTL DEF Spec, CallerIsolation

-----------------------------------------------------------------------------
(* Members: who is on the list of an actor asked to join it. *)

LEMMA InviteesGrow ==
  ASSUME TypeInv, JoinGrows, NEW k \in ActorKey
  PROVE  Invitees(k) \subseteq Invitees(k)'
<1> SUFFICES ASSUME NEW c \in Invitees(k) PROVE c \in Invitees(k)'
  OBVIOUS
<1>1. join \in [CallerKey -> JoinRecord \cup {None}]
  BY DEF TypeInv, TypeOK, HistoryOK
<1>2. c \in CallerKey /\ join[c] # None
  BY DEF Invitees
<1>3. PICK u \in CallerKey : join[u] = [socket |-> join[c].socket, key |-> k]
  BY DEF Invitees
<1>4. join[u] \in JoinRecord
  BY <1>1, <1>2, <1>3 DEF JoinRecord
<1>5. join'[c] = join[c] /\ join'[u] = join[u]
  BY <1>2, <1>4, NoneIsNoRequest DEF JoinGrows
<1> QED BY <1>2, <1>3, <1>5 DEF Invitees

LEMMA InvitesGrows ==
  ASSUME TypeInv, JoinGrows, NEW a \in Actor, Invites(a)
  PROVE  Invites(a)'
<1>1. a.key \in ActorKey
  BY DEF Actor
<1> QED BY <1>1, InviteesGrow, SeqMonotonic DEF Invites

LEMMA ListsGrows ==
  ASSUME TypeInv, JoinGrows, NEW i \in Job, Lists(job[i]), job'[i] = job[i]
  PROVE  Lists(job[i])'
<1> DEFINE r == job[i]
<1>1. r \in JobRecord /\ Shaped(r) /\ join \in [CallerKey -> JoinRecord \cup {None}]
  BY DEF TypeInv, TypeOK, HistoryOK
<1>2. (r.actor # None => Invites(r.actor))'
  BY <1>1, InvitesGrows DEF Lists, JobRecord
<1>3. ASSUME r.callersLeft # <<>>
      PROVE  (/\ r.ev \in ActorEvent
              /\ r.pc \notin {"actorIdx", "actor", "hsetActor", "hsetActorIdx"}
              /\ r.actor # None
              /\ r.callersLeft \in Seq(Invitees(r.actor.key)))'
  <2>1. /\ r.ev \in ActorEvent /\ r.actor # None
        /\ r.pc \notin {"actorIdx", "actor", "hsetActor", "hsetActorIdx"}
        /\ r.callersLeft \in Seq(Invitees(r.actor.key))
    BY <1>3 DEF Lists
  <2>2. r.actor.key \in ActorKey
    BY <1>1, <2>1 DEF JobRecord, Actor
  <2>3. r.callersLeft \in Seq(Invitees(r.actor.key)')
    BY <2>1, <2>2, InviteesGrow, SeqMonotonic
  <2> QED BY <2>1, <2>3
<1>4. ASSUME r.ev = "JOIN"
      PROVE  (/\ join[r.uuid] = [socket |-> r.sock, key |-> r.key]
              /\ r.actor # None => r.actor.key = r.key)'
  <2>1. /\ join[r.uuid] = [socket |-> r.sock, key |-> r.key]
        /\ r.actor # None => r.actor.key = r.key
    BY <1>4 DEF Lists
  <2>2. /\ r.uuid \in CallerKey /\ r.sock \in CallerSocket /\ r.key \in ActorKey
    BY <1>1, <1>4 DEF JobRecord, Shaped, ArgumentShape, SocketShape, CallerEvent
  <2>3. join'[r.uuid] = join[r.uuid]
    BY <2>1, <2>2, NoneIsNoRequest DEF JoinGrows, JoinRecord
  <2> QED BY <2>1, <2>3
<1> QED BY <1>2, <1>3, <1>4 DEF Lists

\* What goes to callers is RESULT only.
NoBroadcast == \A m \in out' : m.ev = "RESULT" \/ m.to \notin CallerSocket

LEMMA ListedStep ==
  ASSUME Listed, Owned', JoinGrows, ActorsInvite', NEW j \in Job, Others(j),
         Lists(job[j])', NoBroadcast \/ NoticesToMembers'
  PROVE  Listed'
<1>1. ASSUME NEW i \in Job, i # j PROVE Lists(job[i])'
  BY <1>1, ListsGrows DEF Listed, Owned, Others
<1>2. NoticesToMembers'
  BY DEF NoBroadcast, NoticesToMembers
<1> QED BY <1>1, <1>2 DEF Listed

LEMMA ActorsInviteGrows ==
  ASSUME Listed, JoinGrows, UNCHANGED actors
  PROVE  ActorsInvite'
<1>1. actors \in [ActorKey -> Actor \cup {None}] /\ TypeInv
  BY DEF Listed, Owned, TypeInv, TypeOK, StorageOK
<1> QED BY <1>1, InvitesGrows DEF Listed, ActorsInvite

LEMMA IdleLists == Lists(Idle) /\ Lists(Idle)'
BY EventsDiffer DEF Idle, Lists, CallerEvent

\* A step of job j that leaves storage of actors alone, and turns it into r.
LEMMA BecomesListed ==
  ASSUME Listed, Owned', NEW j \in Job, NEW r, Become(j, r), Lists(r),
         UNCHANGED <<actors, join>>, NoBroadcast \/ NoticesToMembers'
  PROVE  Listed'
<1>1. JoinGrows
  BY DEF JoinGrows
<1>2. Others(j) /\ job'[j] = r
  BY DEF Listed, Owned, TypeInv, TypeOK, Become, Others
<1>3. Lists(job[j])'
  BY <1>2 DEF Lists, Invites, Invitees
<1> QED BY <1>1, <1>2, <1>3, ActorsInviteGrows, ListedStep

LEMMA HeldActorInvites ==
  ASSUME Listed, NEW j \in Job, job[j].actor # None
  PROVE  job[j].actor \in Actor /\ job[j].actor.key \in ActorKey /\ Invites(job[j].actor)
BY DEF Listed, Owned, TypeInv, TypeOK, JobRecord, Lists, Actor

LEMMA StoredActorInvites ==
  ASSUME Listed, NEW k \in ActorKey, actors[k] # None
  PROVE  actors[k] \in Actor /\ actors[k].key = k /\ Invites(actors[k])
BY DEF Listed, Owned, TypeInv, TypeOK, StorageOK, ActorsInvite

-----------------------------------------------------------------------------
(* Steps that keep the actor, and the list, a handler holds *)

BeforeList == {"actorIdx", "actor", "hsetActor", "hsetActorIdx"}

\* Record r of a job after a step, s before it.
KeepsLists(r, s) ==
  \/ r = Idle
  \/ /\ r.ev = s.ev /\ r.sock = s.sock /\ r.uuid = s.uuid
     /\ r.actor = s.actor /\ r.callersLeft = s.callersLeft
     /\ s.ev = "JOIN" => r.key = s.key
     /\ r.pc \in BeforeList => s.pc \in BeforeList \/ s.ev \in CallerEvent

ListFrame(j) ==
  /\ Others(j)
  /\ KeepsLists(job'[j], job[j])
  /\ UNCHANGED <<actors, join>>
  /\ NoBroadcast

LEMMA ListFrameListed ==
  ASSUME Listed, Owned', NEW j \in Job, ListFrame(j)
  PROVE  Listed'
<1>1. JoinGrows
  BY DEF ListFrame, JoinGrows
<1>2. CASE job'[j] = Idle
  <2>1. Lists(job[j])'
    BY <1>2, IdleLists
  <2> QED BY <1>1, <2>1, ActorsInviteGrows, ListedStep DEF ListFrame
<1>3. CASE job'[j] # Idle
  <2> DEFINE r == job'[j]
  <2>1. /\ r.ev = job[j].ev /\ r.sock = job[j].sock /\ r.uuid = job[j].uuid
        /\ r.actor = job[j].actor /\ r.callersLeft = job[j].callersLeft
        /\ job[j].ev = "JOIN" => r.key = job[j].key
        /\ r.pc \in BeforeList => job[j].pc \in BeforeList \/ job[j].ev \in CallerEvent
    BY <1>3 DEF ListFrame, KeepsLists
  <2>2. Lists(job[j])
    BY DEF Listed
  <2> HIDE DEF r
  <2>3. Lists(r)
    BY <2>1, <2>2, EventsDiffer DEF Lists, BeforeList
  <2>4. Lists(job[j])'
    BY <2>3 DEF r, Lists, Invites, Invitees, ListFrame
  <2> QED BY <1>1, <2>4, ActorsInviteGrows, ListedStep DEF ListFrame
<1> QED BY <1>2, <1>3

\* Sockets of actors are not those of callers.
LEMMA ActorIsNoCaller ==
  ASSUME NEW a \in Actor
  PROVE  a.socketId \notin CallerSocket
BY SocketsDiffer DEF Actor

LEMMA SavedActorIsNoCaller ==
  ASSUME TypeInv, NEW j \in Job, job[j].pc \in {"hsetActorIdx", "send"}
  PROVE  job[j].actor \in Actor /\ job[j].actor.socketId \notin CallerSocket
<1>1. job[j] \in JobRecord /\ Shaped(job[j])
  BY DEF TypeInv, TypeOK
<1>2. job[j].actor # None
  BY <1>1 DEF Shaped, ActorShape, SocketShape
<1> QED BY <1>1, <1>2, ActorIsNoCaller DEF JobRecord

LEMMA HsetCallerLists ==
  ASSUME TypeInv, NEW j \in Job, HsetCaller(j)
  PROVE  ListFrame(j)
<1>1. job \in [Job -> JobRecord] /\ job[j] \in JobRecord /\ Shaped(job[j])
  BY DEF TypeInv, TypeOK
<1>2. Others(j)
  BY <1>1 DEF HsetCaller, Become, Others, Await
<1>3. KeepsLists(job'[j], job[j])
  BY <1>1 DEF HsetCaller, Become, JobRecord, KeepsLists, BeforeList, Await
<1>4. UNCHANGED <<actors, join>>
  BY DEF HsetCaller, storage, history, Await
<1>5. NoBroadcast
  BY <1>1 DEF HsetCaller, NoBroadcast, Message, Await
<1> QED BY <1>2, <1>3, <1>4, <1>5 DEF ListFrame

LEMMA FindActorBySocketLists ==
  ASSUME TypeInv, NEW j \in Job, FindActorBySocket(j)
  PROVE  ListFrame(j)
<1>1. job \in [Job -> JobRecord] /\ job[j] \in JobRecord /\ Shaped(job[j])
  BY DEF TypeInv, TypeOK
<1>2. Others(j)
  BY <1>1 DEF FindActorBySocket, Become, Others, BeforeList
<1>3. KeepsLists(job'[j], job[j])
  <2> DEFINE key == actorIdx[job[j].sock]
  <2>1. job[j].ev # "JOIN" /\ job[j].pc \in BeforeList
    BY <1>1 DEF FindActorBySocket, Shaped, SocketShape, ActorEvent, BeforeList
  <2>2. job'[j] = Idle \/ job'[j] = [job[j] EXCEPT !.key = key, !.pc = "actor"]
    BY <1>1 DEF FindActorBySocket, Become
  <2> HIDE DEF key
  <2> QED BY <1>1, <2>1, <2>2 DEF KeepsLists, JobRecord
<1>4. UNCHANGED <<actors, join>>
  BY DEF FindActorBySocket, storage, history, BeforeList
<1>5. NoBroadcast
  BY <1>1 DEF FindActorBySocket, NoBroadcast, Message, BeforeList
<1> QED BY <1>2, <1>3, <1>4, <1>5 DEF ListFrame

LEMMA FindCallerBySocketLists ==
  ASSUME TypeInv, NEW j \in Job, FindCallerBySocket(j)
  PROVE  ListFrame(j)
<1>1. job \in [Job -> JobRecord] /\ job[j] \in JobRecord /\ Shaped(job[j])
  BY DEF TypeInv, TypeOK
<1>2. Others(j)
  BY <1>1 DEF FindCallerBySocket, Become, Others
<1>3. KeepsLists(job'[j], job[j])
  BY <1>1 DEF FindCallerBySocket, Become, JobRecord, KeepsLists, BeforeList
<1>4. UNCHANGED <<actors, join>>
  BY DEF FindCallerBySocket, storage, history
<1>5. NoBroadcast
  BY <1>1 DEF FindCallerBySocket, NoBroadcast, Message
<1> QED BY <1>2, <1>3, <1>4, <1>5 DEF ListFrame

LEMMA ReadToDestroyCallerLists ==
  ASSUME TypeInv, NEW j \in Job, ReadToDestroyCaller(j)
  PROVE  ListFrame(j)
<1>1. job \in [Job -> JobRecord] /\ job[j] \in JobRecord /\ Shaped(job[j])
  BY DEF TypeInv, TypeOK
<1>2. Others(j)
  BY <1>1 DEF ReadToDestroyCaller, Become, Others
<1>3. KeepsLists(job'[j], job[j])
  BY <1>1 DEF ReadToDestroyCaller, Become, JobRecord, KeepsLists, BeforeList
<1>4. UNCHANGED <<actors, join>>
  BY DEF ReadToDestroyCaller, storage, history
<1>5. NoBroadcast
  BY <1>1 DEF ReadToDestroyCaller, NoBroadcast, Message
<1> QED BY <1>2, <1>3, <1>4, <1>5 DEF ListFrame

LEMMA HdelCallerLists ==
  ASSUME TypeInv, NEW j \in Job, HdelCaller(j)
  PROVE  ListFrame(j)
<1>1. job \in [Job -> JobRecord] /\ job[j] \in JobRecord /\ Shaped(job[j])
  BY DEF TypeInv, TypeOK
<1>2. Others(j)
  BY <1>1 DEF HdelCaller, Become, Others, Await
<1>3. KeepsLists(job'[j], job[j])
  BY <1>1 DEF HdelCaller, Become, JobRecord, KeepsLists, BeforeList, Await
<1>4. UNCHANGED <<actors, join>>
  BY DEF HdelCaller, storage, history, Await
<1>5. NoBroadcast
  BY <1>1 DEF HdelCaller, NoBroadcast, Message, Await
<1> QED BY <1>2, <1>3, <1>4, <1>5 DEF ListFrame

LEMMA ReadToDestroyInvocationLists ==
  ASSUME TypeInv, NEW j \in Job, ReadToDestroyInvocation(j)
  PROVE  ListFrame(j)
<1>1. job \in [Job -> JobRecord] /\ job[j] \in JobRecord /\ Shaped(job[j])
  BY DEF TypeInv, TypeOK
<1>2. Others(j)
  BY <1>1 DEF ReadToDestroyInvocation, Become, Others, Await
<1>3. KeepsLists(job'[j], job[j])
  BY <1>1 DEF ReadToDestroyInvocation, Become, JobRecord, KeepsLists, BeforeList, Await
<1>4. UNCHANGED <<actors, join>>
  BY DEF ReadToDestroyInvocation, storage, history, Await
<1>5. NoBroadcast
  BY <1>1 DEF ReadToDestroyInvocation, NoBroadcast, Message, Await
<1> QED BY <1>2, <1>3, <1>4, <1>5 DEF ListFrame

LEMMA JoinCallerLists ==
  ASSUME TypeInv, NEW j \in Job, JoinCaller(j)
  PROVE  ListFrame(j)
<1>1. job \in [Job -> JobRecord] /\ job[j] \in JobRecord /\ Shaped(job[j])
  BY DEF TypeInv, TypeOK
<1>2. Others(j)
  BY <1>1 DEF JoinCaller, Become, Others, SavingCaller, At
<1>3. KeepsLists(job'[j], job[j])
  BY <1>1 DEF JoinCaller, Become, JobRecord, KeepsLists, BeforeList, SavingCaller, At
<1>4. UNCHANGED <<actors, join>>
  BY DEF JoinCaller, storage, history, SavingCaller, At
<1>5. NoBroadcast
  BY <1>1 DEF JoinCaller, NoBroadcast, Message, SavingCaller, At
<1> QED BY <1>2, <1>3, <1>4, <1>5 DEF ListFrame

LEMMA LeaveCallerLists ==
  ASSUME TypeInv, NEW j \in Job, LeaveCaller(j)
  PROVE  ListFrame(j)
<1>1. job \in [Job -> JobRecord] /\ job[j] \in JobRecord /\ Shaped(job[j])
  BY DEF TypeInv, TypeOK
<1>2. Others(j)
  BY <1>1 DEF LeaveCaller, Become, Others, SavingCaller, At
<1>3. KeepsLists(job'[j], job[j])
  <2>1. \/ job'[j] = Idle
        \/ \E c : job'[j] \in {[job[j] EXCEPT !.caller = c, !.pc = "destroyCaller"],
                                   [job[j] EXCEPT !.caller = c, !.pc = "hsetCaller"]}
    BY <1>1 DEF LeaveCaller, Become, SavingCaller
  <2> QED BY <1>1, <2>1, ZenonT(60) DEF KeepsLists, JobRecord, BeforeList
<1>4. UNCHANGED <<actors, join>>
  BY DEF LeaveCaller, storage, history, SavingCaller, At
<1>5. NoBroadcast
  BY <1>1 DEF LeaveCaller, NoBroadcast, Message, SavingCaller, At
<1> QED BY <1>2, <1>3, <1>4, <1>5 DEF ListFrame

LEMMA PerformCallerLists ==
  ASSUME TypeInv, NEW j \in Job, PerformCaller(j)
  PROVE  ListFrame(j)
<1>1. job \in [Job -> JobRecord] /\ job[j] \in JobRecord /\ Shaped(job[j])
  BY DEF TypeInv, TypeOK
<1>2. Others(j)
  BY <1>1 DEF PerformCaller, Become, Others, At
<1>3. KeepsLists(job'[j], job[j])
  <2>1. \/ job'[j] = Idle
        \/ \E c : job'[j] = [job[j] EXCEPT !.caller = c, !.pc = "hsetInvocation"]
    BY <1>1 DEF PerformCaller, Become
  <2> QED BY <1>1, <2>1 DEF KeepsLists, JobRecord, BeforeList
<1>4. UNCHANGED <<actors, join>>
  BY DEF PerformCaller, storage, history, At
<1>5. NoBroadcast
  BY <1>1 DEF PerformCaller, NoBroadcast, Message, At
<1> QED BY <1>2, <1>3, <1>4, <1>5 DEF ListFrame

LEMMA CallerDisconnectFindLists ==
  ASSUME TypeInv, NEW j \in Job, CallerDisconnectFind(j)
  PROVE  ListFrame(j)
<1>1. job \in [Job -> JobRecord] /\ job[j] \in JobRecord /\ Shaped(job[j])
  BY DEF TypeInv, TypeOK
<1>2. Others(j)
  BY <1>1 DEF CallerDisconnectFind, Become, Others, Visiting, Await, At
<1>3. KeepsLists(job'[j], job[j])
  <2>1. \/ job'[j] = Idle
        \/ \E c, l : job'[j] = Visiting([job[j] EXCEPT !.caller = c, !.actorsLeft = l])
    BY <1>1 DEF CallerDisconnectFind, Become
  <2>2. job[j].ev \in CallerEvent
    BY DEF CallerDisconnectFind, At, CallerEvent
  <2> QED BY <1>1, <2>1, <2>2 DEF KeepsLists, JobRecord, Visiting, Await
<1>4. UNCHANGED <<actors, join>>
  BY DEF CallerDisconnectFind, storage, history, Visiting, Await, At
<1>5. NoBroadcast
  BY <1>1 DEF CallerDisconnectFind, NoBroadcast, Message, Visiting, Await, At
<1> QED BY <1>2, <1>3, <1>4, <1>5 DEF ListFrame

LEMMA HiSavedLists ==
  ASSUME TypeInv, NEW j \in Job, HiSaved(j)
  PROVE  ListFrame(j)
<1>1. job \in [Job -> JobRecord] /\ job[j] \in JobRecord /\ Shaped(job[j])
  BY DEF TypeInv, TypeOK
<1>2. Others(j)
  BY <1>1 DEF HiSaved, Become, Others, ActorSaved
<1>3. KeepsLists(job'[j], job[j])
  BY <1>1 DEF HiSaved, Become, JobRecord, KeepsLists, BeforeList, ActorSaved
<1>4. UNCHANGED <<actors, join>>
  BY DEF HiSaved, storage, history, ActorSaved
<1>5. NoBroadcast
  BY SavedActorIsNoCaller DEF HiSaved, NoBroadcast, Message, ActorSaved
<1> QED BY <1>2, <1>3, <1>4, <1>5 DEF ListFrame

LEMMA ByeSavedLists ==
  ASSUME TypeInv, NEW j \in Job, ByeSaved(j)
  PROVE  ListFrame(j)
<1>1. job \in [Job -> JobRecord] /\ job[j] \in JobRecord /\ Shaped(job[j])
  BY DEF TypeInv, TypeOK
<1>2. Others(j)
  BY <1>1 DEF ByeSaved, Become, Others, ActorSaved
<1>3. KeepsLists(job'[j], job[j])
  BY <1>1 DEF ByeSaved, Become, JobRecord, KeepsLists, BeforeList, ActorSaved
<1>4. UNCHANGED <<actors, join>>
  BY DEF ByeSaved, storage, history, ActorSaved
<1>5. NoBroadcast
  BY <1>1 DEF ByeSaved, NoBroadcast, Message, ActorSaved
<1> QED BY <1>2, <1>3, <1>4, <1>5 DEF ListFrame

LEMMA JoinSavedLists ==
  ASSUME TypeInv, NEW j \in Job, JoinSaved(j)
  PROVE  ListFrame(j)
<1>1. job \in [Job -> JobRecord] /\ job[j] \in JobRecord /\ Shaped(job[j])
  BY DEF TypeInv, TypeOK
<1>2. Others(j)
  BY <1>1 DEF JoinSaved, Become, Others, ActorSaved
<1>3. KeepsLists(job'[j], job[j])
  BY <1>1 DEF JoinSaved, Become, JobRecord, KeepsLists, BeforeList, ActorSaved
<1>4. UNCHANGED <<actors, join>>
  BY DEF JoinSaved, storage, history, ActorSaved
<1>5. NoBroadcast
  BY SavedActorIsNoCaller DEF JoinSaved, NoBroadcast, Message, ActorSaved
<1> QED BY <1>2, <1>3, <1>4, <1>5 DEF ListFrame

LEMMA LeaveSavedLists ==
  ASSUME TypeInv, NEW j \in Job, LeaveSaved(j)
  PROVE  ListFrame(j)
<1>1. job \in [Job -> JobRecord] /\ job[j] \in JobRecord /\ Shaped(job[j])
  BY DEF TypeInv, TypeOK
<1>2. Others(j)
  BY <1>1 DEF LeaveSaved, Become, Others, ActorSaved
<1>3. KeepsLists(job'[j], job[j])
  BY <1>1 DEF LeaveSaved, Become, JobRecord, KeepsLists, BeforeList, ActorSaved
<1>4. UNCHANGED <<actors, join>>
  BY DEF LeaveSaved, storage, history, ActorSaved
<1>5. NoBroadcast
  BY SavedActorIsNoCaller DEF LeaveSaved, NoBroadcast, Message, ActorSaved
<1> QED BY <1>2, <1>3, <1>4, <1>5 DEF ListFrame

LEMMA PerformSavedLists ==
  ASSUME TypeInv, NEW j \in Job, PerformSaved(j)
  PROVE  ListFrame(j)
<1>1. job \in [Job -> JobRecord] /\ job[j] \in JobRecord /\ Shaped(job[j])
  BY DEF TypeInv, TypeOK
<1>2. Others(j)
  BY <1>1 DEF PerformSaved, Become, Others, Await
<1>3. KeepsLists(job'[j], job[j])
  BY <1>1 DEF PerformSaved, Become, JobRecord, KeepsLists, BeforeList, Await
<1>4. UNCHANGED <<actors, join>>
  BY DEF PerformSaved, storage, history
<1>5. NoBroadcast
  BY <1>1 DEF PerformSaved, NoBroadcast, Message
<1> QED BY <1>2, <1>3, <1>4, <1>5 DEF ListFrame

LEMMA PerformSentLists ==
  ASSUME TypeInv, NEW j \in Job, PerformSent(j)
  PROVE  ListFrame(j)
<1>1. job \in [Job -> JobRecord] /\ job[j] \in JobRecord /\ Shaped(job[j])
  BY DEF TypeInv, TypeOK
<1>2. Others(j)
  BY <1>1 DEF PerformSent, Become, Others
<1>3. KeepsLists(job'[j], job[j])
  BY <1>1 DEF PerformSent, Become, JobRecord, KeepsLists, BeforeList
<1>4. UNCHANGED <<actors, join>>
  BY DEF PerformSent, storage, history
<1>5. NoBroadcast
  BY SavedActorIsNoCaller DEF PerformSent, NoBroadcast, Message
<1> QED BY <1>2, <1>3, <1>4, <1>5 DEF ListFrame

LEMMA CallerPipeFindLists ==
  ASSUME TypeInv, NEW j \in Job, CallerPipeFind(j)
  PROVE  ListFrame(j)
<1>1. job \in [Job -> JobRecord] /\ job[j] \in JobRecord /\ Shaped(job[j])
  BY DEF TypeInv, TypeOK
<1>2. Others(j)
  BY <1>1 DEF CallerPipeFind, Become, Others, At
<1>3. KeepsLists(job'[j], job[j])
  BY <1>1 DEF CallerPipeFind, Become, JobRecord, KeepsLists, BeforeList, At
<1>4. UNCHANGED <<actors, join>>
  BY DEF CallerPipeFind, storage, history, At
<1>5. NoBroadcast
  <2>1. job[j].key \in ActorKey
    BY <1>1 DEF CallerPipeFind, At, JobRecord, Shaped, ArgumentShape
  <2>2. actors[job[j].key] # None => actors[job[j].key] \in Actor
    BY <2>1 DEF TypeInv, TypeOK, StorageOK
  <2> QED BY <2>2, ActorIsNoCaller DEF CallerPipeFind, NoBroadcast, Message
<1> QED BY <1>2, <1>3, <1>4, <1>5 DEF ListFrame

LEMMA ResultFindLists ==
  ASSUME TypeInv, NEW j \in Job, ResultFind(j)
  PROVE  ListFrame(j)
<1>1. job \in [Job -> JobRecord] /\ job[j] \in JobRecord /\ Shaped(job[j])
  BY DEF TypeInv, TypeOK
<1>2. Others(j)
  BY <1>1 DEF ResultFind, Become, Others, At
<1>3. KeepsLists(job'[j], job[j])
  BY <1>1 DEF ResultFind, Become, JobRecord, KeepsLists, BeforeList, At
<1>4. UNCHANGED <<actors, join>>
  BY DEF ResultFind, storage, history, At
<1>5. NoBroadcast
  <2>1. job[j].sock \notin CallerSocket
    BY <1>1, SocketsDiffer DEF ResultFind, At, Shaped, SocketShape, ActorEvent
  <2> QED BY <2>1 DEF ResultFind, NoBroadcast, Message
<1> QED BY <1>2, <1>3, <1>4, <1>5 DEF ListFrame

LEMMA ResultFinishedLists ==
  ASSUME TypeInv, NEW j \in Job, ResultFinished(j)
  PROVE  ListFrame(j)
<1>1. job \in [Job -> JobRecord] /\ job[j] \in JobRecord /\ Shaped(job[j])
  BY DEF TypeInv, TypeOK
<1>2. Others(j)
  BY <1>1 DEF ResultFinished, Become, Others, Await
<1>3. KeepsLists(job'[j], job[j])
  BY <1>1 DEF ResultFinished, Become, JobRecord, KeepsLists, BeforeList, Await
<1>4. UNCHANGED <<actors, join>>
  BY DEF ResultFinished, storage, history
<1>5. NoBroadcast
  BY <1>1 DEF ResultFinished, NoBroadcast, Message
<1> QED BY <1>2, <1>3, <1>4, <1>5 DEF ListFrame

LEMMA ResultRepliedLists ==
  ASSUME TypeInv, NEW j \in Job, ResultReplied(j)
  PROVE  ListFrame(j)
<1>1. job \in [Job -> JobRecord] /\ job[j] \in JobRecord /\ Shaped(job[j])
  BY DEF TypeInv, TypeOK
<1>2. Others(j)
  BY <1>1 DEF ResultReplied, Become, Others, At
<1>3. KeepsLists(job'[j], job[j])
  BY <1>1 DEF ResultReplied, Become, JobRecord, KeepsLists, BeforeList, At
<1>4. UNCHANGED <<actors, join>>
  BY DEF ResultReplied, storage, history
<1>5. NoBroadcast
  BY <1>1 DEF ResultReplied, NoBroadcast, Message, ResultTo, Reply
<1> QED BY <1>2, <1>3, <1>4, <1>5 DEF ListFrame

LEMMA SweepFinishedLists ==
  ASSUME TypeInv, NEW j \in Job, SweepFinished(j)
  PROVE  ListFrame(j)
<1>1. job \in [Job -> JobRecord] /\ job[j] \in JobRecord /\ Shaped(job[j])
  BY DEF TypeInv, TypeOK
<1>2. Others(j)
  BY <1>1 DEF SweepFinished, Become, Others, Await
<1>3. KeepsLists(job'[j], job[j])
  BY <1>1 DEF SweepFinished, Become, JobRecord, KeepsLists, BeforeList, Await
<1>4. UNCHANGED <<actors, join>>
  BY DEF SweepFinished, storage, history
<1>5. NoBroadcast
  BY <1>1 DEF SweepFinished, NoBroadcast, Message
<1> QED BY <1>2, <1>3, <1>4, <1>5 DEF ListFrame

LEMMA ActorDisconnectedLists ==
  ASSUME TypeInv, NEW j \in Job, ActorDisconnected(j)
  PROVE  ListFrame(j)
<1>1. job \in [Job -> JobRecord] /\ job[j] \in JobRecord /\ Shaped(job[j])
  BY DEF TypeInv, TypeOK
<1>2. Others(j)
  BY <1>1 DEF ActorDisconnected, Become, Others
<1>3. KeepsLists(job'[j], job[j])
  BY <1>1 DEF ActorDisconnected, Become, JobRecord, KeepsLists, BeforeList
<1>4. UNCHANGED <<actors, join>>
  BY DEF ActorDisconnected, storage, history
<1>5. NoBroadcast
  BY <1>1 DEF ActorDisconnected, NoBroadcast, Message
<1> QED BY <1>2, <1>3, <1>4, <1>5 DEF ListFrame

LEMMA CallerDisconnectedLists ==
  ASSUME TypeInv, NEW j \in Job, CallerDisconnected(j)
  PROVE  ListFrame(j)
<1>1. job \in [Job -> JobRecord] /\ job[j] \in JobRecord /\ Shaped(job[j])
  BY DEF TypeInv, TypeOK
<1>2. Others(j)
  BY <1>1 DEF CallerDisconnected, Become, Others
<1>3. KeepsLists(job'[j], job[j])
  BY <1>1 DEF CallerDisconnected, Become, JobRecord, KeepsLists, BeforeList
<1>4. UNCHANGED <<actors, join>>
  BY DEF CallerDisconnected, storage, history
<1>5. NoBroadcast
  BY <1>1 DEF CallerDisconnected, NoBroadcast, Message
<1> QED BY <1>2, <1>3, <1>4, <1>5 DEF ListFrame

LEMMA VisitSavedLists ==
  ASSUME TypeInv, NEW j \in Job, VisitSaved(j)
  PROVE  ListFrame(j)
<1>1. job \in [Job -> JobRecord] /\ job[j] \in JobRecord /\ Shaped(job[j])
  BY DEF TypeInv, TypeOK
<1>2. Others(j)
  BY <1>1 DEF VisitSaved, Become, Others, ActorSaved, NextActor, Visiting, Await
<1>3. KeepsLists(job'[j], job[j])
  BY <1>1 DEF VisitSaved, Become, JobRecord, KeepsLists, BeforeList, ActorSaved, NextActor, Visiting, Await
<1>4. UNCHANGED <<actors, join>>
  BY DEF VisitSaved, storage, history, ActorSaved, NextActor, Visiting, Await
<1>5. NoBroadcast
  BY SavedActorIsNoCaller DEF VisitSaved, NoBroadcast, Message, ActorSaved
<1> QED BY <1>2, <1>3, <1>4, <1>5 DEF ListFrame

LEMMA CallerListLists ==
  ASSUME TypeInv, NEW j \in Job, CallerList(j)
  PROVE  ListFrame(j)
<1>1. job \in [Job -> JobRecord] /\ job[j] \in JobRecord /\ Shaped(job[j])
  BY DEF TypeInv, TypeOK
<1>2. Others(j)
  BY <1>1 DEF CallerList, Become, Others, ListInvocations, Leaving, Await
<1>3. KeepsLists(job'[j], job[j])
  BY <1>1 DEF CallerList, Become, JobRecord, KeepsLists, BeforeList, ListInvocations, Leaving, Await
<1>4. UNCHANGED <<actors, join>>
  BY DEF CallerList, storage, history, ListInvocations, Leaving, Await
<1>5. NoBroadcast
  BY <1>1 DEF CallerList, NoBroadcast, Message, ListInvocations, Leaving, Await
<1> QED BY <1>2, <1>3, <1>4, <1>5 DEF ListFrame

LEMMA CallerScanLists ==
  ASSUME TypeInv, NEW j \in Job, CallerScan(j)
  PROVE  ListFrame(j)
<1>1. job \in [Job -> JobRecord] /\ job[j] \in JobRecord /\ Shaped(job[j])
  BY DEF TypeInv, TypeOK
<1>2. Others(j)
  BY <1>1 DEF CallerScan, Become, Others, ScanInvocation, Leaving, FinishNext, Await
<1>3. KeepsLists(job'[j], job[j])
  BY <1>1 DEF CallerScan, Become, JobRecord, KeepsLists, BeforeList, ScanInvocation, Leaving, FinishNext, Await
<1>4. UNCHANGED <<actors, join>>
  BY DEF CallerScan, storage, history, ScanInvocation, Leaving, FinishNext, Await
<1>5. NoBroadcast
  BY <1>1 DEF CallerScan, NoBroadcast, Message, ScanInvocation, Leaving, FinishNext, Await
<1> QED BY <1>2, <1>3, <1>4, <1>5 DEF ListFrame

LEMMA CallerFinishedLists ==
  ASSUME TypeInv, NEW j \in Job, CallerFinished(j)
  PROVE  ListFrame(j)
<1>1. job \in [Job -> JobRecord] /\ job[j] \in JobRecord /\ Shaped(job[j])
  BY DEF TypeInv, TypeOK
<1>2. Others(j)
  BY <1>1 DEF CallerFinished, Become, Others, Leaving, FinishNext, Await
<1>3. KeepsLists(job'[j], job[j])
  BY <1>1 DEF CallerFinished, Become, JobRecord, KeepsLists, BeforeList, Leaving, FinishNext, Await
<1>4. UNCHANGED <<actors, join>>
  BY DEF CallerFinished, storage, history, Leaving, FinishNext, Await
<1>5. NoBroadcast
  BY <1>1 DEF CallerFinished, NoBroadcast, Message, Leaving, FinishNext, Await
<1> QED BY <1>2, <1>3, <1>4, <1>5 DEF ListFrame

-----------------------------------------------------------------------------
(* Steps that read, change or write an actor *)

LEMMA NoListBefore ==
  ASSUME Listed, NEW j \in Job,
         job[j].pc \in BeforeList \/ job[j].ev \in CallerEvent
  PROVE  job[j].callersLeft = <<>>
BY EventsDiffer DEF Listed, Lists, BeforeList

\* The handler takes up the actor a, of the key its request names, to save it.
LEMMA SavingLists ==
  ASSUME NEW r \in JobRecord, Lists(r), r.callersLeft = <<>>, NEW a, Invites(a),
         r.ev = "JOIN" => a.key = r.key
  PROVE  Lists(SavingActor(r, a))
<1>1. /\ SavingActor(r, a).ev = r.ev /\ SavingActor(r, a).sock = r.sock
      /\ SavingActor(r, a).uuid = r.uuid /\ SavingActor(r, a).key = r.key
      /\ SavingActor(r, a).actor = a /\ SavingActor(r, a).callersLeft = <<>>
  BY DEF SavingActor, JobRecord
<1> QED BY <1>1 DEF Lists

LEMMA HiFindListed ==
  ASSUME Listed, Owned', NEW j \in Job, HiFind(j)
  PROVE  Listed'
<1>1. /\ job[j] \in JobRecord /\ Shaped(job[j]) /\ Lists(job[j])
      /\ job[j].ev = "HI" /\ job[j].pc = "actor" /\ job[j].key \in ActorKey
  BY DEF HiFind, At, Listed, Owned, TypeInv, TypeOK, JobRecord, Shaped, ArgumentShape
<1> DEFINE found == actors[job[j].key]
           actor == IF found = None THEN NewActor(job[j].key, job[j].sock)
                    ELSE [found EXCEPT !.socketId = job[j].sock]
<1>2. /\ Become(j, SavingActor(job[j], actor)) /\ UNCHANGED <<actors, join>>
      /\ NoBroadcast
  BY DEF HiFind, storage, history, NoBroadcast
<1>3. Invites(actor)
  <2>1. CASE found = None
    BY <2>1 DEF NewActor, Invites
  <2>2. CASE found # None
    <3>1. found \in Actor /\ Invites(found)
      BY <1>1, <2>2, StoredActorInvites
    <3>2. actor.callers = found.callers /\ actor.key = found.key
      BY <2>2, <3>1 DEF Actor
    <3> QED BY <3>1, <3>2 DEF Invites
  <2> QED BY <2>1, <2>2
<1> HIDE DEF actor
<1>4. Lists(SavingActor(job[j], actor))
  BY <1>1, <1>3, NoListBefore, SavingLists DEF BeforeList
<1> QED BY <1>2, <1>4, BecomesListed

LEMMA UpdateFindListed ==
  ASSUME Listed, Owned', NEW j \in Job, UpdateFind(j)
  PROVE  Listed'
<1>1. /\ job[j] \in JobRecord /\ Shaped(job[j]) /\ Lists(job[j])
      /\ job[j].ev # "JOIN" /\ job[j].ev \in ActorEvent /\ job[j].pc = "actor"
      /\ job[j].key \in ActorKey
  BY DEF UpdateFind, Listed, Owned, TypeInv, TypeOK, JobRecord, Shaped, ArgumentShape,
         ActorEvent
<1> DEFINE found == actors[job[j].key]
           updated == [found EXCEPT !.specs = SpecsAfter(job[j], found)]
<1>2. UNCHANGED <<actors, join>> /\ NoBroadcast
  BY DEF UpdateFind, storage, history, NoBroadcast
<1>3. CASE Become(j, Idle)
  BY <1>2, <1>3, IdleLists, BecomesListed
<1>4. CASE found # None /\ Become(j, SavingActor(job[j], updated))
  <2>1. found \in Actor /\ Invites(found)
    BY <1>1, <1>4, StoredActorInvites
  <2>2. updated.callers = found.callers /\ updated.key = found.key
    BY <2>1 DEF Actor
  <2> HIDE DEF updated
  <2>3. Invites(updated)
    BY <2>1, <2>2 DEF Invites
  <2>4. Lists(SavingActor(job[j], updated))
    BY <1>1, <2>3, NoListBefore, SavingLists DEF BeforeList
  <2> QED BY <1>2, <1>4, <2>4, BecomesListed
<1> QED BY <1>3, <1>4 DEF UpdateFind

\* JOIN, LEAVE and PERFORM hold the actor their request names.
LEMMA RequestFindListed ==
  ASSUME Listed, Owned', NEW j \in Job, RequestFind(j)
  PROVE  Listed'
<1>1. /\ job[j] \in JobRecord /\ Shaped(job[j]) /\ Lists(job[j])
      /\ job[j].ev \in CallerEvent /\ job[j].pc = "actor" /\ job[j].key \in ActorKey
  BY DEF RequestFind, Listed, Owned, TypeInv, TypeOK, JobRecord, Shaped, ArgumentShape,
         CallerEvent
<1> DEFINE found == actors[job[j].key]
           r == [job[j] EXCEPT !.actor = found, !.pc = "callerIdx"]
<1>2. UNCHANGED <<actors, join>> /\ NoBroadcast
  BY DEF RequestFind, storage, history, NoBroadcast
<1>3. CASE Become(j, Idle)
  BY <1>2, <1>3, IdleLists, BecomesListed
<1>4. CASE found # None /\ Become(j, r)
  <2>1. found.key = job[j].key /\ Invites(found)
    BY <1>1, <1>4, StoredActorInvites
  <2>2. /\ r.ev = job[j].ev /\ r.sock = job[j].sock /\ r.uuid = job[j].uuid
        /\ r.key = job[j].key /\ r.actor = found /\ r.callersLeft = job[j].callersLeft
    BY <1>1 DEF JobRecord
  <2>3. job[j].callersLeft = <<>>
    BY <1>1, NoListBefore
  <2> HIDE DEF r, found
  <2>4. Lists(r)
    BY <1>1, <2>1, <2>2, <2>3 DEF Lists
  <2> QED BY <1>2, <1>4, <2>4, BecomesListed
<1> QED BY <1>3, <1>4 DEF RequestFind

LEMMA ReadToDestroyActorListed ==
  ASSUME Listed, Owned', NEW j \in Job, ReadToDestroyActor(j)
  PROVE  Listed'
<1>1. /\ job[j] \in JobRecord /\ Shaped(job[j]) /\ Lists(job[j])
      /\ job[j].actor # None /\ job[j].pc = "destroyActor"
  BY DEF ReadToDestroyActor, Listed, Owned, TypeInv, TypeOK, Shaped, ActorShape
<1> DEFINE found == actors[job[j].actor.key]
           r == [job[j] EXCEPT !.actor = found, !.pc = "hdelActor"]
<1>2. /\ UNCHANGED <<actors, join>> /\ NoBroadcast
      /\ Become(j, r) /\ found # None
  BY DEF ReadToDestroyActor, storage, history, NoBroadcast
<1>3. found.key = job[j].actor.key /\ Invites(found)
  BY <1>1, <1>2, HeldActorInvites, StoredActorInvites
<1>4. /\ r.ev = job[j].ev /\ r.sock = job[j].sock /\ r.uuid = job[j].uuid
      /\ r.key = job[j].key /\ r.actor = found /\ r.callersLeft = job[j].callersLeft
      /\ r.pc = "hdelActor"
  BY <1>1 DEF JobRecord
<1> HIDE DEF r, found
<1>5. Lists(r)
  BY <1>1, <1>2, <1>3, <1>4 DEF Lists
<1> QED BY <1>2, <1>5, BecomesListed

\* Job j writes the actor it holds, or deletes it.
LEMMA WriteListed ==
  ASSUME Listed, Owned', NEW j \in Job, NEW pc, job[j].actor # None,
         pc = "hsetActorIdx" => job[j].pc = "hsetActor",
         pc \notin {"actorIdx", "actor", "hsetActor"},
         Become(j, Await(job[j], pc)), UNCHANGED join, out' = {},
         NEW a \in {job[j].actor, None},
         actors' = [actors EXCEPT ![job[j].actor.key] = a]
  PROVE  Listed'
<1>1. /\ job \in [Job -> JobRecord] /\ job[j] \in JobRecord /\ Lists(job[j])
      /\ actors \in [ActorKey -> Actor \cup {None}] /\ TypeInv
  BY DEF Listed, Owned, TypeInv, TypeOK, StorageOK
<1>2. JoinGrows /\ NoBroadcast
  BY DEF JoinGrows, NoBroadcast
<1>3. job[j].actor.key \in ActorKey /\ Invites(job[j].actor)
  BY HeldActorInvites
<1>4. ASSUME NEW k \in ActorKey, actors'[k] # None
      PROVE  actors'[k].key = k /\ Invites(actors'[k])
  BY <1>1, <1>3, <1>4 DEF Listed, ActorsInvite
<1>5. ActorsInvite'
  <2>1. \A x : Invitees(x)' = Invitees(x)
    BY DEF Invitees
  <2> QED BY <1>4, <2>1 DEF ActorsInvite, Invites
<1>6. Others(j) /\ job'[j] = Await(job[j], pc)
  BY <1>1 DEF Become, Others
<1>7. Lists(Await(job[j], pc))
  BY <1>1 DEF Await, JobRecord, Lists
<1>8. Lists(job[j])'
  BY <1>6, <1>7 DEF Lists, Invites, Invitees
<1> QED BY <1>2, <1>5, <1>6, <1>8, ListedStep

LEMMA HsetActorListed ==
  ASSUME Listed, Owned', NEW j \in Job, HsetActor(j)
  PROVE  Listed'
<1>1. job[j].actor # None
  BY DEF HsetActor, Listed, Owned, TypeInv, Shaped, ActorShape
<1> QED BY <1>1, WriteListed DEF HsetActor, history

LEMMA HdelActorListed ==
  ASSUME Listed, Owned', NEW j \in Job, HdelActor(j)
  PROVE  Listed'
<1>1. job[j].actor # None
  BY DEF HdelActor, Listed, Owned, TypeInv, Shaped, ActorShape
<1> QED BY <1>1, WriteListed DEF HdelActor, history

\* addCaller of JOIN: the caller's socket asked for this very actor.
LEMMA JoinCallerSavedListed ==
  ASSUME Listed, Owned', NEW j \in Job, JoinCallerSaved(j)
  PROVE  Listed'
<1>1. /\ job[j] \in JobRecord /\ Shaped(job[j]) /\ Lists(job[j])
      /\ job[j].ev = "JOIN" /\ job[j].ev \in CallerEvent
      /\ job[j].actor # None /\ job[j].caller # None
  BY DEF JoinCallerSaved, CallerSaved, Listed, Owned, TypeInv, TypeOK, Shaped, ActorShape,
         CallerShape, CallerEvent
<1> DEFINE added == AddCaller(job[j].actor, job[j].caller)
           k == job[j].actor.key
<1>2. /\ UNCHANGED <<actors, join>> /\ NoBroadcast
      /\ Become(j, SavingActor(job[j], added))
  BY DEF JoinCallerSaved, history, NoBroadcast
<1>3. /\ job[j].actor \in Actor /\ k \in ActorKey /\ Invites(job[j].actor) /\ k = job[j].key
  BY <1>1, HeldActorInvites DEF Lists
<1>4. /\ job[j].caller \in Caller /\ job[j].caller.key \in CallerKey
      /\ Of(job[j].caller.key, job[j].sock)
  BY <1>1, HeldCallerOwned DEF Listed
<1>5. job[j].uuid \in CallerKey /\ join[job[j].uuid] = [socket |-> job[j].sock, key |-> k]
  BY <1>1, <1>3 DEF Lists, JobRecord, Shaped, ArgumentShape
<1>6. job[j].caller.key \in Invitees(k)
  BY <1>4, <1>5 DEF Of, Invitees
<1>7. added.key = k /\ added.callers = Append(job[j].actor.callers, job[j].caller.key)
  BY <1>3 DEF AddCaller, Actor
<1>8. Invites(added)
  BY <1>3, <1>6, <1>7, AppendProperties DEF Invites
<1> HIDE DEF added
<1>9. Lists(SavingActor(job[j], added))
  BY <1>1, <1>3, <1>7, <1>8, NoListBefore, SavingLists
<1> QED BY <1>2, <1>9, BecomesListed

LEMMA RemovedInvites ==
  ASSUME NEW a \in Actor, NEW c, Invites(a)
  PROVE  Invites(RemoveCaller(a, c)) /\ RemoveCaller(a, c).key = a.key
<1>1. /\ RemoveCaller(a, c).key = a.key
      /\ RemoveCaller(a, c).callers = Spliced(a.callers, c.key)
  BY DEF RemoveCaller, Actor
<1> QED BY <1>1, SplicedType DEF Invites

LEMMA LeaveActorInvited ==
  ASSUME Listed, Owned', NEW j \in Job, LeaveActor(j)
  PROVE  Listed'
<1>1. /\ job[j] \in JobRecord /\ Shaped(job[j]) /\ Lists(job[j])
      /\ job[j].ev = "LEAVE" /\ job[j].ev \in CallerEvent /\ job[j].actor # None
  <2>1. job[j] \in JobRecord /\ Shaped(job[j]) /\ Lists(job[j])
    BY DEF Listed, Owned, TypeInv, TypeOK
  <2>2. job[j].ev = "LEAVE"
    BY DEF LeaveActor
  <2>3. job[j].pc # "actor"
    <3>1. CallerSaved(j) \/ CallerDestroyed(j)
      BY DEF LeaveActor
    <3> QED BY <3>1 DEF CallerSaved, CallerDestroyed
  <2>4. job[j].ev \in CallerEvent
    BY <2>2 DEF CallerEvent
  <2> QED BY <2>1, <2>2, <2>3, <2>4 DEF Shaped, ActorShape
<1> DEFINE removed == RemoveCaller(job[j].actor, job[j].caller)
<1>2. /\ UNCHANGED <<actors, join>> /\ NoBroadcast
      /\ Become(j, SavingActor(job[j], removed))
  BY DEF LeaveActor, history, NoBroadcast
<1>3. Invites(removed)
  BY <1>1, HeldActorInvites, RemovedInvites
<1> HIDE DEF removed
<1>4. Lists(SavingActor(job[j], removed))
  BY <1>1, <1>3, NoListBefore, SavingLists
<1> QED BY <1>2, <1>4, BecomesListed

LEMMA VisitActorListed ==
  ASSUME Listed, Owned', NEW j \in Job, VisitActor(j)
  PROVE  Listed'
<1>1. /\ job[j] \in JobRecord /\ Shaped(job[j]) /\ Lists(job[j])
      /\ job[j].ev = "CALLER_DISCONNECT" /\ job[j].ev \in CallerEvent
      /\ job[j].actorsLeft # <<>> /\ job[j].pc = "actor"
  BY DEF VisitActor, At, Listed, Owned, TypeInv, TypeOK, Shaped, LoopShape, CallerEvent
<1> DEFINE key == Head(job[j].actorsLeft)
           removed == RemoveCaller(actors[key], job[j].caller)
<1>2. UNCHANGED <<actors, join>> /\ NoBroadcast
  BY DEF VisitActor, storage, history, NoBroadcast
<1>3. key \in ActorKey
  BY <1>1, HeadTailProperties DEF JobRecord
<1>4. CASE Become(j, NextActor(job[j]))
  <2>1. Others(j) /\ job'[j] = NextActor(job[j])
    BY <1>4 DEF Become, Others, Listed, Owned, TypeInv, TypeOK
  <2>2. KeepsLists(job'[j], job[j])
    BY <1>1, <2>1 DEF NextActor, Visiting, Await, JobRecord, KeepsLists
  <2> QED BY <1>2, <2>1, <2>2, ListFrameListed DEF ListFrame
<1>5. CASE actors[key] # None /\ Become(j, SavingActor(job[j], removed))
  <2>1. Invites(removed)
    BY <1>3, <1>5, StoredActorInvites, RemovedInvites
  <2> HIDE DEF removed
  <2>2. Lists(SavingActor(job[j], removed))
    BY <1>1, <2>1, NoListBefore, SavingLists
  <2> QED BY <1>2, <1>5, <2>2, BecomesListed
<1> QED BY <1>4, <1>5 DEF VisitActor

-----------------------------------------------------------------------------
(* The loops over a list *)

\* A record that has a list of invited callers left goes on to cast or sweep.
Listing(r) ==
  /\ r \in JobRecord /\ r.ev \in ActorEvent
  /\ r.actor # None /\ Invites(r.actor)
  /\ r.callersLeft \in Seq(Invitees(r.actor.key))

LEMMA ListingLists ==
  ASSUME NEW r, Listing(r), r.pc \notin BeforeList
  PROVE  Lists(r)
BY DEF Listing, Lists, BeforeList, ActorEvent

LEMMA CastingLists ==
  ASSUME NEW r, Listing(r)
  PROVE  Lists(Casting(r))
<1>1. CASE Casting(r) = Idle
  BY <1>1, IdleLists
<1>2. CASE Casting(r) \in {Await(r, "cast"), Await(r, "destroyActor")}
  <2>1. ASSUME NEW pc \in {"cast", "destroyActor"} PROVE Lists(Await(r, pc))
    BY DEF Await, JobRecord, Listing, Lists, ActorEvent
  <2> QED BY <1>2, <2>1
<1> QED BY <1>1, <1>2 DEF Casting

LEMMA SweepingLists ==
  ASSUME NEW r, Listing(r)
  PROVE  Lists(Sweeping(r))
<1> DEFINE swept == [r EXCEPT !.pc = "sweep", !.ckey = None, !.pid = None, !.hits = <<>>]
           listed == [r EXCEPT !.callersLeft = r.actor.callers, !.ckey = None,
                               !.pid = None, !.hits = <<>>]
<1>1. Lists(swept)
  BY DEF Listing, Lists, JobRecord, ActorEvent
<1>2. Listing(listed)
  <2>1. listed \in JobRecord /\ r.actor.callers \in Seq(CallerKey)
    BY EmptySeq DEF Listing, JobRecord, Actor
  <2>2. /\ listed.ev = r.ev /\ listed.actor = r.actor
        /\ listed.callersLeft = r.actor.callers
    BY DEF Listing, JobRecord
  <2> QED BY <2>1, <2>2 DEF Listing, Invites
<1> HIDE DEF swept, listed
<1>3. Lists(Casting(listed))
  BY <1>2, CastingLists
<1>4. Sweeping(r) = IF r.callersLeft # <<>> THEN swept ELSE Casting(listed)
  BY DEF Sweeping, swept, listed
<1> QED BY <1>1, <1>3, <1>4

LEMMA TailListing ==
  ASSUME NEW r, Listing(r), r.callersLeft # <<>>
  PROVE  Listing([r EXCEPT !.callersLeft = Tail(@)])
<1>1. /\ Tail(r.callersLeft) \in Seq(Invitees(r.actor.key))
      /\ Tail(r.callersLeft) \in Seq(CallerKey)
  BY HeadTailProperties DEF Listing, JobRecord
<1> QED BY <1>1 DEF Listing, JobRecord

LEMMA NextCallerLists ==
  ASSUME NEW r, Listing(r), r.callersLeft # <<>>
  PROVE  Lists(NextCaller(r))
BY TailListing, SweepingLists DEF NextCaller

LEMMA LoopLists ==
  ASSUME Listed, NEW j \in Job, job[j].callersLeft # <<>>
  PROVE  Listing(job[j])
BY DEF Listed, Owned, TypeInv, TypeOK, Lists, Listing

LEMMA FoundLists ==
  ASSUME Listed, NEW j \in Job, job[j].key \in ActorKey, job[j].ev \in ActorEvent,
         actors[job[j].key] # None
  PROVE  LET found == actors[job[j].key]
         IN  Listing([job[j] EXCEPT !.actor = found, !.callersLeft = found.callers])
<1> DEFINE found == actors[job[j].key]
           r == [job[j] EXCEPT !.actor = found, !.callersLeft = found.callers]
<1>1. job[j] \in JobRecord /\ found \in Actor /\ Invites(found)
  BY StoredActorInvites DEF Listed, Owned, TypeInv, TypeOK
<1>2. found.callers \in Seq(CallerKey)
  BY <1>1 DEF Actor
<1>3. r \in JobRecord
  BY <1>1, <1>2 DEF JobRecord
<1>4. r.ev = job[j].ev /\ r.actor = found /\ r.callersLeft = found.callers
  BY <1>1 DEF JobRecord
<1>5. Listing(r)
  BY <1>1, <1>3, <1>4, NoneIsNothing DEF Listing, Invites
<1> QED BY <1>5

LEMMA ActorPipeFindListed ==
  ASSUME Listed, Owned', NEW j \in Job, ActorPipeFind(j)
  PROVE  Listed'
<1>1. /\ UNCHANGED <<actors, join>> /\ NoBroadcast
      /\ job[j].key \in ActorKey /\ job[j].ev \in ActorEvent
  BY DEF ActorPipeFind, At, storage, history, NoBroadcast, ActorEvent, Listed, Owned,
         TypeInv, TypeOK, JobRecord, Shaped, ArgumentShape
<1> DEFINE found == actors[job[j].key]
           r == [job[j] EXCEPT !.actor = found, !.callersLeft = found.callers]
<1>2. CASE Become(j, Idle)
  BY <1>1, <1>2, IdleLists, BecomesListed
<1>3. CASE found # None /\ Become(j, Casting(r))
  <2>1. Listing(r)
    BY <1>1, <1>3, FoundLists
  <2> HIDE DEF r
  <2> QED BY <1>1, <1>3, <2>1, CastingLists, BecomesListed
<1> QED BY <1>2, <1>3 DEF ActorPipeFind

LEMMA ActorDisconnectFindListed ==
  ASSUME Listed, Owned', NEW j \in Job, ActorDisconnectFind(j)
  PROVE  Listed'
<1>1. /\ UNCHANGED <<actors, join>> /\ NoBroadcast
      /\ job[j].key \in ActorKey /\ job[j].ev \in ActorEvent
  BY DEF ActorDisconnectFind, At, storage, history, NoBroadcast, ActorEvent, Listed, Owned,
         TypeInv, TypeOK, JobRecord, Shaped, ArgumentShape
<1> DEFINE found == actors[job[j].key]
           r == [job[j] EXCEPT !.actor = found, !.callersLeft = found.callers]
<1>2. CASE Become(j, Idle)
  BY <1>1, <1>2, IdleLists, BecomesListed
<1>3. CASE found # None /\ Become(j, Sweeping(r))
  <2>1. Listing(r)
    BY <1>1, <1>3, FoundLists
  <2> HIDE DEF r
  <2> QED BY <1>1, <1>3, <2>1, SweepingLists, BecomesListed
<1> QED BY <1>2, <1>3 DEF ActorDisconnectFind

LEMMA SpecSavedListed ==
  ASSUME Listed, Owned', NEW j \in Job, SpecSaved(j)
  PROVE  Listed'
<1> DEFINE r == [job[j] EXCEPT !.callersLeft = job[j].actor.callers]
<1>1. /\ UNCHANGED <<actors, join>> /\ NoBroadcast /\ Become(j, Casting(r))
      /\ job[j] \in JobRecord /\ job[j].ev \in ActorEvent /\ job[j].actor # None
  BY DEF SpecSaved, ActorSaved, history, NoBroadcast, ActorEvent, Listed, Owned, TypeInv,
         TypeOK, Shaped, ActorShape
<1>2. job[j].actor.callers \in Seq(CallerKey) /\ Invites(job[j].actor)
  BY <1>1, HeldActorInvites DEF Actor
<1>3. /\ r \in JobRecord /\ r.ev = job[j].ev /\ r.actor = job[j].actor
      /\ r.callersLeft = job[j].actor.callers
  BY <1>1, <1>2 DEF JobRecord
<1> HIDE DEF r
<1>4. Listing(r)
  BY <1>1, <1>2, <1>3 DEF Listing, Invites
<1> QED BY <1>1, <1>4, CastingLists, BecomesListed

LEMMA SweepCallerListed ==
  ASSUME Listed, Owned', NEW j \in Job, SweepCaller(j)
  PROVE  Listed'
<1> DEFINE r == [job[j] EXCEPT !.ckey = Head(job[j].callersLeft), !.pc = "hkeys"]
<1>1. /\ UNCHANGED <<actors, join>> /\ NoBroadcast
      /\ Become(j, NextCaller(job[j])) \/ Become(j, r)
      /\ job[j] \in JobRecord /\ Lists(job[j]) /\ job[j].callersLeft # <<>>
  BY DEF SweepCaller, At, storage, history, NoBroadcast, Listed, Owned, TypeInv, TypeOK,
         Shaped, LoopShape
<1>2. Lists(NextCaller(job[j]))
  BY <1>1, LoopLists, NextCallerLists
<1>3. Lists(r)
  BY <1>1 DEF Lists, JobRecord
<1> HIDE DEF r
<1> QED BY <1>1, <1>2, <1>3, BecomesListed

LEMMA FinishNextLists ==
  ASSUME NEW r \in JobRecord, Lists(r), NEW after, Lists(after)
  PROVE  Lists(FinishNext(r, after))
<1> DEFINE next == [r EXCEPT !.pid = Head(r.hits).pid, !.pc = "destroyInvocation"]
<1>1. Lists(next)
  BY DEF Lists, JobRecord
<1> HIDE DEF next
<1>2. FinishNext(r, after) = IF r.hits = <<>> THEN after ELSE next
  BY DEF FinishNext, next
<1> QED BY <1>1, <1>2

LEMMA SweepListListed ==
  ASSUME Listed, Owned', NEW j \in Job, SweepList(j)
  PROVE  Listed'
<1>1. /\ UNCHANGED <<actors, join>> /\ NoBroadcast
      /\ job[j] \in JobRecord /\ Lists(job[j]) /\ job[j].callersLeft # <<>>
  BY DEF SweepList, ListInvocations, storage, history, NoBroadcast, Listed, Owned, TypeInv,
         TypeOK, Shaped, LoopShape
<1>2. Lists(NextCaller(job[j]))
  BY <1>1, LoopLists, NextCallerLists
<1>3. PICK r \in {NextCaller(job[j])} \cup
                 {[job[j] EXCEPT !.scan = l, !.pc = "scan"] : l \in SUBSET Pid} : Become(j, r)
  BY DEF SweepList, ListInvocations
<1>4. ASSUME NEW l PROVE Lists([job[j] EXCEPT !.scan = l, !.pc = "scan"])
  BY <1>1 DEF Lists, JobRecord
<1>5. Lists(r)
  BY <1>2, <1>3, <1>4
<1> QED BY <1>1, <1>3, <1>5, BecomesListed

LEMMA SweepScanListed ==
  ASSUME Listed, Owned', NEW j \in Job, SweepScan(j)
  PROVE  Listed'
<1>1. /\ UNCHANGED <<actors, join>> /\ NoBroadcast /\ TypeInv
      /\ job[j] \in JobRecord /\ Lists(job[j]) /\ job[j].callersLeft # <<>>
  BY DEF SweepScan, ScanInvocation, storage, history, NoBroadcast, Listed, Owned, TypeInv,
         TypeOK, Shaped, LoopShape
<1>2. Lists(NextCaller(job[j]))
  BY <1>1, LoopLists, NextCallerLists
<1>3. PICK p \in job[j].scan :
        LET hit == invocations[p] # None /\ invocations[p].caller = job[j].ckey
            r == [job[j] EXCEPT !.scan = @ \ {p},
                                !.hits = IF hit THEN Append(@, invocations[p]) ELSE @]
        IN Become(j, IF r.scan = {} THEN FinishNext(r, NextCaller(job[j])) ELSE r)
  BY DEF SweepScan, ScanInvocation
<1> DEFINE hit == invocations[p] # None /\ invocations[p].caller = job[j].ckey
           hits == IF hit THEN Append(job[j].hits, invocations[p]) ELSE job[j].hits
           r == [job[j] EXCEPT !.scan = @ \ {p}, !.hits = hits]
<1>4. hits \in Seq(Invocation)
  BY <1>1, AppendProperties DEF JobRecord, TypeInv, TypeOK, StorageOK
<1>5. Become(j, FinishNext(r, NextCaller(job[j]))) \/ Become(j, r)
  BY <1>3
<1> HIDE DEF hits
<1>6. r \in JobRecord /\ Lists(r)
  BY <1>1, <1>4, ZenonT(60) DEF Lists, JobRecord
<1> HIDE DEF r
<1>7. Lists(FinishNext(r, NextCaller(job[j])))
  BY <1>2, <1>6, FinishNextLists
<1> QED BY <1>1, <1>5, <1>6, <1>7, BecomesListed

LEMMA SweepRepliedListed ==
  ASSUME Listed, Owned', NEW j \in Job, SweepReplied(j)
  PROVE  Listed'
<1> DEFINE r == [job[j] EXCEPT !.hits = Tail(@)]
<1>1. /\ UNCHANGED <<actors, join>> /\ NoBroadcast
      /\ Become(j, FinishNext(r, NextCaller(job[j])))
      /\ job[j] \in JobRecord /\ Lists(job[j]) /\ job[j].callersLeft # <<>>
      /\ job[j].hits # <<>>
  BY DEF SweepReplied, At, storage, Reply, ResultTo, Message, NoBroadcast, Listed,
         Owned, TypeInv, TypeOK, Shaped, LoopShape
<1>2. Lists(NextCaller(job[j]))
  BY <1>1, LoopLists, NextCallerLists
<1>3. Tail(job[j].hits) \in Seq(Invocation)
  BY <1>1, HeadTailProperties DEF JobRecord
<1>4. r \in JobRecord /\ Lists(r)
  BY <1>1, <1>3, ZenonT(60) DEF Lists, JobRecord
<1> HIDE DEF r
<1> QED BY <1>1, <1>2, <1>4, FinishNextLists, BecomesListed

\* The entity of an invited caller names the socket that asked to join.
LEMMA CastReachesMembers ==
  ASSUME Listed, Owned', NEW j \in Job, Cast(j)
  PROVE  NoticesToMembers'
<1> DEFINE c == Head(job[j].callersLeft)
           k == job[j].actor.key
<1>1. job[j].callersLeft # <<>>
  BY DEF Cast, Listed, Owned, TypeInv, Shaped, LoopShape
<1>2. c \in Invitees(k)
  BY <1>1, LoopLists, HeadTailProperties DEF Listing
<1>3. c \in CallerKey /\ \E u \in CallerKey : join[u] = [socket |-> join[c].socket, key |-> k]
  BY <1>2 DEF Invitees
<1>4. callers[c] # None => callers[c].socketId = join[c].socket
  BY <1>3 DEF Listed, Owned, CallersOwned, Of
<1>5. \A m \in out' : callers[c] # None /\ m.to = callers[c].socketId /\ m.key = k
  BY DEF Cast, Message
<1>6. join' = join
  BY DEF Cast
<1> QED BY <1>3, <1>4, <1>5, <1>6 DEF NoticesToMembers

LEMMA CastListed ==
  ASSUME Listed, Owned', NEW j \in Job, Cast(j)
  PROVE  Listed'
<1> DEFINE r == [job[j] EXCEPT !.callersLeft = Tail(@)]
<1>1. UNCHANGED <<actors, join>> /\ Become(j, Casting(r)) /\ job[j].callersLeft # <<>>
  BY DEF Cast, storage, Listed, Owned, TypeInv, Shaped, LoopShape
<1>2. Listing(r)
  BY <1>1, LoopLists, TailListing
<1> HIDE DEF r
<1> QED BY <1>1, <1>2, CastingLists, CastReachesMembers, BecomesListed

-----------------------------------------------------------------------------
(* Requests, and the invariant *)

\* A request that asks for no JOIN begins with no actor and no list.
LEMMA BeginsListed ==
  ASSUME Listed, Owned', NEW j \in Job, NEW s, NEW ev, Begins(j, s, ev), ev # "JOIN",
         UNCHANGED join
  PROVE  Listed'
<1>1. /\ Others(j) /\ JoinGrows /\ UNCHANGED actors /\ NoBroadcast
      /\ job'[j].ev = ev /\ job'[j].actor = None /\ job'[j].callersLeft = <<>>
  BY DEF Begins, JoinGrows, NoBroadcast
<1>2. Lists(job[j])'
  BY <1>1 DEF Lists
<1> QED BY <1>1, <1>2, ActorsInviteGrows, ListedStep

LEMMA ActorRequestListed ==
  ASSUME Listed, Owned', NEW j \in Job, ActorRequest(j)
  PROVE  Listed'
<1>0. TypeInv
  BY DEF Listed, Owned
<1>1. ASSUME NEW s \in ActorSocket, NEW k \in ActorKey, Hi(j, s, k) PROVE Listed'
  BY <1>0, <1>1, HiBegins, BeginsListed
<1>2. ASSUME NEW s \in ActorSocket, NEW k \in ActorKey,
             NEW only \in CallerKey \cup {None}, ActorPipe(j, s, k, only)
      PROVE  Listed'
  BY <1>0, <1>2, ActorPipeBegins, BeginsListed
<1>3. ASSUME NEW s \in ActorSocket, NEW name \in SpecName,
             UpdateSpec(j, s, name) \/ DelSpec(j, s, name)
      PROVE  Listed'
  BY <1>0, <1>3, UpdateSpecBegins, DelSpecBegins, BeginsListed
<1>4. ASSUME NEW s \in ActorSocket, NEW p \in Pid, Result(j, s, p) PROVE Listed'
  BY <1>0, <1>4, ResultBegins, BeginsListed
<1>5. ASSUME NEW s \in ActorSocket, Bye(j, s) \/ ActorDisconnect(j, s) PROVE Listed'
  BY <1>0, <1>5, ByeBegins, ActorDisconnectBegins, BeginsListed
<1> QED BY <1>1, <1>2, <1>3, <1>4, <1>5 DEF ActorRequest

LEMMA JoinListed ==
  ASSUME Listed, Owned', NEW j \in Job, NEW s \in CallerSocket, NEW k \in ActorKey,
         NEW uuid \in CallerKey, Join(j, s, k, uuid)
  PROVE  Listed'
<1>1. TypeInv /\ join \in [CallerKey -> JoinRecord \cup {None}] /\ job \in [Job -> JobRecord]
  BY DEF Listed, Owned, TypeInv, TypeOK, HistoryOK
<1>2. /\ join[uuid] = None /\ join' = [join EXCEPT ![uuid] = [socket |-> s, key |-> k]]
      /\ UNCHANGED actors /\ out' = {}
  BY DEF Join, storage
<1>3. JoinGrows /\ join'[uuid] = [socket |-> s, key |-> k]
  BY <1>1, <1>2 DEF JoinGrows
<1>4. /\ Others(j)
      /\ job'[j].uuid = uuid /\ job'[j].sock = s /\ job'[j].key = k
      /\ job'[j].actor = None /\ job'[j].callersLeft = <<>>
  BY <1>1 DEF Join, Start, Request, Idle, Others
<1>5. Lists(job[j])'
  BY <1>3, <1>4 DEF Lists
<1>6. ActorsInvite'
  BY <1>2, <1>3, ActorsInviteGrows
<1> QED BY <1>2, <1>3, <1>4, <1>5, <1>6, ListedStep DEF NoBroadcast

LEMMA CallerRequestListed ==
  ASSUME Listed, Owned', NEW j \in Job, CallerRequest(j)
  PROVE  Listed'
<1>0. TypeInv
  BY DEF Listed, Owned
<1>1. ASSUME NEW s \in CallerSocket, NEW k \in ActorKey, Leave(j, s, k) PROVE Listed'
  BY <1>0, <1>1, LeaveBegins, BeginsListed
<1>2. ASSUME NEW s \in CallerSocket, NEW k \in ActorKey, NEW p \in Pid, Perform(j, s, k, p)
      PROVE  Listed'
  BY <1>0, <1>2, PerformBegins, BeginsListed
<1>3. ASSUME NEW s \in CallerSocket, NEW k \in ActorKey, CallerPipe(j, s, k) PROVE Listed'
  BY <1>0, <1>3, CallerPipeBegins, BeginsListed
<1>4. ASSUME NEW s \in CallerSocket, CallerDisconnect(j, s) PROVE Listed'
  BY <1>0, <1>4, CallerDisconnectBegins, BeginsListed
<1> QED BY <1>1, <1>2, <1>3, <1>4, JoinListed DEF CallerRequest

LEMMA InitListed == Init => Listed
<1> SUFFICES ASSUME Init PROVE Listed
  OBVIOUS
<1>1. ActorsInvite /\ NoticesToMembers
  BY DEF Init, ActorsInvite, NoticesToMembers
<1>2. \A j \in Job : Lists(job[j])
  BY IdleLists DEF Init
<1> QED BY <1>1, <1>2, InitOwned DEF Listed

\* Connections and crashes touch no list, and end handlers at most.
LEMMA ProcessListed ==
  ASSUME Listed, Owned', UNCHANGED <<actors, join>>, out' = {} \/ UNCHANGED out,
         \A i \in Job : job'[i] \in {job[i], Idle}
  PROVE  Listed'
<1>1. JoinGrows
  BY DEF JoinGrows
<1>2. ActorsInvite'
  BY <1>1, ActorsInviteGrows
<1>3. NoticesToMembers'
  BY DEF NoticesToMembers, Listed
<1>4. ASSUME NEW i \in Job PROVE Lists(job[i])'
  <2>1. job'[i] = job[i] \/ job'[i] = Idle
    OBVIOUS
  <2> QED BY <1>1, <2>1, IdleLists, ListsGrows DEF Listed, Owned
<1> QED BY <1>2, <1>3, <1>4 DEF Listed

LEMMA HandlerListed ==
  ASSUME Listed, Owned', NEW j \in Job, HandlerStep(j)
  PROVE  Listed'
<1>0. TypeInv
  BY DEF Listed, Owned
<1>1. CASE ServiceStep(j)
  BY <1>0, <1>1, ListFrameListed, HsetCallerLists, FindActorBySocketLists,
     FindCallerBySocketLists, ReadToDestroyCallerLists, HdelCallerLists,
     ReadToDestroyInvocationLists, HsetActorListed, HdelActorListed,
     ReadToDestroyActorListed DEF ServiceStep
<1>2. CASE ActorStep(j)
  BY <1>0, <1>2, ListFrameListed, HiSavedLists, ByeSavedLists, ResultFindLists,
     ResultFinishedLists, ResultRepliedLists, SweepFinishedLists,
     ActorDisconnectedLists, HiFindListed, UpdateFindListed, SpecSavedListed, ActorPipeFindListed, CastListed, ActorDisconnectFindListed,
     SweepCallerListed, SweepListListed, SweepScanListed, SweepRepliedListed
     DEF ActorStep
<1>3. ASSUME \/ JoinCaller(j) \/ LeaveCaller(j) \/ PerformCaller(j)
             \/ CallerDisconnectFind(j) \/ JoinSaved(j) \/ LeaveSaved(j)
      PROVE  Listed'
  BY <1>0, <1>3, ListFrameListed, JoinCallerLists, LeaveCallerLists, PerformCallerLists,
     CallerDisconnectFindLists, JoinSavedLists, LeaveSavedLists
<1>4. ASSUME \/ PerformSaved(j) \/ PerformSent(j) \/ CallerPipeFind(j) \/ CallerDisconnected(j)
             \/ VisitSaved(j) \/ CallerList(j) \/ CallerScan(j) \/ CallerFinished(j)
      PROVE  Listed'
  BY <1>0, <1>4, ListFrameListed, PerformSavedLists, PerformSentLists, CallerPipeFindLists,
     CallerDisconnectedLists, VisitSavedLists, CallerListLists, CallerScanLists,
     CallerFinishedLists
<1>5. CASE CallerStep(j)
  BY <1>3, <1>4, <1>5, RequestFindListed, JoinCallerSavedListed, LeaveActorInvited,
     VisitActorListed DEF CallerStep
<1> QED BY <1>1, <1>2, <1>5 DEF HandlerStep

LEMMA StepListed ==
  ASSUME Listed, [Next]_vars
  PROVE  Listed'
<1>1. Owned'
  BY StepOwned DEF Listed
<1>2. ASSUME NEW s \in Socket, Connect(s) PROVE Listed'
  BY <1>1, <1>2, ProcessListed DEF Connect, storage, history
<1>3. ASSUME NEW h \in Hub, Crash(h) PROVE Listed'
  <2>1. /\ UNCHANGED <<actors, join>> /\ out' = {}
        /\ \A i \in Job : job'[i] \in {job[i], Idle}
    BY <1>3 DEF Crash, storage, history
  <2> QED BY <1>1, <2>1, ProcessListed
<1>4. CASE UNCHANGED vars
  BY <1>1, <1>4, ProcessListed DEF vars, storage, history
<1> QED BY <1>1, <1>2, <1>3, <1>4, ActorRequestListed, CallerRequestListed, HandlerListed
        DEF Next

\* Whoever is on an actor's list, in storage or in a copy a handler works on, is a
\* caller of a socket that asked to join that actor.
THEOREM MembersAsked == Spec => []Listed
BY InitListed, StepListed, PTL DEF Spec
=============================================================================
