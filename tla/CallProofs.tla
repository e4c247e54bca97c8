----------------------------- MODULE CallProofs -----------------------------
(***************************************************************************)
(* Calls: the records of an invocation, stored or held by a handler, agree  *)
(* with the PERFORM they come from (Inductive), so that answers go where    *)
(* they belong (ResultRouted), a pending call stays answerable unless a     *)
(* process stops between the deletion of its record and its answer          *)
(* (PendingIsAnswerable), and the hub implements CallLifecycle (CallsKept). *)
(***************************************************************************)
EXTENDS SweepProofs

\* What a step does to a call that was recorded: it keeps its socket, and its
\* record does not come back.
BegunKept ==
  \A p \in Pid : call[p] # None /\ call[p].begun =>
    /\ call'[p] # None /\ call'[p].begun
    /\ call'[p].socket = call[p].socket
    /\ invocations'[p] \in {invocations[p], None}

\* A PERFORM in flight keeps its pid to itself.
AskedKept(i) ==
  job[i].ev = "PERFORM" =>
    /\ call'[job[i].pid] # None
    /\ call'[job[i].pid].begun = call[job[i].pid].begun
    /\ call'[job[i].pid].socket = call[job[i].pid].socket

\* A step that notes no more of a call than where it went, or that it is lost.
CallsAlike ==
  \A p \in Pid :
    /\ call'[p] # None <=> call[p] # None
    /\ call[p] # None =>
         /\ call'[p].socket = call[p].socket
         /\ call'[p].begun = call[p].begun
         /\ call'[p].answers = call[p].answers
         /\ call[p].lost => call'[p].lost
         /\ call[p].begun \/ call'[p].to = call[p].to

-----------------------------------------------------------------------------
(* Steps in general *)

LEMMA OfCallGrows ==
  ASSUME BegunKept, NEW inv \in Invocation, OfCall(inv)
  PROVE  OfCall(inv)'
BY DEF BegunKept, OfCall, Invocation

LEMMA HitsType ==
  ASSUME TypeInv, NEW i \in Job, NEW n \in DOMAIN job[i].hits
  PROVE  job[i].hits[n] \in Invocation
BY DEF TypeInv, TypeOK, JobRecord

LEMMA AskedType ==
  ASSUME TypeInv, NEW i \in Job, job[i].ev \in {"PERFORM", "RESULT"}
  PROVE  job[i].pid \in Pid
BY DEF TypeInv, TypeOK, JobRecord, Shaped, ArgumentShape

\* A handler that is about to answer has the record of a call that was recorded.
LEMMA AtReply ==
  ASSUME TypeInv, NEW i \in Job, Carries(job[i]), job[i].pc = "reply"
  PROVE  /\ job[i].hits # <<>> /\ 1 \in DOMAIN job[i].hits
         /\ Head(job[i].hits) = job[i].hits[1]
         /\ job[i].hits[1].pid = job[i].pid /\ job[i].pid \in Pid
         /\ OfCall(job[i].hits[1]) /\ job[i].hits[1] \in Invocation
<1>1. /\ job[i] \in JobRecord /\ Shaped(job[i])
      /\ job[i].ev \in {"RESULT", "ACTOR_DISCONNECT"} /\ job[i].hits # <<>>
  BY DEF TypeInv, TypeOK, Shaped, SocketShape, LoopShape
<1>2. 1 \in DOMAIN job[i].hits /\ Head(job[i].hits) = job[i].hits[1]
  BY <1>1 DEF JobRecord
<1>3. job[i].hits[1] \in Invocation /\ OfCall(job[i].hits[1])
  BY <1>2, HitsType DEF Carries
<1>4. job[i].hits[1].pid = job[i].pid
  BY <1>1, <1>2 DEF Carries, Shaped, LoopShape
<1> QED BY <1>1, <1>2, <1>3, <1>4 DEF Invocation

\* A job keeps what it carries while others step.
LEMMA CarriesGrows ==
  ASSUME TypeInv, BegunKept, NEW i \in Job, AskedKept(i),
         Carries(job[i]), job'[i] = job[i]
  PROVE  Carries(job[i])'
<1>1. (job[i].ev = "PERFORM" => /\ call[job[i].pid] # None
                                /\ call[job[i].pid].begun <=> job[i].pc = "send"
                                /\ call[job[i].pid].socket = job[i].sock)'
  BY DEF AskedKept, Carries
<1>2. (job[i].ev = "RESULT" =>
         /\ call[job[i].pid] # None
         /\ call[job[i].pid].begun
         /\ job[i].pc # "invocation" /\ job[i].hits = <<>> =>
              invocations[job[i].pid] = None)'
  BY AskedType DEF BegunKept, Carries
<1>3. (job[i].pc = "reply" => invocations[job[i].pid] = None)'
  BY AtReply DEF BegunKept, Carries, OfCall
<1>4. ASSUME NEW n \in DOMAIN job[i].hits
      PROVE  /\ OfCall(job[i].hits[n])'
             /\ job[i].ev = "RESULT" => job[i].hits[n].pid = job[i].pid
             /\ job[i].ev = "CALLER_DISCONNECT" => job[i].hits[n].callerSocket = job[i].sock
  <2>1. PICK v \in Invocation : v = job[i].hits[n]
    BY HitsType
  <2>2. OfCall(v)
    BY <2>1 DEF Carries
  <2>3. OfCall(v)'
    BY <2>2, OfCallGrows DEF OfCall
  <2>4. job'[i].hits[n] = v
    BY <2>1
  <2>5. OfCall(job[i].hits[n])'
    BY <2>3, <2>4 DEF OfCall
  <2> QED BY <2>5 DEF Carries
<1> QED BY <1>1, <1>2, <1>3, <1>4 DEF Carries

LEMMA InductiveStep ==
  ASSUME Inductive, Owned', BegunKept, NEW j \in Job, Others(j),
         \A i \in Job \ {j} : AskedKept(i), Carries(job[j])',
         job'[j].ev = "PERFORM" =>
           \A i \in Job \ {j} : job[i].ev = "PERFORM" => job[i].pid # job'[j].pid,
         InvocationsOfCalls', CallsBegun', ResultRouted', PendingIsAnswerable'
  PROVE  Inductive'
<1>1. ASSUME NEW i \in Job \ {j} PROVE Carries(job[i])'
  BY CarriesGrows DEF Inductive, Owned, Others
<1>2. OnePerformPerPid'
  BY DEF Inductive, OnePerformPerPid, Others
<1> QED BY <1>1, <1>2 DEF Inductive

LEMMA IdleCarries == Carries(Idle)'
BY NoneIsNothing DEF Idle, Carries, ActorEvent, CallerEvent

LEMMA CallerSockets ==
  ASSUME Inductive, NEW p \in Pid, call[p] # None
  PROVE  call[p].socket \in Socket /\ conn[call[p].socket] # "fresh"
BY DEF Inductive, CallsBegun, Owned, TypeInv, TypeOK, HistoryOK, CallRecord, Socket

\* No record changes, and no call but for where it went or that it is lost.
LEMMA AlikeKeeps ==
  ASSUME Inductive, CallsAlike, UNCHANGED invocations,
         \A s \in Socket : conn[s] # "fresh" => conn'[s] # "fresh"
  PROVE  /\ BegunKept /\ InvocationsOfCalls' /\ CallsBegun'
         /\ \A i \in Job : AskedKept(i)
<1>1. BegunKept
  BY DEF CallsAlike, BegunKept
<1>2. ASSUME NEW i \in Job PROVE AskedKept(i)
  BY AskedType DEF CallsAlike, AskedKept, Inductive, Owned, Carries
<1>3. InvocationsOfCalls'
  <2>1. ASSUME NEW p \in Pid, invocations[p] # None
        PROVE  /\ invocations[p] \in Invocation /\ OfCall(invocations[p])
               /\ invocations[p].pid = p /\ call'[p].answers = 0
    BY <2>1 DEF Inductive, InvocationsOfCalls, OfCall, CallsAlike, Owned, TypeInv, TypeOK,
                StorageOK
  <2>2. ASSUME NEW p \in Pid, invocations[p] # None PROVE OfCall(invocations[p])'
    <3>1. PICK v \in Invocation : v = invocations[p]
      BY <2>1, <2>2
    <3>2. OfCall(v)
      BY <2>1, <2>2, <3>1
    <3>3. OfCall(v)'
      BY <1>1, <3>2, OfCallGrows DEF OfCall
    <3> QED BY <3>1, <3>3 DEF OfCall
  <2> QED BY <2>1, <2>2 DEF InvocationsOfCalls
<1>4. CallsBegun'
  BY CallerSockets DEF CallsAlike, CallsBegun, Inductive
<1> QED BY <1>1, <1>2, <1>3, <1>4

\* Nothing but a job that is not about to answer, and unrelated messages.
LEMMA HoldingInductive ==
  ASSUME Inductive, Owned', NEW j \in Job, Others(j), Carries(job[j])',
         job[j].pc # "reply",
         job'[j].ev = "PERFORM" => job[j].ev = "PERFORM" /\ job'[j].pid = job[j].pid,
         CallsAlike, UNCHANGED <<conn, invocations>>, NoReply
  PROVE  Inductive'
<1>1. BegunKept /\ InvocationsOfCalls' /\ CallsBegun' /\ \A i \in Job : AskedKept(i)
  BY AlikeKeeps
<1>2. PendingIsAnswerable'
  <2> SUFFICES ASSUME NEW p \in Pid, call'[p] # None, call'[p].begun,
                      call'[p].answers = 0, conn'[call'[p].socket] = "open",
                      ~ call'[p].lost
               PROVE  invocations'[p] # None \/ \E i \in Job : Answering(i, p)'
    BY DEF PendingIsAnswerable, Answering
  <2>1. invocations[p] # None \/ \E i \in Job : Answering(i, p)
    BY DEF Inductive, PendingIsAnswerable, CallsAlike
  <2>2. ASSUME NEW i \in Job, Answering(i, p) PROVE Answering(i, p)'
    <3>1. i # j
      BY <2>2 DEF Answering
    <3> QED BY <2>2, <3>1 DEF Answering, Others
  <2> QED BY <2>1, <2>2
<1>3. ResultRouted'
  BY DEF NoReply, ResultRouted
<1>4. ASSUME NEW i \in Job \ {j}, job'[j].ev = "PERFORM", job[i].ev = "PERFORM"
      PROVE  job[i].pid # job'[j].pid
  BY <1>4 DEF Inductive, OnePerformPerPid
<1> QED BY <1>1, <1>2, <1>3, <1>4, InductiveStep

LEMMA CallFrameInductive ==
  ASSUME Inductive, Owned', NEW j \in Job, CallFrame(j)
  PROVE  Inductive'
<1>1. /\ UNCHANGED <<conn, invocations, call>> /\ Others(j) /\ NoReply
      /\ job[j].pc \notin {"send", "reply"} /\ job'[j].pc \notin {"send", "reply"}
  BY DEF CallFrame, KeepsCall
<1>2. CallsAlike
  BY <1>1 DEF CallsAlike
<1>3. CASE job'[j] = Idle
  <2>1. Carries(job[j])' /\ job'[j].ev # "PERFORM"
    BY <1>3, IdleCarries, EventsDiffer DEF Carries, Idle, CallerEvent
  <2> QED BY <1>1, <1>2, <2>1, HoldingInductive
<1>4. CASE /\ job'[j].ev = job[j].ev /\ job'[j].sock = job[j].sock
           /\ job[j].ev \in {"PERFORM", "RESULT"} => job'[j].pid = job[j].pid
           /\ job'[j].hits \in {job[j].hits, <<>>}
           /\ job[j].ev = "RESULT" =>
                job'[j].hits = job[j].hits /\ job[j].pc # "invocation"
  <2>1. Carries(job[j])'
    BY <1>1, <1>4, SMTT(30) DEF Inductive, Carries, OfCall
  <2> QED BY <1>1, <1>2, <1>4, <2>1, HoldingInductive
<1> QED BY <1>3, <1>4 DEF CallFrame, KeepsCall

-----------------------------------------------------------------------------
(* Requests *)

LEMMA QuietBeginsInductive ==
  ASSUME Inductive, Owned', NEW j \in Job, NEW s,
         NEW ev \in (ActorEvent \cup CallerEvent) \ {"PERFORM", "RESULT"},
         Begins(j, s, ev), UNCHANGED call,
         \A t \in Socket : conn'[t] \in {conn[t], "gone"}
  PROVE  Inductive'
<1>1. UNCHANGED invocations /\ Others(j) /\ out' = {}
  BY DEF Begins
<1>2. CallsAlike
  BY DEF CallsAlike
<1>3. BegunKept /\ InvocationsOfCalls' /\ CallsBegun' /\ \A i \in Job : AskedKept(i)
  BY <1>1, <1>2, AlikeKeeps
<1>4. Carries(job[j])' /\ job'[j].ev # "PERFORM"
  BY DEF Begins, Carries
<1>5. PendingIsAnswerable'
  <2> SUFFICES ASSUME NEW p \in Pid, call[p] # None, call[p].begun, call[p].answers = 0,
                      conn'[call[p].socket] = "open", ~ call[p].lost
               PROVE  invocations[p] # None \/ \E i \in Job : Answering(i, p)'
    BY <1>1 DEF PendingIsAnswerable, Answering
  <2>1. invocations[p] # None \/ \E i \in Job : Answering(i, p)
    BY CallerSockets DEF Inductive, PendingIsAnswerable
  <2>2. ASSUME NEW i \in Job, Answering(i, p) PROVE Answering(i, p)'
    <3>1. i # j
      BY <2>2 DEF Answering, Begins, Idle
    <3> QED BY <1>1, <2>2, <3>1 DEF Answering, Others
  <2> QED BY <2>1, <2>2
<1>6. ResultRouted'
  BY <1>1 DEF ResultRouted
<1> QED BY <1>1, <1>3, <1>4, <1>5, <1>6, InductiveStep

\* Only a call that went out, and so was recorded, is answered.
LEMMA ResultInductive ==
  ASSUME Inductive, Owned', NEW j \in Job, NEW s \in ActorSocket, NEW p \in Pid,
         Result(j, s, p)
  PROVE  Inductive'
<1>1. /\ Begins(j, s, "RESULT")
      /\ job'[j].pid = p /\ job'[j].pc = "invocation"
      /\ call[p] # None /\ call[p].to = s
      /\ UNCHANGED <<conn, join, call>>
  BY ResultBegins DEF Inductive, Owned
<1>2. call[p].begun
  BY <1>1, NoneIsNothing DEF Inductive, CallsBegun, Socket
<1>3. Carries(job[j])' /\ job'[j].ev # "PERFORM"
  BY <1>1, <1>2 DEF Begins, Carries
<1>4. NoReply /\ CallsAlike /\ job[j].pc # "reply"
  BY <1>1 DEF NoReply, Begins, CallsAlike, Idle
<1> QED BY <1>1, <1>3, <1>4, HoldingInductive DEF Begins

LEMMA PerformInductive ==
  ASSUME Inductive, Owned', NEW j \in Job, NEW s \in CallerSocket,
         NEW k \in ActorKey,
         NEW p \in Pid, Perform(j, s, k, p)
  PROVE  Inductive'
<1>0. /\ call \in [Pid -> CallRecord \cup {None}]
      /\ invocations \in [Pid -> Invocation \cup {None}]
      /\ TypeInv
  BY DEF Inductive, Owned, TypeInv, TypeOK, StorageOK, HistoryOK
<1>1. /\ Begins(j, s, "PERFORM") /\ job'[j].pid = p
      /\ call[p] = None /\ call' = [call EXCEPT ![p] = NewCall(s, k)]
      /\ UNCHANGED <<conn, join>>
  BY <1>0, PerformBegins
<1>2. /\ call'[p] # None /\ call'[p].socket = s /\ ~ call'[p].begun
      /\ call'[p].to = None /\ call'[p].answers = 0
      /\ \A q \in Pid \ {p} : call'[q] = call[q]
  <2>1. NewCall(s, k) \in CallRecord
    BY DEF NewCall, CallRecord
  <2> QED BY <1>0, <1>1, <2>1, NoneIsNoRequest DEF NewCall
<1>3. UNCHANGED invocations /\ Others(j) /\ out' = {} /\ conn[s] = "open"
      /\ job[j] = Idle /\ job'[j].pc # "send"
  BY <1>1 DEF Begins
<1>4. BegunKept
  BY <1>1, <1>2, <1>3 DEF BegunKept
<1>5. ASSUME NEW i \in Job \ {j}, job[i].ev = "PERFORM"
      PROVE  job[i].pid # p /\ AskedKept(i)
  <2>1. job[i].pid \in Pid /\ call[job[i].pid] # None
    BY <1>0, <1>5, AskedType DEF Inductive, Carries
  <2> QED BY <1>1, <1>2, <2>1 DEF AskedKept
<1>6. Carries(job[j])'
  BY <1>1, <1>2, <1>3 DEF Begins, Carries
<1>7. InvocationsOfCalls'
  <2>1. ASSUME NEW q \in Pid, invocations[q] # None
        PROVE  /\ q # p /\ invocations[q] \in Invocation
               /\ invocations[q].pid = q /\ OfCall(invocations[q])
               /\ call[q].answers = 0
    BY <1>0, <1>1, <2>1 DEF Inductive, InvocationsOfCalls, OfCall
  <2> QED BY <1>2, <1>3, <1>4, <2>1, OfCallGrows DEF InvocationsOfCalls
<1>8. CallsBegun'
  BY <1>1, <1>2, <1>3 DEF Inductive, CallsBegun
<1>9. PendingIsAnswerable'
  <2>1. ASSUME NEW i \in Job, NEW q \in Pid, Answering(i, q) PROVE Answering(i, q)'
    <3>1. i # j
      BY <1>3, <2>1 DEF Answering, Idle
    <3> QED BY <1>3, <2>1, <3>1 DEF Answering, Others
  <2> QED BY <1>1, <1>2, <1>3, <2>1 DEF Inductive, PendingIsAnswerable
<1>10. ResultRouted'
  BY <1>3 DEF ResultRouted
<1>11. \A i \in Job \ {j} : AskedKept(i)
  BY <1>5 DEF AskedKept
<1> QED BY <1>1, <1>3, <1>4, <1>5, <1>6, <1>7, <1>8, <1>9, <1>10, <1>11, InductiveStep

LEMMA ActorRequestInductive ==
  ASSUME Inductive, Owned', NEW j \in Job, ActorRequest(j)
  PROVE  Inductive'
<1>0. TypeInv /\ conn \in [Socket -> {"fresh", "open", "gone"}]
  BY DEF Inductive, Owned, TypeInv, TypeOK
<1>1. ASSUME NEW s \in ActorSocket,
             NEW ev \in (ActorEvent \cup CallerEvent) \ {"PERFORM", "RESULT"},
             Begins(j, s, ev), UNCHANGED <<conn, join, call>>
      PROVE  Inductive'
  BY <1>1, QuietBeginsInductive
<1>2. ASSUME NEW s \in ActorSocket, NEW k \in ActorKey, Hi(j, s, k) PROVE Inductive'
  BY <1>0, <1>1, <1>2, HiBegins DEF ActorEvent
<1>3. ASSUME NEW s \in ActorSocket, NEW k \in ActorKey,
             NEW only \in CallerKey \cup {None}, ActorPipe(j, s, k, only)
      PROVE  Inductive'
  BY <1>0, <1>1, <1>3, ActorPipeBegins DEF ActorEvent
<1>4. ASSUME NEW s \in ActorSocket, NEW name \in SpecName, UpdateSpec(j, s, name)
      PROVE  Inductive'
  BY <1>0, <1>1, <1>4, UpdateSpecBegins DEF ActorEvent
<1>5. ASSUME NEW s \in ActorSocket, NEW name \in SpecName, DelSpec(j, s, name)
      PROVE  Inductive'
  BY <1>0, <1>1, <1>5, DelSpecBegins DEF ActorEvent
<1>6. ASSUME NEW s \in ActorSocket, Bye(j, s) PROVE Inductive'
  BY <1>0, <1>1, <1>6, ByeBegins DEF ActorEvent
<1>7. ASSUME NEW s \in ActorSocket, ActorDisconnect(j, s) PROVE Inductive'
  <2>1. /\ Begins(j, s, "ACTOR_DISCONNECT") /\ UNCHANGED <<join, call>>
        /\ conn' = [conn EXCEPT ![s] = "gone"]
    BY <1>0, <1>7, ActorDisconnectBegins
  <2>2. \A t \in Socket : conn'[t] \in {conn[t], "gone"}
    BY <1>0, <2>1
  <2> QED BY <2>1, <2>2, QuietBeginsInductive DEF ActorEvent
<1> QED BY <1>2, <1>3, <1>4, <1>5, <1>6, <1>7, ResultInductive DEF ActorRequest

LEMMA CallerRequestInductive ==
  ASSUME Inductive, Owned', NEW j \in Job, CallerRequest(j)
  PROVE  Inductive'
<1>0. /\ TypeInv /\ conn \in [Socket -> {"fresh", "open", "gone"}]
  BY DEF Inductive, Owned, TypeInv, TypeOK
<1>1. ASSUME NEW s \in CallerSocket, NEW k \in ActorKey, Leave(j, s, k)
      PROVE  Inductive'
  BY <1>0, <1>1, LeaveBegins, QuietBeginsInductive DEF CallerEvent
<1>2. ASSUME NEW s \in CallerSocket, NEW k \in ActorKey, CallerPipe(j, s, k)
      PROVE  Inductive'
  BY <1>0, <1>2, CallerPipeBegins, QuietBeginsInductive DEF CallerEvent
<1>3. ASSUME NEW s \in CallerSocket, NEW k \in ActorKey, NEW uuid \in CallerKey,
             Join(j, s, k, uuid)
      PROVE  Inductive'
  BY <1>0, <1>3, JoinBegins, QuietBeginsInductive DEF CallerEvent
<1>4. ASSUME NEW s \in CallerSocket, CallerDisconnect(j, s) PROVE Inductive'
  <2>1. /\ Begins(j, s, "CALLER_DISCONNECT") /\ UNCHANGED <<join, call>>
        /\ conn' = [conn EXCEPT ![s] = "gone"]
    BY <1>0, <1>4, CallerDisconnectBegins
  <2>2. \A t \in Socket : conn'[t] \in {conn[t], "gone"}
    BY <1>0, <2>1
  <2> QED BY <2>1, <2>2, QuietBeginsInductive DEF CallerEvent
<1> QED BY <1>1, <1>2, <1>3, <1>4, PerformInductive DEF CallerRequest

-----------------------------------------------------------------------------
(* The record of a PERFORM, and its emission *)

\* What Note leaves of a call, and of the others.
LEMMA Noted ==
  ASSUME Inductive, NEW p \in Pid, call[p] # None, NEW known \in CallRecord, Note(p, known)
  PROVE  /\ call'[p] = known /\ call'[p] # None
         /\ \A q \in Pid \ {p} : call'[q] = call[q]
<1>1. call \in [Pid -> CallRecord \cup {None}] /\ known # None
  BY NoneIsNoRequest DEF Inductive, Owned, TypeInv, TypeOK, HistoryOK
<1> QED BY <1>1 DEF Note

LEMMA PerformSavedInductive ==
  ASSUME Inductive, Owned', NEW j \in Job, PerformSaved(j)
  PROVE  Inductive'
<1> DEFINE p == job[j].pid
           r == job[j]
           inv == [pid |-> p, caller |-> r.caller.key, callerSocket |-> r.caller.socketId]
           known == [call[p] EXCEPT !.begun = TRUE]
<1>0. /\ call \in [Pid -> CallRecord \cup {None}]
      /\ invocations \in [Pid -> Invocation \cup {None}]
      /\ job \in [Job -> JobRecord] /\ r \in JobRecord /\ Shaped(r) /\ TypeInv
  BY DEF Inductive, Owned, TypeInv, TypeOK, StorageOK, HistoryOK
<1>1. r.ev = "PERFORM" /\ p \in Pid /\ r.caller # None /\ r.pc # "send" /\ r.pc # "reply"
  BY <1>0, AskedType DEF PerformSaved, Shaped, SocketShape, CallerShape
<1>2. /\ call[p] # None /\ ~ call[p].begun /\ call[p].socket = r.sock
      /\ call[p].answers = 0 /\ call[p].to = None /\ conn[r.sock] # "fresh"
  BY <1>1 DEF Inductive, Carries, CallsBegun
<1>3. /\ r.sock \in CallerSocket /\ r.caller.key \in CallerKey
      /\ r.caller.socketId = r.sock
  BY <1>1, HeldCallerOwned DEF Inductive
<1>4. /\ known \in CallRecord /\ known.socket = r.sock /\ known.begun
      /\ known.answers = 0
  <2>1. call[p] \in CallRecord
    BY <1>0, <1>1, <1>2
  <2> QED BY <1>2, <2>1 DEF CallRecord
<1>5. /\ Others(j) /\ job'[j] = Await(r, "send") /\ UNCHANGED conn /\ NoReply
  BY <1>0 DEF PerformSaved, Become, Others, NoReply
<1>6. /\ invocations'[p] = inv
      /\ \A q \in Pid \ {p} : invocations'[q] = invocations[q]
  BY <1>0, <1>1 DEF PerformSaved
<1>7. /\ call'[p] = known /\ call'[p] # None
      /\ \A q \in Pid \ {p} : call'[q] = call[q]
  BY <1>1, <1>2, <1>4, Noted DEF PerformSaved
<1>8. inv.pid = p /\ inv.callerSocket = r.sock /\ inv \in Invocation
  BY <1>1, <1>3 DEF Invocation
<1>9. job'[j].ev = "PERFORM" /\ job'[j].pc = "send" /\ job'[j].pid = p
      /\ job'[j].sock = r.sock /\ job'[j].hits = r.hits
  BY <1>0, <1>1, <1>5 DEF Await, JobRecord
<1> HIDE DEF inv, p, r, known
<1>10. BegunKept
  BY <1>2, <1>6, <1>7 DEF BegunKept
<1>11. ASSUME NEW i \in Job \ {j} PROVE AskedKept(i)
  <2>1. job[i].ev = "PERFORM" => job[i].pid \in Pid
    BY <1>0, AskedType
  <2>2. job[i].ev = "PERFORM" => job[i].pid # p
    BY <1>1 DEF Inductive, OnePerformPerPid, p, r
  <2> QED BY <1>7, <2>1, <2>2 DEF AskedKept, Inductive, Carries
<1>12. Carries(job[j])'
  <2>1. ASSUME NEW n \in DOMAIN r.hits PROVE OfCall(r.hits[n])'
    <3>1. PICK v \in Invocation : v = r.hits[n]
      BY <1>0, HitsType DEF r
    <3>2. OfCall(v)
      BY <3>1 DEF Inductive, Carries, r
    <3>3. OfCall(v)'
      BY <1>10, <3>2, OfCallGrows DEF OfCall
    <3>4. job'[j].hits[n] = v
      BY <1>9, <3>1
    <3> QED BY <1>9, <3>1, <3>3, <3>4 DEF OfCall, r
  <2>2. \A n \in DOMAIN job'[j].hits : OfCall(job[j].hits[n])'
    BY <1>9, <2>1 DEF OfCall, r
  <2> QED BY <1>4, <1>7, <1>9, <2>2 DEF Carries
<1>13. InvocationsOfCalls'
  <2>1. ASSUME NEW q \in Pid, invocations'[q] # None
        PROVE  /\ invocations'[q].pid = q
               /\ OfCall(invocations[q])'
               /\ call'[q].answers = 0
    <3>1. CASE q = p
      <4>1. invocations'[q] = inv
        BY <1>6, <3>1
      <4> QED BY <1>4, <1>7, <1>8, <3>1, <4>1 DEF OfCall
    <3>2. CASE q # p
      <4>1. PICK v \in Invocation : v = invocations[q]
        BY <1>0, <1>6, <2>1, <3>2
      <4>2. OfCall(v) /\ v.pid = q /\ call[q].answers = 0
        BY <1>6, <2>1, <3>2, <4>1 DEF Inductive, InvocationsOfCalls
      <4>3. OfCall(v)'
        BY <1>10, <4>2, OfCallGrows DEF OfCall
      <4> QED BY <1>6, <1>7, <3>2, <4>1, <4>2, <4>3 DEF OfCall
    <3> QED BY <3>1, <3>2
  <2> QED BY <2>1 DEF InvocationsOfCalls
<1>14. CallsBegun'
  BY <1>2, <1>4, <1>5, <1>7 DEF Inductive, CallsBegun
<1>15. PendingIsAnswerable'
  <2>1. inv # None
    BY <1>8, NoneIsNothing
  <2>2. ASSUME NEW i \in Job, NEW q \in Pid, Answering(i, q) PROVE Answering(i, q)'
    <3>1. i # j
      BY <1>1, <2>2 DEF Answering, r
    <3> QED BY <1>5, <2>2, <3>1 DEF Answering, Others
  <2> QED BY <2>1, <2>2, <1>5, <1>6, <1>7 DEF Inductive, PendingIsAnswerable
<1>16. ResultRouted'
  BY <1>5 DEF NoReply, ResultRouted
<1>17. \A i \in Job \ {j} : job[i].ev = "PERFORM" => job[i].pid # job'[j].pid
  BY <1>1, <1>9 DEF Inductive, OnePerformPerPid, p, r
<1> QED BY <1>5, <1>10, <1>11, <1>12, <1>13, <1>14, <1>15, <1>16, <1>17, InductiveStep

\* The emission notes where the call went.
LEMMA PerformSentAlike ==
  ASSUME Inductive, NEW j \in Job, PerformSent(j)
  PROVE  /\ CallsAlike /\ UNCHANGED <<conn, invocations>> /\ NoReply
         /\ Others(j) /\ job'[j] = Idle /\ job[j].pc = "send"
<1> DEFINE p == job[j].pid
           known == [call[p] EXCEPT !.to = job[j].actor.socketId]
<1>1. /\ call \in [Pid -> CallRecord \cup {None}]
      /\ job[j] \in JobRecord /\ Shaped(job[j]) /\ TypeInv /\ job[j].pc = "send"
  BY DEF PerformSent, Inductive, Owned, TypeInv, TypeOK, HistoryOK
<1>2. /\ job[j].ev = "PERFORM" /\ p \in Pid
      /\ job[j].actor # None /\ job[j].actor \in Actor \cup {None}
  BY <1>1, AskedType DEF Shaped, SocketShape, ActorShape, JobRecord
<1>3. call[p] # None /\ call[p].begun /\ call[p] \in CallRecord
  BY <1>1, <1>2 DEF Inductive, Carries
<1>4. job[j].actor.socketId \in ActorSocket
  BY <1>2 DEF Actor
<1>5. /\ known \in CallRecord /\ known.socket = call[p].socket
      /\ known.begun = call[p].begun
      /\ known.answers = call[p].answers /\ known.lost = call[p].lost
  BY <1>3, <1>4 DEF CallRecord
<1> HIDE DEF known, p
<1>6. call'[p] = known /\ call'[p] # None /\ \A q \in Pid \ {p} : call'[q] = call[q]
  BY <1>2, <1>3, <1>5, Noted DEF PerformSent, p, known
<1>7. CallsAlike
  <2> SUFFICES ASSUME NEW q \in Pid
               PROVE  /\ call'[q] # None <=> call[q] # None
                      /\ call[q] # None =>
                           /\ call'[q].socket = call[q].socket
                           /\ call'[q].begun = call[q].begun
                           /\ call'[q].answers = call[q].answers
                           /\ call[q].lost => call'[q].lost
                           /\ call[q].begun \/ call'[q].to = call[q].to
    BY DEF CallsAlike
  <2>1. CASE q = p
    BY <1>3, <1>5, <1>6, <2>1
  <2>2. CASE q # p
    BY <1>6, <2>2
  <2> QED BY <2>1, <2>2
<1>8. UNCHANGED <<conn, invocations>> /\ NoReply
  BY DEF PerformSent, storage, NoReply, Message
<1>9. Others(j) /\ job'[j] = Idle
  BY <1>1 DEF PerformSent, Become, Others, TypeInv, TypeOK
<1> QED BY <1>1, <1>7, <1>8, <1>9

LEMMA PerformSentInductive ==
  ASSUME Inductive, Owned', NEW j \in Job, PerformSent(j)
  PROVE  Inductive'
<1>1. /\ CallsAlike /\ UNCHANGED <<conn, invocations>> /\ NoReply
      /\ Others(j) /\ job'[j] = Idle /\ job[j].pc = "send"
  BY PerformSentAlike
<1>2. Carries(job[j])' /\ job'[j].ev # "PERFORM"
  BY <1>1, IdleCarries, EventsDiffer DEF Carries, Idle, CallerEvent
<1> QED BY <1>1, <1>2, HoldingInductive

-----------------------------------------------------------------------------
(* The scan for invocations *)

\* What the records a disconnection holds say, whatever the command it awaits.
HitsCarried(r) ==
  \A n \in DOMAIN r.hits :
    /\ OfCall(r.hits[n])
    /\ r.ev = "CALLER_DISCONNECT" => r.hits[n].callerSocket = r.sock

LEMMA DisconnectCarries ==
  ASSUME NEW r, r.ev \in {"ACTOR_DISCONNECT", "CALLER_DISCONNECT"} \/ r = Idle,
         HitsCarried(r), r.pc # "reply"
  PROVE  Carries(r)
BY NoneIsNothing DEF HitsCarried, Carries, Idle, ActorEvent, CallerEvent

LEMMA NothingCarried ==
  ASSUME NEW r, r.hits = <<>>
  PROVE  HitsCarried(r)
BY DEF HitsCarried

\* A disconnection that goes on with the same or with no records.
LEMMA AfterCarried ==
  ASSUME NEW r \in JobRecord, HitsCarried(r)
  PROVE  /\ r.ev = "ACTOR_DISCONNECT" =>
              /\ HitsCarried(NextCaller(r)) /\ NextCaller(r).pc # "reply"
              /\ NextCaller(r) = Idle \/ NextCaller(r).ev = "ACTOR_DISCONNECT"
         /\ HitsCarried(Leaving(r)) /\ Leaving(r).pc # "reply"
         /\ Leaving(r).ev = r.ev
<1>1. r.ev = "ACTOR_DISCONNECT" =>
        /\ NextCaller(r).ev = "ACTOR_DISCONNECT" /\ NextCaller(r).hits = <<>>
        /\ NextCaller(r).pc # "reply"
  BY DEF NextCaller, Sweeping, Casting, Await, JobRecord
<1>2. HitsCarried(Leaving(r)) /\ Leaving(r).ev = r.ev /\ Leaving(r).pc # "reply"
  BY DEF Leaving, Await, HitsCarried, JobRecord
<1> QED BY <1>1, <1>2, NothingCarried

\* One more record, that of an invocation whose caller is the one looked for.
LEMMA HitCarried ==
  ASSUME Inductive, Swept, NEW j \in Job, NEW p \in Pid, invocations[p] # None,
         job[j].ev = "CALLER_DISCONNECT" => invocations[p].caller = job[j].ckey
  PROVE  /\ OfCall(invocations[p])
         /\ job[j].ev = "CALLER_DISCONNECT" => invocations[p].callerSocket = job[j].sock
<1>1. invocations[p] \in Invocation /\ OfCall(invocations[p]) /\ Sourced(invocations[p])
  BY DEF Inductive, Owned, TypeInv, TypeOK, StorageOK, InvocationsOfCalls, Swept,
         InvocationsSourced
<1>2. invocations[p].caller \in CallerKey /\ invocations[p].caller # None
  BY <1>1, NoneIsNothing DEF Invocation
<1>3. ASSUME job[j].ev = "CALLER_DISCONNECT"
      PROVE  Of(invocations[p].caller, job[j].sock)
  BY <1>2, <1>3 DEF Inductive, Owned, Owns, CallerEvent
<1> QED BY <1>1, <1>3 DEF Sourced, Of

LEMMA AppendCarried ==
  ASSUME NEW r \in JobRecord, HitsCarried(r), NEW inv \in Invocation, OfCall(inv),
         r.ev = "CALLER_DISCONNECT" => inv.callerSocket = r.sock,
         NEW t, t.ev = r.ev, t.sock = r.sock, t.hits = Append(r.hits, inv)
  PROVE  HitsCarried(t)
<1>1. r.hits \in Seq(Invocation)
  BY DEF JobRecord
<1>2. /\ Len(t.hits) = Len(r.hits) + 1 /\ t.hits \in Seq(Invocation)
      /\ \A n \in 1 .. Len(r.hits) : t.hits[n] = r.hits[n]
      /\ t.hits[Len(r.hits) + 1] = inv
  BY <1>1, AppendProperties
<1>3. ASSUME NEW n \in DOMAIN t.hits
      PROVE  t.hits[n] = inv \/ (n \in DOMAIN r.hits /\ t.hits[n] = r.hits[n])
  <2>1. DOMAIN t.hits = 1 .. Len(t.hits) /\ DOMAIN r.hits = 1 .. Len(r.hits)
    BY <1>1, <1>2
  <2>2. Len(r.hits) \in Nat
    BY <1>1
  <2>3. n = Len(r.hits) + 1 \/ n \in 1 .. Len(r.hits)
    BY <1>2, <2>1, <2>2
  <2> QED BY <1>2, <2>1, <2>3
<1> QED BY <1>3 DEF HitsCarried

\* The record a disconnection goes on with when its scan is over.
LEMMA FinishNextCarried ==
  ASSUME NEW r \in JobRecord, HitsCarried(r), NEW after, HitsCarried(after),
         after.pc # "reply"
  PROVE  /\ HitsCarried(FinishNext(r, after)) /\ FinishNext(r, after).pc # "reply"
         /\ FinishNext(r, after) = after \/ FinishNext(r, after).ev = r.ev
BY DEF FinishNext, HitsCarried, JobRecord

LEMMA ScanCarried ==
  ASSUME Inductive, Swept, NEW j \in Job, NEW after, ScanInvocation(j, after),
         job[j].ev \in {"ACTOR_DISCONNECT", "CALLER_DISCONNECT"},
         after = Idle \/ after.ev = job[j].ev, HitsCarried(after), after.pc # "reply"
  PROVE  \E r : Become(j, r) /\ Carries(r) /\ (r = Idle \/ r.ev = job[j].ev)
<1>1. job[j] \in JobRecord /\ HitsCarried(job[j]) /\ job[j].pc = "scan"
  BY DEF Inductive, Owned, TypeInv, TypeOK, Carries, HitsCarried, ScanInvocation
<1>2. PICK p \in job[j].scan :
        LET hit == invocations[p] # None /\ invocations[p].caller = job[j].ckey
            r == [job[j] EXCEPT !.scan = @ \ {p},
                               !.hits = IF hit THEN Append(@,
                               invocations[p]) ELSE @]
        IN Become(j, IF r.scan = {} THEN FinishNext(r, after) ELSE r)
  BY DEF ScanInvocation
<1>3. p \in Pid
  BY <1>1, <1>2 DEF JobRecord
<1> DEFINE hit == invocations[p] # None /\ invocations[p].caller = job[j].ckey
           r == [job[j] EXCEPT !.scan = @ \ {p},
                              !.hits = IF hit THEN Append(@, invocations[p]) ELSE @]
<1>4. Become(j, IF r.scan = {} THEN FinishNext(r, after) ELSE r)
  BY <1>2
<1>5. hit => /\ invocations[p] \in Invocation
             /\ OfCall(invocations[p])
             /\ job[j].ev = "CALLER_DISCONNECT" =>
                  invocations[p].callerSocket = job[j].sock
  BY <1>3, HitCarried DEF Inductive, Owned, TypeInv, TypeOK, StorageOK
<1>6. /\ r.ev = job[j].ev /\ r.sock = job[j].sock /\ r.pc = "scan"
      /\ hit => r.hits = Append(job[j].hits, invocations[p])
      /\ ~ hit => r.hits = job[j].hits
  BY <1>1 DEF JobRecord
<1>7. r \in JobRecord
  <2> DEFINE list == IF hit THEN Append(job[j].hits, invocations[p]) ELSE job[j].hits
  <2>1. list \in Seq(Invocation)
    BY <1>1, <1>5, AppendProperties DEF JobRecord
  <2>2. r = [job[j] EXCEPT !.scan = @ \ {p}, !.hits = list]
    OBVIOUS
  <2> HIDE DEF list, r
  <2> QED BY <1>1, <2>1, <2>2, ScannedType
<1> HIDE DEF r
<1>8. HitsCarried(r)
  <2>1. CASE hit
    <3> HIDE DEF hit
    <3> QED BY <1>1, <1>5, <1>6, <2>1, AppendCarried
  <2>2. CASE ~ hit
    <3> HIDE DEF hit
    <3> QED BY <1>1, <1>6, <2>2 DEF HitsCarried
  <2> QED BY <2>1, <2>2
<1> DEFINE t == IF r.scan = {} THEN FinishNext(r, after) ELSE r
<1>9. HitsCarried(t) /\ (t = Idle \/ t.ev = job[j].ev) /\ t.pc # "reply"
  BY <1>6, <1>7, <1>8, FinishNextCarried
<1> HIDE DEF t
<1>10. Carries(t)
  BY <1>9, DisconnectCarries
<1> QED BY <1>4, <1>9, <1>10 DEF t

\* A job goes on as a record that carries what it should; nothing else changes.
LEMMA BecomesInductive ==
  ASSUME Inductive, Owned', NEW j \in Job, NEW r, Become(j, r), Carries(r),
         r.ev # "PERFORM", job[j].pc # "reply",
         UNCHANGED <<conn, invocations, call>>, NoReply
  PROVE  Inductive'
<1>1. Others(j) /\ job'[j] = r
  BY DEF Inductive, Owned, TypeInv, TypeOK, Become, Others
<1>2. Carries(job[j])'
  BY <1>1 DEF Carries, OfCall
<1>3. CallsAlike
  BY DEF CallsAlike
<1> QED BY <1>1, <1>2, <1>3, HoldingInductive

LEMMA ScanInductive ==
  ASSUME Inductive, Swept, Owned', NEW j \in Job, SweepScan(j) \/ CallerScan(j)
  PROVE  Inductive'
<1>1. job[j] \in JobRecord /\ HitsCarried(job[j])
  BY DEF Inductive, Owned, TypeInv, TypeOK, Carries, HitsCarried
<1>2. PICK after :
        /\ ScanInvocation(j, after)
        /\ job[j].ev \in {"ACTOR_DISCONNECT", "CALLER_DISCONNECT"}
        /\ after = Idle \/ after.ev = job[j].ev
        /\ HitsCarried(after) /\ after.pc # "reply"
  <2>1. CASE SweepScan(j)
    BY <1>1, <2>1, AfterCarried DEF SweepScan
  <2>2. CASE CallerScan(j)
    BY <1>1, <2>2, AfterCarried DEF CallerScan
  <2> QED BY <2>1, <2>2
<1>3. PICK r : Become(j, r) /\ Carries(r) /\ (r = Idle \/ r.ev = job[j].ev)
  BY <1>2, ScanCarried
<1>4. r.ev # "PERFORM"
  BY <1>2, <1>3, EventsDiffer DEF Idle, CallerEvent
<1>5. UNCHANGED <<conn, invocations, call>> /\ NoReply /\ job[j].pc # "reply"
  BY <1>2 DEF ScanInvocation, storage, history, NoReply
<1> QED BY <1>3, <1>4, <1>5, BecomesInductive

LEMMA ResultFindInductive ==
  ASSUME Inductive, Owned', NEW j \in Job, ResultFind(j)
  PROVE  Inductive'
<1>1. /\ job[j] \in JobRecord /\ job[j].ev = "RESULT" /\ job[j].pc = "invocation"
      /\ invocations \in [Pid -> Invocation \cup {None}]
      /\ Carries(job[j]) /\ job[j].pid \in Pid
  BY AskedType DEF ResultFind, At, Inductive, Owned, TypeInv, TypeOK, StorageOK
<1> DEFINE found == invocations[job[j].pid]
           r == [job[j] EXCEPT !.pc = "destroyInvocation",
                               !.hits = IF found = None THEN <<>> ELSE <<found>>]
<1>2. /\ Become(j, r)
      /\ UNCHANGED <<conn, invocations, call>>
      /\ NoReply
  BY DEF ResultFind, storage, history, NoReply, Message
<1>3. found # None => OfCall(found) /\ found.pid = job[j].pid
  BY <1>1 DEF Inductive, InvocationsOfCalls
<1>4. /\ r.ev = "RESULT" /\ r.pid = job[j].pid /\ r.pc = "destroyInvocation"
      /\ r.hits = IF found = None THEN <<>> ELSE <<found>>
  BY <1>1 DEF JobRecord
<1>5. \A n \in DOMAIN r.hits : found # None /\ r.hits[n] = found
  BY <1>4
<1> HIDE DEF r
<1>6. Carries(r)
  BY <1>1, <1>3, <1>4, <1>5 DEF Carries
<1> QED BY <1>1, <1>2, <1>4, <1>6, BecomesInductive

-----------------------------------------------------------------------------
(* The end of an invocation: its record is deleted, then its answer emitted. *)

\* Job j deletes the record it is at: it goes on to answer, or nobody is to be
\* answered, or there was no record.
Erases(j) ==
  LET p == job[j].pid IN
  /\ p \in Pid
  /\ Others(j)
  /\ job[j].pc # "reply"
  /\ UNCHANGED <<conn, join, call>>
  /\ NoReply
  /\ invocations'[p] = None
  /\ \A q \in Pid \ {p} : invocations'[q] = invocations[q]
  /\ \/ invocations[p] = None
     \/ call[p] # None => conn[call[p].socket] = "gone"
     \/ job'[j].pc = "reply" /\ job'[j].pid = p

\* Job j answers the call whose record it had deleted.
Answers(j) ==
  LET p == job[j].pid IN
  /\ p \in Pid
  /\ Others(j)
  /\ job[j].pc = "reply"
  /\ UNCHANGED <<conn, join, invocations>>
  /\ invocations[p] = None
  /\ call[p] # None /\ call[p].begun
  /\ call'[p] = [call[p] EXCEPT !.answers = @ + 1]
  /\ \A q \in Pid \ {p} : call'[q] = call[q]
  /\ \E key : out' = {Message("RESULT", call[p].socket, key, p)}

LEMMA AnsweredType ==
  ASSUME NEW c \in CallRecord
  PROVE  LET d == [c EXCEPT !.answers = @ + 1] IN
         /\ d # None /\ d.socket = c.socket /\ d.begun = c.begun
         /\ d.answers = c.answers + 1 /\ d.answers # 0
<1>1. [c EXCEPT !.answers = @ + 1] \in CallRecord
  BY DEF CallRecord
<1> QED BY <1>1, NoneIsNoRequest DEF CallRecord

\* No call loses its socket.
LEMMA AnswersEnds ==
  ASSUME Inductive, NEW j \in Job, Answers(j), NEW q \in Pid
  PROVE  /\ call[q] # None <=> call'[q] # None
         /\ call[q] # None => /\ call'[q].socket = call[q].socket
                              /\ call'[q].begun = call[q].begun
<1>1. call[q] \in CallRecord \cup {None}
  BY DEF Inductive, Owned, TypeInv, TypeOK, HistoryOK
<1>2. \/ call'[q] = call[q]
      \/ call[q] # None /\ call'[q] = [call[q] EXCEPT !.answers = @ + 1]
  BY DEF Answers
<1>3. CASE call'[q] = call[q]
  BY <1>3
<1>4. CASE call[q] # None /\ call'[q] = [call[q] EXCEPT !.answers = @ + 1]
  BY <1>1, <1>4, AnsweredType
<1> QED BY <1>2, <1>3, <1>4

LEMMA AnswersKeeps ==
  ASSUME Inductive, NEW j \in Job, Answers(j)
  PROVE  BegunKept /\ \A i \in Job : AskedKept(i)
<1>1. BegunKept
  BY AnswersEnds DEF Answers, BegunKept
<1>2. ASSUME NEW i \in Job, job[i].ev = "PERFORM"
      PROVE  job[i].pid \in Pid /\ call[job[i].pid] # None
  BY <1>2, AskedType DEF Inductive, Carries, Owned
<1> QED BY <1>1, <1>2, AnswersEnds DEF AskedKept

LEMMA ErasesKeeps ==
  ASSUME Inductive, NEW j \in Job, Erases(j)
  PROVE  BegunKept /\ \A i \in Job : AskedKept(i)
<1>1. BegunKept
  BY DEF Erases, BegunKept
<1> QED BY <1>1 DEF AskedKept, Erases, Inductive, Carries

LEMMA ErasesInductive ==
  ASSUME Inductive, Owned', NEW j \in Job, Erases(j), Carries(job[j])',
         job'[j].ev # "PERFORM"
  PROVE  Inductive'
<1> DEFINE p == job[j].pid
<1>1. /\ p \in Pid /\ Others(j) /\ UNCHANGED <<conn, call>> /\ invocations'[p] = None
      /\ \A q \in Pid \ {p} : invocations'[q] = invocations[q]
      /\ job[j].pc # "reply" /\ NoReply
      /\ \/ invocations[p] = None
         \/ call[p] # None => conn[call[p].socket] = "gone"
         \/ job'[j].pc = "reply" /\ job'[j].pid = p
  BY DEF Erases
<1>2. BegunKept /\ \A i \in Job : AskedKept(i)
  BY ErasesKeeps
<1>3. invocations \in [Pid -> Invocation \cup {None}]
  BY DEF Inductive, Owned, TypeInv, TypeOK, StorageOK
<1> HIDE DEF p
<1>4. InvocationsOfCalls'
  <2>1. ASSUME NEW q \in Pid, invocations'[q] # None
        PROVE  /\ invocations'[q].pid = q /\ call'[q].answers = 0
               /\ OfCall(invocations[q])'
    <3>1. q # p
      BY <1>1, <2>1
    <3>2. invocations'[q] = invocations[q]
      BY <1>1, <3>1
    <3> QED BY <1>1, <2>1, <3>2 DEF Inductive, InvocationsOfCalls, OfCall
  <2> QED BY <2>1 DEF InvocationsOfCalls
<1>5. CallsBegun'
  BY <1>1 DEF Inductive, CallsBegun
<1>6. PendingIsAnswerable'
  <2> SUFFICES ASSUME NEW q \in Pid, call[q] # None, call[q].begun, call[q].answers = 0,
                      conn[call[q].socket] = "open", ~ call[q].lost
               PROVE  invocations'[q] # None \/ \E i \in Job : Answering(i, q)'
    BY <1>1 DEF PendingIsAnswerable, Answering
  <2>1. ASSUME NEW i \in Job, Answering(i, q) PROVE Answering(i, q)'
    <3>1. i # j
      BY <1>1, <2>1 DEF Answering
    <3> QED BY <1>1, <2>1, <3>1 DEF Answering, Others
  <2>2. invocations[q] # None \/ \E i \in Job : Answering(i, q)
    BY DEF Inductive, PendingIsAnswerable
  <2>3. CASE q # p
    BY <1>1, <2>1, <2>2, <2>3
  <2>4. CASE q = p /\ invocations[p] = None
    BY <2>1, <2>2, <2>4
  <2>5. CASE q = p /\ job'[j].pc = "reply" /\ job'[j].pid = p
    BY <2>5 DEF Answering
  <2> QED BY <1>1, <2>3, <2>4, <2>5
<1>7. ResultRouted'
  BY <1>1 DEF NoReply, ResultRouted
<1> QED BY <1>1, <1>2, <1>4, <1>5, <1>6, <1>7, InductiveStep

LEMMA AnswersInductive ==
  ASSUME Inductive, Owned', NEW j \in Job, Answers(j), Carries(job[j])',
         job'[j].ev # "PERFORM"
  PROVE  Inductive'
<1> DEFINE p == job[j].pid
<1>1. /\ p \in Pid /\ Others(j) /\ UNCHANGED <<conn, invocations>>
      /\ job[j].pc = "reply" /\ invocations[p] = None
      /\ call[p] # None /\ call[p].begun
      /\ \A q \in Pid \ {p} : call'[q] = call[q]
  BY DEF Answers
<1>2. BegunKept /\ \A i \in Job : AskedKept(i)
  BY AnswersKeeps
<1>3. PICK key : out' = {Message("RESULT", call[p].socket, key, p)}
  BY DEF Answers
<1>4. /\ call'[p] # None /\ call'[p].socket = call[p].socket /\ call'[p].begun
      /\ call'[p].answers # 0
  <2>1. call[p] \in CallRecord
    BY <1>1 DEF Inductive, Owned, TypeInv, TypeOK, HistoryOK
  <2>2. call'[p] = [call[p] EXCEPT !.answers = @ + 1]
    BY DEF Answers
  <2> QED BY <1>1, <2>1, <2>2, AnsweredType
<1> HIDE DEF p
<1>5. InvocationsOfCalls'
  BY <1>1 DEF Inductive, InvocationsOfCalls, OfCall
<1>6. CallsBegun'
  BY <1>1, <1>4 DEF Inductive, CallsBegun
<1>7. PendingIsAnswerable'
  <2> SUFFICES ASSUME NEW q \in Pid \ {p}, call[q] # None, call[q].begun,
                      call[q].answers = 0, conn[call[q].socket] = "open", ~ call[q].lost
               PROVE  invocations[q] # None \/ \E i \in Job : Answering(i, q)'
    BY <1>1, <1>4 DEF PendingIsAnswerable, Answering
  <2>1. ASSUME NEW i \in Job, Answering(i, q) PROVE Answering(i, q)'
    <3>1. i # j
      BY <2>1 DEF Answering, p
    <3> QED BY <1>1, <2>1, <3>1 DEF Answering, Others
  <2> QED BY <2>1 DEF Inductive, PendingIsAnswerable
<1>8. ResultRouted'
  BY <1>3, <1>4 DEF ResultRouted, Message
<1> QED BY <1>1, <1>2, <1>5, <1>6, <1>7, <1>8, InductiveStep

-----------------------------------------------------------------------------
(* Which steps erase, and which answer *)

LEMMA DestroyedErases ==
  ASSUME TypeInv, NEW j \in Job, InvocationDestroyed(j), job[j].pid \in Pid
  PROVE  /\ invocations'[job[j].pid] = None /\ job[j].pc # "reply"
         /\ job[j].pc # "invocation"
         /\ \A q \in Pid \ {job[j].pid} : invocations'[q] = invocations[q]
BY DEF InvocationDestroyed, TypeInv, TypeOK, StorageOK

LEMMA ResultFinishedErases ==
  ASSUME Inductive, NEW j \in Job, ResultFinished(j)
  PROVE  Erases(j) /\ job[j].ev = "RESULT"
         /\ job'[j] = IF job[j].hits = <<>> THEN Idle ELSE Await(job[j], "reply")
<1>1. /\ TypeInv /\ job[j] \in JobRecord /\ job \in [Job -> JobRecord]
      /\ Carries(job[j]) /\ job[j].ev = "RESULT" /\ InvocationDestroyed(j)
      /\ job[j].pid \in Pid
  BY AskedType DEF ResultFinished, Inductive, Owned, TypeInv, TypeOK
<1>2. /\ Others(j) /\ UNCHANGED <<conn, join, call>> /\ NoReply
      /\ job'[j] = IF job[j].hits = <<>> THEN Idle ELSE Await(job[j], "reply")
  BY <1>1 DEF ResultFinished, Become, Others, history, NoReply
<1>3. job[j].hits = <<>> => invocations[job[j].pid] = None
  BY <1>1, DestroyedErases DEF Carries
<1>4. job[j].hits # <<>> => job'[j].pc = "reply" /\ job'[j].pid = job[j].pid
  BY <1>1, <1>2 DEF Await, JobRecord
<1> QED BY <1>1, <1>2, <1>3, <1>4, DestroyedErases DEF Erases

\* The first of the records a disconnection holds is the one it finishes.
LEMMA AtFirstHit ==
  ASSUME TypeInv, NEW j \in Job, InvocationDestroyed(j), job[j].ev # "RESULT"
  PROVE  /\ job[j].hits # <<>> /\ job[j].pid = job[j].hits[1].pid
         /\ job[j].pid \in Pid
BY DEF InvocationDestroyed, TypeInv, TypeOK, Shaped, LoopShape, JobRecord

LEMMA SweepFinishedErases ==
  ASSUME Inductive, NEW j \in Job, SweepFinished(j)
  PROVE  Erases(j) /\ job[j].ev = "ACTOR_DISCONNECT" /\ job'[j] = Await(job[j], "reply")
<1>1. /\ TypeInv /\ job[j] \in JobRecord /\ job \in [Job -> JobRecord]
      /\ job[j].ev = "ACTOR_DISCONNECT" /\ InvocationDestroyed(j)
  BY DEF SweepFinished, Inductive, Owned, TypeInv, TypeOK
<1>2. job[j].pid \in Pid
  BY <1>1, AtFirstHit
<1>3. /\ Others(j) /\ UNCHANGED <<conn, join, call>> /\ NoReply
      /\ job'[j] = Await(job[j], "reply")
  BY <1>1 DEF SweepFinished, Become, Others, history, NoReply
<1>4. job'[j].pc = "reply" /\ job'[j].pid = job[j].pid
  BY <1>1, <1>3 DEF Await, JobRecord
<1> QED BY <1>1, <1>2, <1>3, <1>4, DestroyedErases DEF Erases

\* What a caller that is gone performed is erased and not answered.
LEMMA CallerFinishedErases ==
  ASSUME Inductive, NEW j \in Job, CallerFinished(j)
  PROVE  /\ Erases(j) /\ job[j].ev = "CALLER_DISCONNECT" /\ job[j].hits # <<>>
         /\ job'[j] = FinishNext([job[j] EXCEPT !.hits = Tail(@)], Leaving(job[j]))
<1>1. /\ TypeInv /\ job[j] \in JobRecord /\ job \in [Job -> JobRecord]
      /\ job[j].ev = "CALLER_DISCONNECT" /\ InvocationDestroyed(j)
      /\ Owns(job[j]) /\ Carries(job[j])
  BY DEF CallerFinished, Inductive, Owned, TypeInv, TypeOK
<1>2. /\ job[j].hits # <<>> /\ job[j].pid = job[j].hits[1].pid
      /\ job[j].pid \in Pid /\ 1 \in DOMAIN job[j].hits
  BY <1>1, AtFirstHit DEF JobRecord
<1>3. /\ Others(j) /\ UNCHANGED <<conn, join, call>> /\ NoReply
      /\ job'[j] = FinishNext([job[j] EXCEPT !.hits = Tail(@)], Leaving(job[j]))
  BY <1>1 DEF CallerFinished, Become, Others, history, NoReply
<1>4. conn[call[job[j].pid].socket] = "gone"
  BY <1>1, <1>2 DEF Carries, OfCall, Owns
<1> QED BY <1>1, <1>2, <1>3, <1>4, DestroyedErases DEF Erases

\* The answer for the first of the records a handler holds.
LEMMA ReplyAnswers ==
  ASSUME Inductive, NEW j \in Job, NEW key, job[j].pc = "reply", Others(j),
         Reply(ResultTo(job[j].hits, key)), UNCHANGED <<conn, join, invocations>>
  PROVE  Answers(j)
<1> DEFINE hit == job[j].hits[1]
<1>1. /\ job[j].hits # <<>> /\ Head(job[j].hits) = hit
      /\ hit.pid = job[j].pid /\ job[j].pid \in Pid /\ OfCall(hit)
  BY AtReply DEF Inductive, Owned
<1>2. ResultTo(job[j].hits, key) = {Message("RESULT", hit.callerSocket, key, hit.pid)}
  BY <1>1 DEF ResultTo
<1>3. \A q \in Pid : call'[q] = IF call[q] # None /\ q = hit.pid
                               THEN [call[q] EXCEPT !.answers = @ + 1] ELSE call[q]
  BY <1>2 DEF Reply, Message
<1>4. out' = {Message("RESULT", hit.callerSocket, key, hit.pid)}
  BY <1>2 DEF Reply
<1> HIDE DEF hit
<1>5. /\ call[hit.pid] # None /\ call[hit.pid].begun
      /\ call[hit.pid].socket = hit.callerSocket
  BY <1>1 DEF OfCall
<1>6. invocations[job[j].pid] = None
  BY DEF Inductive, Carries
<1>7. /\ call'[job[j].pid] = [call[job[j].pid] EXCEPT !.answers = @ + 1]
      /\ \A q \in Pid \ {job[j].pid} : call'[q] = call[q]
  BY <1>1, <1>3, <1>5
<1>8. out' = {Message("RESULT", call[job[j].pid].socket, key, job[j].pid)}
  BY <1>1, <1>4, <1>5
<1> QED BY <1>1, <1>5, <1>6, <1>7, <1>8 DEF Answers

LEMMA ResultRepliedAnswers ==
  ASSUME Inductive, NEW j \in Job, ResultReplied(j)
  PROVE  Answers(j) /\ job[j].ev = "RESULT" /\ job'[j] = Idle
<1>1. /\ Others(j) /\ job'[j] = Idle /\ job[j].pc = "reply" /\ job[j].ev = "RESULT"
      /\ UNCHANGED <<conn, join, invocations>> /\ Reply(ResultTo(job[j].hits, None))
  BY DEF ResultReplied, At, Become, Others, storage, Inductive, Owned, TypeInv, TypeOK
<1> QED BY <1>1, ReplyAnswers

LEMMA SweepRepliedAnswers ==
  ASSUME Inductive, NEW j \in Job, SweepReplied(j)
  PROVE  /\ Answers(j) /\ job[j].ev = "ACTOR_DISCONNECT" /\ job[j].pc = "reply"
         /\ job'[j] = FinishNext([job[j] EXCEPT !.hits = Tail(@)], NextCaller(job[j]))
<1>1. /\ Others(j) /\ job[j].pc = "reply" /\ job[j].ev = "ACTOR_DISCONNECT"
      /\ job'[j] = FinishNext([job[j] EXCEPT !.hits = Tail(@)], NextCaller(job[j]))
      /\ UNCHANGED <<conn, join, invocations>>
      /\ Reply(ResultTo(job[j].hits, job[j].actor.key))
  BY DEF SweepReplied, At, Become, Others, storage, Inductive, Owned, TypeInv, TypeOK
<1> QED BY <1>1, ReplyAnswers

-----------------------------------------------------------------------------
(* They keep the invariant. *)

\* A job that goes on with its records and replies with the one it erased.
LEMMA AwaitsReply ==
  ASSUME Inductive, TypeInv', NEW j \in Job, Erases(j), job'[j] = Await(job[j], "reply"),
         job[j].ev \in {"RESULT", "ACTOR_DISCONNECT"}, job[j].pc # "invocation"
  PROVE  Carries(job[j])' /\ job'[j].ev # "PERFORM"
<1>1. /\ job'[j].ev = job[j].ev /\ job'[j].pid = job[j].pid
      /\ job'[j].hits = job[j].hits /\ job'[j].sock = job[j].sock
  BY DEF Inductive, Owned, TypeInv, TypeOK, Await, JobRecord
<1>2. /\ UNCHANGED call /\ invocations'[job[j].pid] = None
  BY DEF Erases
<1>3. Carries(job[j])
  BY DEF Inductive
<1> QED BY <1>1, <1>2, <1>3 DEF Carries, OfCall

LEMMA ResultFinishedInductive ==
  ASSUME Inductive, Owned', NEW j \in Job, ResultFinished(j)
  PROVE  Inductive'
<1>1. /\ Erases(j) /\ job[j].ev = "RESULT"
      /\ job'[j] = IF job[j].hits = <<>> THEN Idle ELSE Await(job[j], "reply")
  BY ResultFinishedErases
<1>2. CASE job'[j] = Idle
  <2>1. Carries(job[j])' /\ job'[j].ev # "PERFORM"
    BY <1>2, IdleCarries, EventsDiffer DEF Carries, Idle, CallerEvent
  <2> QED BY <1>1, <2>1, ErasesInductive
<1>3. CASE job'[j] = Await(job[j], "reply")
  <2>1. job[j].pc # "invocation"
    BY DEF ResultFinished, InvocationDestroyed
  <2> QED BY <1>1, <1>3, <2>1, AwaitsReply, ErasesInductive DEF Owned
<1> QED BY <1>1, <1>2, <1>3

LEMMA SweepFinishedInductive ==
  ASSUME Inductive, Owned', NEW j \in Job, SweepFinished(j)
  PROVE  Inductive'
<1>1. /\ Erases(j) /\ job[j].ev = "ACTOR_DISCONNECT"
      /\ job'[j] = Await(job[j], "reply") /\ job[j].pc # "invocation"
  BY SweepFinishedErases DEF SweepFinished, InvocationDestroyed
<1> QED BY <1>1, AwaitsReply, ErasesInductive DEF Owned

LEMMA TailCarried ==
  ASSUME NEW r \in JobRecord, HitsCarried(r), r.hits # <<>>
  PROVE  LET t == [r EXCEPT !.hits = Tail(@)] IN
         t \in JobRecord /\ t.ev = r.ev /\ HitsCarried(t)
<1> DEFINE t == [r EXCEPT !.hits = Tail(@)]
<1>1. t \in JobRecord
  BY HitsTailType
<1>2. t.ev = r.ev /\ t.sock = r.sock /\ t.hits = Tail(r.hits)
  BY DEF JobRecord
<1>3. r.hits \in Seq(Invocation) /\ t.hits \in Seq(Invocation)
  BY <1>1 DEF JobRecord
<1>4. /\ Len(t.hits) = Len(r.hits) - 1
      /\ \A n \in 1 .. Len(t.hits) : t.hits[n] = r.hits[n + 1]
  BY <1>2, <1>3, HeadTailProperties
<1>5. ASSUME NEW n \in DOMAIN t.hits
      PROVE  n + 1 \in DOMAIN r.hits /\ t.hits[n] = r.hits[n + 1]
  <2>1. DOMAIN t.hits = 1 .. Len(t.hits) /\ DOMAIN r.hits = 1 .. Len(r.hits)
    BY <1>3
  <2>2. Len(r.hits) \in Nat /\ Len(t.hits) \in Nat
    BY <1>3
  <2> HIDE DEF t
  <2> QED BY <1>4, <2>1, <2>2
<1> HIDE DEF t
<1>6. HitsCarried(t)
  BY <1>2, <1>5 DEF HitsCarried
<1> QED BY <1>1, <1>2, <1>6 DEF t

\* What a disconnection goes on with after one of the invocations it found.
LEMMA NextHitCarried ==
  ASSUME Inductive, NEW j \in Job, job[j].hits # <<>>,
         job[j].ev \in {"ACTOR_DISCONNECT", "CALLER_DISCONNECT"},
         NEW after, HitsCarried(after), after = Idle \/ after.ev = job[j].ev,
         after.pc # "reply"
  PROVE  LET r == FinishNext([job[j] EXCEPT !.hits = Tail(@)], after) IN
         HitsCarried(r) /\ (r = Idle \/ r.ev = job[j].ev) /\ r.pc # "reply"
<1>1. job[j] \in JobRecord /\ HitsCarried(job[j])
  BY DEF Inductive, Owned, TypeInv, TypeOK, Carries, HitsCarried
<1> DEFINE t == [job[j] EXCEPT !.hits = Tail(@)]
<1>2. t \in JobRecord /\ t.ev = job[j].ev /\ HitsCarried(t)
  BY <1>1, TailCarried
<1> HIDE DEF t
<1>3. /\ HitsCarried(FinishNext(t, after)) /\ FinishNext(t, after).pc # "reply"
      /\ FinishNext(t, after) = after \/ FinishNext(t, after).ev = t.ev
  BY <1>2, FinishNextCarried
<1> QED BY <1>2, <1>3 DEF t

\* It carries it still after the step.
LEMMA CarriedOn ==
  ASSUME TypeInv', BegunKept, NEW j \in Job, NEW r, job'[j] = r,
         HitsCarried(r), r.pc # "reply",
         r.ev \in {"ACTOR_DISCONNECT", "CALLER_DISCONNECT"} \/ r = Idle
  PROVE  Carries(job[j])' /\ job'[j].ev # "PERFORM"
<1>1. ASSUME NEW n \in DOMAIN r.hits
      PROVE  /\ OfCall(r.hits[n])'
             /\ r.ev = "CALLER_DISCONNECT" => r.hits[n].callerSocket = r.sock
  <2>1. r.hits[n] \in Invocation
    BY DEF TypeInv, TypeOK, JobRecord
  <2>2. OfCall(r.hits[n])
    BY DEF HitsCarried
  <2> QED BY <2>1, <2>2, OfCallGrows DEF HitsCarried
<1>2. r.ev # "PERFORM" /\ r.ev # "RESULT"
  BY NoneIsNothing DEF Idle, ActorEvent, CallerEvent
<1> QED BY <1>1, <1>2 DEF Carries

LEMMA CallerFinishedInductive ==
  ASSUME Inductive, Owned', NEW j \in Job, CallerFinished(j)
  PROVE  Inductive'
<1> DEFINE r == FinishNext([job[j] EXCEPT !.hits = Tail(@)], Leaving(job[j]))
<1>1. /\ Erases(j) /\ job[j].ev = "CALLER_DISCONNECT" /\ job[j].hits # <<>>
      /\ job'[j] = r
  BY CallerFinishedErases
<1>2. job[j] \in JobRecord /\ HitsCarried(job[j])
  BY DEF Inductive, Owned, TypeInv, TypeOK, Carries, HitsCarried
<1>3. /\ HitsCarried(Leaving(job[j])) /\ Leaving(job[j]).ev = job[j].ev
      /\ Leaving(job[j]).pc # "reply"
  BY <1>2, AfterCarried
<1>4. HitsCarried(r) /\ (r = Idle \/ r.ev = job[j].ev) /\ r.pc # "reply"
  BY <1>1, <1>3, NextHitCarried
<1> HIDE DEF r
<1>5. BegunKept
  BY <1>1, ErasesKeeps
<1>6. Carries(job[j])' /\ job'[j].ev # "PERFORM"
  BY <1>1, <1>4, <1>5, CarriedOn DEF Owned
<1> QED BY <1>1, <1>6, ErasesInductive

LEMMA ResultRepliedInductive ==
  ASSUME Inductive, Owned', NEW j \in Job, ResultReplied(j)
  PROVE  Inductive'
<1>1. Answers(j) /\ job'[j] = Idle
  BY ResultRepliedAnswers
<1>2. Carries(job[j])' /\ job'[j].ev # "PERFORM"
  BY <1>1, IdleCarries, EventsDiffer DEF Carries, Idle, CallerEvent
<1> QED BY <1>1, <1>2, AnswersInductive

LEMMA SweepRepliedInductive ==
  ASSUME Inductive, Owned', NEW j \in Job, SweepReplied(j)
  PROVE  Inductive'
<1> DEFINE r == FinishNext([job[j] EXCEPT !.hits = Tail(@)], NextCaller(job[j]))
<1>1. /\ Answers(j) /\ job[j].ev = "ACTOR_DISCONNECT" /\ job[j].pc = "reply"
      /\ job'[j] = r
  BY SweepRepliedAnswers
<1>2. job[j] \in JobRecord /\ HitsCarried(job[j]) /\ job[j].hits # <<>>
  BY <1>1, AtReply DEF Inductive, Owned, TypeInv, TypeOK, Carries, HitsCarried
<1>3. /\ HitsCarried(NextCaller(job[j])) /\ NextCaller(job[j]).pc # "reply"
      /\ NextCaller(job[j]) = Idle \/ NextCaller(job[j]).ev = job[j].ev
  BY <1>1, <1>2, AfterCarried
<1>4. HitsCarried(r) /\ (r = Idle \/ r.ev = job[j].ev) /\ r.pc # "reply"
  BY <1>1, <1>2, <1>3, NextHitCarried
<1> HIDE DEF r
<1>5. BegunKept
  BY <1>1, AnswersKeeps
<1>6. Carries(job[j])' /\ job'[j].ev # "PERFORM"
  BY <1>1, <1>4, <1>5, CarriedOn DEF Owned
<1> QED BY <1>1, <1>6, AnswersInductive

-----------------------------------------------------------------------------
(* The invariant *)

LEMMA InitInductive == Init => Inductive
<1> SUFFICES ASSUME Init PROVE Inductive
  OBVIOUS
<1>1. \A p \in Pid : call[p] = None /\ invocations[p] = None
  BY DEF Init
<1>2. ASSUME NEW j \in Job
      PROVE  /\ job[j].ev # "PERFORM" /\ job[j].ev # "RESULT" /\ job[j].hits = <<>>
             /\ job[j].pc # "reply"
  BY NoneIsNothing DEF Init, Idle, ActorEvent, CallerEvent
<1>3. \A j \in Job : Carries(job[j])
  BY <1>2 DEF Carries
<1>4. OnePerformPerPid
  BY <1>2 DEF OnePerformPerPid
<1>5. ResultRouted
  BY DEF Init, ResultRouted
<1>6. InvocationsOfCalls /\ CallsBegun /\ PendingIsAnswerable
  BY <1>1 DEF InvocationsOfCalls, CallsBegun, PendingIsAnswerable
<1> QED BY <1>3, <1>4, <1>5, <1>6, InitOwned DEF Inductive

LEMMA HandlerInductive ==
  ASSUME Inductive, Swept, Owned', NEW j \in Job, HandlerStep(j)
  PROVE  Inductive'
<1>0. TypeInv
  BY DEF Inductive, Owned
<1>1. CASE ServiceStep(j)
  BY <1>0, <1>1, CallFrameInductive, HsetActorFrame, HsetCallerFrame,
     FindActorBySocketFrame, FindCallerBySocketFrame, ReadToDestroyActorFrame,
     HdelActorFrame, ReadToDestroyCallerFrame, HdelCallerFrame,
     ReadToDestroyInvocationFrame DEF ServiceStep
<1>2. CASE ActorStep(j)
  BY <1>0, <1>2, CallFrameInductive, HiFindFrame, HiSavedFrame, UpdateFindFrame,
     ByeSavedFrame, SpecSavedFrame, ActorPipeFindFrame, CastFrame,
     ResultFindInductive, ResultFinishedInductive, ResultRepliedInductive,
     ActorDisconnectFindFrame, SweepCallerFrame, SweepListFrame, ScanInductive,
     SweepFinishedInductive, SweepRepliedInductive, ActorDisconnectedFrame
     DEF ActorStep
<1>3. CASE CallerStep(j)
  BY <1>0, <1>3, CallFrameInductive, RequestFindFrame, JoinCallerFrame,
     JoinCallerSavedFrame, JoinSavedFrame, LeaveCallerFrame, LeaveActorFrame,
     LeaveSavedFrame, PerformCallerFrame, PerformSavedInductive, PerformSentInductive,
     CallerPipeFindFrame, CallerDisconnectFindFrame, VisitActorFrame, VisitSavedFrame,
     CallerListFrame, ScanInductive, CallerFinishedInductive, CallerDisconnectedFrame
     DEF CallerStep
<1> QED BY <1>1, <1>2, <1>3 DEF HandlerStep

\* Connect, Crash and stuttering: no record changes, handlers end at most, and the
\* calls that lose an answer by it are noted.
LEMMA EndingInductive ==
  ASSUME Inductive, Owned', CallsAlike, UNCHANGED invocations, ResultRouted',
         \A i \in Job : job'[i] \in {job[i], Idle},
         \A i \in Job, p \in Pid :
           Answering(i, p) /\ call[p] # None => job'[i] = job[i] \/ call'[p].lost,
         \A s \in Socket : \/ conn'[s] \in {conn[s], "gone"}
                           \/ conn[s] = "fresh" /\ conn'[s] # "fresh"
  PROVE  Inductive'
<1>1. BegunKept /\ InvocationsOfCalls' /\ CallsBegun' /\ \A i \in Job : AskedKept(i)
  BY AlikeKeeps
<1>2. PendingIsAnswerable'
  <2> SUFFICES ASSUME NEW p \in Pid, call'[p] # None, call'[p].begun,
                      call'[p].answers = 0, conn'[call'[p].socket] = "open",
                      ~ call'[p].lost
               PROVE  invocations'[p] # None \/ \E i \in Job : Answering(i, p)'
    BY DEF PendingIsAnswerable, Answering
  <2>1. /\ call[p] # None /\ call[p].begun /\ call[p].answers = 0
        /\ conn'[call[p].socket] = "open" /\ ~ call[p].lost
    BY DEF CallsAlike
  <2>2. conn[call[p].socket] = "open"
    BY <2>1, CallerSockets
  <2>3. invocations[p] # None \/ \E i \in Job : Answering(i, p)
    BY <2>1, <2>2 DEF Inductive, PendingIsAnswerable
  <2>4. ASSUME NEW i \in Job, Answering(i, p) PROVE Answering(i, p)'
    <3>1. job'[i] = job[i]
      BY <2>1, <2>4
    <3> QED BY <2>4, <3>1 DEF Answering
  <2> QED BY <2>3, <2>4
<1>3. ASSUME NEW i \in Job PROVE Carries(job[i])'
  <2>1. CASE job'[i] = job[i]
    BY <1>1, <2>1, CarriesGrows DEF Inductive, Owned
  <2>2. CASE job'[i] = Idle
    BY <2>2, IdleCarries DEF Carries
  <2> QED BY <2>1, <2>2
<1>4. Idle.ev # "PERFORM"
  BY EventsDiffer DEF Idle, CallerEvent
<1>5. OnePerformPerPid'
  BY <1>4 DEF Inductive, OnePerformPerPid
<1> QED BY <1>1, <1>2, <1>3, <1>5 DEF Inductive

LEMMA ConnectInductive ==
  ASSUME Inductive, Owned', NEW s \in Socket, Connect(s)
  PROVE  Inductive'
<1>1. /\ UNCHANGED <<invocations, call, job>> /\ out' = {}
      /\ conn \in [Socket -> {"fresh", "open", "gone"}]
      /\ conn[s] = "fresh" /\ conn' = [conn EXCEPT ![s] = "open"]
  BY DEF Connect, storage, history, Inductive, Owned, TypeInv, TypeOK
<1>2. ASSUME NEW t \in Socket
      PROVE  \/ conn'[t] \in {conn[t], "gone"}
             \/ conn[t] = "fresh" /\ conn'[t] # "fresh"
  <2>1. CASE t = s
    BY <1>1, <2>1
  <2>2. CASE t # s
    BY <1>1, <2>2
  <2> QED BY <2>1, <2>2
<1>3. /\ CallsAlike /\ ResultRouted' /\ \A i \in Job : job'[i] = job[i]
  BY <1>1 DEF CallsAlike, ResultRouted
<1> QED BY <1>1, <1>2, <1>3, EndingInductive

\* A call is lost when its handler was about to answer.
LEMMA CrashAlike ==
  ASSUME Inductive, NEW h \in Hub, Crash(h)
  PROVE  /\ CallsAlike
         /\ \A i \in Job, p \in Pid :
              Answering(i, p) /\ call[p] # None => job'[i] = job[i] \/ call'[p].lost
<1>1. call \in [Pid -> CallRecord \cup {None}]
  BY DEF Inductive, Owned, TypeInv, TypeOK, HistoryOK
<1>2. ASSUME NEW p \in Pid
      PROVE  call'[p] = IF /\ call[p] # None
                           /\ \E i \in Job : Answering(i, p) /\ HubOf[job[i].sock] = h
                        THEN [call[p] EXCEPT !.lost = TRUE] ELSE call[p]
  BY DEF Crash
<1>3. ASSUME NEW c \in CallRecord
      PROVE  LET d == [c EXCEPT !.lost = TRUE] IN
             /\ d # None /\ d.socket = c.socket /\ d.begun = c.begun
             /\ d.answers = c.answers /\ d.to = c.to /\ d.lost = TRUE
  <2>1. [c EXCEPT !.lost = TRUE] \in CallRecord
    BY DEF CallRecord
  <2> QED BY <2>1, NoneIsNoRequest DEF CallRecord
<1>4. CallsAlike
  <2> SUFFICES ASSUME NEW p \in Pid
               PROVE  /\ call'[p] # None <=> call[p] # None
                      /\ call[p] # None =>
                           /\ call'[p].socket = call[p].socket
                           /\ call'[p].begun = call[p].begun
                           /\ call'[p].answers = call[p].answers
                           /\ call[p].lost => call'[p].lost
                           /\ call[p].begun \/ call'[p].to = call[p].to
    BY DEF CallsAlike
  <2>1. CASE call'[p] = call[p]
    BY <2>1
  <2>2. CASE call[p] # None /\ call'[p] = [call[p] EXCEPT !.lost = TRUE]
    <3>1. call[p] \in CallRecord
      BY <1>1, <2>2
    <3> QED BY <1>3, <2>2, <3>1
  <2> QED BY <1>2, <2>1, <2>2
<1>5. ASSUME NEW i \in Job, NEW p \in Pid, Answering(i, p), call[p] # None,
             job'[i] # job[i]
      PROVE  call'[p].lost
  <2>1. HubOf[job[i].sock] = h
    BY <1>5 DEF Crash
  <2>2. call'[p] = [call[p] EXCEPT !.lost = TRUE]
    BY <1>2, <1>5, <2>1
  <2>3. call[p] \in CallRecord
    BY <1>1, <1>5
  <2> QED BY <1>3, <2>2, <2>3
<1> QED BY <1>4, <1>5

LEMMA CrashInductive ==
  ASSUME Inductive, Owned', NEW h \in Hub, Crash(h)
  PROVE  Inductive'
<1>1. UNCHANGED invocations /\ ResultRouted'
  BY DEF Crash, storage, ResultRouted
<1>2. \A i \in Job : job'[i] \in {job[i], Idle}
  BY DEF Crash
<1>3. ASSUME NEW t \in Socket
      PROVE  \/ conn'[t] \in {conn[t], "gone"}
             \/ conn[t] = "fresh" /\ conn'[t] # "fresh"
  BY DEF Crash
<1> QED BY <1>1, <1>2, <1>3, CrashAlike, EndingInductive

LEMMA StepInductive ==
  ASSUME Inductive, Swept, [Next]_vars
  PROVE  Inductive'
<1>1. Owned'
  BY StepOwned DEF Inductive
<1>2. CASE Next
  BY <1>1, <1>2, ActorRequestInductive, CallerRequestInductive, HandlerInductive,
     ConnectInductive, CrashInductive DEF Next
<1>3. CASE UNCHANGED vars
  <2>1. UNCHANGED <<conn, invocations, call, job, out>>
    BY <1>3 DEF vars, storage, history
  <2>2. CallsAlike /\ ResultRouted'
    BY <2>1 DEF CallsAlike, Inductive, ResultRouted
  <2> QED BY <1>1, <2>1, <2>2, EndingInductive
<1> QED BY <1>2, <1>3

\* Every record of an invocation, stored or held by a handler, is that of a
\* PERFORM that was recorded, of the socket that sent it; none is stored once its
\* call was answered; a handler replies about a call only when its record is gone.
THEOREM CallsAgree == Spec => [](Swept /\ Inductive)
<1>1. Init => Swept /\ Inductive
  BY InitSwept, InitInductive
<1>2. (Swept /\ Inductive) /\ [Next]_vars => (Swept /\ Inductive)'
  BY StepSwept, StepInductive
<1> QED BY <1>1, <1>2, PTL DEF Spec

\* Answers and ActorGone errors go only to the socket that performed the call.
THEOREM ResultsReachTheirCaller == Spec => []ResultRouted
<1>1. Inductive => ResultRouted
  BY DEF Inductive
<1> QED BY <1>1, CallsAgree, PTL

\* A call that was answered has no record left for a second answer to find.
THEOREM AnsweredCallsAreErased == Spec => []AnsweredIsErased
<1>1. Inductive => AnsweredIsErased
  <2> SUFFICES ASSUME Inductive, NEW p \in Pid, call[p] # None, call[p].answers > 0
               PROVE  invocations[p] = None
    BY DEF AnsweredIsErased
  <2> QED BY DEF Inductive, InvocationsOfCalls
<1> QED BY <1>1, CallsAgree, PTL

\* A call that was recorded and has no answer keeps its record, or has a handler
\* that deleted it and is about to answer, as long as its caller's socket is open:
\* no interleaving of handlers loses it.  Only a process that stops between the
\* deletion (hdel) and the emission (nextTick) does, and such calls are excepted.
THEOREM PendingCallsAreAnswerable == Spec => []PendingIsAnswerable
<1>1. Inductive => PendingIsAnswerable
  BY DEF Inductive
<1> QED BY <1>1, CallsAgree, PTL

-----------------------------------------------------------------------------
(* The hub implements CallLifecycle: every step maps to a step of the call  *)
(* it is about, or to one that touches no call.                             *)

\* What the refinement mapping gives for the call of a pid.
OwnerOf(p) == IF call[p] = None THEN None ELSE call[p].socket
LifeOf(p) ==
  IF call[p] = None \/ ~ call[p].begun THEN "unborn"
  ELSE IF invocations[p] # None THEN "open" ELSE "closed"
Replies == {<<m.pid, m.to>> : m \in {n \in out : n.ev = "RESULT"}}

-----------------------------------------------------------------------------
(* Steps of the abstract specification, in terms of the mapping *)

LEMMA QuietMaps ==
  ASSUME NoReply, \A p \in Pid : OwnerOf(p)' = OwnerOf(p) /\ LifeOf(p)' = LifeOf(p)
  PROVE  Lifecycle!Next
<1>1. Replies' = {}
  BY DEF NoReply, Replies
<1>2. Lifecycle!Quiet
  BY <1>1 DEF Lifecycle!Quiet, OwnerOf, LifeOf, Replies
<1> QED BY <1>2 DEF Lifecycle!Next

LEMMA OwnMaps ==
  ASSUME NEW p \in Pid, NEW s \in CallerSocket, NoReply,
         OwnerOf(p) = None, OwnerOf(p)' = s,
         \A q \in Pid \ {p} : OwnerOf(q)' = OwnerOf(q),
         \A q \in Pid : LifeOf(q)' = LifeOf(q)
  PROVE  Lifecycle!Next
<1>1. Replies' = {}
  BY DEF NoReply, Replies
<1>2. Lifecycle!Own(p, s)
  BY <1>1 DEF Lifecycle!Own, OwnerOf, LifeOf, Replies
<1> QED BY <1>2 DEF Lifecycle!Next

LEMMA OpenMaps ==
  ASSUME NEW p \in Pid, NoReply,
         OwnerOf(p) # None, LifeOf(p) = "unborn", LifeOf(p)' = "open",
         \A q \in Pid \ {p} : LifeOf(q)' = LifeOf(q),
         \A q \in Pid : OwnerOf(q)' = OwnerOf(q)
  PROVE  Lifecycle!Next
<1>1. Replies' = {}
  BY DEF NoReply, Replies
<1>2. Lifecycle!Open(p)
  BY <1>1 DEF Lifecycle!Open, OwnerOf, LifeOf, Replies
<1> QED BY <1>2 DEF Lifecycle!Next

LEMMA CloseMaps ==
  ASSUME NEW p \in Pid, NoReply,
         LifeOf(p) = "open", LifeOf(p)' = "closed",
         \A q \in Pid \ {p} : LifeOf(q)' = LifeOf(q),
         \A q \in Pid : OwnerOf(q)' = OwnerOf(q)
  PROVE  Lifecycle!Next
<1>1. Replies' = {}
  BY DEF NoReply, Replies
<1>2. Lifecycle!Close(p)
  BY <1>1 DEF Lifecycle!Close, OwnerOf, LifeOf, Replies
<1> QED BY <1>2 DEF Lifecycle!Next

LEMMA ReplyMaps ==
  ASSUME NEW p \in Pid, Replies' = {<<p, OwnerOf(p)>>}, LifeOf(p) = "closed",
         \A q \in Pid : OwnerOf(q)' = OwnerOf(q) /\ LifeOf(q)' = LifeOf(q)
  PROVE  Lifecycle!Next
<1>1. Lifecycle!Reply(p)
  BY DEF Lifecycle!Reply, OwnerOf, LifeOf, Replies
<1> QED BY <1>1 DEF Lifecycle!Next

-----------------------------------------------------------------------------
(* Steps of the hub *)

LEMMA AlikeMaps ==
  ASSUME NoReply, CallsAlike, UNCHANGED invocations
  PROVE  Lifecycle!Next
<1>1. \A p \in Pid : OwnerOf(p)' = OwnerOf(p) /\ LifeOf(p)' = LifeOf(p)
  BY DEF CallsAlike, OwnerOf, LifeOf
<1> QED BY <1>1, QuietMaps

LEMMA UntouchedMaps ==
  ASSUME NoReply, UNCHANGED <<invocations, call>>
  PROVE  Lifecycle!Next
BY AlikeMaps DEF CallsAlike

LEMMA BeginsMaps ==
  ASSUME NEW j \in Job, NEW s, NEW ev, Begins(j, s, ev), UNCHANGED call
  PROVE  Lifecycle!Next
BY UntouchedMaps DEF Begins, NoReply

LEMMA PerformMaps ==
  ASSUME Inductive, NEW j \in Job, NEW s \in CallerSocket, NEW k \in ActorKey,
         NEW p \in Pid, Perform(j, s, k, p)
  PROVE  Lifecycle!Next
<1>1. /\ Begins(j, s, "PERFORM") /\ call[p] = None
      /\ call' = [call EXCEPT ![p] = NewCall(s, k)]
  BY PerformBegins DEF Inductive, Owned
<1>2. call \in [Pid -> CallRecord \cup {None}] /\ NewCall(s, k) \in CallRecord
  BY DEF Inductive, Owned, TypeInv, TypeOK, HistoryOK, NewCall, CallRecord
<1>3. /\ call'[p] # None /\ call'[p].socket = s /\ ~ call'[p].begun
      /\ \A q \in Pid \ {p} : call'[q] = call[q]
      /\ UNCHANGED invocations /\ NoReply
  BY <1>1, <1>2, NoneIsNoRequest DEF NewCall, Begins, NoReply
<1> QED BY <1>1, <1>3, OwnMaps DEF OwnerOf, LifeOf

LEMMA PerformSavedMaps ==
  ASSUME Inductive, NEW j \in Job, PerformSaved(j)
  PROVE  Lifecycle!Next
<1>1. /\ call \in [Pid -> CallRecord \cup {None}]
      /\ invocations \in [Pid -> Invocation \cup {None}]
      /\ job[j] \in JobRecord /\ Shaped(job[j]) /\ TypeInv
  BY DEF Inductive, Owned, TypeInv, TypeOK, StorageOK, HistoryOK
<1>2. /\ job[j].ev = "PERFORM" /\ job[j].pid \in Pid /\ job[j].caller # None
      /\ job[j].pc # "send"
  BY <1>1, AskedType DEF PerformSaved, Shaped, SocketShape, CallerShape
<1> PICK p \in Pid : p = job[j].pid
  BY <1>2
<1> DEFINE known == [call[p] EXCEPT !.begun = TRUE]
<1>3. /\ call[p] # None /\ ~ call[p].begun /\ call[p].socket = job[j].sock
      /\ call[p] \in CallRecord
  BY <1>1, <1>2 DEF Inductive, Carries
<1>4. job[j].sock \in CallerSocket /\ job[j].caller \in Caller
  BY <1>2, HeldCallerOwned DEF Inductive
<1>5. known \in CallRecord /\ known.socket = call[p].socket /\ known.begun
  BY <1>3 DEF CallRecord
<1>6. [pid |-> p, caller |-> job[j].caller.key,
       callerSocket |-> job[j].caller.socketId] \in Invocation
  BY <1>4 DEF Invocation, Caller
<1>7. /\ invocations'[p] # None
      /\ \A q \in Pid \ {p} : invocations'[q] = invocations[q]
      /\ NoReply
  BY <1>1, <1>2, <1>6, NoneIsNothing DEF PerformSaved, NoReply
<1> HIDE DEF known
<1>8. /\ call'[p] = known /\ call'[p] # None
      /\ \A q \in Pid \ {p} : call'[q] = call[q]
  BY <1>3, <1>5, Noted DEF PerformSaved, known
<1>9. OwnerOf(p) = job[j].sock /\ LifeOf(p) = "unborn"
  BY <1>3 DEF OwnerOf, LifeOf
<1>10. OwnerOf(p)' = job[j].sock /\ LifeOf(p)' = "open"
  BY <1>3, <1>5, <1>7, <1>8 DEF OwnerOf, LifeOf
<1>11. \A q \in Pid \ {p} : LifeOf(q)' = LifeOf(q) /\ OwnerOf(q)' = OwnerOf(q)
  BY <1>7, <1>8 DEF OwnerOf, LifeOf
<1> QED BY <1>4, <1>7, <1>9, <1>10, <1>11, NoneIsNothing, OpenMaps DEF Socket

LEMMA ErasesMaps ==
  ASSUME Inductive, NEW j \in Job, Erases(j)
  PROVE  Lifecycle!Next
<1> PICK p \in Pid : p = job[j].pid
  BY DEF Erases
<1>1. /\ invocations'[p] = None /\ UNCHANGED call /\ NoReply
      /\ \A q \in Pid \ {p} : invocations'[q] = invocations[q]
  BY DEF Erases
<1>2. \A q \in Pid : OwnerOf(q)' = OwnerOf(q)
  BY <1>1 DEF OwnerOf
<1>3. \A q \in Pid \ {p} : LifeOf(q)' = LifeOf(q)
  BY <1>1 DEF LifeOf
<1>4. CASE invocations[p] # None
  <2>1. LifeOf(p) = "open" /\ LifeOf(p)' = "closed"
    BY <1>1, <1>4 DEF Inductive, InvocationsOfCalls, OfCall, LifeOf
  <2> QED BY <1>1, <1>2, <1>3, <2>1, CloseMaps
<1>5. CASE invocations[p] = None
  <2>1. LifeOf(p)' = LifeOf(p)
    BY <1>1, <1>5 DEF LifeOf
  <2> QED BY <1>1, <1>2, <1>3, <2>1, QuietMaps
<1> QED BY <1>4, <1>5

LEMMA AnswersMaps ==
  ASSUME Inductive, NEW j \in Job, Answers(j)
  PROVE  Lifecycle!Next
<1> PICK p \in Pid : p = job[j].pid
  BY DEF Answers
<1>1. /\ invocations[p] = None /\ UNCHANGED invocations
      /\ call[p] # None /\ call[p].begun
  BY DEF Answers
<1>2. \A q \in Pid : OwnerOf(q)' = OwnerOf(q) /\ LifeOf(q)' = LifeOf(q)
  BY <1>1, AnswersEnds DEF OwnerOf, LifeOf
<1>3. LifeOf(p) = "closed"
  BY <1>1 DEF LifeOf
<1>4. Replies' = {<<p, OwnerOf(p)>>}
  <2>1. PICK key : out' = {Message("RESULT", call[p].socket, key, p)}
    BY DEF Answers
  <2>2. {n \in out' : n.ev = "RESULT"} = {Message("RESULT", call[p].socket, key, p)}
    BY <2>1 DEF Message
  <2>3. call[p] # None
    BY <1>1
  <2>4. Replies' = {<<m.pid, m.to>> :
                    m \in {Message("RESULT", call[p].socket, key, p)}}
    BY <2>2 DEF Replies
  <2> QED BY <2>3, <2>4 DEF OwnerOf, Message
<1> QED BY <1>2, <1>3, <1>4, ReplyMaps

LEMMA RequestMaps ==
  ASSUME Inductive, NEW j \in Job, ActorRequest(j) \/ CallerRequest(j)
  PROVE  Lifecycle!Next
<1>0. TypeInv
  BY DEF Inductive, Owned
<1>1. CASE ActorRequest(j)
  BY <1>0, <1>1, HiBegins, ActorPipeBegins, UpdateSpecBegins, DelSpecBegins,
     ResultBegins, ByeBegins, ActorDisconnectBegins, BeginsMaps DEF ActorRequest
<1>2. CASE CallerRequest(j)
  BY <1>0, <1>2, JoinBegins, LeaveBegins, CallerPipeBegins, CallerDisconnectBegins,
     BeginsMaps, PerformMaps DEF CallerRequest
<1> QED BY <1>1, <1>2

LEMMA CallFrameMaps ==
  ASSUME NEW j \in Job, CallFrame(j)
  PROVE  Lifecycle!Next
BY UntouchedMaps DEF CallFrame

LEMMA LookMaps ==
  ASSUME NEW j \in Job, SweepScan(j) \/ CallerScan(j) \/ ResultFind(j)
  PROVE  Lifecycle!Next
<1>1. ASSUME NEW after, ScanInvocation(j, after) PROVE Lifecycle!Next
  BY <1>1, UntouchedMaps DEF ScanInvocation, NoReply, storage, history
<1>2. CASE ResultFind(j)
  BY <1>2, UntouchedMaps DEF ResultFind, NoReply, Message, storage, history
<1> QED BY <1>1, <1>2 DEF SweepScan, CallerScan

LEMMA HandlerMaps ==
  ASSUME Inductive, NEW j \in Job, HandlerStep(j)
  PROVE  Lifecycle!Next
<1>0. TypeInv
  BY DEF Inductive, Owned
<1>1. CASE ServiceStep(j)
  BY <1>0, <1>1, CallFrameMaps, HsetActorFrame, HsetCallerFrame,
     FindActorBySocketFrame, FindCallerBySocketFrame, ReadToDestroyActorFrame,
     HdelActorFrame, ReadToDestroyCallerFrame, HdelCallerFrame,
     ReadToDestroyInvocationFrame DEF ServiceStep
<1>2. CASE ResultFinished(j) \/ SweepFinished(j) \/ CallerFinished(j)
  BY <1>2, ResultFinishedErases, SweepFinishedErases, CallerFinishedErases, ErasesMaps
<1>3. CASE ResultReplied(j) \/ SweepReplied(j)
  BY <1>3, ResultRepliedAnswers, SweepRepliedAnswers, AnswersMaps
<1>4. CASE PerformSent(j)
  BY <1>4, PerformSentAlike, AlikeMaps
<1>5. CASE ActorStep(j)
  BY <1>0, <1>2, <1>3, <1>5, CallFrameMaps, HiFindFrame, HiSavedFrame, UpdateFindFrame,
     ByeSavedFrame, SpecSavedFrame, ActorPipeFindFrame, CastFrame, LookMaps,
     ActorDisconnectFindFrame, SweepCallerFrame, SweepListFrame, ActorDisconnectedFrame
     DEF ActorStep
<1>6. CASE CallerStep(j)
  BY <1>0, <1>2, <1>4, <1>6, CallFrameMaps, RequestFindFrame, JoinCallerFrame,
     JoinCallerSavedFrame, JoinSavedFrame, LeaveCallerFrame, LeaveActorFrame,
     LeaveSavedFrame, PerformCallerFrame, PerformSavedMaps, CallerPipeFindFrame,
     CallerDisconnectFindFrame, VisitActorFrame, VisitSavedFrame, CallerListFrame,
     LookMaps, CallerDisconnectedFrame
     DEF CallerStep
<1> QED BY <1>1, <1>5, <1>6 DEF HandlerStep

LEMMA InitMaps == Init => Lifecycle!Init
BY DEF Init, Lifecycle!Init

LEMMA NextMaps ==
  ASSUME Inductive, Next
  PROVE  Lifecycle!Next
<1>1. ASSUME NEW s \in Socket, Connect(s) PROVE Lifecycle!Next
  BY <1>1, UntouchedMaps DEF Connect, NoReply, storage, history
<1>2. ASSUME NEW h \in Hub, Crash(h) PROVE Lifecycle!Next
  <2>1. UNCHANGED invocations /\ NoReply
    BY <1>2 DEF Crash, NoReply, storage
  <2> QED BY <1>2, <2>1, CrashAlike, AlikeMaps
<1> QED BY <1>1, <1>2, RequestMaps, HandlerMaps DEF Next

LEMMA StutterMaps ==
  ASSUME UNCHANGED vars
  PROVE  UNCHANGED Lifecycle!vars
BY DEF vars, storage, history, Lifecycle!vars

\* The hub keeps the promise of CallLifecycle about its calls: a call is opened
\* and closed once, and replies about it go to its owner, once it is closed.
THEOREM CallsAreKept == Spec => CallsKept
<1>1. ASSUME Inductive, [Next]_vars PROVE [Lifecycle!Next]_(Lifecycle!vars)
  BY <1>1, NextMaps, StutterMaps
<1> QED BY <1>1, InitMaps, CallsAgree, PTL DEF Spec, CallsKept, Lifecycle!Spec
=============================================================================
