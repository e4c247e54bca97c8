----------------------------- MODULE AnswerProofs -----------------------------
(***************************************************************************)
(* How often a call is answered.  RESULT and the disconnection of an actor  *)
(* read the record of a call, delete it and answer; nothing makes the three *)
(* one, so several handlers may answer one call.  None finds the record     *)
(* after the first answer, so those given and those to come (Holders) are   *)
(* together no more than the handlers in flight: Counted is inductive given *)
(* Inductive, and AnswersBounded follows.                                   *)
(***************************************************************************)
EXTENDS CallProofs, FiniteSetTheorems

-----------------------------------------------------------------------------
(* Counting *)

LEMMA HoldersFinite ==
  ASSUME NEW p \in Pid
  PROVE  /\ IsFiniteSet(Job) /\ Cardinality(Job) \in Nat
         /\ IsFiniteSet(Holders(p)) /\ Cardinality(Holders(p)) \in Nat
         /\ Cardinality(Holders(p)) =< Cardinality(Job)
<1>1. IsFiniteSet(Job) /\ Holders(p) \in SUBSET Job
  BY JobsFinite DEF Holders
<1>2. IsFiniteSet(Holders(p)) /\ Cardinality(Holders(p)) =< Cardinality(Job)
  BY <1>1, FS_Subset
<1> QED BY <1>1, <1>2, FS_CardinalityType

\* A step of one job: of each call that has an answer then, it gives none and
\* finds no record, or it gives one and holds the record no longer.
LEMMA CountedStep ==
  ASSUME TypeInv, TypeInv', Counted, NEW j \in Job, Others(j), HitsDiffer(job'[j]),
         \A p \in Pid : call'[p] # None =>
           \/ call'[p].answers = 0
           \/ /\ call[p] # None /\ call'[p].answers = call[p].answers
              /\ Holds(job'[j], p) => Holds(job[j], p)
           \/ /\ call[p] # None /\ call'[p].answers = call[p].answers + 1
              /\ Holds(job[j], p) /\ ~ Holds(job'[j], p)
  PROVE  Counted'
<1>1. \A i \in Job : HitsDiffer(job'[i])
  BY DEF Counted, Others
<1>2. ASSUME NEW p \in Pid, call'[p] # None
      PROVE  call'[p].answers + Cardinality(Holders(p)') =< Cardinality(Job)
  <2> DEFINE H == Holders(p)
             G == Holders(p)'
  <2>1. /\ IsFiniteSet(Job) /\ Cardinality(Job) \in Nat
        /\ IsFiniteSet(H) /\ Cardinality(H) \in Nat
        /\ IsFiniteSet(G) /\ Cardinality(G) \in Nat
        /\ Cardinality(G) =< Cardinality(Job)
    <3>1. /\ IsFiniteSet(Job) /\ Cardinality(Job) \in Nat
          /\ IsFiniteSet(H) /\ Cardinality(H) \in Nat
      BY HoldersFinite
    <3>2. G \in SUBSET Job
      BY DEF Holders
    <3> HIDE DEF G
    <3>3. IsFiniteSet(G) /\ Cardinality(G) =< Cardinality(Job)
      BY <3>1, <3>2, FS_Subset
    <3> QED BY <3>1, <3>3, FS_CardinalityType
  <2>2. \A i \in Job \ {j} : i \in G <=> i \in H
    BY DEF Holders, Others
  <2>3. /\ j \in H <=> Holds(job[j], p)
        /\ j \in G <=> Holds(job'[j], p)
        /\ G \subseteq Job
    BY DEF Holders
  <2>4. call[p] # None => /\ call[p].answers \in Nat
                          /\ call[p].answers + Cardinality(H) =< Cardinality(Job)
    <3>1. call[p] # None => call[p] \in CallRecord
      BY DEF TypeInv, TypeOK, HistoryOK
    <3>2. call[p] # None => call[p].answers \in Nat
      BY <3>1 DEF CallRecord
    <3> QED BY <3>2 DEF Counted, AnswersCounted
  <2> SUFFICES call'[p].answers + Cardinality(G) =< Cardinality(Job)
    BY DEF G
  <2> HIDE DEF H, G
  <2>5. CASE call'[p].answers = 0
    BY <2>1, <2>5
  <2>6. CASE /\ call[p] # None /\ call'[p].answers = call[p].answers
             /\ Holds(job'[j], p) => Holds(job[j], p)
    <3>1. G \in SUBSET H
      BY <2>2, <2>3, <2>6
    <3>2. Cardinality(G) =< Cardinality(H)
      BY <2>1, <3>1, FS_Subset
    <3> QED BY <2>1, <2>4, <2>6, <3>2
  <2>7. CASE /\ call[p] # None /\ call'[p].answers = call[p].answers + 1
             /\ Holds(job[j], p) /\ ~ Holds(job'[j], p)
    <3>1. G \in SUBSET (H \ {j}) /\ j \in H
      BY <2>2, <2>3, <2>7
    <3>2. /\ IsFiniteSet(H \ {j})
          /\ Cardinality(H \ {j}) = Cardinality(H) - 1
      BY <2>1, <3>1, FS_RemoveElement
    <3>3. Cardinality(G) =< Cardinality(H \ {j})
      BY <3>1, <3>2, FS_Subset
    <3> QED BY <2>1, <2>4, <2>7, <3>2, <3>3
  <2> QED BY <1>2, <2>5, <2>6, <2>7
<1> QED BY <1>1, <1>2 DEF Counted, AnswersCounted

\* A job goes on with the records it held, or with none.
CarriesOn(r, s) ==
  \/ r.hits = <<>>
  \/ /\ r.hits = s.hits /\ r.ev = s.ev
     /\ r.ev = "ACTOR_DISCONNECT" => r.pc \notin {"sweep", "hkeys", "scan"}

LEMMA CarriesOnNarrows ==
  ASSUME NEW r, NEW s, CarriesOn(r, s), HitsDiffer(s)
  PROVE  HitsDiffer(r) /\ \A p \in Pid : Holds(r, p) => Holds(s, p)
BY DEF CarriesOn, HitsDiffer, Holds

LEMMA CarriesOnCounted ==
  ASSUME TypeInv, TypeInv', Counted, NEW j \in Job, Others(j), CarriesOn(job'[j], job[j]),
         \A p \in Pid : call'[p] # None =>
           \/ call'[p].answers = 0
           \/ call[p] # None /\ call'[p].answers = call[p].answers
  PROVE  Counted'
<1>1. HitsDiffer(job[j])
  BY DEF Counted
<1>2. /\ HitsDiffer(job'[j])
      /\ \A p \in Pid : Holds(job'[j], p) => Holds(job[j], p)
  BY <1>1, CarriesOnNarrows
<1> QED BY <1>2, CountedStep

-----------------------------------------------------------------------------
(* Steps that answer nothing and find no record *)

LEMMA CallFrameCounted ==
  ASSUME TypeInv, TypeInv', Counted, NEW j \in Job, CallFrame(j),
         job[j].ev # "ACTOR_DISCONNECT" \/ CarriesOn(job'[j], job[j])
  PROVE  Counted'
<1>1. Others(j) /\ UNCHANGED call
  BY DEF CallFrame
<1>2. CarriesOn(job'[j], job[j])
  BY DEF CallFrame, KeepsCall, CarriesOn, Idle
<1> QED BY <1>1, <1>2, CarriesOnCounted

\* The commands of Service move no record.
LEMMA ServiceCarriesOn ==
  ASSUME TypeInv, NEW j \in Job, ServiceStep(j)
  PROVE  CarriesOn(job'[j], job[j])
<1>1. /\ job \in [Job -> JobRecord] /\ job[j] \in JobRecord /\ Shaped(job[j])
      /\ "ACTOR_DISCONNECT" \notin CallerEvent
  BY DEF TypeInv, TypeOK, CallerEvent
<1> USE DEF Become, Await, CarriesOn
<1>2. CASE HsetActor(j)
  BY <1>1, <1>2 DEF HsetActor, JobRecord
<1>3. CASE HsetCaller(j)
  BY <1>1, <1>3 DEF HsetCaller, JobRecord
<1>4. CASE FindActorBySocket(j)
  BY <1>1, <1>4 DEF FindActorBySocket, JobRecord, Idle
<1>5. CASE FindCallerBySocket(j)
  BY <1>1, <1>5 DEF FindCallerBySocket, JobRecord, Idle
<1>6. CASE ReadToDestroyActor(j)
  BY <1>1, <1>6 DEF ReadToDestroyActor, JobRecord
<1>7. CASE HdelActor(j)
  BY <1>1, <1>7 DEF HdelActor, JobRecord
<1>8. CASE ReadToDestroyCaller(j)
  BY <1>1, <1>8 DEF ReadToDestroyCaller, JobRecord
<1>9. CASE HdelCaller(j)
  BY <1>1, <1>9 DEF HdelCaller, JobRecord
<1>10. CASE ReadToDestroyInvocation(j)
  BY <1>1, <1>10 DEF ReadToDestroyInvocation, JobRecord
<1> QED BY <1>2, <1>3, <1>4, <1>5, <1>6, <1>7, <1>8, <1>9, <1>10 DEF ServiceStep

\* The disconnection of an actor drops its records between two callers.
LEMMA NextCallerHoldsNone ==
  ASSUME NEW r \in JobRecord
  PROVE  Sweeping(r).hits = <<>> /\ NextCaller(r).hits = <<>>
<1>1. \A t \in JobRecord : Sweeping(t).hits = <<>>
  BY DEF Sweeping, Casting, Await, Idle, JobRecord
<1>2. NextCaller(r).hits = <<>>
  BY DEF NextCaller, Sweeping, Casting, Await, Idle, JobRecord
<1> QED BY <1>1, <1>2

LEMMA DisconnectCarriesOn ==
  ASSUME TypeInv, Counted, NEW j \in Job,
         \/ ActorDisconnectFind(j) \/ SweepCaller(j) \/ SweepList(j) \/ Cast(j)
         \/ ActorDisconnected(j)
  PROVE  HitsDiffer(job'[j]) /\ \A p \in Pid : Holds(job'[j], p) => Holds(job[j], p)
<1>1. /\ job \in [Job -> JobRecord] /\ job[j] \in JobRecord /\ Shaped(job[j])
      /\ HitsDiffer(job[j])
  BY DEF TypeInv, TypeOK, Counted
<1>2. ASSUME job'[j].hits = <<>> PROVE CarriesOn(job'[j], job[j])
  BY <1>2 DEF CarriesOn
<1> USE DEF Become
<1>3. CASE ActorDisconnectFind(j)
  <2> DEFINE found == actors[job[j].key]
             r == [job[j] EXCEPT !.actor = found, !.callersLeft = found.callers]
  <2>1. job'[j] = Idle \/ job'[j] = Sweeping(r)
    BY <1>1, <1>3 DEF ActorDisconnectFind
  <2>2. Sweeping(r).hits = <<>> /\ Idle.hits = <<>>
    BY <1>1 DEF Sweeping, Casting, Await, Idle, JobRecord
  <2> QED BY <1>1, <1>2, <2>1, <2>2, CarriesOnNarrows
<1>4. CASE SweepCaller(j)
  <2>1. job[j].hits = <<>>
    BY <1>1, <1>4 DEF HitsDiffer, SweepCaller, At
  <2>2. job'[j].hits = <<>>
    BY <1>1, <1>4, <2>1, NextCallerHoldsNone DEF SweepCaller, JobRecord
  <2> QED BY <1>1, <1>2, <2>2, CarriesOnNarrows
<1>5. CASE SweepList(j)
  <2>1. job[j].hits = <<>>
    BY <1>1, <1>5 DEF HitsDiffer, SweepList, ListInvocations
  <2>2. job'[j].hits = <<>>
    BY <1>1, <1>5, <2>1, NextCallerHoldsNone DEF SweepList, ListInvocations, JobRecord
  <2> QED BY <1>1, <1>2, <2>2, CarriesOnNarrows
<1>6. CASE Cast(j)
  <2>1. CarriesOn(job'[j], job[j])
    BY <1>1, <1>6 DEF Cast, Casting, Await, Idle, CarriesOn, JobRecord
  <2> QED BY <1>1, <2>1, CarriesOnNarrows
<1>7. CASE ActorDisconnected(j)
  <2>1. job'[j].hits = <<>>
    BY <1>1, <1>7 DEF ActorDisconnected, Idle
  <2> QED BY <1>1, <1>2, <2>1, CarriesOnNarrows
<1> QED BY <1>3, <1>4, <1>5, <1>6, <1>7

LEMMA FoundNothingCounted ==
  ASSUME TypeInv, TypeInv', Counted, NEW j \in Job, CallFrame(j), HitsDiffer(job'[j]),
         \A p \in Pid : Holds(job'[j], p) => Holds(job[j], p)
  PROVE  Counted'
<1>1. Others(j) /\ UNCHANGED call
  BY DEF CallFrame
<1> QED BY <1>1, CountedStep

\* Handlers that never hold a record, or hold it to erase it unanswered.
LEMMA OtherEvents ==
  ASSUME TypeInv, NEW j \in Job,
         \/ HiFind(j) \/ HiSaved(j) \/ UpdateFind(j) \/ ByeSaved(j) \/ SpecSaved(j)
         \/ ActorPipeFind(j)
         \/ RequestFind(j) \/ JoinCaller(j) \/ JoinCallerSaved(j) \/ JoinSaved(j)
         \/ LeaveCaller(j) \/ LeaveActor(j) \/ LeaveSaved(j) \/ PerformCaller(j)
         \/ CallerPipeFind(j) \/ CallerDisconnectFind(j) \/ VisitActor(j) \/ VisitSaved(j)
         \/ CallerList(j) \/ CallerDisconnected(j)
  PROVE  job[j].ev # "ACTOR_DISCONNECT"
BY DEF HiFind, HiSaved, UpdateFind, ByeSaved, SpecSaved, ActorPipeFind, RequestFind,
       JoinCaller, JoinCallerSaved, JoinSaved, LeaveCaller, LeaveActor, LeaveSaved,
       PerformCaller, CallerPipeFind, CallerDisconnectFind, VisitActor, VisitSaved,
       CallerList, CallerDisconnected, At

-----------------------------------------------------------------------------
(* Steps that find a record: nobody has answered its call. *)

\* The stored records are those of calls without an answer.
LEMMA StoredUnanswered ==
  ASSUME Inductive, NEW p \in Pid, invocations[p] # None
  PROVE  /\ invocations[p].pid = p /\ call[p] # None /\ call[p].answers = 0
         /\ invocations[p] \in Invocation
BY DEF Inductive, InvocationsOfCalls, OfCall, Owned, TypeInv, TypeOK, StorageOK

LEMMA ResultFindCounted ==
  ASSUME Inductive, TypeInv', Counted, NEW j \in Job, ResultFind(j)
  PROVE  Counted'
<1>1. /\ TypeInv /\ job \in [Job -> JobRecord] /\ job[j] \in JobRecord
      /\ job[j].ev = "RESULT" /\ job[j].pid \in Pid
  BY AskedType DEF ResultFind, At, Inductive, Owned, TypeInv, TypeOK
<1> DEFINE found == invocations[job[j].pid]
           hits == IF found = None THEN <<>> ELSE <<found>>
<1>2. /\ Others(j) /\ UNCHANGED call
      /\ job'[j] = [job[j] EXCEPT !.pc = "destroyInvocation", !.hits = hits]
  BY <1>1 DEF ResultFind, Become, Others, history
<1>3. job'[j].ev = "RESULT" /\ job'[j].hits = hits
  BY <1>1, <1>2 DEF JobRecord
<1>4. HitsDiffer(job'[j])
  BY <1>3 DEF HitsDiffer
<1>5. ASSUME NEW p \in Pid, Holds(job'[j], p)
      PROVE  call[p] # None /\ call[p].answers = 0
  <2>1. found # None /\ hits = <<found>>
    BY <1>3, <1>5 DEF Holds
  <2>2. found.pid = job[j].pid /\ call[job[j].pid] # None
        /\ call[job[j].pid].answers = 0
    BY <1>1, <2>1, StoredUnanswered
  <2>3. found.pid = p
    BY <1>3, <1>5, <2>1 DEF Holds
  <2> QED BY <2>2, <2>3
<1> QED BY <1>1, <1>2, <1>4, <1>5, CountedStep

\* What FinishNext goes on with, of a scan that is over.
LEMMA FinishNextDiffers ==
  ASSUME NEW r \in JobRecord, r.ev = "ACTOR_DISCONNECT",
         \A m, n \in DOMAIN r.hits : r.hits[m].pid = r.hits[n].pid => m = n,
         NEW after, after.hits = <<>>
  PROVE  /\ HitsDiffer(FinishNext(r, after))
         /\ \A p \in Pid : Holds(FinishNext(r, after), p) => Holds(r, p)
<1>1. CASE r.hits = <<>>
  BY <1>1 DEF FinishNext, HitsDiffer, Holds
<1>2. CASE r.hits # <<>>
  <2> DEFINE t == [r EXCEPT !.pid = Head(r.hits).pid, !.pc = "destroyInvocation"]
  <2>1. /\ FinishNext(r, after) = t
        /\ t.pc = "destroyInvocation" /\ t.hits = r.hits /\ t.ev = r.ev
    BY <1>2 DEF FinishNext, JobRecord
  <2> HIDE DEF t
  <2> QED BY <2>1 DEF HitsDiffer, Holds
<1> QED BY <1>1, <1>2

\* A list with one more record, which is none of those it had.
LEMMA AppendDiffers ==
  ASSUME NEW list \in Seq(Invocation), NEW inv \in Invocation,
         NEW more, more = Append(list, inv),
         \A n \in DOMAIN list : list[n].pid # inv.pid,
         \A m, n \in DOMAIN list : list[m].pid = list[n].pid => m = n
  PROVE  /\ \A m, n \in DOMAIN more : more[m].pid = more[n].pid => m = n
         /\ \A n \in DOMAIN more : more[n] = inv \/ (n \in DOMAIN list /\ more[n] = list[n])
         /\ more \in Seq(Invocation)
<1>1. /\ Len(more) = Len(list) + 1 /\ more \in Seq(Invocation)
      /\ \A n \in 1 .. Len(list) : more[n] = list[n]
      /\ more[Len(list) + 1] = inv
      /\ Len(list) \in Nat
  BY AppendProperties
<1>2. DOMAIN more = 1 .. Len(more) /\ DOMAIN list = 1 .. Len(list)
  BY <1>1
<1>3. \A n \in DOMAIN more : n = Len(list) + 1 \/ n \in DOMAIN list
  BY <1>1, <1>2
<1>4. \A n \in DOMAIN more :
        \/ n = Len(list) + 1 /\ more[n] = inv
        \/ n \in DOMAIN list /\ more[n] = list[n]
  BY <1>1, <1>2, <1>3
<1>5. \A m, n \in DOMAIN more : more[m].pid = more[n].pid => m = n
  BY <1>4
<1> QED BY <1>1, <1>4, <1>5

LEMMA SweepScanCounted ==
  ASSUME Inductive, TypeInv', Counted, NEW j \in Job, SweepScan(j)
  PROVE  Counted'
<1>1. /\ TypeInv /\ job \in [Job -> JobRecord] /\ job[j] \in JobRecord
      /\ job[j].ev = "ACTOR_DISCONNECT" /\ job[j].pc = "scan"
      /\ HitsDiffer(job[j]) /\ ScanInvocation(j, NextCaller(job[j]))
  BY DEF SweepScan, ScanInvocation, Inductive, Owned, TypeInv, TypeOK, Counted
<1> DEFINE after == NextCaller(job[j])
<1>2. after.hits = <<>>
  BY <1>1, NextCallerHoldsNone
<1> HIDE DEF after
<1>3. PICK p \in job[j].scan :
        LET hit == invocations[p] # None /\ invocations[p].caller = job[j].ckey
            r == [job[j] EXCEPT !.scan = @ \ {p},
                               !.hits = IF hit THEN Append(@,
                               invocations[p]) ELSE @]
        IN Become(j, IF r.scan = {} THEN FinishNext(r, after) ELSE r)
  BY <1>1 DEF ScanInvocation, after
<1>4. p \in Pid
  BY <1>1, <1>3 DEF JobRecord
<1> DEFINE hit == invocations[p] # None /\ invocations[p].caller = job[j].ckey
           list == IF hit THEN Append(job[j].hits, invocations[p]) ELSE job[j].hits
           r == [job[j] EXCEPT !.scan = @ \ {p}, !.hits = list]
<1>5. /\ Others(j) /\ UNCHANGED call
      /\ job'[j] = IF r.scan = {} THEN FinishNext(r, after) ELSE r
  BY <1>1, <1>3 DEF Become, Others, ScanInvocation, history
<1>6. hit => /\ invocations[p] \in Invocation /\ invocations[p].pid = p
             /\ call[p] # None /\ call[p].answers = 0
  BY <1>4, StoredUnanswered
<1>7. /\ job[j].hits \in Seq(Invocation)
      /\ \A n \in DOMAIN job[j].hits : job[j].hits[n].pid # p
      /\ \A m, n \in DOMAIN job[j].hits : job[j].hits[m].pid = job[j].hits[n].pid => m = n
  BY <1>1, <1>3 DEF HitsDiffer, JobRecord
<1>8. /\ list \in Seq(Invocation)
      /\ \A m, n \in DOMAIN list : list[m].pid = list[n].pid => m = n
      /\ \A n \in DOMAIN list :
           \/ list[n].pid = p /\ call[p] # None /\ call[p].answers = 0
           \/ n \in DOMAIN job[j].hits /\ list[n] = job[j].hits[n]
  <2>1. CASE hit
    <3>1. list = Append(job[j].hits, invocations[p])
      BY <2>1
    <3> DEFINE inv == invocations[p]
    <3>2. /\ inv \in Invocation /\ inv.pid = p
          /\ call[p] # None /\ call[p].answers = 0
      BY <1>6, <2>1
    <3> HIDE DEF list, hit, inv
    <3>3. list = Append(job[j].hits, inv)
      BY <3>1 DEF inv
    <3>4. /\ list \in Seq(Invocation)
          /\ \A m, n \in DOMAIN list : list[m].pid = list[n].pid => m = n
          /\ \A n \in DOMAIN list :
               list[n] = inv \/ (n \in DOMAIN job[j].hits /\ list[n] = job[j].hits[n])
      <4>1. \A n \in DOMAIN job[j].hits : job[j].hits[n].pid # inv.pid
        BY <1>7, <3>2
      <4> QED BY <1>7, <3>2, <3>3, <4>1, AppendDiffers
    <3> QED BY <3>2, <3>4
  <2>2. CASE ~ hit
    <3>1. list = job[j].hits
      BY <2>2
    <3> HIDE DEF list, hit
    <3> QED BY <1>7, <3>1
  <2> QED BY <2>1, <2>2
<1> HIDE DEF list, hit
<1>9. /\ r \in JobRecord /\ r.ev = "ACTOR_DISCONNECT" /\ r.pc = "scan" /\ r.hits = list
      /\ r.scan = job[j].scan \ {p}
  <2>1. list \in Seq(Invocation)
    BY <1>8
  <2>2. /\ r.ev = "ACTOR_DISCONNECT" /\ r.pc = "scan" /\ r.hits = list
        /\ r.scan = job[j].scan \ {p}
    BY <1>1 DEF JobRecord
  <2>3. r = [job[j] EXCEPT !.scan = @ \ {p}, !.hits = list] /\ job[j] \in JobRecord
    BY <1>1
  <2> HIDE DEF r
  <2>4. r \in JobRecord
    BY <2>1, <2>3, ScannedType
  <2> QED BY <2>2, <2>4
<1> HIDE DEF r
<1>10. HitsDiffer(r)
  <2>1. ASSUME NEW n \in DOMAIN list PROVE list[n].pid \notin job[j].scan \ {p}
    BY <1>1, <1>8 DEF HitsDiffer
  <2> QED BY <1>8, <1>9, <2>1 DEF HitsDiffer
<1>11. /\ HitsDiffer(job'[j])
       /\ \A q \in Pid : Holds(job'[j], q) => Holds(r, q)
  BY <1>2, <1>5, <1>8, <1>9, <1>10, FinishNextDiffers
<1>12. ASSUME NEW q \in Pid, Holds(job'[j], q)
       PROVE  \/ call[q] # None /\ call[q].answers = 0
              \/ Holds(job[j], q)
  <2>1. PICK n \in DOMAIN list : list[n].pid = q
    BY <1>9, <1>11, <1>12 DEF Holds
  <2> QED BY <1>1, <1>8, <2>1 DEF Holds
<1> QED BY <1>1, <1>5, <1>11, <1>12, CountedStep

-----------------------------------------------------------------------------
(* Steps that erase a record, and steps that answer *)

\* A caller that is gone is not answered.
LEMMA CallerOnlyCounted ==
  ASSUME TypeInv, TypeInv', Counted, NEW j \in Job, Others(j), UNCHANGED call,
         job'[j] = Idle \/ job'[j].ev = "CALLER_DISCONNECT"
  PROVE  Counted'
<1>1. /\ HitsDiffer(job'[j])
      /\ \A p \in Pid : ~ Holds(job'[j], p)
  BY NoneIsNothing DEF HitsDiffer, Holds, Idle, ActorEvent, CallerEvent
<1> QED BY <1>1, CountedStep

LEMMA CallerScanCounted ==
  ASSUME TypeInv, TypeInv', Counted, NEW j \in Job, CallerScan(j)
  PROVE  Counted'
<1>1. /\ job \in [Job -> JobRecord] /\ job[j] \in JobRecord
      /\ job[j].ev = "CALLER_DISCONNECT" /\ ScanInvocation(j, Leaving(job[j]))
  BY DEF CallerScan, TypeInv, TypeOK
<1>2. Leaving(job[j]).ev = "CALLER_DISCONNECT"
  BY <1>1 DEF Leaving, Await, JobRecord
<1>3. Others(j) /\ UNCHANGED call /\ job'[j].ev = "CALLER_DISCONNECT"
  BY <1>1, <1>2 DEF ScanInvocation, Become, Others, history, FinishNext, JobRecord
<1> QED BY <1>3, CallerOnlyCounted

LEMMA CallerFinishedCounted ==
  ASSUME Inductive, TypeInv', Counted, NEW j \in Job, CallerFinished(j)
  PROVE  Counted'
<1>1. /\ TypeInv /\ job[j] \in JobRecord /\ Others(j) /\ UNCHANGED call
      /\ job[j].ev = "CALLER_DISCONNECT"
      /\ job'[j] = FinishNext([job[j] EXCEPT !.hits = Tail(@)], Leaving(job[j]))
  BY CallerFinishedErases DEF Erases, Inductive, Owned, TypeInv, TypeOK
<1>2. job'[j].ev = "CALLER_DISCONNECT"
  BY <1>1 DEF FinishNext, Leaving, Await, JobRecord
<1> QED BY <1>1, <1>2, CallerOnlyCounted

LEMMA ErasedCounted ==
  ASSUME Inductive, TypeInv', Counted, NEW j \in Job, ResultFinished(j) \/ SweepFinished(j)
  PROVE  Counted'
<1>1. /\ TypeInv /\ job[j] \in JobRecord /\ Others(j) /\ UNCHANGED call
      /\ job'[j] \in {Idle, Await(job[j], "reply")}
  BY ResultFinishedErases, SweepFinishedErases
     DEF Erases, Inductive, Owned, TypeInv, TypeOK
<1>2. CarriesOn(job'[j], job[j])
  <2>1. /\ Idle.hits = <<>>
        /\ Await(job[j], "reply").hits = job[j].hits
        /\ Await(job[j], "reply").ev = job[j].ev
        /\ Await(job[j], "reply").pc = "reply"
    BY <1>1 DEF Await, Idle, JobRecord
  <2> QED BY <1>1, <2>1 DEF CarriesOn
<1> QED BY <1>1, <1>2, CarriesOnCounted

\* The record a handler replies with is the first it holds, and held no longer.
LEMMA AnswersCount ==
  ASSUME Inductive, TypeInv', Counted, NEW j \in Job, Answers(j), HitsDiffer(job'[j]),
         \A q \in Pid : Holds(job'[j], q) => Holds(job[j], q) /\ q # job[j].pid
  PROVE  Counted'
<1> DEFINE p == job[j].pid
<1>1. /\ TypeInv /\ p \in Pid /\ Others(j) /\ call[p] # None
      /\ call[p] \in CallRecord /\ Shaped(job[j])
      /\ call'[p] = [call[p] EXCEPT !.answers = @ + 1]
      /\ \A q \in Pid \ {p} : call'[q] = call[q]
  BY DEF Answers, Inductive, Owned, TypeInv, TypeOK, HistoryOK
<1>2. call'[p].answers = call[p].answers + 1
  BY <1>1 DEF CallRecord
<1>3. Holds(job[j], p)
  <2>1. job[j].pc = "reply" /\ job[j].ev \in {"RESULT", "ACTOR_DISCONNECT"}
    BY <1>1 DEF Answers, Shaped, SocketShape
  <2>2. 1 \in DOMAIN job[j].hits /\ job[j].hits[1].pid = p
    BY <1>1, <2>1, AtReply DEF Inductive
  <2> QED BY <2>1, <2>2 DEF Holds
<1> HIDE DEF p
<1>4. ASSUME NEW q \in Pid, call'[q] # None
      PROVE  \/ /\ call[q] # None /\ call'[q].answers = call[q].answers
                /\ Holds(job'[j], q) => Holds(job[j], q)
             \/ /\ call[q] # None /\ call'[q].answers = call[q].answers + 1
                /\ Holds(job[j], q) /\ ~ Holds(job'[j], q)
  <2>1. CASE q = p
    BY <1>1, <1>2, <1>3, <2>1 DEF p
  <2>2. CASE q # p
    BY <1>1, <1>4, <2>2
  <2> QED BY <2>1, <2>2
<1> QED BY <1>1, <1>4, CountedStep

LEMMA ResultRepliedCounted ==
  ASSUME Inductive, TypeInv', Counted, NEW j \in Job, ResultReplied(j)
  PROVE  Counted'
<1>1. Answers(j) /\ job'[j] = Idle
  BY ResultRepliedAnswers
<1>2. /\ HitsDiffer(job'[j])
      /\ \A q \in Pid : ~ Holds(job'[j], q)
  BY <1>1 DEF HitsDiffer, Holds, Idle
<1> QED BY <1>1, <1>2, AnswersCount

\* The records that are left are of other calls.
LEMMA TailDiffers ==
  ASSUME NEW list \in Seq(Invocation), list # <<>>, NEW rest, rest = Tail(list),
         \A m, n \in DOMAIN list : list[m].pid = list[n].pid => m = n
  PROVE  /\ \A m, n \in DOMAIN rest : rest[m].pid = rest[n].pid => m = n
         /\ \A n \in DOMAIN rest : /\ rest[n].pid # list[1].pid
                                   /\ \E m \in DOMAIN list : rest[n] = list[m]
<1>1. /\ rest \in Seq(Invocation) /\ Len(rest) = Len(list) - 1
      /\ \A n \in 1 .. Len(rest) : rest[n] = list[n + 1]
      /\ Len(list) \in Nat /\ Len(rest) \in Nat
  BY HeadTailProperties
<1>2. DOMAIN rest = 1 .. Len(rest) /\ DOMAIN list = 1 .. Len(list)
  BY <1>1
<1>3. \A n \in DOMAIN rest : /\ n \in Nat /\ n + 1 \in DOMAIN list /\ n + 1 # 1
                             /\ 1 \in DOMAIN list /\ rest[n] = list[n + 1]
  BY <1>1, <1>2
<1>4. \A n \in DOMAIN rest : /\ rest[n].pid # list[1].pid
                             /\ \E m \in DOMAIN list : rest[n] = list[m]
  BY <1>3
<1>5. ASSUME NEW m \in DOMAIN rest, NEW n \in DOMAIN rest, rest[m].pid = rest[n].pid
      PROVE  m = n
  <2>1. m + 1 = n + 1
    BY <1>3, <1>5
  <2> QED BY <1>3, <2>1
<1> QED BY <1>4, <1>5

LEMMA SweepRepliedCounted ==
  ASSUME Inductive, TypeInv', Counted, NEW j \in Job, SweepReplied(j)
  PROVE  Counted'
<1> DEFINE rest == Tail(job[j].hits)
           t == [job[j] EXCEPT !.hits = rest]
           after == NextCaller(job[j])
<1>1. /\ Answers(j) /\ job[j].ev = "ACTOR_DISCONNECT" /\ job[j].pc = "reply"
      /\ job'[j] = FinishNext([job[j] EXCEPT !.hits = Tail(@)], after)
  BY SweepRepliedAnswers
<1>2. /\ job[j] \in JobRecord /\ HitsDiffer(job[j]) /\ job[j].hits # <<>>
      /\ job[j].hits[1].pid = job[j].pid
  BY <1>1, AtReply DEF Inductive, Owned, TypeInv, TypeOK, Counted
<1>3. /\ \A m, n \in DOMAIN rest : rest[m].pid = rest[n].pid => m = n
      /\ \A n \in DOMAIN rest : /\ rest[n].pid # job[j].pid
                                /\ \E m \in DOMAIN job[j].hits : rest[n] = job[j].hits[m]
  <2>1. /\ job[j].hits \in Seq(Invocation)
        /\ \A m, n \in DOMAIN job[j].hits :
             job[j].hits[m].pid = job[j].hits[n].pid => m = n
    BY <1>1, <1>2 DEF HitsDiffer, JobRecord
  <2> QED BY <1>2, <2>1, TailDiffers
<1>4. t \in JobRecord /\ t.ev = "ACTOR_DISCONNECT" /\ t.hits = rest
  BY <1>1, <1>2, HitsTailType DEF JobRecord
<1>5. after.hits = <<>>
  BY <1>2, NextCallerHoldsNone
<1>6. job'[j] = FinishNext(t, after)
  BY <1>1
<1> HIDE DEF rest, t, after
<1>7. /\ HitsDiffer(job'[j])
      /\ \A q \in Pid : Holds(job'[j], q) => Holds(t, q)
  BY <1>3, <1>4, <1>5, <1>6, FinishNextDiffers
<1>8. ASSUME NEW q \in Pid, Holds(t, q) PROVE Holds(job[j], q) /\ q # job[j].pid
  <2>1. PICK n \in DOMAIN rest : rest[n].pid = q
    BY <1>4, <1>8 DEF Holds
  <2> QED BY <1>1, <1>3, <2>1 DEF Holds
<1> QED BY <1>1, <1>7, <1>8, AnswersCount

-----------------------------------------------------------------------------
(* Requests, the recording of a call, and the steps of no handler *)

LEMMA AlikeCounted ==
  ASSUME TypeInv, TypeInv', Counted, NEW j \in Job, Others(j), job'[j].hits = <<>>,
         CallsAlike \/ UNCHANGED call
  PROVE  Counted'
<1>1. CarriesOn(job'[j], job[j])
  BY DEF CarriesOn
<1>2. \A p \in Pid : call'[p] # None =>
        call[p] # None /\ call'[p].answers = call[p].answers
  BY DEF CallsAlike
<1> QED BY <1>1, <1>2, CarriesOnCounted

LEMMA PerformSavedCounted ==
  ASSUME Inductive, TypeInv', Counted, NEW j \in Job, PerformSaved(j)
  PROVE  Counted'
<1> DEFINE p == job[j].pid
           known == [call[p] EXCEPT !.begun = TRUE]
<1>1. /\ TypeInv /\ job \in [Job -> JobRecord] /\ job[j] \in JobRecord /\ Shaped(job[j])
      /\ call \in [Pid -> CallRecord \cup {None}] /\ job[j].pc = "hsetInvocation"
  BY DEF PerformSaved, Inductive, Owned, TypeInv, TypeOK, HistoryOK
<1>2. job[j].ev = "PERFORM" /\ p \in Pid
  BY <1>1, AskedType DEF Shaped, SocketShape
<1>3. call[p] # None /\ call[p] \in CallRecord
  BY <1>1, <1>2 DEF Inductive, Carries
<1>4. known \in CallRecord /\ known.answers = call[p].answers
  BY <1>3 DEF CallRecord
<1>5. Others(j) /\ job'[j] = Await(job[j], "send") /\ Note(p, known)
  BY <1>1 DEF PerformSaved, Become, Others
<1>6. CarriesOn(job'[j], job[j])
  BY <1>1, <1>5 DEF CarriesOn, Await, JobRecord
<1> HIDE DEF known, p
<1>7. call'[p] = known /\ \A q \in Pid \ {p} : call'[q] = call[q]
  BY <1>2, <1>3, <1>4, <1>5, Noted DEF p
<1>8. \A q \in Pid : call'[q] # None =>
        call[q] # None /\ call'[q].answers = call[q].answers
  BY <1>3, <1>4, <1>7
<1> QED BY <1>1, <1>5, <1>6, <1>8, CarriesOnCounted

LEMMA PerformSentCounted ==
  ASSUME Inductive, TypeInv', Counted, NEW j \in Job, PerformSent(j)
  PROVE  Counted'
<1>1. CallsAlike /\ Others(j) /\ job'[j] = Idle /\ TypeInv
  BY PerformSentAlike DEF Inductive, Owned
<1>2. job'[j].hits = <<>>
  BY <1>1 DEF Idle
<1> QED BY <1>1, <1>2, AlikeCounted

LEMMA PerformCounted ==
  ASSUME TypeInv, TypeInv', Counted, NEW j \in Job, NEW s \in CallerSocket,
         NEW k \in ActorKey, NEW p \in Pid, Perform(j, s, k, p)
  PROVE  Counted'
<1>1. /\ Others(j) /\ job'[j].hits = <<>>
      /\ call' = [call EXCEPT ![p] = NewCall(s, k)]
      /\ call \in [Pid -> CallRecord \cup {None}]
  BY PerformBegins DEF Begins, TypeInv, TypeOK, HistoryOK
<1>2. \A q \in Pid : call'[q] # None =>
        \/ call'[q].answers = 0
        \/ call[q] # None /\ call'[q].answers = call[q].answers
  BY <1>1 DEF NewCall
<1>3. CarriesOn(job'[j], job[j])
  BY <1>1 DEF CarriesOn
<1> QED BY <1>1, <1>2, <1>3, CarriesOnCounted

LEMMA RequestCounted ==
  ASSUME TypeInv, TypeInv', Counted, NEW j \in Job, ActorRequest(j) \/ CallerRequest(j)
  PROVE  Counted'
<1>1. ASSUME NEW s, NEW ev, Begins(j, s, ev), UNCHANGED call PROVE Counted'
  BY <1>1, AlikeCounted DEF Begins
<1>2. CASE ActorRequest(j)
  BY <1>1, <1>2, HiBegins, ActorPipeBegins, UpdateSpecBegins, DelSpecBegins,
     ResultBegins, ByeBegins, ActorDisconnectBegins DEF ActorRequest
<1>3. CASE CallerRequest(j)
  BY <1>1, <1>3, JoinBegins, LeaveBegins, CallerPipeBegins, CallerDisconnectBegins,
     PerformCounted DEF CallerRequest
<1> QED BY <1>2, <1>3

LEMMA HandlerCounted ==
  ASSUME Inductive, TypeInv', Counted, NEW j \in Job, HandlerStep(j)
  PROVE  Counted'
<1>0. TypeInv
  BY DEF Inductive, Owned
<1>1. CASE ServiceStep(j)
  <2>1. CarriesOn(job'[j], job[j])
    BY <1>0, <1>1, ServiceCarriesOn
  <2> QED BY <1>0, <1>1, <2>1, CallFrameCounted, HsetActorFrame, HsetCallerFrame,
             FindActorBySocketFrame, FindCallerBySocketFrame, ReadToDestroyActorFrame,
             HdelActorFrame, ReadToDestroyCallerFrame, HdelCallerFrame,
             ReadToDestroyInvocationFrame DEF ServiceStep
<1>2. CASE ActorStep(j)
  <2>1. CASE \/ HiFind(j) \/ HiSaved(j) \/ UpdateFind(j) \/ ByeSaved(j) \/ SpecSaved(j)
             \/ ActorPipeFind(j)
    <3>1. job[j].ev # "ACTOR_DISCONNECT"
      BY <1>0, <2>1, OtherEvents
    <3> QED BY <1>0, <2>1, <3>1, CallFrameCounted, HiFindFrame, HiSavedFrame,
               UpdateFindFrame, ByeSavedFrame, SpecSavedFrame, ActorPipeFindFrame
  <2>2. CASE \/ ActorDisconnectFind(j) \/ SweepCaller(j) \/ SweepList(j) \/ Cast(j)
             \/ ActorDisconnected(j)
    <3>1. /\ HitsDiffer(job'[j])
          /\ \A p \in Pid : Holds(job'[j], p) => Holds(job[j], p)
      BY <1>0, <2>2, DisconnectCarriesOn
    <3> QED BY <1>0, <2>2, <3>1, FoundNothingCounted, ActorDisconnectFindFrame,
               SweepCallerFrame, SweepListFrame, CastFrame, ActorDisconnectedFrame
  <2> QED BY <1>2, <2>1, <2>2, ResultFindCounted, ErasedCounted, ResultRepliedCounted,
             SweepScanCounted, SweepRepliedCounted DEF ActorStep
<1>3. CASE CallerStep(j)
  <2>1. CASE \/ RequestFind(j) \/ JoinCaller(j) \/ JoinCallerSaved(j) \/ JoinSaved(j)
             \/ LeaveCaller(j) \/ LeaveActor(j) \/ LeaveSaved(j) \/ PerformCaller(j)
             \/ CallerPipeFind(j) \/ CallerDisconnectFind(j) \/ VisitActor(j)
             \/ VisitSaved(j) \/ CallerList(j) \/ CallerDisconnected(j)
    <3>1. job[j].ev # "ACTOR_DISCONNECT"
      BY <1>0, <2>1, OtherEvents
    <3> QED BY <1>0, <2>1, <3>1, CallFrameCounted, RequestFindFrame, JoinCallerFrame,
               JoinCallerSavedFrame, JoinSavedFrame, LeaveCallerFrame, LeaveActorFrame,
               LeaveSavedFrame, PerformCallerFrame, CallerPipeFindFrame,
               CallerDisconnectFindFrame, VisitActorFrame, VisitSavedFrame,
               CallerListFrame, CallerDisconnectedFrame
  <2> QED BY <1>0, <1>3, <2>1, PerformSavedCounted, PerformSentCounted,
             CallerScanCounted, CallerFinishedCounted DEF CallerStep
<1> QED BY <1>1, <1>2, <1>3 DEF HandlerStep

\* Connect, Crash and stuttering: handlers end at most.
LEMMA EndingCounted ==
  ASSUME TypeInv, Counted, CallsAlike, \A i \in Job : job'[i] \in {job[i], Idle}
  PROVE  Counted'
<1>1. /\ HitsDiffer(Idle)
      /\ \A p \in Pid : ~ Holds(Idle, p)
  BY DEF HitsDiffer, Holds, Idle
<1>2. \A i \in Job : HitsDiffer(job'[i])
  BY <1>1 DEF Counted
<1>3. ASSUME NEW p \in Pid, call'[p] # None
      PROVE  call'[p].answers + Cardinality(Holders(p)') =< Cardinality(Job)
  <2> DEFINE H == Holders(p)
             G == Holders(p)'
  <2>1. G \in SUBSET H
    BY <1>1 DEF Holders
  <2>2. /\ IsFiniteSet(H) /\ Cardinality(H) \in Nat /\ Cardinality(Job) \in Nat
    BY HoldersFinite
  <2>3. call[p] # None /\ call'[p].answers = call[p].answers
    BY <1>3 DEF CallsAlike
  <2>4. call[p] \in CallRecord
    BY <2>3 DEF TypeInv, TypeOK, HistoryOK
  <2>5. /\ call[p].answers \in Nat
        /\ call[p].answers + Cardinality(H) =< Cardinality(Job)
    BY <2>3, <2>4 DEF CallRecord, Counted, AnswersCounted
  <2> SUFFICES call'[p].answers + Cardinality(G) =< Cardinality(Job)
    OBVIOUS
  <2> HIDE DEF H, G
  <2>6. Cardinality(G) =< Cardinality(H) /\ Cardinality(G) \in Nat
    BY <2>1, <2>2, FS_Subset, FS_CardinalityType
  <2> QED BY <2>2, <2>3, <2>5, <2>6
<1> QED BY <1>2, <1>3 DEF Counted, AnswersCounted

-----------------------------------------------------------------------------
(* The invariant and the theorem *)

LEMMA InitCounted == Init => Counted
<1> SUFFICES ASSUME Init PROVE Counted
  OBVIOUS
<1>1. \A j \in Job : HitsDiffer(job[j])
  BY DEF Init, Idle, HitsDiffer
<1>2. \A p \in Pid : call[p] = None
  BY DEF Init
<1> QED BY <1>1, <1>2 DEF Counted, AnswersCounted

LEMMA StepCounted ==
  ASSUME Inductive, TypeInv', Counted, [Next]_vars
  PROVE  Counted'
<1>0. TypeInv
  BY DEF Inductive, Owned
<1>1. CASE \E s \in Socket : Connect(s)
  <2>1. UNCHANGED <<job, call>>
    BY <1>1 DEF Connect, history
  <2> QED BY <1>0, <2>1, EndingCounted DEF CallsAlike
<1>2. CASE \E j \in Job : ActorRequest(j) \/ CallerRequest(j) \/ HandlerStep(j)
  BY <1>0, <1>2, RequestCounted, HandlerCounted
<1>3. CASE \E h \in Hub : Crash(h)
  <2>1. CallsAlike /\ \A i \in Job : job'[i] \in {job[i], Idle}
    BY <1>3, CrashAlike DEF Crash
  <2> QED BY <1>0, <2>1, EndingCounted
<1>4. CASE UNCHANGED vars
  <2>1. UNCHANGED <<job, call>>
    BY <1>4 DEF vars, history
  <2> QED BY <1>0, <2>1, EndingCounted DEF CallsAlike
<1> QED BY <1>1, <1>2, <1>3, <1>4 DEF Next

\* A call is answered no more often than there are handlers in flight at a time,
\* whatever the interleaving of RESULTs, disconnections and crashes: each that
\* found its record answers it once, and none finds it after the first answer.
THEOREM AnswersAreBounded == Spec => []AnswersBounded
<1>1. Swept /\ Inductive => TypeInv
  BY DEF Inductive, Owned
<1>2. Inductive /\ TypeInv' /\ Counted /\ [Next]_vars => Counted'
  BY StepCounted
<1>3. Inductive /\ Counted => AnswersBounded
  <2> SUFFICES ASSUME Inductive, Counted, NEW p \in Pid, call[p] # None
               PROVE  call[p].answers <= Cardinality(Job)
    BY DEF AnswersBounded
  <2>1. call[p] \in CallRecord
    BY DEF Inductive, Owned, TypeInv, TypeOK, HistoryOK
  <2>2. /\ call[p].answers \in Nat
        /\ call[p].answers + Cardinality(Holders(p)) =< Cardinality(Job)
    BY <2>1 DEF CallRecord, Counted, AnswersCounted
  <2> QED BY <2>2, HoldersFinite
<1> QED BY <1>1, <1>2, <1>3, InitCounted, CallsAgree, PTL DEF Spec
=============================================================================
