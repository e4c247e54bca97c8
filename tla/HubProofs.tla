------------------------------ MODULE HubProofs -------------------------------
(***************************************************************************)
(* The life of a hub process: its local actors are there from listen to    *)
(* close (LocalsServed) and leave before the server does (LocalsLeaveFirst).*)
(* And who gets in: sockets that passed the interceptors of their url, of  *)
(* lists of one at most (EveryInterceptorAgreed).  That the wait of close  *)
(* is long enough is not proved: it is not (run unflushed).                *)
(***************************************************************************)
EXTENDS HubProcess, SequenceTheorems, TLAPS

\* What the phases mean for the loop over the local actors and the server.
PhaseShape ==
  /\ phase \in {"new", "binding"} => turn = 1
  /\ phase = "up" => turn = Len(localActors) + 1
  /\ server = "closed" <=> phase \in {"closing", "flushing", "quit"}

\* Local actors the loop is done with: connected, or disconnected.
TurnsTaken ==
  /\ phase \in {"connecting", "up"} =>
       \A n \in 1..(turn - 1) : localActors[n] \notin misnamed /\ sock[localActors[n]] = "open"
  /\ phase = "disconnecting" => \A n \in 1..(turn - 1) : sock[localActors[n]] # "open"

\* Only the local actor whose turn it is may be about to get in.
LocalsAskInTurn ==
  \A s \in Local : sock[s] = "asking" =>
    /\ phase = "connecting"
    /\ turn <= Len(localActors)
    /\ s = localActors[turn]

MisnamedStayOut == \A s \in misnamed : sock[s] = "away"

ProcessInv ==
  /\ PhaseShape
  /\ TurnsTaken
  /\ LocalsAskInTurn
  /\ MisnamedStayOut
  /\ LocalsLeaveFirst

IInv ==
  /\ TypeOK
  /\ ProcessInv

-----------------------------------------------------------------------------
(* The constants *)

LEMMA LocalAt ==
  /\ Len(localActors) \in Nat
  /\ \A n \in 1..Len(localActors) : /\ localActors[n] \in Socket
                                    /\ localActors[n] \in Local
  /\ Local \subseteq Socket
BY LocalActorSockets DEF Local

\* What a DISCONNECT handler has to look up is a number of finds.
LEMMA LookupsCounted ==
  ASSUME NEW s \in Socket, NEW listed \in 0..MaxListed[s], NEW calls \in 0..MaxCalls[s]
  PROVE  Lookups(s, listed, calls) \in Nat
<1>1. MaxListed[s] \in Nat /\ MaxCalls[s] \in Nat
  BY Bounds
<1> QED BY <1>1 DEF Lookups

-----------------------------------------------------------------------------
(* Types *)

LEMMA AdmissionTyped ==
  ASSUME TypeOK, NEW s \in Socket, Agree(s) \/ Refuse(s) \/ LetIn(s)
  PROVE  /\ sock' \in [Socket -> {"away", "asking", "open", "refused", "gone"}]
         /\ agreed' \in [Socket -> Seq(Interceptor)]
<1>1. CASE Agree(s)
  <2>1. interceptors[UrlOf[s]] \in Seq(Interceptor)
    BY UrlOfSockets, InterceptorLists
  <2>2. Handlers(s) \in Seq(Interceptor)
    BY <2>1 DEF Handlers, ioInterceptor
  <2>3. agreed[s] \in Seq(Interceptor) /\ Len(agreed[s]) + 1 \in 1..Len(Handlers(s))
    BY <1>1, <2>2 DEF Agree, Pending, TypeOK
  <2>4. Append(agreed[s], Handlers(s)[Len(agreed[s]) + 1]) \in Seq(Interceptor)
    BY <2>2, <2>3
  <2> QED BY <1>1, <2>4 DEF Agree, TypeOK
<1>2. CASE Refuse(s)
  BY <1>2 DEF Refuse, TypeOK
<1>3. CASE LetIn(s)
  BY <1>3 DEF LetIn, TypeOK
<1> QED BY <1>1, <1>2, <1>3

LEMMA FirstTurn == 1 \in 1..(Len(localActors) + 1)
BY LocalAt

LEMMA LeaveTyped ==
  ASSUME TypeOK, NEW s \in Socket, Leave(s)
  PROVE  /\ sock' \in [Socket -> {"away", "asking", "open", "refused", "gone"}]
         /\ agreed' = agreed
         /\ todo' \in [Socket -> Nat]
         /\ wait' \in [Socket -> 0..RetryTicks]
         /\ timer' = timer
<1>1. /\ sock' \in [Socket -> {"away", "asking", "open", "refused", "gone"}]
      /\ agreed' = agreed
      /\ timer' = timer
  BY DEF Leave, TypeOK
<1>2. CASE wait' = [wait EXCEPT ![s] = RetryTicks] /\ UNCHANGED todo
  BY <1>1, <1>2 DEF TypeOK, RetryTicks
<1>3. CASE /\ \E listed \in 0..MaxListed[s], calls \in 0..MaxCalls[s] :
                todo' = [todo EXCEPT ![s] = Lookups(s, listed, calls)]
           /\ UNCHANGED wait
  BY <1>1, <1>3, LookupsCounted DEF TypeOK
<1> QED BY <1>2, <1>3 DEF Leave

LEMMA TypeHolds ==
  ASSUME TypeOK, Next
  PROVE  TypeOK'
<1>0. UNCHANGED misnamed
  BY DEF Next, HubStep, SocketStep, ClientStep, ApplicationStep, TimeStep
<1> USE <1>0, LocalAt
    DEF TypeOK, lifecycle, cleanup, admission
<1>1. CASE HubStep
  <2>1. CASE Bound
    BY <2>1 DEF Bound, Goes
  <2>2. CASE BindFails
    BY <2>2 DEF BindFails, Goes
  <2>3. CASE ConnectLocal
    BY <2>3 DEF ConnectLocal, Connect, Current
  <2>4. CASE LocalConnected
    BY <2>4 DEF LocalConnected, More, Current
  <2>5. CASE LocalFails
    BY <2>5 DEF LocalFails, Goes
  <2>6. CASE Listened
    BY <2>6 DEF Listened, Goes
  <2>7. CASE DisconnectLocal
    BY <2>7, LeaveTyped, SMTT(30) DEF DisconnectLocal, More, Current
  <2>8. CASE DisconnectAbsent
    BY <2>8 DEF DisconnectAbsent, More
  <2>9. CASE StopServer
    BY <2>9 DEF StopServer, Goes
  <2>10. CASE StopServerFails
    BY <2>10 DEF StopServerFails, Goes
  <2>11. CASE ServerClosed
    BY <2>11 DEF ServerClosed, Goes, FlushTicks
  <2>12. CASE Quit
    BY <2>12 DEF Quit, Goes
  <2> QED BY <1>1, <2>1, <2>2, <2>3, <2>4, <2>5, <2>6, <2>7, <2>8, <2>9, <2>10,
            <2>11, <2>12 DEF HubStep
<1>2. CASE ApplicationStep
  <2>1. CASE Listen
    BY <2>1 DEF Listen, Goes
  <2>2. CASE Close
    BY <2>2, FirstTurn DEF Close, Goes
  <2> QED BY <1>2, <2>1, <2>2 DEF ApplicationStep
<1>3. CASE TimeStep
  BY <1>3 DEF TimeStep, Tick, Passed, RetryTicks, FlushTicks
<1>4. ASSUME NEW s \in Socket, ClientStep(s) \/ SocketStep(s)
      PROVE  TypeOK'
  <2>1. CASE Intercept(s)
    BY <2>1, AdmissionTyped DEF Intercept
  <2>2. CASE Cut(s)
    BY <2>2, LeaveTyped DEF Cut, GiveUp
  <2>3. CASE Hit(s)
    BY <2>3 DEF Hit, Runnable
  <2>4. CASE Miss(s)
    BY <2>4 DEF Miss, Runnable, RetryTicks
  <2>5. CASE Dial(s)
    BY <2>5 DEF Dial, Connect
  <2>6. CASE HangUp(s)
    BY <2>6, LeaveTyped DEF HangUp, GiveUp
  <2> QED BY <1>4, <2>1, <2>2, <2>3, <2>4, <2>5, <2>6 DEF ClientStep, SocketStep
<1> QED BY <1>1, <1>2, <1>3, <1>4 DEF Next

-----------------------------------------------------------------------------
(* Phases, the local actors, and who is in *)

LEMMA LocalsLeft ==
  ASSUME TypeOK, TurnsTaken, phase = "disconnecting", ~More, NEW s \in Local
  PROVE  sock[s] # "open"
<1>1. PICK n \in 1..Len(localActors) : s = localActors[n]
  BY DEF Local
<1>2. n \in 1..(turn - 1)
  BY <1>1, LocalAt DEF TypeOK, More
<1> QED BY <1>1, <1>2 DEF TurnsTaken

LEMMA LocalsIn ==
  ASSUME TypeOK, PhaseShape, TurnsTaken, phase = "up", NEW s \in Local
  PROVE  s \notin misnamed /\ sock[s] = "open"
<1>1. PICK n \in 1..Len(localActors) : s = localActors[n]
  BY DEF Local
<1>2. n \in 1..(turn - 1)
  BY <1>1, LocalAt DEF TypeOK, PhaseShape
<1> QED BY <1>1, <1>2 DEF TurnsTaken

LEMMA ProcessHolds ==
  ASSUME TypeOK, ProcessInv, Next
  PROVE  ProcessInv'
<1>0. UNCHANGED misnamed
  BY DEF Next, HubStep, SocketStep, ClientStep, ApplicationStep, TimeStep
<1> USE <1>0, LocalAt
    DEF ProcessInv, PhaseShape, TurnsTaken, LocalsAskInTurn, MisnamedStayOut,
        LocalsLeaveFirst, TypeOK, lifecycle, cleanup, admission
<1>1. CASE HubStep
  <2>1. CASE Bound
    BY <2>1 DEF Bound, Goes
  <2>2. CASE BindFails
    BY <2>2 DEF BindFails, Goes
  <2>3. CASE ConnectLocal
    BY <2>3 DEF ConnectLocal, Connect, Current, More
  <2>4. CASE LocalConnected
    BY <2>4 DEF LocalConnected, More, Current
  <2>5. CASE LocalFails
    BY <2>5 DEF LocalFails, Goes, More, Current
  <2>6. CASE Listened
    BY <2>6 DEF Listened, Goes, More
  <2>7. CASE DisconnectLocal
    BY <2>7 DEF DisconnectLocal, More, Current, Leave
  <2>8. CASE DisconnectAbsent
    BY <2>8 DEF DisconnectAbsent, More, Current
  <2>9. CASE StopServer
    BY <2>9, LocalsLeft DEF StopServer, Goes, More
  <2>10. CASE StopServerFails
    BY <2>10 DEF StopServerFails, Goes
  <2>11. CASE ServerClosed
    BY <2>11 DEF ServerClosed, Goes
  <2>12. CASE Quit
    BY <2>12 DEF Quit, Goes
  <2> QED BY <1>1, <2>1, <2>2, <2>3, <2>4, <2>5, <2>6, <2>7, <2>8, <2>9, <2>10,
            <2>11, <2>12 DEF HubStep
<1>2. CASE ApplicationStep
  <2>1. CASE Listen
    BY <2>1 DEF Listen, Goes
  <2>2. CASE Close
    BY <2>2 DEF Close, Goes
  <2> QED BY <1>2, <2>1, <2>2 DEF ApplicationStep
<1>3. CASE TimeStep
  BY <1>3 DEF TimeStep, Tick, Runnable, Passed
<1>4. ASSUME NEW s \in Socket, ClientStep(s) \/ SocketStep(s)
      PROVE  ProcessInv'
  <2>1. CASE Intercept(s)
    BY <2>1, SMTT(30) DEF Intercept, Agree, Refuse, LetIn, Pending
  <2>2. CASE Cut(s)
    BY <2>2 DEF Cut, Leave, GiveUp
  <2>3. CASE Hit(s)
    BY <2>3 DEF Hit, Runnable
  <2>4. CASE Miss(s)
    BY <2>4 DEF Miss, Runnable
  <2>5. CASE Dial(s)
    BY <2>5 DEF Dial, Connect
  <2>6. CASE HangUp(s)
    BY <2>6, SMTT(30) DEF HangUp, Leave, GiveUp
  <2> QED BY <1>4, <2>1, <2>2, <2>3, <2>4, <2>5, <2>6 DEF ClientStep, SocketStep
<1> QED BY <1>1, <1>2, <1>3, <1>4 DEF Next

-----------------------------------------------------------------------------

LEMMA InitHolds == Init => IInv
<1> SUFFICES ASSUME Init PROVE IInv
  OBVIOUS
<1>1. TypeOK
  <2>1. 0 \in 0..RetryTicks /\ 0 \in 0..FlushTicks
    BY DEF RetryTicks, FlushTicks
  <2>2. <<>> \in Seq(Interceptor)
    OBVIOUS
  <2>3. misnamed \in SUBSET Local
    BY DEF Init
  <2>4. /\ agreed \in [Socket -> Seq(Interceptor)]
        /\ sock \in [Socket -> {"away", "asking", "open", "refused", "gone"}]
        /\ todo \in [Socket -> Nat]
        /\ wait \in [Socket -> 0..RetryTicks]
    BY <2>1, <2>2 DEF Init
  <2> QED BY <2>1, <2>3, <2>4, FirstTurn DEF Init, TypeOK
<1>2. ProcessInv
  BY <1>1, LocalAt DEF Init, TypeOK, ProcessInv, PhaseShape, TurnsTaken, LocalsAskInTurn,
                       MisnamedStayOut, LocalsLeaveFirst, Local
<1> QED BY <1>1, <1>2 DEF IInv

LEMMA NextHolds == IInv /\ [Next]_vars => IInv'
<1> SUFFICES ASSUME IInv, [Next]_vars PROVE IInv'
  OBVIOUS
<1>1. CASE Next
  BY <1>1, TypeHolds, ProcessHolds DEF IInv
<1>2. CASE UNCHANGED vars
  BY <1>2 DEF vars, admission, lifecycle, cleanup, IInv, TypeOK, ProcessInv, PhaseShape,
              TurnsTaken, LocalsAskInTurn, MisnamedStayOut, LocalsLeaveFirst
<1> QED BY <1>1, <1>2

\* The phases, the loops over the local actors and the sockets agree at every
\* moment of the life of the process.
THEOREM LifeInvariant == Spec => []IInv
BY InitHolds, NextHolds, PTL DEF Spec

\* No local actor is connected to a server that was closed.
THEOREM LocalActorsLeaveFirst == Spec => []LocalsLeaveFirst
<1>1. IInv => LocalsLeaveFirst
  BY DEF IInv, ProcessInv
<1> QED BY <1>1, LifeInvariant, PTL

\* When listen has resolved every local actor is connected, for any number
\* of them.
THEOREM LocalActorsAreServed == Spec => []LocalsServed
<1>1. IInv => LocalsServed
  <2>1. ASSUME IInv, phase = "up" PROVE misnamed = {} /\ \A s \in Local : sock[s] = "open"
    BY <2>1, LocalsIn DEF IInv, ProcessInv, TypeOK
  <2> QED BY <2>1 DEF LocalsServed
<1> QED BY <1>1, LifeInvariant, PTL

\* Whatever the process goes through, its variables stay well-typed.
THEOREM ProcessTyped == Spec => []TypeOK
BY LifeInvariant, PTL DEF IInv

-----------------------------------------------------------------------------
(* Interceptors *)

\* A socket has passed the first interceptors of the composed middleware, all
\* of them once it is in.
AgreedInOrder ==
  \A s \in Socket :
    /\ Len(agreed[s]) <= Len(Handlers(s))
    /\ \A n \in 1..Len(agreed[s]) : agreed[s][n] = Handlers(s)[n]
    /\ sock[s] = "open" => Len(agreed[s]) = Len(Handlers(s))

LEMMA HandlersTyped ==
  ASSUME NEW s \in Socket
  PROVE  Handlers(s) \in Seq(Interceptor)
<1>1. interceptors[UrlOf[s]] \in Seq(Interceptor)
  BY UrlOfSockets, InterceptorLists
<1> QED BY <1>1 DEF Handlers, ioInterceptor

\* Nothing but an interceptor that agrees, and the end of the list, gets a
\* socket further in.
LEMMA AdmissionFrame ==
  ASSUME TypeOK, Next
  PROVE  \/ /\ UNCHANGED agreed
            /\ \A s \in Socket : sock'[s] = "open" => sock[s] = "open"
         \/ \E s \in Socket : Agree(s) \/ LetIn(s)
<1> USE LocalAt DEF TypeOK, admission
<1>1. CASE HubStep
  <2>1. CASE ConnectLocal
    BY <2>1 DEF ConnectLocal, Connect, Current, More
  <2>2. CASE DisconnectLocal
    BY <2>2 DEF DisconnectLocal, Leave, Current, More
  <2>3. CASE \/ Bound \/ BindFails \/ LocalConnected \/ LocalFails \/ Listened
             \/ DisconnectAbsent \/ StopServer \/ StopServerFails \/ ServerClosed \/ Quit
    BY <2>3 DEF Bound, BindFails, LocalConnected, LocalFails, Listened, DisconnectAbsent,
                StopServer, StopServerFails, ServerClosed, Quit
  <2> QED BY <1>1, <2>1, <2>2, <2>3 DEF HubStep
<1>2. CASE ApplicationStep \/ TimeStep
  BY <1>2 DEF ApplicationStep, Listen, Close, TimeStep, Tick
<1>3. ASSUME NEW s \in Socket, ClientStep(s)
      PROVE  UNCHANGED agreed /\ \A t \in Socket : sock'[t] = "open" => sock[t] = "open"
  BY <1>3 DEF ClientStep, Dial, HangUp, Connect, Leave, GiveUp
<1>4. ASSUME NEW s \in Socket, Cut(s) \/ Hit(s) \/ Miss(s) \/ Refuse(s)
      PROVE  UNCHANGED agreed /\ \A t \in Socket : sock'[t] = "open" => sock[t] = "open"
  BY <1>4 DEF Cut, Leave, GiveUp, Hit, Miss, Refuse
<1> QED BY <1>1, <1>2, <1>3, <1>4 DEF Next, SocketStep, Intercept

LEMMA AgreedInOrderHolds ==
  ASSUME TypeOK, AgreedInOrder, [Next]_vars
  PROVE  AgreedInOrder'
<1>0. \A s \in Socket : /\ Handlers(s) \in Seq(Interceptor) /\ Handlers(s)' = Handlers(s)
                        /\ agreed[s] \in Seq(Interceptor)
  BY HandlersTyped DEF Handlers, TypeOK
<1>1. CASE UNCHANGED agreed /\ \A s \in Socket : sock'[s] = "open" => sock[s] = "open"
  BY <1>0, <1>1 DEF AgreedInOrder
<1>2. ASSUME NEW t \in Socket, LetIn(t) PROVE AgreedInOrder'
  <2>1. UNCHANGED agreed /\ Len(agreed[t]) = Len(Handlers(t))
    BY <1>2 DEF LetIn
  <2>2. \A s \in Socket \ {t} : sock'[s] = sock[s]
    BY <1>2 DEF LetIn, TypeOK
  <2> QED BY <1>0, <2>1, <2>2 DEF AgreedInOrder
<1>3. ASSUME NEW t \in Socket, Agree(t) PROVE AgreedInOrder'
  <2> DEFINE n == Len(agreed[t]) + 1
  <2>1. /\ Len(agreed[t]) \in Nat /\ Len(agreed[t]) < Len(Handlers(t))
        /\ sock' = sock /\ sock[t] = "asking"
        /\ agreed'[t] = Append(agreed[t], Handlers(t)[n])
        /\ \A s \in Socket \ {t} : agreed'[s] = agreed[s]
    BY <1>0, <1>3 DEF Agree, Pending, TypeOK
  <2>2. n \in 1..Len(Handlers(t)) /\ Handlers(t)[n] \in Interceptor
    BY <1>0, <2>1
  <2>3. /\ Len(agreed'[t]) = n /\ agreed'[t][n] = Handlers(t)[n]
        /\ \A m \in 1..Len(agreed[t]) : agreed'[t][m] = agreed[t][m]
    BY <1>0, <2>1, <2>2
  <2>4. \A m \in 1..n : agreed'[t][m] = Handlers(t)[m]
    BY <2>1, <2>3 DEF AgreedInOrder
  <2>5. ASSUME NEW s \in Socket \ {t}
        PROVE  agreed'[s] = agreed[s] /\ sock'[s] = sock[s] /\ Handlers(s)' = Handlers(s)
    BY <1>0, <2>1
  <2>6. n <= Len(Handlers(t)) /\ Handlers(t)' = Handlers(t) /\ sock'[t] # "open"
    BY <1>0, <2>1, <2>2
  <2> HIDE DEF n
  <2>7. ASSUME NEW s \in Socket
        PROVE  /\ Len(agreed'[s]) <= Len(Handlers(s)')
               /\ \A m \in 1..Len(agreed'[s]) : agreed'[s][m] = Handlers(s)'[m]
               /\ sock'[s] = "open" => Len(agreed'[s]) = Len(Handlers(s)')
    <3>1. CASE s = t
      BY <2>3, <2>4, <2>6, <3>1
    <3>2. CASE s # t
      BY <2>5, <3>2 DEF AgreedInOrder
    <3> QED BY <3>1, <3>2
  <2> QED BY <2>7 DEF AgreedInOrder
<1> QED BY <1>1, <1>2, <1>3, AdmissionFrame DEF vars, admission

\* A list of at most one element is its head and nothing more.
LEMMA OneOfOne ==
  ASSUME NEW S, NEW list \in Seq(S), Len(list) <= 1, list # <<>>
  PROVE  <<Head(list)>> = list
<1>0. Len(list) \in Nat /\ Len(list) # 0
  BY LenProperties, EmptySeq
<1>1. Len(list) = 1
  BY <1>0
<1>2. Head(list) = list[1] /\ Head(list) \in S
  BY <1>1
<1>3. <<Head(list)>> \in Seq(S) /\ Len(<<Head(list)>>) = 1 /\ <<Head(list)>>[1] = Head(list)
  BY <1>2
<1> QED BY <1>1, <1>2, <1>3, SeqEqual

\* A socket that is in has passed, in order, every interceptor of its url: of
\* lists of one at most.  Of longer lists only the first is asked.
THEOREM ShortListsAgreed ==
  ASSUME \A u \in Url : Len(interceptors[u]) <= 1
  PROVE  Spec => []EveryInterceptorAgreed
<1>1. Init => AgreedInOrder
  <2> SUFFICES ASSUME Init, NEW s \in Socket
               PROVE  /\ Len(agreed[s]) <= Len(Handlers(s))
                      /\ \A n \in 1..Len(agreed[s]) : agreed[s][n] = Handlers(s)[n]
                      /\ sock[s] # "open"
    BY DEF AgreedInOrder
  <2>1. Len(Handlers(s)) \in Nat
    BY HandlersTyped
  <2>2. agreed[s] = <<>> /\ sock[s] = "away"
    BY DEF Init
  <2> QED BY <2>1, <2>2
<1>2. TypeOK /\ AgreedInOrder => EveryInterceptorAgreed
  <2> SUFFICES ASSUME TypeOK, AgreedInOrder, NEW s \in Socket, sock[s] = "open"
               PROVE  agreed[s] = interceptors[UrlOf[s]]
    BY DEF EveryInterceptorAgreed
  <2> DEFINE list == interceptors[UrlOf[s]]
  <2>1. list \in Seq(Interceptor) /\ Len(list) <= 1
    BY UrlOfSockets, InterceptorLists
  <2> HIDE DEF list
  <2>2. ioInterceptor(list) = list
    BY <2>1, OneOfOne DEF ioInterceptor
  <2>4. Handlers(s) = list
    BY <2>2 DEF Handlers, list
  <2>3. /\ agreed[s] \in Seq(Interceptor) /\ Len(agreed[s]) = Len(Handlers(s))
        /\ \A n \in 1..Len(agreed[s]) : agreed[s][n] = Handlers(s)[n]
    BY DEF TypeOK, AgreedInOrder
  <2> QED BY <2>1, <2>3, <2>4 DEF list
<1> QED BY <1>1, <1>2, AgreedInOrderHolds, ProcessTyped, PTL DEF Spec
=============================================================================
