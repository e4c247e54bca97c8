---------------------------- MODULE CalmCallers -----------------------------
(***************************************************************************)
(* The hub, with the record of which clients gave it no time.  A client is  *)
(* hasty once it sent something, or hung up, while a handler of its socket  *)
(* was in flight, or left an actor while a call of its was recorded, or     *)
(* once the process its socket was on stopped.  What the hub promises about *)
(* the others, however their handlers interleave with those of everybody    *)
(* else.                                                                    *)
(***************************************************************************)
EXTENDS SugoHub

VARIABLE hasty  \* history: the sockets of hasty clients

varsWithHasty == <<vars, hasty>>

InFlight(s) == \E j \in Job : job[j] # Idle /\ job[j].sock = s

\* Socket s has call p recorded.
Recorded(p, s) == invocations[p] # None /\ invocations[p].callerSocket = s

\* Socket s sends what the step starts a handler for, or hangs up.
Sends(s) == \E j \in Job : job[j] = Idle /\ job'[j].sock = s

Leaves(s) == Sends(s) /\ \E j \in Job : job'[j] # job[j] /\ job'[j].ev = "LEAVE"

Hasten(s) ==
  \/ Sends(s) /\ InFlight(s)
  \/ Leaves(s) /\ \E p \in Pid : Recorded(p, s)

InitWithHasty == Init /\ hasty = {}

CallerRequestNoted(j) ==
  /\ CallerRequest(j)
  /\ hasty' = hasty \cup {s \in CallerSocket : Hasten(s)}

CrashNoted(h) ==
  /\ Crash(h)
  /\ hasty' = hasty \cup {s \in CallerSocket : HubOf[s] = h /\
                            (conn[s] = "open" \/ InFlight(s))}

Unnoted ==
  /\ UNCHANGED hasty
  /\ \/ \E s \in Socket : Connect(s)
     \/ \E j \in Job : ActorRequest(j) \/ HandlerStep(j)

NextWithHasty ==
  \/ Unnoted
  \/ \E j \in Job : CallerRequestNoted(j)
  \/ \E h \in Hub : CrashNoted(h)

CalmSpec == InitWithHasty /\ [][NextWithHasty]_varsWithHasty

-----------------------------------------------------------------------------
\* Nothing is left of a client that was not hasty and is gone, once the handler
\* of its DISCONNECT has ended: no caller, no index entry, no invocation.
CallersTidy ==
  \A s \in CallerSocket :
    conn[s] = "gone" /\ s \notin hasty /\ ~ InFlight(s) =>
      /\ callerIdx[s] = None
      /\ \A c \in CallerKey : callers[c] # None => callers[c].socketId # s
      /\ \A p \in Pid : ~ Recorded(p, s)

\* Of handlers that run one at a time: a call of a client that is not hasty to an
\* actor whose socket is gone was answered, unless the client is gone too; nobody
\* is left to wait for an actor that cannot answer (DISCONNECT of actors).
GoneCallsAnswered ==
  Quiet => \A p \in Pid :
    /\ call[p] # None
    /\ call[p].to # None
    /\ conn[call[p].to] = "gone"
    /\ conn[call[p].socket] = "open"
    /\ call[p].socket \notin hasty
    => call[p].answers > 0
=============================================================================
