---------------------------- MODULE CallLifecycle ---------------------------
(***************************************************************************)
(* What the hub promises about the calls it relays, whatever its handlers   *)
(* interleave: a call belongs to the socket that performed it; it is open   *)
(* from the moment it is recorded until it is closed, once and for all; a   *)
(* reply goes to its owner only, and only once the call is closed.  A call  *)
(* may be replied to more than once, and may be closed without a reply.     *)
(***************************************************************************)
CONSTANTS Pid, CallerSocket, None

VARIABLES
  owner,   \* the socket that performed each call, None before
  life,    \* "unborn", "open" or "closed"
  replies  \* the <<pid, socket>> replies of the latest step

vars == <<owner, life, replies>>

Init ==
  /\ owner = [p \in Pid |-> None]
  /\ life = [p \in Pid |-> "unborn"]
  /\ replies = {}

Own(p, s) ==
  /\ owner[p] = None
  /\ owner' = [owner EXCEPT ![p] = s]
  /\ replies' = {}
  /\ UNCHANGED life

Open(p) ==
  /\ owner[p] # None
  /\ life[p] = "unborn"
  /\ life' = [life EXCEPT ![p] = "open"]
  /\ replies' = {}
  /\ UNCHANGED owner

Close(p) ==
  /\ life[p] = "open"
  /\ life' = [life EXCEPT ![p] = "closed"]
  /\ replies' = {}
  /\ UNCHANGED owner

Reply(p) ==
  /\ life[p] = "closed"
  /\ replies' = {<<p, owner[p]>>}
  /\ UNCHANGED <<owner, life>>

Quiet == replies' = {} /\ UNCHANGED <<owner, life>>

Next ==
  \/ \E p \in Pid :
       \/ \E s \in CallerSocket : Own(p, s)
       \/ Open(p) \/ Close(p) \/ Reply(p)
  \/ Quiet

Spec == Init /\ [][Next]_vars
=============================================================================
