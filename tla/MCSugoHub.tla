----------------------------- MODULE MCSugoHub ------------------------------
(***************************************************************************)
(* Small instances of SugoHub for TLC.                                      *)
(***************************************************************************)
EXTENDS SugoHub

CONSTANTS k1, k2, c1, c2, c3, p1, p2, as1, as2, cs1, cs2, n1, h1, h2, j1, j2

OneHub == [s \in Socket |-> h1]
\* Each hub has one actor socket and one caller socket.
TwoHubs == [s \in Socket |-> IF s \in {as1, cs1} THEN h1 ELSE h2]
EachOwnKey == [s \in ActorSocket |-> IF s = as1 THEN {k1} ELSE {k2}]
SameKey == [s \in ActorSocket |-> {k1}]

\* Jobs, uuids and the sockets of callers are interchangeable where every
\* socket is on one hub; for the safety runs only.
Alike == Permutations(Job) \cup Permutations(CallerKey)
           \cup Permutations(Pid) \cup Permutations(CallerSocket)
AlikeJobs == Permutations(Job) \cup Permutations(CallerKey)
=============================================================================
