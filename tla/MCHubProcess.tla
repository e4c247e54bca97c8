--------------------------- MODULE MCHubProcess ----------------------------
(***************************************************************************)
(* A small instance of HubProcess for TLC: two local actors, a remote actor *)
(* and a remote caller, whose names are on one list each when they hang up; *)
(* the caller has calls pending, no more than four with SomeCalls.          *)
(***************************************************************************)
EXTENDS HubProcess

CONSTANTS la1, la2, ra, rc, i1, i2

Locals == <<la1, la2>>
UrlOfEach == [s \in Socket |-> IF s = rc THEN "callers" ELSE "actors"]
ListedEach == [s \in Socket |-> 1]
OneCall == [s \in Socket |-> IF s = rc THEN 1 ELSE 0]
SomeCalls == [s \in Socket |-> IF s = rc THEN 4 ELSE 0]
OneInterceptor == [u \in Url |-> IF u = "actors" THEN <<i1>> ELSE <<>>]
TwoInterceptors == [u \in Url |-> IF u = "actors" THEN <<i1, i2>> ELSE <<>>]
=============================================================================
