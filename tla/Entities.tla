------------------------------ MODULE Entities ------------------------------
(***************************************************************************)
(* The JSON records the hub keeps in its storage (lib/entities) and the    *)
(* in-memory updates its handlers make to them between a read and a save.  *)
(* Timestamps (setupAt, teardownAt, performedAt) are left out: nothing in  *)
(* lib reads them.                                                         *)
(***************************************************************************)
EXTENDS Naturals, Sequences, SequencesExt

CONSTANTS
  ActorKey,     \* keys actors greet the hub with
  CallerKey,    \* uuids the hub draws for callers
  Pid,          \* uuids the hub draws for invocations
  ActorSocket,  \* ids of sockets connected to the actor endpoint
  CallerSocket, \* ids of sockets connected to the caller endpoint
  SpecName,     \* names of the interfaces an actor declares
  None          \* null, and whatever is absent

Actor == [key : ActorKey, socketId : ActorSocket,
          callers : Seq(CallerKey), specs : SUBSET SpecName]

Caller == [key : CallerKey, socketId : CallerSocket, actors : Seq(ActorKey)]

Invocation == [pid : Pid, caller : CallerKey, callerSocket : CallerSocket]

\* new ActorEntity({key}) and new CallerEntity({key}), with the socketId that
\* setupActor and joinToActor assign before either is saved.
NewActor(key, socketId) ==
  [key |-> key, socketId |-> socketId, callers |-> <<>>, specs |-> {}]

NewCaller(key, socketId) ==
  [key |-> key, socketId |-> socketId, actors |-> <<>>]

(***************************************************************************)
(* list.splice(list.indexOf(e), 1): the first occurrence of e goes; when   *)
(* there is none indexOf is -1, and splice(-1, 1) drops the last element.  *)
(***************************************************************************)
Spliced(list, e) ==
  IF e \in ToSet(list) THEN RemoveFirst(list, e) ELSE Front(list)

AddCaller(actor, caller) ==
  [actor EXCEPT !.callers = Append(@, caller.key)]

RemoveCaller(actor, caller) ==
  [actor EXCEPT !.callers = Spliced(@, caller.key)]

AddActor(caller, actor) ==
  [caller EXCEPT !.actors = Append(@, actor.key)]

RemoveActor(caller, actor) ==
  [caller EXCEPT !.actors = Spliced(@, actor.key)]
=============================================================================
