----------------------------- MODULE Admission ------------------------------
(***************************************************************************)
(* How a socket gets into a namespace of the hub: the interceptors the     *)
(* application registers for the url (lib/sugo_hub.js, constructor) are    *)
(* composed into one middleware (lib/helpers/io_interceptor.js), which     *)
(* awaits them in order and lets the socket in, or refuses it.             *)
(***************************************************************************)
EXTENDS Naturals, Sequences

CONSTANTS
  Socket,        \* sockets that may connect to the hub
  Url,           \* namespaces: /actors, /callers, /observers
  UrlOf,         \* the namespace each socket connects to
  Interceptor,   \* functions the application intercepts sockets with
  interceptors   \* options.interceptors: url -> the functions, in order

ASSUME UrlOfSockets == UrlOf \in [Socket -> Url]
ASSUME InterceptorLists == interceptors \in [Url -> Seq(Interceptor)]

VARIABLES
  sock,    \* socket -> "away", "asking", "open", "refused" or "gone"
  agreed   \* the interceptors each socket has passed, in order

admission == <<sock, agreed>>

\* ioInterceptor(...list): the list is spread, and the function takes one
\* parameter.
ioInterceptor(list) == IF list = <<>> THEN <<>> ELSE <<Head(list)>>

Handlers(s) == ioInterceptor(interceptors[UrlOf[s]])

Connect(s) ==
  /\ sock[s] = "away"
  /\ sock' = [sock EXCEPT ![s] = "asking"]
  /\ UNCHANGED agreed

Pending(s) == sock[s] = "asking" /\ Len(agreed[s]) < Len(Handlers(s))

Agree(s) ==
  /\ Pending(s)
  /\ agreed' = [agreed EXCEPT ![s] = Append(@, Handlers(s)[Len(@) + 1])]
  /\ UNCHANGED sock

\* Fault: the error of an interceptor is swallowed, and next() lets it in.
RefuseSwallowed(s) ==
  /\ Pending(s)
  /\ sock' = [sock EXCEPT ![s] = "open"]
  /\ UNCHANGED agreed

\* An interceptor throws or rejects: next(err).
Refuse(s) ==
  /\ Pending(s)
  /\ sock' = [sock EXCEPT ![s] = "refused"]
  /\ UNCHANGED agreed

\* next(): the namespace hands the socket to its connector.
LetIn(s) ==
  /\ sock[s] = "asking"
  /\ Len(agreed[s]) = Len(Handlers(s))
  /\ sock' = [sock EXCEPT ![s] = "open"]
  /\ UNCHANGED agreed
=============================================================================
