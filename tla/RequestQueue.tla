---------------------------- MODULE RequestQueue ----------------------------
(***************************************************************************)
(* What the pipeline of a local proxy promises of the requests that a      *)
(* browser sends over its connections: each is sent on at most once, on    *)
(* the connection it came on, in the order it came; a connection that is   *)
(* lost loses what is waiting on it, and nothing of another one's.         *)
(*                                                                         *)
(* No more than the order is promised of free requests: those that the     *)
(* user may send again, and those that ask the proxy itself for something. *)
(***************************************************************************)
EXTENDS Naturals, Sequences

CONSTANTS Conns, Reqs

VARIABLES
  queue,   \* per connection: received and not sent on yet
  flight,  \* per connection: sent on and not answered yet
  done,    \* requests that have been sent on and are not free
  free     \* the free requests

vars == <<queue, flight, done, free>>

In(q, id) == \E i \in DOMAIN q : q[i] = id

\* Neither sent on nor waiting to be
New(id) == id \notin done /\ \A c \in Conns : ~In(queue[c], id)

\* Whether a request is free is settled when it arrives.
Settled == free \subseteq free' /\ \A id \in free' \ free : New(id)

Init ==
  /\ queue = [c \in Conns |-> <<>>]
  /\ flight = [c \in Conns |-> <<>>]
  /\ done = {} /\ free = {}

\* A request is received; keep says that it is for the server that the ones
\* before it are for, so that these are kept.
Receive(c, id, keep) ==
  /\ Settled
  /\ id \in free' \/ New(id)
  /\ queue' = [queue EXCEPT ![c] = IF keep THEN Append(@, id) ELSE <<id>>]
  /\ flight' = [flight EXCEPT ![c] = IF keep THEN @ ELSE <<>>]
  /\ UNCHANGED done

SendOn(c) ==
  /\ queue[c] # <<>>
  /\ queue' = [queue EXCEPT ![c] = Tail(@)]
  /\ flight' = [flight EXCEPT ![c] = Append(@, Head(queue[c]))]
  /\ done' = done \cup ({Head(queue[c])} \ free)
  /\ UNCHANGED free

\* The proxy itself answers a free request.
Serve(c) ==
  /\ queue[c] # <<>> /\ Head(queue[c]) \in free
  /\ queue' = [queue EXCEPT ![c] = Tail(@)]
  /\ UNCHANGED <<flight, done, free>>

Answer(c) ==
  /\ flight[c] # <<>>
  /\ flight' = [flight EXCEPT ![c] = Tail(@)]
  /\ UNCHANGED <<queue, done, free>>

\* The connections in S, or their servers' ends, are lost, perhaps by a request
\* that could not be received.
Lose(S) ==
  /\ Settled
  /\ queue' = [c \in Conns |-> IF c \in S THEN <<>> ELSE queue[c]]
  /\ flight' = [c \in Conns |-> IF c \in S THEN <<>> ELSE flight[c]]
  /\ UNCHANGED done

Next ==
  \/ \E c \in Conns : \/ SendOn(c) \/ Serve(c) \/ Answer(c)
                      \/ \E id \in Reqs, keep \in BOOLEAN : Receive(c, id, keep)
  \/ \E S \in SUBSET Conns : Lose(S)

Spec == Init /\ [][Next]_vars
=============================================================================
