--------------------------- MODULE MessageChannel ---------------------------
(***************************************************************************)
(* What a WebSocket connection promises to the applications at its two     *)
(* ends, without buffers, bytes or a stream: each end has a queue of the   *)
(* messages it sent and the other end did not yet receive.  Messages       *)
(* arrive once, in order and unchanged; nothing but pongs follows a close  *)
(* message, and nothing is received behind one; an end is told that the    *)
(* connection is closed only after it received the other's close message,  *)
(* a client moreover only after the server has gone.                       *)
(*                                                                         *)
(* One call of an application may send (its message and an automatic       *)
(* reply), then receive, or end the connection: a turn of that end.        *)
(***************************************************************************)
EXTENDS Sequences, Naturals

CONSTANTS
  Payload,     \* the messages, with a field `op`
  MaxBurst     \* bound: messages sent in one turn

Ends == {"Client", "Server"}
Other(e) == IF e = "Client" THEN "Server" ELSE "Client"

VARIABLES
  queue,    \* [Ends -> Seq(Payload)]: sent by an end and not yet received
  closing,  \* [Ends -> BOOLEAN]: the end has sent a close message
  got,      \* [Ends -> Seq(Payload)]: what the end has received
  gone      \* [Ends -> {"no", "closed", "broken", "crashed"}]: how it left

vars == <<queue, closing, got, gone>>

IsClose(m) == m.op = "Close"
Has(s, P(_)) == \E i \in 1..Len(s) : P(s[i])

Init ==
  /\ queue = [e \in Ends |-> <<>>]
  /\ closing = [e \in Ends |-> FALSE]
  /\ got = [e \in Ends |-> <<>>]
  /\ gone = [e \in Ends |-> "no"]

\* The end has received the other's close message.
Heard(e) == Has(got[e], IsClose)

\* What may be sent in a turn: behind a close message, only pongs.
Burst == UNION {[1..n -> Payload] : n \in 0..MaxBurst}
MaySend(e, s) ==
  \A i \in 1..Len(s) :
    closing[e] \/ (\E j \in 1..(i - 1) : IsClose(s[j])) => s[i].op = "Pong"

Sends(e, s) ==
  /\ MaySend(e, s)
  /\ closing' = [closing EXCEPT ![e] = @ \/ Has(s, IsClose)]

\* The end sends s and receives nothing.
Quiet(e, s) ==
  /\ queue' = [queue EXCEPT ![e] = @ \o s]
  /\ UNCHANGED <<got, gone>>

\* The end sends s and takes the next message of the other.  What follows a
\* close message is thrown away.
Receive(e, s) ==
  /\ queue[Other(e)] # <<>>
  /\ queue' = [queue EXCEPT ![e] = @ \o s, ![Other(e)] = Tail(@)]
  /\ got' = IF Heard(e) THEN got ELSE [got EXCEPT ![e] = Append(@, Head(queue[Other(e)]))]
  /\ UNCHANGED gone

\* The end leaves: of what it sent, a prefix arrives.
Leave(e, s, how) ==
  /\ gone' = [gone EXCEPT ![e] = how]
  /\ \E n \in 0..Len(queue[e] \o s) :
       queue' = [queue EXCEPT ![e] = SubSeq(@ \o s, 1, n)]
  /\ UNCHANGED got

\* It is told that the connection is closed.
Finish(e, s) ==
  /\ Heard(e)
  /\ e = "Client" => gone["Server"] # "no"
  /\ Leave(e, s, "closed")

\* It is told that the other has gone without a close message, which is true.
Break(e, s) ==
  /\ ~Heard(e) /\ gone[Other(e)] # "no" /\ queue[Other(e)] = <<>>
  /\ Leave(e, s, "broken")

\* It crashes.
Crash(e) ==
  /\ Leave(e, <<>>, "crashed")
  /\ UNCHANGED closing

Turn(e) ==
  /\ gone[e] = "no"
  /\ \/ Crash(e)
     \/ \E s \in Burst :
          /\ Sends(e, s)
          /\ Quiet(e, s) \/ Receive(e, s) \/ Finish(e, s) \/ Break(e, s)

Next == \E e \in Ends : Turn(e)

Spec == Init /\ [][Next]_vars

=============================================================================
