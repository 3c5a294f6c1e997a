---------------------------- MODULE FrameChannel ----------------------------
(***************************************************************************)
(* What read_frame promises its caller, without bytes, buffers or a loop:  *)
(* the frames of the peer are a queue.  Each call takes the frame in front *)
(* of it, whole, or leaves it there and says why.  No frame is skipped or  *)
(* taken twice, "no frame" is the end of what arrived whole, and a frame   *)
(* that cannot be read blocks those behind it.  The limits may change      *)
(* between two calls: a frame is taken if one of those that had it in      *)
(* front of them allowed it.                                               *)
(***************************************************************************)
EXTENDS Sequences, Naturals

CONSTANTS
  Frames,          \* what may be sent
  Reserved,        \* the frames with an opcode that is not defined
  Rules,           \* the limits a call may be given
  Oversized(_, _), \* a frame is beyond such a limit
  Unwanted(_, _),  \* a frame is taken but not returned
  Contents(_, _),  \* what is returned of a frame, by the frame and its number
  Errors           \* how a call may fail without a look at a frame

VARIABLES
  sent,      \* Seq(Frames): all frames of the peer
  whole,     \* how many of them arrive whole
  over,      \* the connection has ended
  rules,     \* the limits of this call, or of the next one
  next,      \* the number of the next frame to take
  admitted,  \* a call has found it to be within its limits
  got,       \* the frames returned, with their numbers
  answer     \* what the last call returned, "Loop" during a call

vars == <<sent, whole, over, rules, next, admitted, got, answer>>

\* One frame is sent before the first call.
Init ==
  /\ \E f \in Frames : sent = <<f>>
  /\ whole = 1 /\ over = FALSE
  /\ rules \in Rules
  /\ next = 1 /\ admitted = FALSE /\ got = <<>> /\ answer = "None"

Send ==
  /\ ~over
  /\ \E f \in Frames : sent' = Append(sent, f)
  /\ whole' = whole + 1
  /\ UNCHANGED <<over, rules, next, admitted, got, answer>>

\* The connection ends; frames that were not yet taken may not arrive.
End ==
  /\ ~over /\ over' = TRUE
  /\ whole' \in (next - 1)..whole
  /\ UNCHANGED <<sent, rules, next, admitted, got, answer>>

\* The limits change, but never during a call.
Change ==
  /\ answer # "Loop"
  /\ rules' \in Rules
  /\ UNCHANGED <<sent, whole, over, next, admitted, got, answer>>

Allowed ==
  sent[next] \notin Reserved /\ (admitted \/ ~Oversized(sent[next], rules))

\* The next frame stays where it is, though it may have been admitted.
Leave ==
  /\ \/ UNCHANGED admitted
     \/ next <= Len(sent) /\ Allowed /\ admitted' = TRUE
  /\ UNCHANGED <<next, got>>

\* A call begins or goes on.
Wait == answer' = "Loop" /\ Leave

\* The next frame is taken, and returned unless it is unwanted.
Take ==
  /\ next <= whole /\ Allowed
  /\ next' = next + 1 /\ admitted' = FALSE
  /\ IF Unwanted(sent[next], rules)
       THEN answer' = "UnmaskedFrameFromClient" /\ UNCHANGED got
       ELSE /\ answer' = "Frame"
            /\ got' = Append(got, [frame |-> next, payload |-> Contents(sent[next], next)])

\* The next frame is refused by its header.
Refuse ==
  /\ next <= Len(sent) /\ ~Allowed
  /\ answer' = IF sent[next] \in Reserved THEN "InvalidOpcode" ELSE "MessageTooLong"
  /\ UNCHANGED <<next, admitted, got>>

\* There are no more whole frames.
Finish ==
  /\ over /\ next > whole
  /\ answer' = "NoFrame"
  /\ Leave

Fail == answer' \in Errors /\ Leave

\* Nothing is read behind a frame that was too long.
Read ==
  /\ answer # "MessageTooLong"
  /\ Wait \/ Take \/ Refuse \/ Finish \/ Fail
  /\ UNCHANGED <<sent, whole, over, rules>>

Next == Send \/ End \/ Change \/ Read

Spec == Init /\ [][Next]_vars

=============================================================================
