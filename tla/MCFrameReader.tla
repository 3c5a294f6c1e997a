---------------------------- MODULE MCFrameReader ----------------------------
(***************************************************************************)
(* Frames of FrameReader, and arguments of its calls, for TLC.             *)
(***************************************************************************)
EXTENDS FrameReader

F(hlen, len, masked) ==
  [hlen |-> hlen, len |-> len, masked |-> masked, reserved |-> FALSE]

\* An empty and two longer frames, one without mask, one with an undefined
\* opcode, one beyond the lower limit.
AllFrames ==
  {F(2, 0, TRUE), F(2, 3, TRUE), F(1, 1, FALSE), [F(2, 1, TRUE) EXCEPT !.reserved = TRUE],
   F(2, 5, TRUE)}
LongFrames == {F(1, 5, TRUE)}

A(max_size, accept_unmasked) ==
  [max_size |-> max_size, accept_unmasked |-> accept_unmasked]

\* The limit is lowered and raised; with the higher one unmasked frames are accepted.
ManyArguments == {A(4, FALSE), A(5, TRUE)}
OneLimit == {A(4, FALSE)}
=============================================================================
