---------------------------- MODULE MCConnection ----------------------------
(* A small instance of Connection: a ping that asks for a pong, a close    *)
(* frame, frames of one and two bytes behind their masks.                  *)
EXTENDS Connection

Takeover == [r \in Role |-> FALSE]
Config == [max_write_buffer_size |-> 20, write_buffer_size |-> 1, max_message_size |-> 8,
           accept_unmasked_frames |-> FALSE]

Pings == {[kind |-> "Ping", frame |-> MakeFrame("Ping", 0)]}
NormalClose == {CloseFrame("none", 0)}

=============================================================================
