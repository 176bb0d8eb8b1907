---------------------------- MODULE BoundedFifo ----------------------------
(***************************************************************************)
(* What a channel promises the program, without queue, locks or waiting:   *)
(* messages are accepted while the channel is open and has room, and are   *)
(* handed out once each, in the order they were accepted.                  *)
(***************************************************************************)
EXTENDS Naturals, Sequences

CONSTANTS Message, Room    \* Room = 0 means unbounded

VARIABLES
    put,     \* every accepted message, in order
    taken,   \* every message handed out, in order
    open

fifoVars == <<put, taken, open>>

FifoInit == put = <<>> /\ taken = <<>> /\ open = TRUE

Put == \E m \in Message :
    /\ open
    /\ Room > 0 => Len(put) - Len(taken) < Room
    /\ put' = Append(put, m)
    /\ UNCHANGED <<taken, open>>

Take ==
    /\ Len(taken) < Len(put)
    /\ taken' = Append(taken, put[Len(taken) + 1])
    /\ UNCHANGED <<put, open>>

Shut ==
    /\ open' = FALSE
    /\ UNCHANGED <<put, taken>>

FifoNext == Put \/ Take \/ Shut

FifoSpec == FifoInit /\ [][FifoNext]_fifoVars
=============================================================================
