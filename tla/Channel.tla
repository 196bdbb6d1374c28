------------------------------- MODULE Channel -------------------------------
(***************************************************************************)
(* What one direction of a uring promises to its users: a bounded FIFO     *)
(* channel from one producer to one consumer.  A value leaves the channel  *)
(* at most once, in the order in which the values entered it, and nothing  *)
(* else is ever delivered.                                                 *)
(*                                                                         *)
(* A ring of `Size` slots keeps one of them free, so it implements a       *)
(* channel of capacity Size - 1 (module SpscQueue shows it).               *)
(***************************************************************************)
EXTENDS Naturals, Sequences

CONSTANTS Values,   \* what can be sent
          Cap       \* how many values the channel holds

VARIABLES chan,     \* the values sent and not yet received
          rcvd      \* the values received, in order of arrival

cvars == <<chan, rcvd>>

Init == /\ chan = <<>>
        /\ rcvd = <<>>

Send(v) == /\ Len(chan) < Cap
           /\ chan' = Append(chan, v)
           /\ UNCHANGED rcvd

Recv == /\ chan # <<>>
        /\ chan' = Tail(chan)
        /\ rcvd' = Append(rcvd, Head(chan))

Next == \/ \E v \in Values : Send(v)
        \/ Recv

Spec == Init /\ [][Next]_cvars
=============================================================================
