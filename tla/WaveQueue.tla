----------------------------- MODULE WaveQueue -----------------------------
(***************************************************************************)
(* What the sound queue of rdpsnd.c promises the server: the waves that it *)
(* takes are confirmed once each and in the order in which they came,      *)
(* unless the whole sound state is reset.                                  *)
(***************************************************************************)
EXTENDS Naturals, Sequences

CONSTANT Waves

VARIABLES
    outstanding,    \* waves taken and not yet confirmed
    confirmed       \* waves confirmed

WqInit == outstanding = << >> /\ confirmed = << >>

WqTake(w) ==
    /\ outstanding' = Append(outstanding, w)
    /\ UNCHANGED confirmed

(* The n oldest waves are confirmed. *)
WqConfirm(n) ==
    /\ confirmed' = confirmed \o SubSeq(outstanding, 1, n)
    /\ outstanding' = SubSeq(outstanding, n + 1, Len(outstanding))

(* Reset: the oldest may still be confirmed, the others are forgotten.     *)
WqReset(n) ==
    /\ confirmed' = confirmed \o SubSeq(outstanding, 1, n)
    /\ outstanding' = << >>

WqNext ==
    \/ \E w \in Waves : WqTake(w)
    \/ \E n \in 0 .. Len(outstanding) : WqConfirm(n) \/ WqReset(n)

WqSpec == WqInit /\ [][WqNext]_<<outstanding, confirmed>>
=============================================================================
