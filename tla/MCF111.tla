------------------------------- MODULE MCF111 -------------------------------
(***************************************************************************)
(* Small instances of F111 for TLC.                                        *)
(***************************************************************************)
EXTENDS F111Props

\* A bar that touches both sides, one that reclaims one of them, and one that
\* only closes beyond both: it confirms an earlier touch, and is a quiet bar
\* where there was none, as the first is after a touch.
MCBars == {[touch |-> Sides, beyond |-> {}], [touch |-> Sides, beyond |-> {"LONG"}],
           [touch |-> {}, beyond |-> Sides]}
\* At the initial stop, flat (at a floor's stop), past activation.
MCMoves == {-4, 0, 5}
\* Between F111's initial stop and its floor: a stale record can do both.
MCSleeveStop == -2
\* Nothing accrued, and a credit that lowers the floor's level.
MCFundings == {0, -2}
=============================================================================
