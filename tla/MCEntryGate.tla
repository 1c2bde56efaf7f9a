----------------------------- MODULE MCEntryGate -----------------------------
(***************************************************************************)
(* Values for TLC.                                                         *)
(***************************************************************************)
EXTENDS EntryGateProps, TLC

MCGains == {-1, 0, 1}

\* No property names a symbol or a strategy, and sums do not depend on order.
MCSymmetry == Permutations(Symbols) \cup Permutations(Strategies)
=============================================================================
