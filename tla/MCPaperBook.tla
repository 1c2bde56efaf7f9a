---------------------------- MODULE MCPaperBook ----------------------------
(***************************************************************************)
(* Small instances of PaperBook for TLC.                                   *)
(***************************************************************************)
EXTENDS PaperBookProps, TLC

\* A losing close; amounts are distinct so that no two mistakes cancel out.
MCGross == {-5}
MCFunding == {0, 3}
\* Symbols are alike.  Init gives every unfilled position the same arbitrary
\* deal, which nothing reads before FillEntry writes it.
MCSymmetry == Permutations(Symbols)
===========================================================================
