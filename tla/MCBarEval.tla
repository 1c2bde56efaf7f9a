----------------------------- MODULE MCBarEval -----------------------------
(***************************************************************************)
(* Small instances of BarEval for TLC.                                     *)
(***************************************************************************)
EXTENDS BarEvalProps

\* Two sleeves on one symbol and on one bar of two latency windows: at 4 a bar
\* of both is due, at 5 it is outside its window, at 6 the next one is due.
MCTwinSymbolOf == <<"BTCUSDT", "BTCUSDT">>
MCTwinStepOf   == <<2, 2>>

\* Two sleeves on a bar as long as the window (15m) and one twice as long.
MCSymbolOf == <<"BTCUSDT", "ETHUSDT", "BTCUSDT">>
MCStepOf   == <<1, 1, 2>>
===========================================================================
