-------------------------- MODULE MCCloseRequests --------------------------
(***************************************************************************)
(* Small instances of CloseRequests for TLC.                               *)
(***************************************************************************)
EXTENDS CloseRequestsProps

\* One position asked for twice: by its symbol and by its id.
MCContents == {Bad, [symbols |-> <<"btc">>, ids |-> <<1>>]}
============================================================================
