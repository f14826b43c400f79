------------------------------ MODULE MCRelay ------------------------------
(***************************************************************************)
(* Three nodes, each connected to the others.  All take cheap, only b      *)
(* takes dear, and a pool has room for one: b evicts cheap for dear, is    *)
(* offered cheap again by the others, turns it away or, when a block has   *)
(* taken dear, admits and announces it a second time.                      *)
(***************************************************************************)
EXTENDS Relay, TLC

CONSTANTS a, b, c, cheap, dear

MCLinks   == {<<a, b>>, <<b, c>>, <<a, c>>}
MCLate    == {<<a, c>>}
MCFragile == {<<a, c>>}
MCMined   == {<<b, dear>>}
MCFeeRate == (cheap :> 1) @@ (dear :> 2)
MCRefused == {<<a, dear>>, <<c, dear>>}
=============================================================================
