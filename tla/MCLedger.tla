------------------------------ MODULE MCLedger ------------------------------
(***************************************************************************)
(* A small ledger: three transactions around the genesis output.            *)
(*   split  a wallet pays itself, two outputs to the same key (no fee)     *)
(*   join   spends both outputs of split                                   *)
(*   rival  spends one of them only                                        *)
(***************************************************************************)
EXTENDS Ledger

CONSTANTS split, join, rival, miner, rpc, peer, cli

MCTxs == {split, join, rival}

MCMakers == {miner, rpc, peer, cli}

Genesis1 == <<<<0, cli, 4>>, 1>>

MCVin ==
  (split :> <<Genesis1>>) @@
  (join :> <<<<split, 1>>, <<split, 2>>>>) @@
  (rival :> <<<<split, 1>>>>)

MCVout ==
  (split :> <<2, 2>>) @@ (join :> <<3>>) @@ (rival :> <<1>>)

MCSize == (split :> 2) @@ (join :> 2) @@ (rival :> 1)

MCPeerBodies == {<<>>, <<split>>, <<split, join>>, <<split, join, rival>>}
=============================================================================
