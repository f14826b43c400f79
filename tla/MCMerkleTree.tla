---------------------------- MODULE MCMerkleTree ----------------------------
(***************************************************************************)
(* Blocks of up to MaxTxs transactions with two different hashes.          *)
(***************************************************************************)
EXTENDS MerkleTree

CONSTANTS t1, t2
=============================================================================
