----------------------------- MODULE ChainSpec -----------------------------
(***************************************************************************)
(* What a chain of blocks is to its users: it starts with genesis and only *)
(* grows, one block at a time, and a block is right for the place it gets. *)
(* Nothing is said of who adds it, or of mempool, locks or crashes.        *)
(***************************************************************************)
EXTENDS Integers, Sequences

CONSTANTS
  Genesis,
  Acceptable(_, _)   \* Acceptable(ch, b): b may extend ch

VARIABLE chain

Init == chain = <<Genesis>>

Extend ==
  LET b == chain'[Len(chain')]
  IN  chain' = Append(chain, b) /\ Acceptable(chain, b)

Spec == Init /\ [][Extend]_chain
=============================================================================
