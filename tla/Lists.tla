------------------------------- MODULE Lists --------------------------------
(***************************************************************************)
(* The loops of the message handlers that go through the entries of an     *)
(* inventory and keep some of them (src/node.cpp).                         *)
(***************************************************************************)
EXTENDS Integers, Sequences, FiniteSets

\* The entries of a list that are in S, in the order of the list.
Only(list, S) ==
  LET places == {i \in DOMAIN list : list[i] \in S}
  IN  [k \in 1 .. Cardinality(places) |->
        list[CHOOSE i \in places : Cardinality({j \in places : j <= i}) = k]]

=============================================================================
