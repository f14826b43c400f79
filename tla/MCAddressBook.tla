--------------------------- MODULE MCAddressBook ---------------------------
(***************************************************************************)
(* A peer that may be banned, an address that cannot be dialled, two ports *)
(* that the node may run under.                                            *)
(***************************************************************************)
EXTENDS AddressBook, TLC

CONSTANTS peer, port0, port1, port2, ip1

MCIpOf == [a \in Addresses \ Wildcards |-> ip1]
MCOffsets == {-1, 1, 2}
=============================================================================
