------------------------------ MODULE MCPeers ------------------------------
\* PeerThreads for model checking: connections are interchangeable.
EXTENDS PeerThreads, TLC

Symmetry == Permutations(Peers)
=============================================================================
