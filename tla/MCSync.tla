------------------------------- MODULE MCSync -------------------------------
(***************************************************************************)
(* A node behind two others.                                               *)
(***************************************************************************)
EXTENDS Sync

CONSTANTS a, b, c

MCDials  == {<<a, b>>, <<a, c>>}
MCChain  == (a :> <<>>) @@ (b :> <<b, b>>) @@ (c :> <<b>>)
MCMaxDials == (<<a, b>> :> 1) @@ (<<a, c>> :> 1)
MCEarlyPings == {<<b, a>>}
MCMiners == {c}
=============================================================================
