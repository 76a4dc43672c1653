---------------------------- MODULE MCKeyStoreTx ----------------------------
(* Two processes, one of each runtime.                                     *)
EXTENDS KeyStoreTx, TLC

CONSTANTS c1, c2

Mixed == (c1 :> "js") @@ (c2 :> "rust")

MCRates == {2}
MCLifetimes == {None, 1}
MCCooldowns == {None}
=============================================================================
