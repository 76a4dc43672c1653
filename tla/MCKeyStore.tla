----------------------------- MODULE MCKeyStore -----------------------------
(***************************************************************************)
(* Small instances of KeyStore for TLC.  A second is two clock units, the  *)
(* window two seconds and the minimum cooldown one second, so a run of a   *)
(* dozen readings sees several windows, cooldowns and an expiry.           *)
(***************************************************************************)
EXTENDS KeyStore

MCTimes == 1..11
MCRates == {0, 1, 2}
MCLifetimes == {None, -6, 0, 2}
MCCooldowns == {0, 2, 7}
=============================================================================
