--------------------------- MODULE MCProxyCache ---------------------------
(* Small instances of ProxyCache for TLC. *)
EXTENDS ProxyCache, TLC

CONSTANTS t1, t2, uA, uB

\* uB is enumerated last.
TwoUrls == uA :> 1 @@ uB :> 2

Symmetry == Permutations(Threads)
===========================================================================
