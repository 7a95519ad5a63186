---------------------------- MODULE MCWatchlist ----------------------------
(* Small instances of Watchlist for TLC. *)
EXTENDS Watchlist, TLC

CONSTANTS s1, s2, u1, u2, c1, c2

Symmetry ==
    Permutations(Sessions) \cup Permutations(Users) \cup Permutations(Scrips)
=============================================================================
