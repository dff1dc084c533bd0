---------------------------- MODULE MCCacheAside ----------------------------
(* Values of the constants for TLC. *)
EXTENDS CacheAside

CONSTANTS r1, s1, v1

OneSession == {s1}
OneReader == {r1}
OneEntry == {v1}

=============================================================================
