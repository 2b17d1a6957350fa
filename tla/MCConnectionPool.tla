-------------------------- MODULE MCConnectionPool --------------------------
(* Three event sources for two places, so that a reconnect may be given a    *)
(* place or be refused; two channels for one place.                          *)
EXTENDS ConnectionPool, TLC

CONSTANTS s1, s2, s3, c1, c2

MCSource == {s1, s2, s3}
MCSocket == {c1, c2}
Symmetry == Permutations(MCSource) \cup Permutations(MCSocket)
=============================================================================
