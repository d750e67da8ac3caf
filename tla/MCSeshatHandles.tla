-------------------------- MODULE MCSeshatHandles ---------------------------
(* Constants of SeshatHandles for TLC: two threads, three objects in all.    *)
EXTENDS SeshatHandles, TLC

CONSTANTS t, u, x, y, z

Symmetry == Permutations({t, u}) \cup Permutations({x, y, z})
=============================================================================
