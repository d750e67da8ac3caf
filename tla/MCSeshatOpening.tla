-------------------------- MODULE MCSeshatOpening ---------------------------
(***************************************************************************)
(* Two passphrases and two store keys: a new key only has to differ from   *)
(* the one that the index on disk was written with.                        *)
(***************************************************************************)
EXTENDS SeshatOpening

CONSTANTS p1, p2, k1, k2

MCPassphrases == {p1, p2}
MCKeys == {k1, k2}
=============================================================================
