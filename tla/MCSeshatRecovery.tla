--------------------------- MODULE MCSeshatRecovery ---------------------------
(* Constants of SeshatRecovery for TLC: three events, of which two may have  *)
(* the same id in two rooms.                                                 *)
EXTENDS SeshatRecovery

CONSTANTS a, b, c

OwnIds == [e \in Events |-> e]

OwnOrSharedIds == {OwnIds, [OwnIds EXCEPT ![c] = b]}
==============================================================================
