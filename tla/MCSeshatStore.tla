--------------------------- MODULE MCSeshatStore ---------------------------
(* Small instances of SeshatStore for TLC. *)
EXTENDS SeshatStoreLifecycle, TLC

CONSTANTS a, b, i, j, c0, c1

\* Two events of different rooms and ids, or of the same id.
DistinctIds == a :> i @@ b :> j
SharedId == a :> i @@ b :> i

\* One page of the room history.
OnePage == {[events |-> <<a, b>>, new |-> {c1}, old |-> {c0}]}
=============================================================================
