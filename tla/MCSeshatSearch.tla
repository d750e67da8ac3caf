---------------------------- MODULE MCSeshatSearch ----------------------------
(* Constants of SeshatSearch for TLC: the event b2 of another room has the id *)
(* of b and does not match the search.                                        *)
EXTENDS SeshatSearch

CONSTANTS a, b, b2, e3, c1, c2

OwnId == [e \in Events |-> IF e = b2 THEN b ELSE e]

(* Two states behave alike if they differ only in the names of tokens, or in   *)
(* cached searches whose token no client has: a view without the two.         *)

Holders(t) == {d \in Clients : t = token[d]} \cup {<<d>> : d \in {d \in Clients : t = nextBatch[d]}}

CachedSearches ==
    [i \in DOMAIN recent |->
        IF Holders(recent[i]) = {} THEN NothingSeen ELSE <<Holders(recent[i]), past[recent[i]]>>]

HasToken == [d \in Clients |-> <<token[d] # NoToken, nextBatch[d] # NoToken>>]

UpToTokens ==
    <<store, CachedSearches, HasToken, poisoned, stage, snapshot, previous, found, changes,
      history>>
==============================================================================
