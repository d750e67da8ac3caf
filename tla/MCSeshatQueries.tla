-------------------------- MODULE MCSeshatQueries ---------------------------
(* Constants of SeshatQueries for TLC: three events in two rooms; a page that *)
(* adds an event, or takes an old checkpoint away, may come between any two   *)
(* statements of a client.                                                    *)
EXTENDS SeshatQueries

CONSTANTS a, b, c, r, s, t

FilesAndTopics == {<<"Message", "m.image">>, <<"Topic", None>>}

Symmetry == Permutations({a, b, c}) \cup Permutations({r, s})
=============================================================================
