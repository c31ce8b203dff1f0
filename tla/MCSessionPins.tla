---------------------------- MODULE MCSessionPins ----------------------------
(***************************************************************************)
(* Small instance: two requests, two sessions and one path, so that two    *)
(* requests meet in one cell and two sessions share the store.             *)
(***************************************************************************)
EXTENDS SessionPins

CONSTANTS s1, s2

\* The sessions are interchangeable: s1 leaves the registry first.
InOrder == sess'[s2] = "gone" => sess'[s1] = "gone"
MCSpec == Init /\ [][Next /\ InOrder]_vars /\ Fairness
=============================================================================
