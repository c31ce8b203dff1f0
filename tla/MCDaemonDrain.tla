---------------------------- MODULE MCDaemonDrain ----------------------------
(* Two submissions and one data-plane request.  The submissions are        *)
(* interchangeable, so the one whose handler starts first is called s1.    *)
EXTENDS DaemonDrain

CONSTANTS s1, s2, r1

MCSubs == {s1, s2}
MCRequests == {r1}

InOrder == handler'[s2] # "idle" => handler'[s1] # "idle"

MCSpec == Init /\ [][Next /\ InOrder]_vars /\ Fairness
===============================================================================
