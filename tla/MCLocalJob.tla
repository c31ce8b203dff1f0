------------------------------ MODULE MCLocalJob ------------------------------
(* Instances of LocalJob: the top process and two descendants, which share *)
(* one pid in MCPidReuse and have their own in MCPidOwn.                   *)
EXTENDS LocalJob

CONSTANTS p0, p1, p2

MCProcs == {p0, p1, p2}
MCPidReuse == [p \in MCProcs |-> IF p = p0 THEN 0 ELSE 1]
MCPidOwn == [p \in MCProcs |-> CASE p = p0 -> 0 [] p = p1 -> 1 [] p = p2 -> 2]

\* A packet is lost, or one is repeated while a pid is used again (never both in
\* one run, see WorldsAssumption); in a third world every call on a process
\* handle works.
MCWorlds == {[pid |-> MCPidOwn, lost |-> 1, dup |-> 0, fail |-> TRUE],
             [pid |-> MCPidReuse, lost |-> 0, dup |-> 1, fail |-> TRUE],
             [pid |-> MCPidOwn, lost |-> 1, dup |-> 0, fail |-> FALSE]}
===============================================================================
