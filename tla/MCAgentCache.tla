---------------------------- MODULE MCAgentCache ----------------------------
(***************************************************************************)
(* Small instance: a source and a header.  Source text 1 includes the      *)
(* header (or finds it missing), source text 2 does not.  The object file  *)
(* depends on everything read, the dependency file on the source only, so  *)
(* results of different trees share a blob.                                *)
(***************************************************************************)
EXTENDS AgentCache, TLC

CONSTANTS t1, t2, src, hdr, obj, dep

MCContents == {1, 2}
MCReads == [g \in Tree |-> IF g[src] = 1 THEN {src, hdr} ELSE {src}]
MCObj(g) == IF g[src] = 1
              THEN <<"obj", 1, IF g[hdr] = Missing THEN 0 ELSE g[hdr]>>
              ELSE <<"obj", IF g[src] = Missing THEN 0 ELSE 2, 0>>
MCDep(g) == <<"dep", IF g[src] = Missing THEN 0 ELSE g[src], 0>>
MCOut == [g \in Tree |-> [o \in Outputs |-> IF o = obj THEN MCObj(g) ELSE MCDep(g)]]
MCBlobs == {MCObj(g) : g \in Tree} \cup {MCDep(g) : g \in Tree}
TaskSymmetry == Permutations(Tasks)

\* Keeps to the initial tree in which the source includes an existing header.
MCInit == Init /\ fs = [f \in Files |-> 1]

\* Bound: two edits, or one edit and a fault; the header may go, not the source.
Budget == edits' + faults' <= 2 /\ fs'[src] # Missing
\* Files and outputs are processed in the order of their lists: the source
\* before the header, the object file before the dependency file.
InOrder == \A t \in Tasks :
    /\ dep \in task[t].left \ task'[t].left => obj \notin task'[t].left
    /\ task'[t].now = dep => obj \notin task'[t].left
    /\ hdr \in task[t].unread \ task'[t].unread => src \notin task'[t].unread
\* Only Stage reads the blobs, so a blob need be lost or damaged only when a
\* submission is about to stage it.
LateLoss == \A b \in Blobs :
    blobs'[b] \in {blobs[b], "good"}
      \/ \E t \in Tasks : At(t, "stage") /\ \E o \in task[t].left : task[t].outs[o] = b
MCQuietSpec ==
    MCInit /\ [][Next /\ EditsAwait /\ Budget /\ InOrder /\ LateLoss]_vars
MCSpec == MCInit /\ [][Next]_vars
=============================================================================
