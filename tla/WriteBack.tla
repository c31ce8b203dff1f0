------------------------------ MODULE WriteBack ------------------------------
(***************************************************************************)
(* Worker outputs of one action on the agent: the streamed WriteBack       *)
(* handler (crates/agent/src/fileserver.rs), the staging tables of the     *)
(* session capability, its registry entry with finish, the idle sweeper    *)
(* and shutdown (session_registry.rs), and the part of run_submission      *)
(* (intake.rs) that finishes, publishes and discards.                      *)
(*                                                                         *)
(* Several writers stream concurrently: the scheduler gives every attempt  *)
(* of an action the same session, and a timed-out worker may still be      *)
(* streaming.  A chunk is named by its writer, a file by the sequence of   *)
(* its chunks; the digest a writer declares is that of its own chunks.     *)
(***************************************************************************)
EXTENDS Naturals, Sequences, FiniteSets

CONSTANTS
    Writers,          \* workers that were dispatched an attempt of the action
    Outputs,          \* output ids the session declared
    Chunks,           \* chunks in one output stream
    MayOutliveTtl     \* TRUE: the action may still run when SESSION_TTL passes

ASSUME ChunksPositive == Chunks \in Nat \ {0}
ASSUME MayOutliveTtlBool == MayOutliveTtl \in BOOLEAN

NoOutput == "none"
Nobody == "nobody"
NoFile == [tmp |-> <<>>, data |-> <<>>]
Temps == Outputs \X Writers   \* the temp a writer's offset-0 chunk creates
Old == <<"old">>              \* a final path as the action found it
Local == <<"local">>          \* a final path written by a local run
Removed == <<>>               \* a final path removed by a failed publish
Whole(w) == [i \in 1 .. Chunks |-> w]

Streams == UNION {[1 .. n -> Writers] : n \in 0 .. Chunks}
Files == [tmp : Temps, data : Streams]

VARIABLES
    wb,        \* SessionCapability.writebacks: output -> file or NoFile
    staged,    \* SessionCapability.staged: output -> file or NoFile
    disk,      \* temps created, and neither renamed nor passed to remove_root_file
               \* (whose result is ignored)
    final,     \* contents of each final path
    registered, closed,   \* registry entry; SessionCapability.closed
    bound,     \* writers whose connection holds a ConnGuard
    writer,    \* [pc, out, sent, file, done] of each writer
    intake,    \* pc of run_submission
    outcome,   \* what dispatch, then publish, made of the action
    batch,     \* entries publish_staged has drained and not yet published
    last,      \* the writer whose output was last acknowledged, per output
    sweeper,   \* "idle" | "reaped" (entry removed) | "drained" (staged dropped)
    stopping   \* the daemon cancels data-plane tasks

tables == <<wb, staged, disk, final, last>>
registryVars == <<registered, closed, bound, sweeper, stopping>>
intakeVars == <<intake, outcome, batch>>
vars == <<tables, registryVars, writer, intakeVars>>

Empty == [o \in Outputs |-> NoFile]

TypeOK ==
    /\ wb \in [Outputs -> Files \cup {NoFile}]
    /\ staged \in [Outputs -> Files \cup {NoFile}]
    /\ disk \in SUBSET Temps
    /\ final \in [Outputs -> {Old, Local, Removed} \cup Streams]
    /\ registered \in BOOLEAN /\ closed \in BOOLEAN /\ stopping \in BOOLEAN
    /\ bound \in SUBSET Writers
    /\ \A w \in Writers :
          /\ writer[w].pc \in {"new", "resolved", "ready", "checked", "verify", "stopped"}
          /\ writer[w].out \in Outputs \cup {NoOutput}
          /\ writer[w].sent \in 0 .. Chunks
          /\ writer[w].file \in Files \cup {NoFile}
          /\ writer[w].done \in SUBSET Outputs
    /\ intake \in {"dispatch", "finish", "publish", "publishing", "discard",
                   "discarding", "done", "dead"}
    /\ outcome \in {"pending", "success", "failure", "local", "error", "rerunfailed"}
    /\ batch \in [Outputs -> Files \cup {NoFile}]
    /\ last \in [Outputs -> Writers \cup {Nobody}]
    /\ sweeper \in {"idle", "reaped", "drained"}

\* The session exists and the action is being dispatched.
Init ==
    /\ wb = Empty /\ staged = Empty /\ batch = Empty
    /\ disk = {}
    /\ final = [o \in Outputs |-> Old]
    /\ registered = TRUE /\ closed = FALSE /\ bound = {} /\ stopping = FALSE
    /\ writer = [w \in Writers |->
                   [pc |-> "new", out |-> NoOutput, sent |-> 0, file |-> NoFile, done |-> {}]]
    /\ intake = "dispatch" /\ outcome = "pending"
    /\ last = [o \in Outputs |-> Nobody]
    /\ sweeper = "idle"
----------------------------------------------------------------------------
(* The data plane: handshake, dispatch and write_back *)

TempOf(f) == IF f = NoFile THEN {} ELSE {f.tmp}
TempsIn(table) == UNION {TempOf(table[o]) : o \in Outputs}

\* resolve_session finds the registered capability; the response is written
\* before the connection is bound.
Hello(w) ==
    /\ writer[w].pc = "new" /\ registered /\ ~stopping
    /\ writer' = [writer EXCEPT ![w].pc = "resolved"]
    /\ UNCHANGED <<tables, registryVars, intakeVars>>

Bind(w) ==
    /\ writer[w].pc = "resolved" /\ ~stopping
    /\ writer' = [writer EXCEPT ![w].pc = "ready"]
    /\ bound' = bound \cup {w}
    /\ UNCHANGED <<tables, registered, closed, sweeper, stopping, intakeVars>>

\* The connection ends; a request it spawned runs on.
Disconnect(w) ==
    /\ w \in bound
    /\ bound' = bound \ {w}
    /\ UNCHANGED <<tables, registered, closed, sweeper, stopping, writer, intakeVars>>

Stop(w) == writer' = [writer EXCEPT ![w].pc = "stopped", ![w].file = NoFile]

\* A chunk arrives: dispatch checks closed, once, before the handler.
DispatchChunk(w) ==
    /\ writer[w].pc = "ready" /\ w \in bound /\ ~stopping
    /\ \/ closed /\ Stop(w)
       \/ /\ ~closed
          /\ \E o \in Outputs \ writer[w].done :
                /\ writer[w].out \in {NoOutput, o}
                /\ writer' = [writer EXCEPT ![w].pc = "checked", ![w].out = o]
    /\ UNCHANGED <<tables, registryVars, intakeVars>>

\* Offset 0 (re)starts the stream in a fresh temp and removes the one it replaces;
\* any other offset must continue the stream in the table.
Fresh(w) == [tmp |-> <<writer[w].out, w>>, data |-> <<>>]
StreamOf(w) == IF writer[w].sent = 0 THEN Fresh(w) ELSE wb[writer[w].out]
DiskOf(w) ==
    IF writer[w].sent = 0
    THEN (disk \ TempOf(wb[writer[w].out])) \cup {Fresh(w).tmp} ELSE disk
\* The request ends with the temp it created on disk and in nobody's hands.
LeaveTemp(w) ==
    /\ writer' = [writer EXCEPT ![w].pc = "stopped", ![w].file = Fresh(w)]
    /\ disk' = disk \cup {Fresh(w).tmp}
Continues(w) == StreamOf(w) # NoFile /\ Len(StreamOf(w).data) = writer[w].sent

\* Mutation: the chunk after the last one still counts as part of the stream.
MutIsLast(k) == k = Chunks

IsLast(k) == k + 1 = Chunks

\* write_back under the writebacks lock: the chunk is appended; the last one takes
\* the stream out of the table for verification.
WriteChunk(w) ==
    LET o == writer[w].out
        grown == [StreamOf(w) EXCEPT !.data = Append(@, w)]
    IN
    /\ writer[w].pc = "checked"
    /\ disk' = DiskOf(w)
    /\ \/ ~Continues(w) /\ Stop(w) /\ UNCHANGED wb
       \/ /\ Continues(w) /\ ~IsLast(writer[w].sent)
          /\ wb' = [wb EXCEPT ![o] = grown]
          /\ writer' = [writer EXCEPT ![w].pc = "ready", ![w].sent = @ + 1]
       \/ /\ Continues(w) /\ IsLast(writer[w].sent)
          /\ wb' = [wb EXCEPT ![o] = NoFile]
          /\ writer' = [writer EXCEPT ![w].pc = "verify", ![w].file = grown]
    /\ UNCHANGED <<staged, final, last, registryVars, intakeVars>>

\* The temp cannot be created or written, or the output outgrows its cap.  When
\* create_staging_temp fails after it created the file, the file stays.
WriteChunkFails(w) ==
    LET o == writer[w].out IN
    /\ writer[w].pc = "checked"
    /\ \/ writer[w].sent = 0 /\ Stop(w) /\ UNCHANGED <<wb, disk>>
       \/ writer[w].sent = 0 /\ LeaveTemp(w) /\ UNCHANGED wb
       \/ /\ Continues(w) /\ Stop(w)
          /\ \/ wb' = [wb EXCEPT ![o] = StreamOf(w)] /\ disk' = DiskOf(w)
             \/ wb' = [wb EXCEPT ![o] = NoFile] /\ disk' = DiskOf(w) \ {StreamOf(w).tmp}
    /\ UNCHANGED <<staged, final, last, registryVars, intakeVars>>

Acknowledge(w, o) ==
    writer' = [writer EXCEPT ![w].pc = "ready", ![w].out = NoOutput, ![w].sent = 0,
                             ![w].file = NoFile, ![w].done = @ \cup {o}]

\* Mutation: the length is compared instead of the digest.
MutDigestMatches(w, f) == Len(f.data) = Len(Whole(w))

\* The digest the last chunk declares is that of the writer's own output.
DigestMatches(w, f) == f.data = Whole(w)

\* Mutation: record_staged inserts without looking at closed.
MutMayStage == TRUE

MayStage == ~closed

\* Mutation: the temp of a replaced entry is forgotten.
MutReplacedTemp(o) == {}

ReplacedTemp(o) == TempOf(staged[o])

\* Last chunk: the digest must be the declared one and the file must be read back
\* as it was written, then record_staged checks closed under the staged lock and
\* replaces an earlier staged file.
RecordStaged(w) ==
    LET o == writer[w].out  f == writer[w].file IN
    /\ writer[w].pc = "verify"
    /\ \/ disk' = disk \ {f.tmp} /\ Stop(w) /\ UNCHANGED <<staged, last>>
       \/ /\ DigestMatches(w, f) /\ MayStage
          /\ staged' = [staged EXCEPT ![o] = f] /\ last' = [last EXCEPT ![o] = w]
          /\ disk' = disk \ ReplacedTemp(o)
          /\ Acknowledge(w, o)
    /\ UNCHANGED <<wb, final, registryVars, intakeVars>>
----------------------------------------------------------------------------
(* run_submission *)

\* A local run: exit 0 has written every output, a failed one some of them.
LocalRun(failed) ==
    \/ outcome' = "local" /\ final' = [o \in Outputs |-> Local]
    \/ /\ outcome' = failed
       /\ \E written \in SUBSET Outputs :
             final' = [o \in Outputs |-> IF o \in written THEN Local ELSE final[o]]

\* Dispatch returns: the exit of some worker, or of the local fallback.
DispatchReturns ==
    /\ intake = "dispatch"
    /\ intake' = "finish"
    /\ \/ /\ \E w \in Writers : writer[w].pc \notin {"checked", "verify"}
          /\ outcome' = "success" /\ UNCHANGED final
       \/ outcome' = "failure" /\ UNCHANGED final   \* remote exit # 0
       \/ LocalRun("failure")
    /\ UNCHANGED <<wb, staged, disk, last, registryVars, writer, batch>>

\* SessionRegistry::finish closes only an entry it still finds.
Finish ==
    /\ intake = "finish"
    /\ intake' = "publish"
    /\ registered' = FALSE
    /\ closed' = (closed \/ registered)
    /\ UNCHANGED <<tables, bound, sweeper, stopping, writer, outcome, batch>>

\* publish_remote_or_fallback: only a remote exit 0 publishes.
MayPublish == outcome = "success"

\* Mutation: staging is discarded before it is published.
MutBeginPublish ==
    /\ intake = "publish"
    /\ intake' = "publishing" /\ staged' = Empty /\ disk' = disk \ TempsIn(staged)
    /\ UNCHANGED <<wb, batch, final, last, registryVars, writer, outcome>>

\* publish_staged drains the staged table.
BeginPublish ==
    /\ intake = "publish"
    /\ \/ MayPublish /\ intake' = "publishing" /\ batch' = staged /\ staged' = Empty
       \/ ~MayPublish /\ intake' = "discard" /\ UNCHANGED <<batch, staged>>
    /\ UNCHANGED <<wb, disk, final, last, registryVars, writer, outcome>>

\* publish_staged_output: verify, rename, verify again.
PublishOne(o) ==
    LET f == batch[o] IN
    /\ intake = "publishing" /\ f # NoFile
    /\ batch' = [batch EXCEPT ![o] = NoFile]
    /\ disk' = disk \ {f.tmp}
    /\ \/ final' = [final EXCEPT ![o] = f.data] /\ UNCHANGED outcome
       \/ final' \in {final, [final EXCEPT ![o] = Removed]} /\ outcome' = "error"
    /\ UNCHANGED <<wb, staged, last, registryVars, writer, intake>>

\* Mutation: a failed rename is reported but the action is not run locally.
MutEndPublish ==
    /\ intake = "publishing" /\ batch = Empty
    /\ intake' = "discard"
    /\ outcome' = "success"
    /\ UNCHANGED <<tables, registryVars, writer, batch>>

\* After the whole batch: an error runs the action locally.
EndPublish ==
    /\ intake = "publishing" /\ batch = Empty
    /\ intake' = "discard"
    /\ \/ outcome = "error" /\ LocalRun("rerunfailed")
       \/ outcome # "error" /\ UNCHANGED <<outcome, final>>
    /\ UNCHANGED <<wb, staged, disk, last, registryVars, writer, batch>>

\* discard_staged drains the staged table, then the writebacks.
DropStaged == staged' = Empty /\ disk' = disk \ TempsIn(staged) /\ UNCHANGED wb
DropWritebacks == wb' = Empty /\ disk' = disk \ TempsIn(wb) /\ UNCHANGED staged

Discard ==
    /\ \/ intake = "discard" /\ intake' = "discarding" /\ DropStaged
       \/ intake = "discarding" /\ intake' = "done" /\ DropWritebacks
    /\ UNCHANGED <<final, last, registryVars, writer, outcome, batch>>

\* The submission task panics, or is aborted by a forced shutdown.
IntakeDies ==
    /\ intake \notin {"done", "dead"}
    /\ intake' = "dead"
    /\ UNCHANGED <<tables, registryVars, writer, outcome, batch>>
----------------------------------------------------------------------------
(* Sweeper and shutdown *)

\* sweep_idle: no bound connection, TTL passed; the entry goes, closed stays.
Sweep ==
    /\ sweeper = "idle" /\ registered /\ bound = {} /\ ~stopping
    /\ MayOutliveTtl \/ intake \in {"done", "dead"}
    /\ registered' = FALSE
    /\ sweeper' = "reaped"
    /\ UNCHANGED <<tables, closed, bound, stopping, writer, intakeVars>>

SweepDiscard ==
    /\ \/ sweeper = "reaped" /\ sweeper' = "drained" /\ DropStaged
       \/ sweeper = "drained" /\ sweeper' = "idle" /\ DropWritebacks
    /\ UNCHANGED <<final, last, registered, closed, bound, stopping, writer, intakeVars>>

BeginShutdown ==
    /\ ~stopping
    /\ stopping' = TRUE
    /\ UNCHANGED <<tables, registered, closed, bound, sweeper, writer, intakeVars>>

\* The cancel token drops a connection or a request at its await point.  The temp
\* a request is creating or verifying at that moment stays on disk.
CancelWriter(w) ==
    /\ stopping /\ writer[w].pc # "stopped"
    /\ \/ /\ writer' = [writer EXCEPT ![w].pc = "stopped"]
          /\ UNCHANGED disk
       \/ writer[w].pc = "checked" /\ writer[w].sent = 0 /\ LeaveTemp(w)
    /\ bound' = bound \ {w}
    /\ UNCHANGED <<wb, staged, final, last, registered, closed, sweeper, stopping, intakeVars>>

\* shutdown_sessions, after the tasks have drained.
ShutdownSession ==
    /\ stopping /\ registered /\ intake \in {"done", "dead"} /\ sweeper = "idle"
    /\ \A w \in Writers : writer[w].pc = "stopped"
    /\ registered' = FALSE /\ closed' = TRUE
    /\ wb' = Empty /\ staged' = Empty
    /\ disk' = disk \ (TempsIn(wb) \cup TempsIn(staged))
    /\ UNCHANGED <<final, last, bound, sweeper, stopping, writer, intakeVars>>

Next ==
    \/ \E w \in Writers :
          \/ Hello(w) \/ Bind(w) \/ Disconnect(w) \/ DispatchChunk(w)
          \/ WriteChunk(w) \/ WriteChunkFails(w) \/ RecordStaged(w) \/ CancelWriter(w)
    \/ DispatchReturns \/ Finish \/ BeginPublish \/ EndPublish \/ Discard \/ IntakeDies
    \/ \E o \in Outputs : PublishOne(o)
    \/ Sweep \/ SweepDiscard \/ BeginShutdown \/ ShutdownSession

Spec == Init /\ [][Next]_vars
----------------------------------------------------------------------------
\* WriteBack's contract: a final path holds what the action found, what a local
\* run wrote, or one worker's complete output.  Interleaved streams of two
\* attempts on one output id are never mixed into a published file.
WholeOutputs ==
    \A o \in Outputs :
        final[o] \in {Old, Local, Removed} \cup {Whole(w) : w \in Writers}

\* An action that reports exit 0 leaves the outputs of one run: no mix of local and
\* remote ones, whichever rename of the batch failed.
NoMixedOutputs ==
    intake = "done" /\ outcome \in {"success", "local"} =>
        \/ \A o \in Outputs : final[o] = Local
        \/ \A o \in Outputs : final[o] \notin {Local, Removed}

\* Every attempt of an action stages into the same table, so the last write-back
\* acknowledged before the session closed wins, whichever attempt's exit was
\* accepted: when the action is reported as a remote success each final path
\* holds the output last acknowledged for it (or what it held, if none was), and
\* no other bytes of a worker are ever on a final path, nor any of an action
\* that was not a remote success.
LastAcknowledgedWins ==
    /\ intake = "done" /\ outcome = "success" =>
         \A o \in Outputs : final[o] = IF last[o] = Nobody THEN Old ELSE Whole(last[o])
    /\ \A o \in Outputs, w \in Writers : final[o] = Whole(w) =>
         last[o] = w /\ outcome \in {"success", "error", "rerunfailed"}

\* record_staged promises that nothing is staged after discard has run.
NothingStagedAfterDiscard == intake = "done" => staged = Empty

\* The ADD-001 gate: a finished session rejects late data-plane operations.
FinishedIsClosed ==
    intake \in {"publish", "publishing", "discard", "discarding", "done"} => closed

\* Every temp is in the hands of somebody who will rename it or call
\* remove_root_file for it: a stream, the staged table, a publish batch, or the
\* request that verifies it.  The exceptions are the temp of a request or a batch
\* that was cancelled, and that of a create_staging_temp that failed after it
\* created the file.
TempsAreOwned ==
    disk \subseteq TempsIn(wb) \cup TempsIn(staged) \cup TempsIn(batch)
                   \cup UNION {TempOf(writer[w].file) : w \in Writers}

\* discard_staged is used "to avoid leaving session-owned temp files behind": when
\* the action is done, no request is in flight and none failed to create its temp,
\* no temp is left.
NoTempLeftBehind ==
    /\ intake = "done" /\ ~stopping
    /\ \A w \in Writers : writer[w].pc \notin {"checked", "verify"} /\ writer[w].file = NoFile
    => disk = {}
============================================================================
