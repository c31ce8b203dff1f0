----------------------------- MODULE AgentCache -----------------------------
(***************************************************************************)
(* The agent's action cache (crates/agent/src/action_cache.rs over         *)
(* crates/cas/src/action_cache.rs and store.rs), for one weak key.         *)
(*                                                                         *)
(* A submission first looks its action up: weak key -> manifest of the     *)
(* inputs an earlier run read -> their CURRENT content -> strong key ->    *)
(* result, whose output blobs are verified, staged and renamed into place. *)
(* On a miss the action runs and, if the run qualifies, is recorded: the   *)
(* manifest, the output blobs, and the result under the strong key that    *)
(* the inputs hash to when they are re-read AFTER the run.                 *)
(*                                                                         *)
(* Digests are modelled by the content they name and the strong key by     *)
(* what it digests: a function from inputs to (kind, content).  Several    *)
(* submissions of the action may be in flight.  The environment edits      *)
(* inputs, cleans outputs, evicts and corrupts blobs, damages cache        *)
(* entries, and crashes the daemon.                                        *)
(***************************************************************************)
EXTENDS Naturals, FiniteSets

CONSTANTS
    Tasks,      \* submissions of the action
    Files,      \* paths the action may read
    Contents,   \* what an input file may hold
    Outputs,    \* logical output paths
    Blobs,      \* what an output file may hold
    Reads,      \* Reads[g]: the paths a run over the input tree g reads or probes
    Out,        \* Out[g]: the output files such a run writes
    Missing,    \* no file at the path
    Removed,    \* no file: a failed verification of the output removed it
    NoOutput,   \* no output is being verified
    Garbage,    \* bytes of a damaged blob
    NoManifest, \* no (readable) manifest under the weak key
    MaxEdits,   \* bound on edited inputs and cleaned outputs
    MaxFaults   \* bound on damaged blobs and entries and on crashes

Tree == [Files -> Contents \cup {Missing}]

\* The action is a deterministic tool that reads only what its trace shows:
\* inputs that agree on everything it read give the same reads and outputs.
ASSUME Deterministic ==
    /\ Reads \in [Tree -> SUBSET Files]
    /\ Out \in [Tree -> [Outputs -> Blobs]]
    /\ \A g, h \in Tree : (\A f \in Reads[g] : g[f] = h[f])
                              => Reads[h] = Reads[g] /\ Out[h] = Out[g]

ASSUME Distinct ==
    /\ Missing \notin Contents /\ Missing \notin Blobs
    /\ Removed \notin Blobs /\ Removed # Missing
    /\ Garbage \notin Blobs /\ Garbage # Missing
    /\ NoOutput \notin Outputs
    /\ NoManifest \notin [Files -> {"unread", "content", "absent"}]

ASSUME Bounds == MaxEdits \in Nat /\ MaxFaults \in Nat

VARIABLES
    fs,        \* input files on disk
    out,       \* output files on disk
    blobs,     \* the content-addressed store: state of each blob
    manifest,  \* ac/weak
    results,   \* ac/strong
    task,      \* each submission's local state
    intact,    \* submissions whose file, just renamed onto an output path, is
               \* still the file there (its identity has not changed)
    edits, faults

vars == <<fs, out, blobs, manifest, results, task, intact, edits, faults>>

-----------------------------------------------------------------------------
(* Manifests and strong keys *)

Kinds == {"unread", "content", "absent"}
Manifests == [Files -> Kinds]
Keys == [Files -> [kind : Kinds, val : Contents \cup {Missing}]]
Unkeyed == [kind |-> "unread", val |-> Missing]
NoKey == [f \in Files |-> Unkeyed]

Tracked(m) == {f \in Files : m[f] # "unread"}

\* Mutation: failed probes are left out of the manifest.
MutManifest(view) ==
    [f \in Files |-> IF f \in Reads[view] /\ fs[f] # Missing THEN "content"
                                                              ELSE "unread"]
\* Every traced input that exists now is content; one that does not is a stable
\* absence if the run itself failed to find it.
input_manifest(view) ==
    [f \in Files |-> IF f \notin Reads[view] THEN "unread"
                     ELSE IF fs[f] # Missing THEN "content" ELSE "absent"]

\* A content read that has vanished since the run makes the action uncacheable.
Cacheable(view) == \A f \in Reads[view] : fs[f] = Missing => view[f] = Missing

\* Mutation: a probed absence is a constant, a file that has appeared included.
MutToken(m, f) ==
    [kind |-> m[f], val |-> IF m[f] = "absent" THEN Missing ELSE fs[f]]
\* One token of manifest_hash: (kind, current content) is what the four token
\* forms (a hash, <missing>, absent, appeared:hash) tell apart.
Token(m, f) == [kind |-> m[f], val |-> fs[f]]

\* The key k is the strong key of a tree g that holds what k digests.
Matches(k, g) == \A f \in Files : k[f].kind # "unread" => k[f].val = g[f]

-----------------------------------------------------------------------------
Nothing == [o \in Outputs |-> Missing]

Idle == [pc |-> "idle", view |-> [f \in Files |-> Missing],
         man |-> [f \in Files |-> "unread"], key |-> NoKey, unread |-> {},
         outs |-> Nothing, staged |-> Nothing, left |-> {}, now |-> NoOutput]

Init ==
    /\ fs \in Tree
    /\ out = Nothing
    /\ blobs = [b \in Blobs |-> "absent"]
    /\ manifest = NoManifest
    /\ results = {}
    /\ task = [t \in Tasks |-> Idle]
    /\ intact = {}
    /\ edits = 0 /\ faults = 0

Set(t, s) == task' = [task EXCEPT ![t] = s]
At(t, p) == task[t].pc = p
Disk == <<fs, out, blobs, manifest, results, intact, edits, faults>>

\* The submissions that are about to verify the file they renamed onto o.
Verifying(o) == {t \in Tasks : task[t].now = o}

Submit(t) ==
    /\ At(t, "idle")
    /\ Set(t, [Idle EXCEPT !.pc = "lookup"])
    /\ UNCHANGED Disk

Miss(t) == Set(t, [Idle EXCEPT !.pc = "miss"]) /\ UNCHANGED Disk

\* resolve: the manifest, absent and undecodable alike being a miss.
get_manifest(t) ==
    /\ At(t, "lookup")
    /\ \/ manifest = NoManifest /\ Miss(t)
       \/ /\ manifest # NoManifest
          /\ Set(t, [Idle EXCEPT !.pc = "hash", !.man = manifest,
                                 !.unread = Tracked(manifest)])
          /\ UNCHANGED Disk

\* manifest_hash reads the inputs one by one, in resolve and again in record.
\* (A lookup's view only remembers what it read, for the properties.)
HashInput(t, f) ==
    /\ task[t].pc \in {"hash", "rehash"} /\ f \in task[t].unread
    /\ Set(t, [task[t] EXCEPT !.key[f] = Token(task[t].man, f),
                              !.view[f] = IF At(t, "hash") THEN fs[f] ELSE @,
                              !.unread = @ \ {f}])
    /\ UNCHANGED Disk

\* An input that cannot be read for a reason other than absence is a miss.
HashFails(t) == At(t, "hash") /\ task[t].unread # {} /\ Miss(t)

get_result(t) ==
    /\ At(t, "hash") /\ task[t].unread = {}
    /\ \/ (\A e \in results : e.key # task[t].key) /\ Miss(t)
       \/ \E e \in results :
            /\ e.key = task[t].key
            /\ Set(t, [task[t] EXCEPT !.pc = "stage", !.outs = e.outs,
                                      !.left = Outputs])
            /\ UNCHANGED Disk

\* The bytes on disk under digest b, and whether they still hash to b.
Bytes(b) == IF blobs[b] = "bad" THEN Garbage ELSE b
get_verified(b) == blobs[b] = "good"

\* Moves on to pass p over all outputs once the current pass has none left.
Pass(s, o, here, next, again) ==
    [s EXCEPT !.pc = IF s.left = {o} THEN next ELSE here,
              !.left = IF s.left = {o} THEN again ELSE s.left \ {o}]

\* Pass 1: a verified blob is staged beside its final path.
Stage(t, o) ==
    /\ At(t, "stage") /\ o \in task[t].left
    /\ get_verified(task[t].outs[o])
    /\ Set(t, Pass([task[t] EXCEPT !.staged[o] = Bytes(task[t].outs[o])],
                   o, "stage", "commit", Outputs))
    /\ UNCHANGED Disk

\* A blob that is absent or corrupt, or an I/O error: everything is unstaged.
\* The submission treats an error like a miss and runs the action.
StageFails(t) == At(t, "stage") /\ Miss(t)

\* Pass 2: the staged files are renamed onto their final paths.  Whatever file
\* was there is replaced, one that another submission is about to verify included.
commit_staged(t, o) ==
    /\ At(t, "commit") /\ o \in task[t].left
    /\ out' = [out EXCEPT ![o] = task[t].staged[o]]
    /\ intact' = (intact \ Verifying(o)) \cup {t}
    /\ Set(t, [task[t] EXCEPT !.pc = "verify", !.now = o])
    /\ UNCHANGED <<fs, blobs, manifest, results, edits, faults>>

\* The temp fails its verification, or the rename fails.
CommitFails(t) == At(t, "commit") /\ Miss(t)

\* The final file must be the one that was renamed, with the staged bytes.
verify_cache_staging_file(t) ==
    LET o == task[t].now IN
    /\ At(t, "verify")
    /\ t \in intact /\ out[o] = task[t].staged[o]
    /\ intact' = intact \ {t}
    /\ Set(t, Pass([task[t] EXCEPT !.now = NoOutput], o, "commit", "hit", {}))
    /\ UNCHANGED <<fs, out, blobs, manifest, results, edits, faults>>

\* Mutation: the file is removed, but the action is not run.
MutVerifyFails(t) ==
    LET o == task[t].now IN
    /\ At(t, "verify")
    /\ intact' = intact \ Verifying(o)
    /\ out' = [out EXCEPT ![o] = IF @ = Missing THEN @ ELSE Removed]
    /\ Set(t, Idle)
    /\ UNCHANGED <<fs, blobs, manifest, results, edits, faults>>

\* It is another file, or cannot be read: whatever file is at the final path is
\* removed, which may fail, and the lookup ends in an error.
VerifyFails(t) ==
    LET o == task[t].now IN
    /\ At(t, "verify")
    /\ \/ UNCHANGED out /\ intact' = intact \ {t}
       \/ /\ out' = [out EXCEPT ![o] = IF @ = Missing THEN @ ELSE Removed]
          /\ intact' = intact \ Verifying(o)
    /\ Set(t, [Idle EXCEPT !.pc = "miss"])
    /\ UNCHANGED <<fs, blobs, manifest, results, edits, faults>>

-----------------------------------------------------------------------------
\* The action runs over the tree its session pinned, then writes its outputs.
Execute(t) ==
    /\ At(t, "miss")
    /\ Set(t, [Idle EXCEPT !.pc = "write", !.view = fs, !.left = Outputs])
    /\ UNCHANGED Disk

\* A file that is there may be overwritten or replaced by a new one.
WriteOutput(t, o) ==
    /\ At(t, "write") /\ o \in task[t].left
    /\ out' = [out EXCEPT ![o] = Out[task[t].view][o]]
    /\ intact' \in {intact, intact \ Verifying(o)}
    /\ Set(t, Pass(task[t], o, "write", "ran", {}))
    /\ UNCHANGED <<fs, blobs, manifest, results, edits, faults>>

\* record, first part: the manifest is extracted from the trace and stored.
put_manifest(t) ==
    /\ At(t, "ran") /\ Cacheable(task[t].view)
    /\ LET m == input_manifest(task[t].view) IN
         /\ manifest' = m
         /\ Set(t, [task[t] EXCEPT !.pc = "ingest", !.man = m, !.left = Outputs])
    /\ UNCHANGED <<fs, out, blobs, results, intact, edits, faults>>

\* record, second part: each output is read back from disk into the store,
\* where a damaged blob of the same digest is replaced.
Ingest(t, o) ==
    /\ At(t, "ingest") /\ o \in task[t].left /\ out[o] \in Blobs
    /\ blobs' = [blobs EXCEPT ![out[o]] = "good"]
    /\ LET s == [task[t] EXCEPT !.outs[o] = out[o]] IN
         Set(t, [Pass(s, o, "ingest", "rehash", {})
                   EXCEPT !.unread = Tracked(task[t].man)])
    /\ UNCHANGED <<fs, out, manifest, results, intact, edits, faults>>

\* Mutation: the manifest is stored but not the result.
MutPutResult(t) ==
    /\ At(t, "rehash") /\ task[t].unread = {}
    /\ Set(t, [Idle EXCEPT !.pc = "stored"])
    /\ UNCHANGED Disk

\* record, last part: the result is stored under the key just computed.
put_result(t) ==
    /\ At(t, "rehash") /\ task[t].unread = {}
    /\ results' = {e \in results : e.key # task[t].key}
                    \cup {[key |-> task[t].key, outs |-> task[t].outs]}
    /\ Set(t, [Idle EXCEPT !.pc = "stored"])
    /\ UNCHANGED <<fs, out, blobs, manifest, intact, edits, faults>>

\* The run does not qualify (exit code, fallback, unverified tool, uncacheable
\* manifest), or an output or input cannot be read back while recording.
NotRecorded(t) ==
    /\ task[t].pc \in {"ran", "ingest", "rehash"}
    /\ Set(t, Idle)
    /\ UNCHANGED Disk

Finish(t) ==
    /\ task[t].pc \in {"hit", "stored"}
    /\ Set(t, Idle)
    /\ UNCHANGED Disk

-----------------------------------------------------------------------------
(* The environment *)

Edit(f, c) ==
    /\ edits < MaxEdits /\ c # fs[f]
    /\ fs' = [fs EXCEPT ![f] = c]
    /\ edits' = edits + 1
    /\ UNCHANGED <<out, blobs, manifest, results, task, intact, faults>>

Clean(o) ==
    /\ edits < MaxEdits /\ out[o] # Missing
    /\ out' = [out EXCEPT ![o] = Missing]
    /\ intact' = intact \ Verifying(o)
    /\ edits' = edits + 1
    /\ UNCHANGED <<fs, blobs, manifest, results, task, faults>>

evict_to(b) ==
    /\ blobs[b] # "absent"
    /\ blobs' = [blobs EXCEPT ![b] = "absent"]
    /\ UNCHANGED <<fs, out, manifest, results, task, intact, edits, faults>>

Fault == faults < MaxFaults /\ faults' = faults + 1

Corrupt(b) ==
    /\ Fault /\ blobs[b] = "good"
    /\ blobs' = [blobs EXCEPT ![b] = "bad"]
    /\ UNCHANGED <<fs, out, manifest, results, task, intact, edits>>

\* A damaged manifest or result fails its checksum and reads as absent.
LoseManifest ==
    /\ Fault /\ manifest # NoManifest
    /\ manifest' = NoManifest
    /\ UNCHANGED <<fs, out, blobs, results, task, intact, edits>>

LoseResult ==
    /\ Fault
    /\ \E e \in results : results' = results \ {e}
    /\ UNCHANGED <<fs, out, blobs, manifest, task, intact, edits>>

\* The daemon stops between any two steps; only the disk survives.
Crash ==
    /\ Fault
    /\ task' = [t \in Tasks |-> Idle]
    /\ intact' = {}
    /\ UNCHANGED <<fs, out, blobs, manifest, results, edits>>

resolve(t) ==
    \/ get_manifest(t) \/ HashFails(t) \/ get_result(t)
    \/ StageFails(t) \/ CommitFails(t)
    \/ verify_cache_staging_file(t) \/ VerifyFails(t)
    \/ \E o \in Outputs : Stage(t, o) \/ commit_staged(t, o)

record(t) ==
    \/ put_manifest(t) \/ put_result(t) \/ NotRecorded(t)
    \/ \E o \in Outputs : Ingest(t, o)

Next ==
    \/ \E t \in Tasks :
         \/ Submit(t) \/ resolve(t) \/ Execute(t) \/ record(t) \/ Finish(t)
         \/ \E f \in Files : HashInput(t, f)
         \/ \E o \in Outputs : WriteOutput(t, o)
    \/ \E f \in Files, c \in Contents \cup {Missing} : Edit(f, c)
    \/ \E o \in Outputs : Clean(o)
    \/ \E b \in Blobs : evict_to(b) \/ Corrupt(b)
    \/ LoseManifest \/ LoseResult \/ Crash

Spec == Init /\ [][Next]_vars

\* The build's discipline: no input is edited while a submission is in flight.
EditsAwait == fs' # fs => \A t \in Tasks : At(t, "idle")

QuietSpec == Init /\ [][Next /\ EditsAwait]_vars

-----------------------------------------------------------------------------
(* Properties *)

Holds == Blobs \cup {Missing}
OnDisk == Holds \cup {Removed}
TaskType ==
    [pc : {"idle", "lookup", "hash", "stage", "commit", "verify", "hit",
           "miss", "write", "ran", "ingest", "rehash", "stored"},
     view : Tree, man : Manifests, key : Keys, unread : SUBSET Files,
     outs : [Outputs -> Holds], staged : [Outputs -> Holds],
     left : SUBSET Outputs, now : Outputs \cup {NoOutput}]

TypeOK ==
    /\ fs \in Tree
    /\ out \in [Outputs -> OnDisk]
    /\ blobs \in [Blobs -> {"absent", "good", "bad"}]
    /\ manifest \in Manifests \cup {NoManifest}
    /\ results \subseteq [key : Keys, outs : [Outputs -> Blobs]]
    /\ task \in [Tasks -> TaskType]
    /\ intact \subseteq Tasks
    /\ edits \in Nat /\ faults \in Nat

\* What the key digests determines the outputs it is given: whatever tree has
\* these inputs, a run over it would write exactly these files.
Explains(k, outs) == \A g \in Tree : Matches(k, g) => outs = Out[g]

\* Every stored result is the one its strong key explains.
ResultInv == \A e \in results : Explains(e.key, e.outs)

\* A submission's key holds the current content of each tracked input it has
\* hashed, and nothing else.
Hashed(s) == Tracked(s.man) \ s.unread
KeyInv(s) ==
    /\ s.pc \in {"hash", "stage", "commit", "verify", "hit", "rehash"} =>
         /\ s.unread \subseteq Tracked(s.man)
         /\ \A f \in Files :
              s.key[f] = IF f \in Hashed(s) THEN Token(s.man, f) ELSE Unkeyed
    /\ s.pc \in {"hash", "stage", "commit", "verify", "hit"} =>
         \A f \in Hashed(s) : s.view[f] = fs[f]

\* What is about to be published, or recorded, is what a run would write now.
OutsInv(s) ==
    /\ s.pc \in {"stage", "commit", "verify", "hit"} =>
         s.outs = Out[fs] /\ s.unread = {} /\ Explains(s.key, s.outs)
    /\ s.pc = "stage" => \A o \in Outputs \ s.left : s.staged[o] = Out[fs][o]
    /\ s.pc \in {"commit", "verify", "hit"} => s.staged = Out[fs]
    /\ s.pc = "verify" => s.now \in s.left
    /\ s.pc = "ingest" => \A o \in Outputs \ s.left : s.outs[o] = Out[fs][o]
    /\ s.pc = "rehash" => s.outs = Out[fs]

\* A run in flight read the tree as it is, and so is its manifest.
RunInv(s) ==
    /\ s.pc \in {"write", "ran", "ingest", "rehash"} => s.view = fs
    /\ s.pc \in {"write", "ran", "ingest"} => s.key = NoKey
    /\ s.pc \in {"ingest", "rehash"} => Tracked(s.man) = Reads[fs]

\* A submission that will yet write the output o.
Rewrites(s, o) == s.pc = "miss" \/ (s.pc = "write" /\ o \in s.left)

\* Outputs a submission has put in place are current unless cleaned since, or
\* removed by a submission whose verification failed and which now runs.
Current(o) ==
    \/ out[o] \in {Missing, Out[fs][o]}
    \/ out[o] = Removed /\ \E t \in Tasks : Rewrites(task[t], o)
DiskInv(s) ==
    /\ s.pc \in {"write", "commit", "verify"} => \A o \in Outputs \ s.left : Current(o)
    /\ s.pc \in {"ran", "ingest", "rehash", "hit"} => \A o \in Outputs : Current(o)

TaskInv(s) == KeyInv(s) /\ OutsInv(s) /\ RunInv(s) /\ DiskInv(s)

\* The inductive invariant of quiet builds: types, every result explained by
\* its key, and each submission's local state true of the tree as it is.
CacheInv == TypeOK /\ ResultInv /\ \A t \in Tasks : TaskInv(task[t])

\* A stale result is never served: from the first rename on, the bytes that a
\* lookup publishes are those the action produces from the inputs the lookup
\* itself read, whatever was evicted, corrupted or lost, and wherever the
\* daemon crashed (header of action_cache.rs; resolve).
NeverStale ==
    \A t \in Tasks : task[t].pc \in {"commit", "verify", "hit"} =>
        \A g \in Tree :
            (\A f \in Tracked(task[t].man) : g[f] = task[t].view[f])
                => task[t].staged = Out[g]

\* When a lookup reports a hit, every output on disk is what running the
\* action now would write, also when other submissions of the action publish
\* or run at the same time.  An output may be absent for two reasons only: it
\* was cleaned since, or another submission found that the file it had renamed
\* was replaced (possibly by this hit), removed it, and is about to run the
\* action and write it again.
HitIsCurrent ==
    \A t \in Tasks : task[t].pc = "hit" => \A o \in Outputs : Current(o)

\* Recording pays off: once a submission has stored its result, the manifest
\* under the weak key leads to a stored result for the tree as it is, whichever
\* submissions recorded in between, as long as no cache entry was damaged.
RecordingMakesHits ==
    \A t \in Tasks : task[t].pc = "stored" /\ faults = 0 =>
        /\ manifest # NoManifest
        /\ \E e \in results :
             e.key = [f \in Files |-> IF f \in Tracked(manifest)
                                        THEN Token(manifest, f) ELSE Unkeyed]

=============================================================================
