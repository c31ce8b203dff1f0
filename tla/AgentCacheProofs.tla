-------------------------- MODULE AgentCacheProofs --------------------------
(***************************************************************************)
(* Proofs about the action cache: in a build whose inputs are not edited   *)
(* while a submission is in flight, no stale result is ever stored or      *)
(* served, for any number of submissions, inputs, outputs and trees, and   *)
(* for every deterministic action.                                         *)
(***************************************************************************)
EXTENDS AgentCache, TLAPS

\* A state of a submission with the invariant of submissions.
Sound(s) == s \in TaskType /\ TaskInv(s)

-----------------------------------------------------------------------------
\* Facts about the constants and the states submissions start from.

LEMMA IdleTypes ==
    ASSUME NEW p \in {"idle", "lookup", "miss", "stored"}
    PROVE  /\ [Idle EXCEPT !.pc = p] \in TaskType
           /\ [Idle EXCEPT !.pc = p].pc = p
  BY DEF Idle, TaskType, Tree, Manifests, Kinds, Keys, NoKey, Unkeyed, Nothing, Holds

\* The invariant says nothing of a submission that is not yet, or no longer,
\* looking up or running.
LEMMA IdleSound ==
    ASSUME NEW p \in {"idle", "lookup", "miss", "stored"}
    PROVE  Sound([Idle EXCEPT !.pc = p]) /\ Sound([Idle EXCEPT !.pc = p])'
<1>1. [Idle EXCEPT !.pc = p].pc = p
  BY IdleTypes
<1>2. TaskInv([Idle EXCEPT !.pc = p])
  BY <1>1 DEF TaskInv, KeyInv, OutsInv, RunInv, DiskInv
<1>3. TaskInv([Idle EXCEPT !.pc = p])'
  BY <1>1 DEF TaskInv, KeyInv, OutsInv, RunInv, DiskInv
<1> QED
  BY <1>2, <1>3, IdleTypes DEF Sound

LEMMA IdleIsSound == Sound(Idle) /\ Sound(Idle)' /\ Idle.pc = "idle"
<1>1. Idle = [Idle EXCEPT !.pc = "idle"] /\ Idle.pc = "idle"
  BY DEF Idle
<1> QED
  BY <1>1, IdleSound

\* The initial state has the invariant.
LEMMA InitCache == Init => CacheInv
<1> SUFFICES ASSUME Init PROVE CacheInv
  OBVIOUS
<1>1. \A t \in Tasks : task[t] = Idle
  BY DEF Init
<1>2. TypeOK
  BY IdleIsSound DEF Init, TypeOK, Sound, Nothing, Holds, OnDisk
<1>3. ResultInv
  BY DEF Init, ResultInv
<1> QED
  BY <1>1, <1>2, <1>3, IdleIsSound DEF CacheInv, Sound

\* Outputs that are current stay so.
Settles == \A o \in Outputs : Current(o) => Current(o)'

\* They do when a submission changes them only to current content or to
\* nothing, or removes them and goes on to run, and when it writes what it had
\* yet to write.
LEMMA Settling ==
    ASSUME TypeOK, NEW t \in Tasks, NEW s, Set(t, s), fs' = fs,
           \A o \in Outputs : \/ out'[o] \in {out[o], Missing, Out[fs][o]}
                              \/ out'[o] = Removed /\ s.pc = "miss",
           \A o \in Outputs : Rewrites(task[t], o) =>
                                 Rewrites(s, o) \/ out'[o] = Out[fs][o]
    PROVE  Settles
<1> SUFFICES ASSUME NEW o \in Outputs, Current(o) PROVE Current(o)'
  BY DEF Settles
<1>1. \A u \in Tasks : task'[u] = IF u = t THEN s ELSE task[u]
  BY DEF Set, TypeOK
<1>2. CASE out'[o] \in {Missing, Out[fs][o]}
  BY <1>2 DEF Current
<1>3. CASE out'[o] = Removed /\ s.pc = "miss"
  <2>1. Rewrites(task'[t], o)
    BY <1>1, <1>3 DEF Rewrites
  <2> QED
    BY <1>3, <2>1 DEF Current, Rewrites
<1>4. CASE out'[o] = out[o] /\ out'[o] \notin {Missing, Out[fs][o]}
  <2>1. out[o] = Removed /\ \E u \in Tasks : Rewrites(task[u], o)
    BY <1>4 DEF Current
  <2>2. PICK u \in Tasks : Rewrites(task[u], o)
    BY <2>1
  <2>3. Rewrites(task'[u], o)
    BY <1>1, <1>4, <2>2
  <2> QED
    BY <1>4, <2>1, <2>3 DEF Current, Rewrites
<1> QED
  BY <1>2, <1>3, <1>4

\* A submission's invariant survives what others do to the disk.
LEMMA TaskStays ==
    ASSUME NEW s \in TaskType, TaskInv(s), fs' = fs, Settles
    PROVE  TaskInv(s)'
<1>1. \A o \in Outputs : Current(o) => Current(o)'
  BY DEF Settles
<1>2. KeyInv(s)'
  BY DEF TaskInv, KeyInv, Token, Hashed
<1>3. OutsInv(s)'
  BY DEF TaskInv, OutsInv, Explains, Matches
<1>4. RunInv(s)'
  BY DEF TaskInv, RunInv
<1>5. DiskInv(s)'
  BY <1>1 DEF TaskInv, DiskInv
<1> QED
  BY <1>2, <1>3, <1>4, <1>5 DEF TaskInv

\* One submission moves to a sound state, and the disk stays well formed.
LEMMA Moves ==
    ASSUME CacheInv, NEW t \in Tasks, NEW s \in TaskType, TaskInv(s)',
           Set(t, s), fs' = fs, Settles, ResultInv',
           out' \in [Outputs -> OnDisk],
           blobs' \in [Blobs -> {"absent", "good", "bad"}],
           manifest' \in Manifests \cup {NoManifest},
           results' \subseteq [key : Keys, outs : [Outputs -> Blobs]],
           intact' \subseteq Tasks, edits' \in Nat, faults' \in Nat
    PROVE  CacheInv'
<1>1. task' \in [Tasks -> TaskType]
  BY DEF CacheInv, TypeOK, Set
<1>2. TypeOK'
  BY <1>1 DEF CacheInv, TypeOK
<1>3. ASSUME NEW u \in Tasks PROVE TaskInv(task[u])'
  <2>1. CASE u = t
    <3>1. task'[u] = s
      BY <2>1 DEF Set, CacheInv, TypeOK
    <3> QED
      BY <3>1
  <2>2. CASE u # t
    <3>1. task'[u] = task[u]
      BY <2>2 DEF Set, CacheInv, TypeOK
    <3>2. task[u] \in TaskType /\ TaskInv(task[u])
      BY DEF CacheInv, TypeOK
    <3>3. PICK r \in TaskType : r = task[u]
      BY <3>2
    <3>4. TaskInv(r)'
      BY <3>2, <3>3, TaskStays
    <3> QED
      BY <3>1, <3>3, <3>4
  <2> QED
    BY <2>1, <2>2
<1> QED
  BY <1>2, <1>3 DEF CacheInv

\* The common case: the disk is untouched, and so is what is yet to be written.
LEMMA LocalMoves ==
    ASSUME CacheInv, NEW t \in Tasks, NEW s, Sound(s), Set(t, s), UNCHANGED Disk,
           \/ task[t].pc \notin {"miss", "write"}
           \/ s.pc = "miss"
           \/ s.pc = "write" /\ s.left = Outputs
    PROVE  CacheInv'
<1>1. Settles /\ fs' = fs
  <2>1. \A o \in Outputs : Rewrites(task[t], o) => Rewrites(s, o)
    BY DEF Rewrites
  <2>2. TypeOK /\ UNCHANGED <<fs, out>>
    BY DEF CacheInv, Disk
  <2> QED
    BY <2>1, <2>2, Settling
<1>2. TaskInv(s)'
  BY <1>1, TaskStays DEF Sound
<1>3. ResultInv'
  BY DEF CacheInv, ResultInv, Explains, Matches, Disk
<1>4. /\ out' \in [Outputs -> OnDisk]
      /\ blobs' \in [Blobs -> {"absent", "good", "bad"}]
      /\ manifest' \in Manifests \cup {NoManifest}
      /\ results' \subseteq [key : Keys, outs : [Outputs -> Blobs]]
      /\ intact' \subseteq Tasks /\ edits' \in Nat /\ faults' \in Nat
  BY DEF CacheInv, TypeOK, Disk
<1> QED
  BY <1>1, <1>2, <1>3, <1>4, Moves DEF Sound

-----------------------------------------------------------------------------
\* Lookup.

LEMMA MissKeeps ==
    ASSUME CacheInv, NEW t \in Tasks, Miss(t)
    PROVE  CacheInv'
  BY IdleSound, IdleTypes, LocalMoves DEF Miss

LEMMA LookupKeeps ==
    ASSUME CacheInv, NEW t \in Tasks, get_manifest(t)
    PROVE  CacheInv'
<1>1. CASE Miss(t)
  BY <1>1, MissKeeps
<1>2. CASE ~Miss(t)
  <2>1. PICK s : s = [Idle EXCEPT !.pc = "hash", !.man = manifest,
                                  !.unread = Tracked(manifest)]
    OBVIOUS
  <2>2. manifest \in Manifests /\ Set(t, s) /\ UNCHANGED Disk /\ task[t].pc = "lookup"
    BY <1>2, <2>1 DEF get_manifest, At, CacheInv, TypeOK
  <2>3. Tracked(manifest) \subseteq Files
    BY DEF Tracked
  <2>4. s \in TaskType
    BY <2>1, <2>2, <2>3, IdleIsSound DEF Sound, TaskType
  <2>5. /\ s.pc = "hash" /\ s.key = NoKey /\ Hashed(s) = {}
        /\ s.unread \subseteq Tracked(s.man)
    BY <2>1 DEF Idle, Hashed
  <2>6. TaskInv(s)
    BY <2>5 DEF TaskInv, KeyInv, OutsInv, RunInv, DiskInv, NoKey
  <2> QED
    BY <2>2, <2>4, <2>6, LocalMoves DEF Sound
<1> QED
  BY <1>1, <1>2

LEMMA HashInputKeeps ==
    ASSUME CacheInv, NEW t \in Tasks, NEW f \in Files, HashInput(t, f)
    PROVE  CacheInv'
<1>1. PICK r \in TaskType : r = task[t] /\ TaskInv(r)
  BY DEF CacheInv, TypeOK
<1>2. r.pc \in {"hash", "rehash"} /\ f \in r.unread /\ fs \in Tree
  BY <1>1 DEF HashInput, CacheInv, TypeOK
<1>3. PICK s : s = [r EXCEPT !.key[f] = Token(r.man, f),
                             !.view[f] = IF r.pc = "hash" THEN fs[f] ELSE @,
                             !.unread = @ \ {f}]
  OBVIOUS
<1>4. Set(t, s) /\ UNCHANGED Disk
  BY <1>1, <1>3 DEF HashInput, At
<1>5. Token(r.man, f) \in [kind : Kinds, val : Contents \cup {Missing}]
  BY <1>1, <1>2 DEF Token, TaskType, Manifests, Tree
<1>6. s \in TaskType
  BY ZenonT(60), <1>1, <1>2, <1>3, <1>5 DEF TaskType, Keys, Tree
<1>7. /\ s.pc = r.pc /\ s.man = r.man /\ s.unread = r.unread \ {f}
      /\ s.outs = r.outs /\ s.left = r.left /\ s.staged = r.staged
      /\ r.pc = "rehash" => s.view = r.view
      /\ \A g \in Files :
           /\ s.key[g] = IF g = f THEN Token(r.man, f) ELSE r.key[g]
           /\ r.pc = "hash" => s.view[g] = IF g = f THEN fs[f] ELSE r.view[g]
  BY <1>1, <1>2, <1>3 DEF TaskType, Keys, Tree
<1>8. KeyInv(s)
  <2>1. \A g \in Files : g \in Hashed(s) <=> g \in Hashed(r) \/ (g = f /\ f \in Tracked(r.man))
    BY <1>1, <1>7 DEF Hashed
  <2>2. f \in Tracked(r.man)
    BY <1>1, <1>2 DEF TaskInv, KeyInv
  <2>3. r.unread \subseteq Tracked(r.man)
    BY <1>1, <1>2 DEF TaskInv, KeyInv
  <2>4. s.unread \subseteq Tracked(s.man)
    BY <1>7, <2>3
  <2>5. \A g \in Files :
           s.key[g] = IF g \in Hashed(s) THEN Token(s.man, g) ELSE Unkeyed
    BY <1>1, <1>2, <1>7, <2>1, <2>2 DEF TaskInv, KeyInv
  <2>6. r.pc = "hash" => \A g \in Hashed(s) : s.view[g] = fs[g]
    BY <1>1, <1>2, <1>7, <2>1 DEF TaskInv, KeyInv, Hashed, Tracked
  <2> QED
    BY <1>2, <1>7, <2>4, <2>5, <2>6 DEF KeyInv
<1>9. OutsInv(s) /\ RunInv(s) /\ DiskInv(s)
  BY <1>1, <1>2, <1>7 DEF TaskInv, OutsInv, RunInv, DiskInv
<1> QED
  BY <1>1, <1>2, <1>4, <1>6, <1>8, <1>9, LocalMoves DEF Sound, TaskInv

\* A complete key matches the tree as it is, so its result is the current one.
LEMMA ResultKeeps ==
    ASSUME CacheInv, NEW t \in Tasks, get_result(t)
    PROVE  CacheInv'
<1>1. CASE Miss(t)
  BY <1>1, MissKeeps
<1>2. CASE ~Miss(t)
  <2>1. PICK r \in TaskType : r = task[t] /\ TaskInv(r)
    BY DEF CacheInv, TypeOK
  <2>2. r.pc = "hash" /\ r.unread = {} /\ fs \in Tree
    BY ZenonT(60), <2>1 DEF get_result, At, CacheInv, TypeOK
  <2>3. PICK e \in results :
           /\ e.key = r.key
           /\ Set(t, [r EXCEPT !.pc = "stage", !.outs = e.outs, !.left = Outputs])
           /\ UNCHANGED Disk
    BY <1>2, <2>1 DEF get_result
  <2>4. PICK s : s = [r EXCEPT !.pc = "stage", !.outs = e.outs, !.left = Outputs]
    OBVIOUS
  <2>5. e.outs \in [Outputs -> Blobs] /\ Explains(e.key, e.outs)
    BY DEF CacheInv, TypeOK, ResultInv
  <2>6. Matches(r.key, fs)
    <3>1. Unkeyed.kind = "unread" /\ \A f \in Files : Token(r.man, f).val = fs[f]
      BY DEF Unkeyed, Token
    <3>2. \A f \in Files : r.key[f] \in {Token(r.man, f), Unkeyed}
      BY <2>1, <2>2 DEF TaskInv, KeyInv
    <3> QED
      BY <3>1, <3>2 DEF Matches
  <2>7. e.outs = Out[fs]
    BY <2>2, <2>3, <2>5, <2>6 DEF Explains
  <2>8. s \in TaskType
    BY ZenonT(30), <2>1, <2>4, <2>5 DEF TaskType, Holds
  <2>9. /\ s.pc = "stage" /\ s.man = r.man /\ s.key = r.key /\ s.view = r.view
        /\ s.unread = r.unread /\ s.outs = e.outs /\ s.left = Outputs
    BY <2>1, <2>4 DEF TaskType
  <2>10. KeyInv(s)
    <3>1. Hashed(s) = Hashed(r)
      BY <2>9 DEF Hashed
    <3> QED
      BY <2>1, <2>2, <2>9, <3>1 DEF TaskInv, KeyInv
  <2>11. OutsInv(s) /\ RunInv(s) /\ DiskInv(s)
    BY <2>2, <2>3, <2>5, <2>7, <2>9 DEF OutsInv, RunInv, DiskInv
  <2> QED
    BY <2>1, <2>2, <2>3, <2>4, <2>8, <2>10, <2>11, LocalMoves DEF Sound, TaskInv
<1> QED
  BY <1>1, <1>2

\* A verified blob holds the bytes its digest names.
LEMMA StageKeeps ==
    ASSUME CacheInv, NEW t \in Tasks, NEW o \in Outputs, Stage(t, o)
    PROVE  CacheInv'
<1>1. PICK r \in TaskType : r = task[t] /\ TaskInv(r)
  BY DEF CacheInv, TypeOK
<1>2. /\ r.pc = "stage" /\ o \in r.left /\ r.outs = Out[fs] /\ r.unread = {}
      /\ Explains(r.key, r.outs)
  BY <1>1 DEF Stage, At, TaskInv, OutsInv
<1>3. PICK b : b = Out[fs][o]
  OBVIOUS
<1>4. b \in Blobs /\ Out[fs] \in [Outputs -> Blobs]
  BY <1>3, Deterministic DEF CacheInv, TypeOK
<1>5. Bytes(r.outs[o]) = b
  BY <1>1, <1>2, <1>3 DEF Stage, get_verified, Bytes
<1>6. PICK s : s = Pass([r EXCEPT !.staged[o] = b], o, "stage", "commit", Outputs)
  OBVIOUS
<1>7. Set(t, s) /\ UNCHANGED Disk
  BY <1>1, <1>5, <1>6 DEF Stage
<1>8. /\ s.pc = IF r.left = {o} THEN "commit" ELSE "stage"
      /\ s.left = IF r.left = {o} THEN Outputs ELSE r.left \ {o}
      /\ s.man = r.man /\ s.key = r.key /\ s.view = r.view
      /\ s.unread = r.unread /\ s.outs = r.outs
      /\ s.staged = [r.staged EXCEPT ![o] = b]
      /\ s \in TaskType
  BY ZenonT(60), <1>1, <1>4, <1>6 DEF Pass, TaskType, Holds
<1>9. \A p \in Outputs : s.staged[p] = IF p = o THEN b ELSE r.staged[p]
  BY <1>1, <1>8 DEF TaskType
<1>10. KeyInv(s)
  <2>1. Hashed(s) = Hashed(r)
    BY <1>8 DEF Hashed
  <2> QED
    BY <1>1, <1>2, <1>8, <2>1 DEF TaskInv, KeyInv
<1>11. OutsInv(s)
  <2>1. \A p \in Outputs \ (r.left \ {o}) : s.staged[p] = Out[fs][p]
    BY <1>1, <1>2, <1>3, <1>9 DEF TaskInv, OutsInv
  <2>2. CASE r.left = {o}
    <3>1. \A p \in Outputs : s.staged[p] = Out[fs][p]
      BY <2>1, <2>2
    <3>2. s.staged \in [Outputs -> Holds]
      BY <1>8 DEF TaskType
    <3>3. s.staged = Out[fs]
      BY <1>4, <3>1, <3>2
    <3> QED
      BY <1>2, <1>8, <2>2, <3>3 DEF OutsInv
  <2>3. CASE r.left # {o}
    BY <1>2, <1>8, <2>1, <2>3 DEF OutsInv
  <2> QED
    BY <2>2, <2>3
<1>12. RunInv(s) /\ DiskInv(s)
  BY <1>8 DEF RunInv, DiskInv
<1> QED
  BY <1>1, <1>2, <1>7, <1>8, <1>10, <1>11, <1>12, LocalMoves DEF Sound, TaskInv

\* The renamed bytes are current.
LEMMA CommitKeeps ==
    ASSUME CacheInv, NEW t \in Tasks, NEW o \in Outputs, commit_staged(t, o)
    PROVE  CacheInv'
<1>1. PICK r \in TaskType : r = task[t] /\ TaskInv(r)
  BY DEF CacheInv, TypeOK
<1>2. /\ r.pc = "commit" /\ o \in r.left /\ r.staged = Out[fs]
      /\ r.outs = Out[fs] /\ r.unread = {} /\ Explains(r.key, r.outs)
  BY <1>1 DEF commit_staged, At, TaskInv, OutsInv
<1>3. PICK s : s = [r EXCEPT !.pc = "verify", !.now = o]
  OBVIOUS
<1>4. /\ Set(t, s) /\ out' = [out EXCEPT ![o] = Out[fs][o]] /\ fs' = fs
      /\ intact' \subseteq Tasks /\ TypeOK
      /\ UNCHANGED <<blobs, manifest, results, edits, faults>>
  BY <1>1, <1>2, <1>3 DEF commit_staged, CacheInv, TypeOK
<1>5. /\ s.pc = "verify" /\ s.now = o /\ s.left = r.left
      /\ s.man = r.man /\ s.key = r.key /\ s.view = r.view
      /\ s.unread = r.unread /\ s.outs = r.outs /\ s.staged = r.staged
      /\ s \in TaskType
  BY <1>1, <1>3 DEF TaskType
<1>6. Out[fs] \in [Outputs -> Blobs] /\ out \in [Outputs -> OnDisk]
  BY Deterministic DEF CacheInv, TypeOK
<1>7. \A p \in Outputs : out'[p] = IF p = o THEN Out[fs][p] ELSE out[p]
  BY <1>4, <1>6
<1>8. out' \in [Outputs -> OnDisk]
  BY <1>4, <1>6, <1>7 DEF OnDisk, Holds
<1>9. Settles
  <2>1. \A p \in Outputs : ~Rewrites(task[t], p)
    BY <1>1, <1>2 DEF Rewrites
  <2>2. \A p \in Outputs : out'[p] \in {out[p], Missing, Out[fs][p]}
    BY <1>7
  <2> QED
    BY <1>4, <2>1, <2>2, Settling
<1>10. TaskInv(s)
  <2>1. Hashed(s) = Hashed(r)
    BY <1>5 DEF Hashed
  <2>2. KeyInv(s)
    BY <1>1, <1>2, <1>5, <2>1 DEF TaskInv, KeyInv
  <2>3. OutsInv(s) /\ RunInv(s)
    BY <1>2, <1>5 DEF OutsInv, RunInv
  <2>4. DiskInv(s)
    BY <1>1, <1>2, <1>5 DEF TaskInv, DiskInv
  <2> QED
    BY <2>2, <2>3, <2>4 DEF TaskInv
<1>11. TaskInv(s)'
  BY <1>4, <1>5, <1>9, <1>10, TaskStays
<1>12. ResultInv'
  BY <1>4 DEF CacheInv, ResultInv, Explains, Matches
<1> QED
  BY <1>4, <1>5, <1>8, <1>9, <1>11, <1>12, Moves DEF TypeOK

\* A verified output is current: it holds the staged bytes.
LEMMA VerifyKeeps ==
    ASSUME CacheInv, NEW t \in Tasks, verify_cache_staging_file(t)
    PROVE  CacheInv'
<1>1. PICK r \in TaskType : r = task[t] /\ TaskInv(r)
  BY DEF CacheInv, TypeOK
<1>2. /\ r.pc = "verify" /\ r.now \in r.left /\ r.staged = Out[fs]
      /\ r.outs = Out[fs] /\ r.unread = {} /\ Explains(r.key, r.outs)
  BY <1>1 DEF verify_cache_staging_file, At, TaskInv, OutsInv
<1>3. PICK o : o = r.now
  OBVIOUS
<1>4. PICK s : s = Pass([r EXCEPT !.now = NoOutput], o, "commit", "hit", {})
  OBVIOUS
<1>5. /\ Set(t, s) /\ out[o] = Out[fs][o] /\ UNCHANGED <<fs, out>>
      /\ intact' \subseteq Tasks /\ TypeOK
      /\ UNCHANGED <<blobs, manifest, results, edits, faults>>
  BY <1>1, <1>2, <1>3, <1>4 DEF verify_cache_staging_file, CacheInv, TypeOK
<1>6. /\ s.pc = IF r.left = {o} THEN "hit" ELSE "commit"
      /\ s.left = IF r.left = {o} THEN {} ELSE r.left \ {o}
      /\ s.man = r.man /\ s.key = r.key /\ s.view = r.view
      /\ s.unread = r.unread /\ s.outs = r.outs /\ s.staged = r.staged
      /\ s \in TaskType
  BY ZenonT(60), <1>1, <1>4 DEF Pass, TaskType
<1>7. Settles
  <2>1. \A p \in Outputs : ~Rewrites(task[t], p)
    BY <1>1, <1>2 DEF Rewrites
  <2> QED
    BY <1>5, <2>1, Settling
<1>8. KeyInv(s) /\ OutsInv(s) /\ RunInv(s)
  <2>1. Hashed(s) = Hashed(r)
    BY <1>6 DEF Hashed
  <2>2. KeyInv(s)
    BY <1>1, <1>2, <1>6, <2>1 DEF TaskInv, KeyInv
  <2>3. OutsInv(s) /\ RunInv(s)
    BY <1>2, <1>6 DEF OutsInv, RunInv
  <2> QED
    BY <2>2, <2>3
<1>9. DiskInv(s)
  <2>1. \A p \in Outputs \ (r.left \ {o}) : Current(p)
    BY <1>1, <1>2, <1>3, <1>5 DEF TaskInv, DiskInv, Current
  <2>2. CASE r.left = {o}
    <3>1. \A p \in Outputs : Current(p)
      BY <2>1, <2>2
    <3> QED
      BY <1>6, <2>2, <3>1 DEF DiskInv
  <2>3. CASE r.left # {o}
    BY <1>6, <2>1, <2>3 DEF DiskInv
  <2> QED
    BY <2>2, <2>3
<1>10. TaskInv(s)'
  BY <1>5, <1>6, <1>7, <1>8, <1>9, TaskStays DEF TaskInv
<1>11. ResultInv'
  BY <1>5 DEF CacheInv, ResultInv, Explains, Matches
<1> QED
  BY <1>5, <1>6, <1>7, <1>10, <1>11, Moves DEF TypeOK

\* The submission that removed an output is the one that will write it again.
LEMMA VerifyFailsKeeps ==
    ASSUME CacheInv, NEW t \in Tasks, VerifyFails(t)
    PROVE  CacheInv'
<1>1. PICK s : s = [Idle EXCEPT !.pc = "miss"]
  OBVIOUS
<1>2. s \in TaskType /\ TaskInv(s)' /\ s.pc = "miss"
  BY <1>1, IdleSound, IdleTypes DEF Sound
<1>3. /\ Set(t, s) /\ fs' = fs /\ intact' \subseteq Tasks /\ TypeOK
      /\ UNCHANGED <<blobs, manifest, results, edits, faults>>
  BY <1>1 DEF VerifyFails, CacheInv, TypeOK
<1>4. PICK o : o = task[t].now
  OBVIOUS
<1>5. \/ out' = out
      \/ out' = [out EXCEPT ![o] = IF @ = Missing THEN @ ELSE Removed]
  BY <1>4 DEF VerifyFails
<1>6. out' \in [Outputs -> OnDisk] /\ \A p \in Outputs : out'[p] \in {out[p], Removed}
  BY <1>3, <1>5 DEF TypeOK, OnDisk
<1>7. Settles
  <2>1. \A p \in Outputs : Rewrites(s, p)
    BY <1>2 DEF Rewrites
  <2> QED
    BY <1>2, <1>3, <1>6, <2>1, Settling
<1>8. ResultInv'
  BY <1>3 DEF CacheInv, ResultInv, Explains, Matches
<1> QED
  BY <1>2, <1>3, <1>6, <1>7, <1>8, Moves DEF TypeOK

-----------------------------------------------------------------------------
\* Running and recording.

LEMMA ExecuteKeeps ==
    ASSUME CacheInv, NEW t \in Tasks, Execute(t)
    PROVE  CacheInv'
<1>1. PICK s : s = [Idle EXCEPT !.pc = "write", !.view = fs, !.left = Outputs]
  OBVIOUS
<1>2. Set(t, s) /\ UNCHANGED Disk /\ fs \in Tree
  BY <1>1 DEF Execute, CacheInv, TypeOK
<1>3. /\ s \in TaskType /\ s.pc = "write" /\ s.view = fs /\ s.left = Outputs
      /\ s.key = NoKey
  <2>1. s \in TaskType
    BY ZenonT(30), <1>1, <1>2, IdleIsSound DEF Sound, TaskType
  <2> QED
    BY <1>1, <2>1 DEF Idle
<1>4. TaskInv(s)
  BY <1>3 DEF TaskInv, KeyInv, OutsInv, RunInv, DiskInv
<1> QED
  BY <1>2, <1>3, <1>4, LocalMoves DEF Sound

LEMMA WriteKeeps ==
    ASSUME CacheInv, NEW t \in Tasks, NEW o \in Outputs, WriteOutput(t, o)
    PROVE  CacheInv'
<1>1. PICK r \in TaskType : r = task[t] /\ TaskInv(r)
  BY SMTT(30) DEF CacheInv, TypeOK
<1>2. r.pc = "write" /\ o \in r.left /\ r.view = fs /\ r.key = NoKey
  BY <1>1 DEF WriteOutput, At, TaskInv, RunInv
<1>3. PICK s : s = Pass(r, o, "write", "ran", {})
  OBVIOUS
<1>4. /\ Set(t, s) /\ out' = [out EXCEPT ![o] = Out[fs][o]] /\ fs' = fs
      /\ intact' \subseteq Tasks /\ TypeOK
      /\ UNCHANGED <<blobs, manifest, results, edits, faults>>
  BY <1>1, <1>2, <1>3 DEF WriteOutput, CacheInv, TypeOK
<1>5. /\ s.pc = IF r.left = {o} THEN "ran" ELSE "write"
      /\ s.left = IF r.left = {o} THEN {} ELSE r.left \ {o}
      /\ s.view = r.view /\ s.key = r.key
      /\ s \in TaskType
  BY ZenonT(60), <1>1, <1>3 DEF Pass, TaskType
<1>6. Out[fs] \in [Outputs -> Blobs] /\ out \in [Outputs -> OnDisk]
  BY Deterministic DEF CacheInv, TypeOK
<1>7. \A p \in Outputs : out'[p] = IF p = o THEN Out[fs][p] ELSE out[p]
  BY <1>4, <1>6
<1>8. Settles /\ out' \in [Outputs -> OnDisk]
  <2>1. \A p \in Outputs : Rewrites(task[t], p) => Rewrites(s, p) \/ out'[p] = Out[fs][p]
    BY <1>1, <1>2, <1>5, <1>7 DEF Rewrites
  <2>2. \A p \in Outputs : out'[p] \in {out[p], Missing, Out[fs][p]}
    BY <1>7
  <2>3. Settles
    BY <1>4, <2>1, <2>2, Settling
  <2> QED
    BY <1>4, <1>6, <1>7, <2>3 DEF Holds, OnDisk
<1>9. KeyInv(s)' /\ OutsInv(s)' /\ RunInv(s)'
  BY <1>2, <1>4, <1>5 DEF KeyInv, OutsInv, RunInv
<1>10. DiskInv(s)'
  <2>1. \A p \in Outputs \ (r.left \ {o}) : Current(p)'
    <3>1. Current(o)'
      BY <1>4, <1>7 DEF Current
    <3>2. \A p \in Outputs \ r.left : Current(p)
      BY <1>1, <1>2 DEF TaskInv, DiskInv
    <3> QED
      BY <1>8, <3>1, <3>2 DEF Settles
  <2>2. CASE r.left = {o}
    <3>1. \A p \in Outputs : Current(p)'
      BY <2>1, <2>2
    <3> QED
      BY <1>5, <2>2, <3>1 DEF DiskInv
  <2>3. CASE r.left # {o}
    BY <1>5, <2>1, <2>3 DEF DiskInv
  <2> QED
    BY <2>2, <2>3
<1>11. ResultInv' /\ TypeOK
  BY <1>4 DEF CacheInv, ResultInv, Explains, Matches
<1>12. TaskInv(s)'
  BY <1>9, <1>10 DEF TaskInv
<1> QED
  BY <1>4, <1>5, <1>8, <1>11, <1>12, Moves DEF TypeOK

\* The tracked inputs are those the run read.
LEMMA ManifestKeeps ==
    ASSUME CacheInv, NEW t \in Tasks, put_manifest(t)
    PROVE  CacheInv'
<1>1. PICK r \in TaskType : r = task[t] /\ TaskInv(r)
  BY DEF CacheInv, TypeOK
<1>2. r.pc = "ran" /\ r.view = fs /\ r.key = NoKey /\ \A o \in Outputs : Current(o)
  BY <1>1 DEF put_manifest, At, TaskInv, RunInv, DiskInv
<1>3. PICK m : m = input_manifest(fs)
  OBVIOUS
<1>4. fs \in Tree /\ Reads[fs] \subseteq Files
  BY Deterministic DEF CacheInv, TypeOK
<1>5. m \in Manifests /\ Tracked(m) = Reads[fs]
  BY <1>3, <1>4 DEF input_manifest, Manifests, Kinds, Tracked
<1>6. PICK s : s = [r EXCEPT !.pc = "ingest", !.man = m, !.left = Outputs]
  OBVIOUS
<1>7. /\ Set(t, s) /\ manifest' = m /\ fs' = fs
      /\ UNCHANGED <<out, blobs, results, intact, edits, faults>> /\ TypeOK
  BY <1>1, <1>2, <1>3, <1>6 DEF put_manifest, CacheInv
<1>8. /\ s \in TaskType /\ s.pc = "ingest" /\ s.man = m /\ s.left = Outputs
      /\ s.view = r.view /\ s.key = r.key
  BY ZenonT(30), <1>1, <1>5, <1>6 DEF TaskType
<1>9. TaskInv(s)
  BY <1>2, <1>5, <1>8 DEF TaskInv, KeyInv, OutsInv, RunInv, DiskInv
<1>10. Settles
  <2>1. \A o \in Outputs : ~Rewrites(task[t], o)
    BY <1>1, <1>2 DEF Rewrites
  <2> QED
    BY <1>7, <2>1, Settling
<1>11. TaskInv(s)'
  BY <1>7, <1>8, <1>9, <1>10, TaskStays
<1>12. ResultInv' /\ TypeOK
  BY <1>7 DEF CacheInv, ResultInv, Explains, Matches
<1> QED
  BY <1>5, <1>7, <1>8, <1>10, <1>11, <1>12, Moves DEF TypeOK

\* What is read back from disk is what the run, or another one, wrote.
LEMMA IngestKeeps ==
    ASSUME CacheInv, NEW t \in Tasks, NEW o \in Outputs, Ingest(t, o)
    PROVE  CacheInv'
<1>1. PICK r \in TaskType : r = task[t] /\ TaskInv(r)
  BY DEF CacheInv, TypeOK
<1>2. /\ r.pc = "ingest" /\ o \in r.left /\ r.view = fs /\ r.key = NoKey
      /\ Tracked(r.man) = Reads[fs] /\ \A p \in Outputs : Current(p)
  BY <1>1 DEF Ingest, At, TaskInv, RunInv, DiskInv
<1>3. PICK b : b = Out[fs][o]
  OBVIOUS
<1>4. b \in Blobs /\ Out[fs] \in [Outputs -> Blobs] /\ fs \in Tree
  BY <1>3, Deterministic DEF CacheInv, TypeOK
<1>5. out[o] = b
  BY <1>2, <1>3, Distinct DEF Ingest, Current
<1>6. PICK q : q = [r EXCEPT !.outs[o] = b]
  OBVIOUS
<1>7. /\ q \in TaskType /\ q.pc = r.pc /\ q.left = r.left /\ q.man = r.man
      /\ q.view = r.view /\ q.key = r.key
      /\ \A p \in Outputs : q.outs[p] = IF p = o THEN b ELSE r.outs[p]
  BY <1>1, <1>4, <1>6 DEF TaskType, Holds
<1>8. PICK s : s = [Pass(q, o, "ingest", "rehash", {})
                      EXCEPT !.unread = Tracked(r.man)]
  OBVIOUS
<1>9. /\ Set(t, s) /\ blobs' = [blobs EXCEPT ![b] = "good"] /\ fs' = fs
      /\ UNCHANGED <<out, manifest, results, intact, edits, faults>> /\ TypeOK
  BY <1>1, <1>5, <1>6, <1>8 DEF Ingest, CacheInv
<1>10. /\ s \in TaskType
       /\ s.pc = IF q.left = {o} THEN "rehash" ELSE "ingest"
       /\ s.left = IF q.left = {o} THEN {} ELSE q.left \ {o}
       /\ s.man = q.man /\ s.view = q.view /\ s.key = q.key /\ s.outs = q.outs
       /\ s.unread = Tracked(r.man)
  BY <1>7, <1>8 DEF Pass, TaskType, Tracked
<1>11. KeyInv(s)
  <2>1. Hashed(s) = {}
    BY <1>7, <1>10 DEF Hashed
  <2>2. s.key = NoKey /\ s.unread \subseteq Tracked(s.man) /\ s.pc \in {"ingest", "rehash"}
    BY <1>2, <1>7, <1>10
  <2> QED
    BY <2>1, <2>2 DEF KeyInv, NoKey
<1>12. OutsInv(s)
  <2>1. \A p \in Outputs \ (r.left \ {o}) : s.outs[p] = Out[fs][p]
    BY <1>1, <1>2, <1>3, <1>7, <1>10 DEF TaskInv, OutsInv
  <2>2. CASE r.left = {o}
    <3>1. \A p \in Outputs : s.outs[p] = Out[fs][p]
      BY <2>1, <2>2
    <3>2. s.outs \in [Outputs -> Holds]
      BY <1>10 DEF TaskType
    <3>3. s.outs = Out[fs]
      BY SMTT(30), <1>4, <3>1, <3>2
    <3> QED
      BY <1>7, <1>10, <2>2, <3>3 DEF OutsInv
  <2>3. CASE r.left # {o}
    BY <1>7, <1>10, <2>1, <2>3 DEF OutsInv
  <2> QED
    BY <2>2, <2>3
<1>13. RunInv(s) /\ DiskInv(s)
  BY <1>2, <1>7, <1>10 DEF RunInv, DiskInv
<1>14. Settles /\ TaskInv(s)
  <2>1. \A p \in Outputs : ~Rewrites(task[t], p)
    BY <1>1, <1>2 DEF Rewrites
  <2>2. Settles
    BY <1>9, <2>1, Settling
  <2> QED
    BY <1>11, <1>12, <1>13, <2>2 DEF TaskInv
<1>15. TaskInv(s)'
  BY <1>9, <1>10, <1>14, TaskStays
<1>16. ResultInv' /\ TypeOK
  BY <1>9 DEF CacheInv, ResultInv, Explains, Matches
<1>17. blobs' \in [Blobs -> {"absent", "good", "bad"}]
  BY <1>9, <1>16 DEF TypeOK
<1> QED
  BY <1>9, <1>10, <1>14, <1>15, <1>16, <1>17, Moves DEF TypeOK

\* The key of a recorded run digests everything the run read, so by
\* determinism it explains the outputs.
LEMMA PutResultKeeps ==
    ASSUME CacheInv, NEW t \in Tasks, put_result(t)
    PROVE  CacheInv'
<1>1. PICK r \in TaskType : r = task[t] /\ TaskInv(r)
  BY DEF CacheInv, TypeOK
<1>2. /\ r.pc = "rehash" /\ r.unread = {} /\ r.outs = Out[fs]
      /\ Tracked(r.man) = Reads[fs]
  BY <1>1 DEF put_result, At, TaskInv, OutsInv, RunInv
<1>3. fs \in Tree /\ Out[fs] \in [Outputs -> Blobs] /\ Reads[fs] \subseteq Files
  BY Deterministic DEF CacheInv, TypeOK
<1>4. Explains(r.key, r.outs)
  <2> SUFFICES ASSUME NEW g \in Tree, Matches(r.key, g) PROVE Out[fs] = Out[g]
    BY <1>2 DEF Explains
  <2>1. ASSUME NEW f \in Reads[fs] PROVE fs[f] = g[f]
    <3>1. f \in Hashed(r) /\ f \in Files
      BY <1>2, <1>3 DEF Hashed
    <3>2. r.key[f] = Token(r.man, f)
      BY <1>1, <1>2, <3>1 DEF TaskInv, KeyInv
    <3>3. r.key[f].kind # "unread" /\ r.key[f].val = fs[f]
      BY <1>2, <3>2 DEF Token, Tracked
    <3> QED
      BY <3>1, <3>3 DEF Matches
  <2> QED
    BY <1>3, <2>1, Deterministic
<1>5. PICK e : e = [key |-> r.key, outs |-> r.outs]
  OBVIOUS
<1>6. /\ results' = {d \in results : d.key # r.key} \cup {e}
      /\ Set(t, [Idle EXCEPT !.pc = "stored"]) /\ fs' = fs
      /\ UNCHANGED <<out, blobs, manifest, intact, edits, faults>> /\ TypeOK
  BY <1>1, <1>5 DEF put_result, CacheInv
<1>7. e \in [key : Keys, outs : [Outputs -> Blobs]] /\ Explains(e.key, e.outs)
  BY <1>1, <1>2, <1>3, <1>4, <1>5 DEF TaskType
<1>8. \A d \in results' : Explains(d.key, d.outs)
  BY <1>6, <1>7 DEF CacheInv, ResultInv
<1>9. ResultInv'
  BY <1>8 DEF ResultInv, Explains, Matches
<1>10. /\ Settles /\ TypeOK
       /\ results' \subseteq [key : Keys, outs : [Outputs -> Blobs]]
  <2>1. \A o \in Outputs : ~Rewrites(task[t], o)
    BY <1>1, <1>2 DEF Rewrites
  <2>2. Settles
    BY <1>6, <2>1, Settling
  <2> QED
    BY <1>6, <1>7, <2>2 DEF TypeOK
<1>11. PICK s : s = [Idle EXCEPT !.pc = "stored"]
  OBVIOUS
<1>12. s \in TaskType /\ TaskInv(s)
  BY <1>11, IdleSound DEF Sound
<1>13. TaskInv(s)'
  BY <1>6, <1>10, <1>12, TaskStays
<1> QED
  BY <1>6, <1>9, <1>10, <1>11, <1>12, <1>13, Moves DEF TypeOK

-----------------------------------------------------------------------------
\* The environment.

\* Steps that leave submissions and inputs alone.
LEMMA DiskMoves ==
    ASSUME CacheInv, UNCHANGED <<fs, task>>, Settles,
           out' \in [Outputs -> OnDisk],
           blobs' \in [Blobs -> {"absent", "good", "bad"}],
           manifest' \in Manifests \cup {NoManifest}, results' \subseteq results,
           intact' \subseteq Tasks, edits' \in Nat, faults' \in Nat
    PROVE  CacheInv'
<1>1. TypeOK'
  BY DEF CacheInv, TypeOK
<1>2. ResultInv'
  BY DEF CacheInv, ResultInv, Explains, Matches
<1>3. ASSUME NEW t \in Tasks PROVE TaskInv(task[t])'
  <2>1. PICK r \in TaskType : r = task[t] /\ TaskInv(r)
    BY DEF CacheInv, TypeOK
  <2>2. TaskInv(r)'
    BY <2>1, TaskStays
  <2> QED
    BY <2>1, <2>2
<1> QED
  BY <1>1, <1>2, <1>3 DEF CacheInv

LEMMA CleanKeeps ==
    ASSUME CacheInv, NEW o \in Outputs, Clean(o)
    PROVE  CacheInv'
<1>1. out' = [out EXCEPT ![o] = Missing] /\ out \in [Outputs -> OnDisk]
  BY DEF Clean, CacheInv, TypeOK
<1>2. Settles /\ out' \in [Outputs -> OnDisk]
  <2>1. \A p \in Outputs : out'[p] \in {out[p], Missing}
    BY <1>1
  <2>2. UNCHANGED <<fs, task>>
    BY DEF Clean
  <2>3. Settles
    BY <2>1, <2>2 DEF Settles, Current, Rewrites
  <2> QED
    BY <1>1, <2>3 DEF OnDisk, Holds
<1> QED
  BY <1>2, DiskMoves DEF Clean, CacheInv, TypeOK

LEMMA DamageKeeps ==
    ASSUME CacheInv,
           \/ \E b \in Blobs : evict_to(b) \/ Corrupt(b)
           \/ LoseManifest
           \/ LoseResult
    PROVE  CacheInv'
<1>1. Settles /\ UNCHANGED <<fs, task, out, intact, edits>>
  <2>1. UNCHANGED <<fs, task, out, intact, edits>>
    BY DEF evict_to, Corrupt, LoseManifest, LoseResult
  <2> QED
    BY <2>1 DEF Settles, Current, Rewrites
<1>2. TypeOK
  BY DEF CacheInv
<1>3. CASE \E b \in Blobs : evict_to(b) \/ Corrupt(b)
  <2>1. blobs' \in [Blobs -> {"absent", "good", "bad"}]
    BY <1>2, <1>3 DEF TypeOK, evict_to, Corrupt
  <2> QED
    BY <1>1, <1>2, <1>3, <2>1, DiskMoves DEF TypeOK, evict_to, Corrupt, Fault
<1>4. CASE LoseManifest
  BY <1>1, <1>2, <1>4, DiskMoves DEF TypeOK, LoseManifest, Fault
<1>5. CASE LoseResult
  BY <1>1, <1>2, <1>5, DiskMoves DEF TypeOK, LoseResult, Fault
<1> QED
  BY <1>3, <1>4, <1>5

\* An edit finds every submission idle, and a crash makes it so.
LEMMA EditKeeps ==
    ASSUME CacheInv, NEW f \in Files, NEW c \in Contents \cup {Missing},
           Edit(f, c), EditsAwait
    PROVE  CacheInv'
<1>1. fs' # fs
  BY DEF Edit, CacheInv, TypeOK, Tree
<1>2. \A t \in Tasks : task'[t].pc = "idle"
  BY <1>1 DEF EditsAwait, At, Edit
<1>3. \A t \in Tasks : TaskInv(task[t])'
  BY <1>2 DEF TaskInv, KeyInv, OutsInv, RunInv, DiskInv
<1>4. TypeOK'
  BY DEF CacheInv, TypeOK, Edit, Tree
<1>5. ResultInv'
  BY DEF CacheInv, ResultInv, Explains, Matches, Edit
<1> QED
  BY <1>3, <1>4, <1>5 DEF CacheInv

LEMMA CrashKeeps ==
    ASSUME CacheInv, Crash
    PROVE  CacheInv'
<1>1. \A t \in Tasks : task'[t].pc = "idle" /\ task'[t] = Idle
  BY IdleIsSound DEF Crash
<1>2. \A t \in Tasks : TaskInv(task[t])'
  BY <1>1 DEF TaskInv, KeyInv, OutsInv, RunInv, DiskInv
<1>3. TypeOK'
  BY IdleIsSound DEF CacheInv, TypeOK, Crash, Sound, Fault
<1>4. ResultInv'
  BY DEF CacheInv, ResultInv, Explains, Matches, Crash
<1> QED
  BY <1>2, <1>3, <1>4 DEF CacheInv

LEMMA StutterKeeps == CacheInv /\ UNCHANGED vars => CacheInv'
<1> SUFFICES ASSUME CacheInv, UNCHANGED vars PROVE CacheInv'
  OBVIOUS
<1>1. Settles
  BY DEF Settles, Current, Rewrites, vars
<1> QED
  BY <1>1, DiskMoves DEF vars, CacheInv, TypeOK

\* Every step of a quiet build keeps the invariant.
LEMMA NextCache == CacheInv /\ [Next /\ EditsAwait]_vars => CacheInv'
<1> SUFFICES ASSUME CacheInv, Next, EditsAwait PROVE CacheInv'
  BY StutterKeeps
<1>1. ASSUME NEW t \in Tasks, Submit(t) PROVE CacheInv'
  BY SMTT(30), <1>1, IdleSound, LocalMoves DEF Submit, At
<1>2. ASSUME NEW t \in Tasks, resolve(t) PROVE CacheInv'
  BY <1>2, LookupKeeps, MissKeeps, ResultKeeps, StageKeeps, CommitKeeps,
     VerifyKeeps, VerifyFailsKeeps
     DEF resolve, HashFails, StageFails, CommitFails
<1>3. ASSUME NEW t \in Tasks, record(t) PROVE CacheInv'
  <2>1. CASE NotRecorded(t)
    BY <2>1, IdleIsSound, LocalMoves DEF NotRecorded
  <2> QED
    BY <1>3, <2>1, ManifestKeeps, PutResultKeeps, IngestKeeps DEF record
<1>4. ASSUME NEW t \in Tasks, Finish(t) PROVE CacheInv'
  BY <1>4, IdleIsSound, LocalMoves DEF Finish
<1> QED
  BY <1>1, <1>2, <1>3, <1>4, ExecuteKeeps, HashInputKeeps, WriteKeeps,
     EditKeeps, CleanKeeps, DamageKeeps, CrashKeeps DEF Next

-----------------------------------------------------------------------------
\* Quiet builds keep the inductive invariant: types, every stored result
\* explained by its strong key, each submission true of the current tree.
THEOREM CacheInvariant == QuietSpec => []CacheInv
<1>1. Init => CacheInv
  BY InitCache
<1>2. CacheInv /\ [Next /\ EditsAwait]_vars => CacheInv'
  BY NextCache
<1> QED
  BY <1>1, <1>2, PTL DEF QuietSpec

\* In a quiet build a stale result is never served (resolve, record).
THEOREM StaleNeverServed == QuietSpec => []NeverStale
<1>1. CacheInv => NeverStale
  <2> SUFFICES ASSUME CacheInv, NEW t \in Tasks, task[t].pc \in {"commit", "verify", "hit"},
                      NEW g \in Tree,
                      \A f \in Tracked(task[t].man) : g[f] = task[t].view[f]
               PROVE  task[t].staged = Out[g]
    BY SMTT(30) DEF NeverStale
  <2>1. PICK s \in TaskType : s = task[t] /\ TaskInv(s)
    BY DEF CacheInv, TypeOK
  <2>2. /\ s.staged = s.outs /\ Explains(s.key, s.outs)
        /\ \A f \in Files : s.key[f] = IF f \in Tracked(s.man)
                                         THEN Token(s.man, f) ELSE Unkeyed
        /\ \A f \in Tracked(s.man) : g[f] = fs[f]
    BY <2>1 DEF TaskInv, OutsInv, KeyInv, Hashed
  <2>3. Matches(s.key, g)
    <3>1. Unkeyed.kind = "unread" /\ \A f \in Files : Token(s.man, f).val = fs[f]
      BY DEF Unkeyed, Token
    <3> QED
      BY SMTT(30), <2>2, <3>1 DEF Matches
  <2> QED
    BY <2>1, <2>2, <2>3 DEF Explains
<1> QED
  BY <1>1, CacheInvariant, PTL

\* In a quiet build the outputs of a reported hit are current, or were cleaned
\* since, or were removed by another submission's failed verification that is
\* about to write them again (commit_staged).
THEOREM HitsAreCurrent == QuietSpec => []HitIsCurrent
<1>1. CacheInv => HitIsCurrent
  BY DEF CacheInv, HitIsCurrent, TaskInv, DiskInv
<1> QED
  BY <1>1, CacheInvariant, PTL

=============================================================================
