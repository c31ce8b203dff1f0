# Sembazuru in TLA+

Sembazuru is a distributed build accelerator for Windows. A *launcher* wraps a
compiler command and submits it to the *daemon* (the agent) of the same machine.
The daemon looks the action up in its *action cache*; on a miss its *scheduler*
runs it on a remote *worker*, which reads its inputs through the daemon's *data
plane*, or locally when no worker can. Results go back into the cache, over a
content-addressed *blob store*.

These modules model the parts of the daemon and of the worker whose correctness
depends on the order of events. TLC checks them on small instances; TLAPS proves
the main invariants for every value of the constants. `PROJECT.json` lists the
runs, the source lines each definition translates, the hazards, the findings and
the theorems.

- [The system](#the-system)
- [Modules and what they stand for](#modules-and-what-they-stand-for)
- [Runs](#runs)
- [Findings](#findings)
- [Proofs](#proofs)
- [Not modelled](#not-modelled)
- [Plan](#plan)

## The system

All paths are under `src/crates/` unless they say otherwise.

| Part | State | Operations that change it | Hard part |
|---|---|---|---|
| Session registry (`agent/src/session_registry.rs`) | sessions, their pins, allowed digests, staged outputs; the ephemeral store's owner | create, bind, pin, record, publish, discard, finish, sweep, shutdown, close | request tasks, orphaned blocking puts, sweeper and shutdown interleave |
| File server (`agent/src/fileserver.rs`) | open connections, one stream per output | handshake, dispatch, WriteBack chunks | a late attempt writes beside its successor; gate checked before the lock |
| Intake (`agent/src/intake.rs`) | one submission each | submit, dispatch, publish, emit the exit, hold the stream open | the end of a stream tells the launcher to run the command itself |
| Local runs (`agent/src/lib.rs`, mod `local_job`) | Job object, monitor thread, counts of processes, phase | setup, rollback, packets, audit, force, natural end | packets are lost, repeated and late; pids are reused |
| Supervisor (`agent/src/run.rs`) | task trackers, shutdown flag | stop, drain, force after the deadline | tasks that start while the daemon closes |
| Action tracker (`agent/src/action_tracker.rs`) | attempts, lanes, queue of finished ones | begin, transition, finish, expire, evict | full table; events out of order |
| Action cache (`agent/src/action_cache.rs`, `cas/src/action_cache.rs`) | manifests, results, blobs on disk | lookup, stage, publish, record, evict | inputs are read again after the run; crashes between files |
| Coordination (`agent/src/coordination.rs`, `worker/src/coordination.rs`) | worker table; each worker's loop | register, reap, ping, restart, reconnect | restarts and half-open streams |
| Scheduler (`agent/src/scheduler.rs`) | assignments, cached channels, permits of a build | snapshot, reserve, attempt, reassign, fall back | the snapshot is stale when the reservation is made |
| Worker execution (`worker/src/lib.rs`, `job.rs`) | backlog, run slots, Jobs by action | execute, run, abort, clean up | cancellation against admission, the ceiling and the exit |
| Worker VFS pipe and data-plane client (`worker/src/vfs_pipe.rs`, `fileclient.rs`) | flights, hydrated paths, waiters | hydrate, repair, publish, shut down | shared flights that fail; waiters on a dying connection |
| Blob store (`cas/src/store.rs`) | blobs, temporaries, phase of an ephemeral store | put, repair, get, evict, revoke, clean up | cleanup against admitted operations; eviction against readers |
| Machine store and token update (`config-store/src/`) | root, marker, three files, journal, leases | provision, commit, roll back, prepare, apply, resume | a crash after any write |
| Attestation (`worker/src/sandbox.rs`, `src/hooks/src/vfs_attestation.cpp`) | slots and a semaphore in shared memory | reserve, attach, fail, validate | written by several processes, read at the exit |
| Idle CPU policy (`worker/src/cpu_monitor.rs`) | smoothed idle share, latch | observe | rounding and the ends of the settings |
| The rest: codecs, configuration, authentication, services, status, tracer, hooks, GUI, installer | none, or read once | | see [Not modelled](#not-modelled) |

How they interact: the intake creates a session, gives its id to the scheduler,
which reserves a worker of the table and streams the attempt. The worker's file
broker binds to the session and pins inputs. When the attempt ends the intake
finishes the session, publishes staged outputs or runs the command locally
through the guardian, records the result in the cache and sends the exit event.
Stopping the daemon cuts through all of it.

## Modules and what they stand for

A component module has the state as VARIABLES and one action per operation, with
the source's name where TLA+ allows it. Definitions called `Mut...` are small
deliberate mistakes, used to show that a property can fail; nothing else uses them.

**`SessionPins`** The pinned-input side of sessions. `cell[s, p]` is the `OnceCell`
a session keeps for a path, `guards` are the live `PinPersistGuard`s and `active`
the counter that stands for them, `cleanup` the removal of the ephemeral store. A
request walks the lock, the cell, the read, the blocking put and the commit; it can
be cancelled at each await, and a cancelled put goes on as an orphan. Bytes and
digest are one number, the version of the file. `stage` follows `run_daemon_at`.

**`WriteBack`** The outputs of one action. Writers are the attempts the scheduler made;
they share the session. A chunk is named by its writer and a file is the sequence
of its chunks, so two streams that got mixed are visible as such. `intake` is the part of
`run_submission` from the return of `dispatch` to `discard_staged`. Renames of a batch
are separate steps and each may fail. `disk` holds the temporaries that were created and neither
renamed nor passed to `remove_root_file`; the code ignores the result of that call, so a
file whose deletion failed is outside the model. `last` remembers whose output was acknowledged last.

**`SubmissionPhase`** What the phase of a submission promises: an abstract automaton of
`SubmissionDeadline`, with a variable for the process tree. The phases that allow
the launcher to run the command again are entered only over a dead tree.

**`LocalJob`** The guardian of a local process tree: setup and its rollback, the monitor
thread over the completion port, `audit_until_stable`, forced and natural ends,
quarantine. The operating system is the environment: it starts and ends processes,
drops and repeats packets, reuses pids and fails calls, as far as `Worlds` allows. A world
loses packets or repeats them, not both (`WorldsAssumption`): if packets are only lost, the unique
processes the monitor counted stay below the Job's total and the audit never balances; if they are only
repeated, every process has been retained and a live one is seen unsignalled. With both, a
repeated packet of one process can stand in for the lost packet of another, and the audit balances
over a live process. It implements `SubmissionPhase` (property `ImplementsPhase`, with the
liveness of processes as the mapping of `tree`).

**`DaemonDrain`** Composition of handlers, inner tasks, holders and data-plane requests
with the supervisor. The local run of each submission is an instance of
`SubmissionPhase`, not of `LocalJob`: the abstract automaton is the interface between the two.
`WaitFails` is the local run that returns early, on a handle it cannot read during setup or a failed
wait, and leaves the tree to its dropped guardian.

**`ActionTracker`** One mutex, so each method is one action. `lease` is who may
still report on an attempt. Expiry by age is an action that marks a finished attempt.

**`AgentCache`** One weak key. A digest is the content it names; the strong key is the
function from inputs to kind and content that it digests. Lookup is split at each file
it reads, and publication at each rename and at the check of the file that follows it. `intact` says
whether the file a submission renamed is still the one under that name: another
submission that renames or runs in between replaces it, the check fails, and the code removes what
is there. A damaged manifest or result decodes as a miss. The tool is deterministic, its runs succeed,
and it reads what its trace shows (`Deterministic`). A run writes each output in one step, over
the old file or as a new one.

**`WorkerTable`** The table and the workers' loops. Time is explicit: `Tick` ages entries
and ages stop at `ReapAfter`, after which no comparison tells them apart. In the
code a ping is sent every 5 s, a worker is dead after 15 s, the connection is given
up after 20 + 10 s of silence and an entry is reaped after 300 s; the instance has a
dead timeout and a keepalive of 1 tick and a reaping delay of 2, the proofs any durations in that order. A process
without the cluster token may register and ping under any id; a ping without it ends the
stream and keeps nobody alive. Backoff delays are abstracted to "later".

**`Scheduler`** Dispatches, each at its own `pc`, over a table that changes on its own
(the environment that `WorkerTable` describes). `live` is the snapshot a dispatch
took, filtered by version, participation and idle processors. `attempts` is what the
tracker was told. Only the order of scores matters, so they are small
numbers. `run_build` is used by the scale harness; the daemon dispatches directly.

Modules `MC...` give constants their values. `...Proofs` hold the theorems.

## Runs

| Run | Instance | Distinct states | Properties |
|---|---|---|---|
| `pins` | 2 requests, 2 sessions, 1 path, 1 edit | 338,632 | `PinInv` `NoCleanupUnderGuard` `AnswersAgree` `PinsAreFrozen` `DaemonStops` |
| `writeback` | 2 attempts, 2 outputs, 2 chunks | 1,417,502 | `TypeOK` `WholeOutputs` `NoMixedOutputs` `LastAcknowledgedWins` `NothingStagedAfterDiscard` `TempsAreOwned` |
| `localjob` | top process and 2 descendants, 3 worlds | 202,070 | `TypeOK` `NaturalEndIsAudited` `NeverUncontained` `ImplementsPhase` `ForceSettles` `ExitSettles` |
| `drain` | 2 submissions, 1 request | 428,894 | `DrainInv` `QuietAfterDrain` `RetryIsSafe` `PhasesFollow` `ShutdownCompletes` |
| `tracker` | 4 attempts, 2 workers, table of 3 | 172,351 | `TrackerInv` `LanesDistinct` `LanesBounded` `TableBounded` `MovesForward` |
| `cache_concurrent` | 2 submissions, 2 inputs, 2 outputs, 2 edits or an edit and a fault | 401,597 | `CacheInv` `NeverStale` `HitIsCurrent` `RecordingMakesHits` |
| `table` | 4 processes (1 without the token), 2 ids, 1 fault | 245,018 | `TableInv` `AgesOut` `OwnersKept` `Rejoins` |
| `scheduler` | 3 actions (2 of a build), 2 workers, 5 adverts, 1 change of the table | 199,513 | `SchedInv` `BurstSpreads` `Completes` |
| `writeback_late_start`, `writeback_swept`, `cache_edit_during_build`, `table_stray` | | | see [Findings](#findings) |

What the properties say, by run:

- **pins**: the store is never removed while a put runs or a published pin is alive; all
  answers of a session for a path agree, whatever happens to the file, and a pin never
  changes; a daemon told to stop stops, although cancelled requests leave puts behind.
- **writeback**: a final path holds what was there, a local run's file, or one attempt's
  complete output. After a remote success each path holds the output acknowledged last, by
  whichever attempt: all attempts share the session's tables, so an attempt the scheduler gave up on may
  replace an output of the accepted one until the session closes. No worker's bytes reach a final path
  otherwise. A failed batch ends in a local run over all outputs, so local and remote outputs are never
  mixed (outputs of two remote attempts may be). Nothing is staged once the intake discarded. Every
  temporary has an owner that will rename or remove it, except that of a cancelled request or
  batch and of a `create_staging_temp` that failed after it created the file.
- **localjob**: the phase automaton is implemented; a natural end is published only over a
  dead top process, and over an empty tree if the Job was closed; a live process of the
  Job is always under an armed kill-on-close, except for what a natural end leaves running; a force
  request, or the exit of the top process, leads to a terminal phase whatever becomes of packets and
  monitor (in the world where calls on process handles work).
- **drain**: nothing runs after the drain; a stream that ends without an exit event
  ends over a tree that is not alive, so the launcher's retry is safe, except that a command that
  ended by itself (`NaturalReaped`) may have detached descendants that live on; phases move along
  their automaton; shutdown completes.
- **tracker**: running attempts of a worker have different lanes, lane numbers are
  reused and bounded by the table, the table keeps its limit without taking an attempt from
  under its lease, states never go back.
- **cache_concurrent**: what a lookup publishes is what the inputs it read produce, whatever
  was evicted, damaged or lost and wherever the daemon crashed. At a hit every output on disk is what a
  run would write now, although other submissions publish or run at the same time; one may be absent
  because it was cleaned since, or because a concurrent submission found its own rename replaced, removed
  the file and is about to write it again. A recorded result is found by a lookup of the tree
  as it is. A record that reads an output which another run is half way through writing is not
  represented, because a write is one step.
- **table**: an id is live only while a process that presents it and holds the token was heard from
  within the dead timeout, whoever else registers or pings under it; an entry that is live keeps its
  endpoint whatever registers, pings or is reaped; a stream has its entry, at most as old as the
  stream is silent; a worker that keeps running gets back into the live set after a lost
  connection or a restart of the agent.
- **scheduler**: `in_flight` counts exactly the attempts under way (no slot leaks on
  any path, aborts included), permits and running dispatches add up, attempt numbers never
  collide and no worker gets an action twice; the capacity a dispatcher uses stays within the trusted
  bound whatever is advertised; in a first burst no worker is over its capacity while another has a free
  slot; every dispatch ends.

**Why these bounds.** The hazards involve two actors on one object and one actor that
interferes: two first touches and an edit, an attempt and its successor, a handler and the
shutdown, two submissions and an eviction. Two sessions, two attempts, two submissions make each of
these happen; two chunks are the least that can be torn, two outputs the least that
can be half published, two descendants the least that share a pid. The bounds on edits, faults
and changes limit how often the environment interferes in one
behaviour, not when. Every action and every disjunct of each next-state relation fires.
Some MC modules leave out behaviours that differ from others only in names or in steps nobody can see:
`MCSessionPins` calls the session that is removed first `s1`, `MCDaemonDrain` the submission that starts
first; `MCAgentCache` processes inputs and outputs in the order of their lists, as the code does, loses a blob
only when a submission is about to read it, and keeps the source file in existence; `MCScheduler` gives
each worker one of the two adverts that make it inadmissible. Symmetry is used in `writeback`, `tracker` and `cache_concurrent`, which check no
liveness. Deadlock is not checked where the system may come to rest: after all
submissions ended, the daemon stopped or the bounds are used up. `table` checks it.

**Fairness.** Weak fairness of a step means that tokio polls a runnable task and that blocking
threads end. Beyond that:
`SessionPins` assumes that capabilities nobody can reach are dropped and that `run_daemon_at`
runs on once shutdown began; `LocalJob` needs strong fairness of the failure of its audit,
because the audit has a deadline and the step is enabled off and on while it
polls, and nothing makes a process exit by itself; `DaemonDrain` assumes that a forced or dropped
guardian reaps, which is `ForceSettles` of `LocalJob`, and neither that a remote attempt or a
local command ends nor that shutdown comes; `WorkerTable` assumes
that the ping interval fires, the reconnect loop retries and the keepalive reports a dead
stream; `Scheduler` assumes that the latency budget of an attempt expires and local
processes end, not that a worker answers. `Completes` relies on the finite set of workers: each is tried at
most once, and workers that kept joining under new ids could prolong a dispatch.

## Findings

Four runs show the code doing something other than a comment says.

1. `writeback_late_start`: an offset-0 chunk that passed the `closed` gate before `finish`
   creates its temporary after `discard_staged`; nothing removes it
   (`agent/src/fileserver.rs:760`).
2. `writeback_swept`: the sweeper removes a session older than 900 s without closing
   it, and `finish` then does nothing, so the finished session still accepts operations
   (`agent/src/session_registry.rs:1595`). `LastAcknowledgedWins` and
   `NothingStagedAfterDiscard` fail under the same condition; the run `writeback`
   assumes that actions are shorter (`MayOutliveTtl = FALSE`).
3. `cache_edit_during_build`: inputs are hashed again after the run, so an input edited in
   between puts the old result under the new key, and it is served
   (`agent/src/action_cache.rs:395`). `cache_concurrent` assumes that no input is edited while
   a submission is in flight (`EditsAwait`).
4. `table_stray`: a worker whose agent restarts between Register and Heartbeat pings a
   table that does not know it and is answered; it stays out of the live set for as long as the
   stream lasts (`worker/src/coordination.rs:377`). This rests on the gRPC
   channel dialling again by itself, which is library behaviour.

Observations without a run of their own: the comment at `agent/src/intake.rs:749` says that
`dispatch` returns only after the worker's terminal event, which is not so after the latency budget
(`WriteBack` models the late attempt); only `run_build` prunes cached channels, so a daemon's map grows
with every endpoint it has met; two processes under one worker id and with the token keep
each other's entry fresh, so `AgesOut` speaks of ids; when two submissions of one action publish at
once, the check after a rename of the one can remove the output the other has already reported as a
hit, until the first has run the action; a test says that a repeated packet does not change the
unique count (`agent/src/lib.rs:4515`), which holds while the process runs, and
a world that both loses and repeats packets breaks `NeverUncontained`.

## Proofs

Each proof module extends its component. The constants are arbitrary, under the named
assumptions of the component: finite sets, positive limits, `Deterministic` for
the cache, scores without ties for the scheduler, a dead timeout not above the keepalive and a keepalive
below the reaping delay for the table.

| Module | Theorems | Inductive invariant and why it is needed |
|---|---|---|
| `SessionPinsProofs` | `PinInvariant` `CleanupSafe` `PinsBacked` `SnapshotConsistent` `PinsFrozen` | `PinInv`: the counter is the number of guards, a guard belongs to a put or to a set cell, cleanup starts only at zero guards and not accepting. Without the set of guards the counter says nothing. |
| `DaemonDrainProofs` | `DrainInvariant` `DrainIsQuiet` `RetriesAreSafe` `ExitsAreEarned` | `DrainInv`: a stream is released only over an ended task and a safe phase, and a tracker that was waited for stays empty because later tasks are refused. |
| `ActionTrackerProofs` | `TrackerInvariant` `LanesAreDistinct` `LanesAreBounded` `TableIsBounded` `StatesMoveForward` | `TrackerInv`: free and used lanes partition `1 .. next_lane - 1`, a live record is one whose lease is held, the queue holds each finished attempt once. Distinct lanes alone are not inductive: a lane given out again must be known to be free. |
| `AgentCacheProofs` | `CacheInvariant` `StaleNeverServed` `HitsAreCurrent` | `CacheInv`: every stored result is the tool's output for each tree its strong key fits; a submission's partial key is the current content of the inputs it hashed, what it staged is what a run would write, and an output that is gone was cleaned or has a submission that will write it again (lemma `Settling`). Proved for `QuietSpec` (no edit while a submission is in flight). |
| `WorkerTableProofs` | `TableInvariant` `SilentWorkersAgeOut` `LiveOwnersKept` | `TableInv`: an open stream's entry is at most as old as the silence on that stream, which the keepalive bounds below the reaping delay; an entry is at least as old as the silence of some process that presents its id and holds the token. |
| `SchedulerProofs` | `SchedInvariant` `BurstsSpread` `NoSlotLeaks` | `SchedInv`: `in_flight[w]` is the number of dispatches that hold a guard for `w`; permits plus holders are the size of the semaphore; tracked attempts are numbered below the next one; a snapshot is still true if the table has not changed. |

The argument is the same in each: `Init` gives the invariant, each action keeps each part of
it (one step per action, one lemma per part where several actions touch it),
and the safety property follows from the invariant, or from the invariant
and one step for an action property. Counters are tied to sets, so that adding or removing an element (from the
library's theorems on finite sets) is what changes them. The invariants were checked by TLC
in the same form first.

Checked by TLC only: all liveness properties (`DaemonStops`, `ForceSettles`, `ExitSettles`,
`ShutdownCompletes`, `Rejoins`, `Completes`), because the prover has no rules for fairness
here; the refinement `ImplementsPhase` and the step property `PhasesFollow`; the properties of `WriteBack` and
`LocalJob`; `RecordingMakesHits`. No module uses recursive operators.

## Not modelled

| Part | Why |
|---|---|
| Codecs (`dataplane`), signatures and tokens (`proto`), toolchain digests | functions of bytes without state; the models work on decoded, accepted messages |
| Configuration, environment filter | read once at start; they are the constants |
| Named-pipe authentication, service hosts, process creation, tokens and descriptors | calls into Windows without a protocol of their own |
| Status service, metrics, GUI | display; eviction on request is the eviction step of `AgentCache` |
| Tracer analysis | offline functions of finished trace files |
| Hook DLL | path redirection is a function of a path and the pipe's answer |
| File server reads other than pinned ones, quotas | no change of state, except for the slots |
| Launcher | sequential; what it relies on is `RetryIsSafe` |

Left out inside modelled parts: display names and ages in the tracker, console replay and path
anchoring in the cache, prefetch hints and capabilities in the scheduler, command line and
environment in the guardian, start-up and option parsing in the supervisor.

## Plan

Next modules, in this order, with what each should show:

1. **`TokenUpdate`** over **`MachineStore`** (`config-store`): the three files and the journal, a
   crash after every write, services and updaters with their leases. A service never
   runs on a mixed state; a journal is applied forward exactly once; recovery ends. The abstract
   specification is an atomic update, which the journal implements. To be proved.
2. **`WorkerExec`** (`worker/src/lib.rs`): backlog, run slots, cancellation, ceiling and
   cleanup; slots are given back on every path, the scratch tree is removed after the last
   process and the last blocking write. Composed with the scheduler's attempt: what the agent
   gave up may still run.
3. **`Hydration`** (`vfs_pipe.rs`, `fileclient.rs`): single flight with failures and cancellation, no
   lost waiter, every published scratch file is whole and has the announced digest; shutdown ends.
4. **`BlobStore`** (`cas/src/store.rs`): phases of the ephemeral store, put and repair under
   the two locks, eviction; a published blob has its digest, admitted operations finish before removal.
   `SessionPins` and `AgentCache` then rest on its promise.
5. **`Attestation`** and the **idle CPU policy**: a failure reported by any process of the
   tree is seen by the validation; the policy's offer against a reference definition over all settings.

Smaller hazards to take up with these modules, beyond the ones `PROJECT.json` lists: an Abort that
arrives before the worker's Job exists is acknowledged and has no effect (`worker/src/lib.rs:1325`);
traces published before a later one fails stay (`worker/src/lib.rs:756`); a silent
peer holds a handshake slot until its deadline (`agent/src/fileserver.rs:294`).

Then proofs: `WriteBack` (`WholeOutputs`, `LastAcknowledgedWins`), the implementation of
`SubmissionPhase` by `LocalJob`, and the main invariants of the new modules. To keep the set of runs
small, findings that a proof or a larger run subsumes will be folded into it.
