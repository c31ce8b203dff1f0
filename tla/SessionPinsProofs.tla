------------------------- MODULE SessionPinsProofs -------------------------
(***************************************************************************)
(* Proofs about SessionPins, for any number of tasks, sessions and paths.  *)
(***************************************************************************)
EXTENDS SessionPins, FiniteSetTheorems, TLAPS

\* Guards are held by tasks and cells, so there are finitely many.
LEMMA GuardsFinite == TypeOK => IsFiniteSet(guards)
<1>1. IsFiniteSet(Cells)
  BY FiniteConstants, FS_Product DEF Cells
<1>2. IsFiniteSet(Tasks \cup Cells)
  BY <1>1, FiniteConstants, FS_Union
<1> QED
  BY <1>2, FS_Subset DEF TypeOK

\* PinPersistGuard::drop keeps the counter exact, and starts the cleanup only
\* when it removed the last guard.
LEMMA DropGuardCounts ==
  ASSUME TypeOK, OwnerConsistent, GuardsCounted, NoCleanupUnderGuard,
         NEW g \in guards, DropGuard(g)
  PROVE  /\ guards' = guards \ {g} /\ active' \in Nat
         /\ accepting' = accepting
         /\ cleanup' \in {"none", "job", "ok", "failed"}
         /\ GuardsCounted' /\ NoCleanupUnderGuard' /\ OwnerConsistent'
<1>1. /\ IsFiniteSet(guards)
      /\ Cardinality(guards \ {g}) = Cardinality(guards) - 1
      /\ IsFiniteSet(guards \ {g})
  BY GuardsFinite, FS_RemoveElement
<1>2. Cardinality(guards) \in Nat /\ Cardinality(guards) # 0
  BY <1>1, FS_CardinalityType, FS_EmptySet
<1>3. active = Cardinality(guards) /\ active' = active - 1 /\ guards' = guards \ {g}
  BY <1>2 DEF DropGuard, GuardsCounted
<1>4. active = 1 => guards' = {}
  BY <1>1, <1>3, FS_EmptySet
<1>5. GuardsCounted'
  BY <1>1, <1>3 DEF GuardsCounted
<1>6. cleanup = "none"
  BY DEF NoCleanupUnderGuard, cleanupStarted
<1> QED
  BY <1>2, <1>3, <1>4, <1>5, <1>6
  DEF DropGuard, StartCleanup, cleanupStarted, NoCleanupUnderGuard, OwnerConsistent, TypeOK

LEMMA InitPinInv == Init => PinInv
  BY FS_EmptySet, MaxEditsNat
  DEF Init, PinInv, TypeOK, TaskShape, OwnerConsistent, GuardHolders, SingleFlight,
      GuardsCounted, NoCleanupUnderGuard, PinsAreBacked, AnswersAgree, Idle, Stages,
      Digests, NoDigest, Initialising, NoCell, cleanupStarted

\* The parts of the invariant that do not depend on how guards are counted, so
\* that each action can be proved from what it does to guards and cleanup.
OwnerPart == /\ active \in Nat /\ accepting \in BOOLEAN
             /\ cleanup \in {"none", "job", "ok", "failed"}
             /\ OwnerConsistent /\ GuardsCounted /\ NoCleanupUnderGuard

TablePart == /\ guards \in SUBSET (Tasks \cup Cells)
             /\ TaskShape /\ GuardHolders /\ SingleFlight /\ PinsAreBacked /\ AnswersAgree

\* What remains of the type invariant.
RestPart ==
    /\ blobs \in SUBSET Digests
    /\ file \in [Paths -> Digests]
    /\ sess \in [Sessions -> {"new", "live", "gone"}]
    /\ held \in [Sessions -> BOOLEAN]
    /\ closed \in [Sessions -> BOOLEAN]
    /\ allowed \in [Sessions -> SUBSET Digests]
    /\ cell \in [Cells -> {"none", "empty", "busy", "set", "dropped"}]
    /\ value \in [Cells -> Digests \cup {NoDigest}]
    /\ task \in [Tasks -> [pc : {"idle", "lock", "cell", "orphan", "done"} \cup Initialising,
                           on : Cells \cup {NoCell},
                           digest : Digests \cup {NoDigest}]]
    /\ stage \in Stages

LEMMA PinInvParts == PinInv => OwnerPart /\ TablePart /\ RestPart
  BY DEF PinInv, OwnerPart, TablePart, RestPart, TypeOK

LEMMA PartsPinInv == ASSUME OwnerPart', TablePart', RestPart' PROVE PinInv'
  BY DEF PinInv, OwnerPart, TablePart, RestPart, TypeOK

LEMMA OwnerUnchanged ==
  ASSUME OwnerPart, UNCHANGED ownerVars PROVE OwnerPart'
  BY DEF OwnerPart, OwnerConsistent, GuardsCounted, NoCleanupUnderGuard, ownerVars,
         cleanupStarted

\* PinPersistOwner::register counts the new guard.
LEMMA RegisterCounts ==
  ASSUME PinInv, NEW g, g \notin guards, RegisterGuard(g) PROVE OwnerPart'
<1>1. Cardinality(guards \cup {g}) = Cardinality(guards) + 1
  BY GuardsFinite, FS_AddElement DEF PinInv
<1> QED
  BY <1>1 DEF PinInv, TypeOK, OwnerPart, RegisterGuard, OwnerConsistent, GuardsCounted,
              NoCleanupUnderGuard, cleanupStarted

LEMMA DropKeepsOwner ==
  ASSUME PinInv, NEW g \in guards, DropGuard(g)
  PROVE  OwnerPart' /\ guards' = guards \ {g} /\ accepting' = accepting
  BY DropGuardCounts DEF PinInv, TypeOK, OwnerPart

\* A request that ends without holding its cell gives back at most its guard.
LEMMA EndParts ==
  ASSUME TablePart, RestPart, NEW t \in Tasks, task[t].pc \notin Initialising, End(t),
         guards' = guards \ {t}, blobs \subseteq blobs', blobs' \subseteq Digests,
         UNCHANGED <<cell, value, allowed, file, sess, held, closed, stage>>
  PROVE  TablePart' /\ RestPart'
<1>1. RestPart'
  BY DEF RestPart, End, Idle
<1>2. TablePart'
  BY TasksAreNotCells DEF RestPart, TablePart, End, Idle,
     TaskShape, GuardHolders, SingleFlight, PinsAreBacked, AnswersAgree, Initialising
<1> QED BY <1>1, <1>2

\* An initialiser that fails, or is dropped, empties its cell and gives back its guard.
LEMMA GiveUpParts ==
  ASSUME TablePart, RestPart, NEW t \in Tasks, task[t].pc \in Initialising, GiveUp(t),
         guards' = guards \ {t},
         UNCHANGED <<blobs, value, allowed, file, sess, held, closed, stage>>
  PROVE  TablePart' /\ RestPart'
<1>1. task[t].on \in Cells /\ cell[task[t].on] = "busy"
  BY DEF TablePart, TaskShape, SingleFlight, Initialising
<1>2. RestPart'
  BY <1>1 DEF RestPart, GiveUp, End, Idle
<1>3. \A x \in Cells : x # task[t].on => cell'[x] = cell[x]
  BY <1>1 DEF RestPart, GiveUp
<1>4. cell'[task[t].on] = "empty"
  BY <1>1 DEF RestPart, GiveUp
<1>5. TablePart'
  BY <1>1, <1>3, <1>4, TasksAreNotCells DEF RestPart, TablePart, GiveUp, End, Idle,
     TaskShape, GuardHolders, SingleFlight, PinsAreBacked, AnswersAgree, Initialising
<1> QED BY <1>2, <1>5

\* Every step keeps the invariant: one step per action, and for each the owner's
\* part, the tables of pins and tasks, and the remaining types.
LEMMA NextPinInv == PinInv /\ [Next]_vars => PinInv'
<1> SUFFICES ASSUME PinInv, [Next]_vars PROVE PinInv'
  OBVIOUS
<1> USE DEF ownerVars, sessVars
<1>0. OwnerPart /\ TablePart /\ RestPart
  BY PinInvParts
<1>1. ASSUME NEW t \in Tasks, NEW s \in Sessions, NEW p \in Paths, StartRequest(t, s, p) PROVE PinInv'
  <2>1. OwnerPart'
    BY <1>0, <1>1, OwnerUnchanged DEF StartRequest
  <2>2. RestPart'
    BY <1>0, <1>1 DEF StartRequest, RestPart, TablePart, TaskShape, Cells, Initialising
  <2>3. TablePart'
    BY <1>0, <1>1
    DEF StartRequest, RestPart, TablePart, TaskShape, GuardHolders, SingleFlight, PinsAreBacked, AnswersAgree, Cells, Initialising
  <2> QED BY <2>1, <2>2, <2>3, PartsPinInv
<1>2. ASSUME NEW t \in Tasks, LockPinned(t) PROVE PinInv'
  <2> DEFINE c == task[t].on
  <2>1. OwnerPart'
    BY <1>0, <1>2, OwnerUnchanged DEF LockPinned
  <2>2. c \in Cells /\ UNCHANGED <<blobs, file, sess, held, closed, allowed, value, stage, guards>>
    BY <1>0, <1>2 DEF LockPinned, TablePart, TaskShape
  <2>3. CASE End(t) /\ UNCHANGED cell
    <3>1. RestPart'
      BY <1>0, <2>2, <2>3 DEF RestPart, End, Idle
    <3>2. TablePart'
      BY <1>0, <1>2, <2>2, <2>3 DEF LockPinned, RestPart, TablePart, End, Idle,
         TaskShape, GuardHolders, SingleFlight, PinsAreBacked, AnswersAgree, Initialising
    <3> QED BY <2>1, <3>1, <3>2, PartsPinInv
  <2>4. CASE /\ Goto(t, "cell")
             /\ cell' = [cell EXCEPT ![c] = IF @ = "none" THEN "empty" ELSE @]
    <3>1. RestPart'
      BY <1>0, <2>2, <2>4 DEF RestPart, Goto
    <3>2. \A x \in Cells : cell'[x] = cell[x] \/ (cell[x] = "none" /\ cell'[x] = "empty")
      BY <1>0, <2>2, <2>4 DEF RestPart
    <3>3. TablePart'
      BY <1>0, <1>2, <2>2, <2>4, <3>2 DEF LockPinned, RestPart, TablePart, Goto,
         TaskShape, GuardHolders, SingleFlight, PinsAreBacked, AnswersAgree, Initialising
    <3> QED BY <2>1, <3>1, <3>3, PartsPinInv
  <2> QED BY <1>2, <2>3, <2>4 DEF LockPinned
<1>3. ASSUME NEW t \in Tasks, EnterCell(t) PROVE PinInv'
  <2> DEFINE c == task[t].on
  <2>1. OwnerPart'
    BY <1>0, <1>3, OwnerUnchanged DEF EnterCell
  <2>2. c \in Cells /\ UNCHANGED <<blobs, file, sess, held, closed, allowed, value, stage, guards>>
    BY <1>0, <1>3 DEF EnterCell, TablePart, TaskShape
  <2>3. CASE /\ cell[c] = "set" /\ UNCHANGED cell
             /\ task' = [task EXCEPT ![t].pc = "done", ![t].digest = value[c]]
    <3>2. value[c] \in Digests
      BY <1>0, <2>2, <2>3 DEF RestPart, TablePart, PinsAreBacked
    <3> DEFINE v == value[c]
    <3>a. task' = [task EXCEPT ![t] = [task[t] EXCEPT !.pc = "done", !.digest = v]]
      BY <1>0, <2>3 DEF RestPart
    <3> HIDE DEF v
    <3>1. RestPart'
      BY <1>0, <2>2, <2>3, <3>2, <3>a DEF RestPart, v
    <3>3. TablePart'
      BY <1>0, <1>3, <2>2, <2>3, <3>2 DEF EnterCell, RestPart, TablePart,
         TaskShape, GuardHolders, SingleFlight, PinsAreBacked, AnswersAgree, Initialising
    <3> QED BY <2>1, <3>1, <3>3, PartsPinInv
  <2>4. CASE cell[c] = "empty" /\ cell' = [cell EXCEPT ![c] = "busy"] /\ Goto(t, "read")
    <3>1. RestPart'
      BY <1>0, <2>2, <2>4 DEF RestPart, Goto, Initialising
    <3>2. cell'[c] = "busy" /\ \A x \in Cells : x # c => cell'[x] = cell[x]
      BY <1>0, <2>2, <2>4 DEF RestPart
    <3>3. TablePart'
      BY <1>0, <1>3, <2>2, <2>4, <3>2 DEF EnterCell, RestPart, TablePart, Goto,
         TaskShape, GuardHolders, SingleFlight, PinsAreBacked, AnswersAgree, Initialising
    <3> QED BY <2>1, <3>1, <3>3, PartsPinInv
  <2> QED BY <1>3, <2>3, <2>4 DEF EnterCell
<1>4. ASSUME NEW t \in Tasks, ReadAndRegister(t) PROVE PinInv'
  <2> DEFINE c == task[t].on
  <2>1. /\ c \in Cells /\ task[t].pc = "read" /\ t \notin guards
        /\ UNCHANGED <<blobs, file, sess, held, closed, allowed, value, stage>>
    BY <1>0, <1>4 DEF ReadAndRegister, TablePart, TaskShape, GuardHolders
  <2>2. CASE /\ RegisterGuard(t) /\ UNCHANGED cell
             /\ task' = [task EXCEPT ![t].pc = "put", ![t].digest = file[c[2]]]
    <3>1. OwnerPart' /\ guards' = guards \cup {t}
      BY <2>1, <2>2, RegisterCounts DEF RegisterGuard
    <3>2. file[c[2]] \in Digests
      BY <1>0, <2>1 DEF RestPart, Cells
    <3> DEFINE d == file[c[2]]
    <3>a. task' = [task EXCEPT ![t] = [task[t] EXCEPT !.pc = "put", !.digest = d]]
      BY <1>0, <2>2 DEF RestPart
    <3>b. d \in Digests
      BY <3>2
    <3> HIDE DEF d
    <3>c. UNCHANGED cell
      BY <2>2
    <3>d. task' \in [Tasks -> [pc : {"idle", "lock", "cell", "orphan", "done"} \cup Initialising,
                               on : Cells \cup {NoCell},
                               digest : Digests \cup {NoDigest}]]
      BY <1>0, <3>a, <3>b DEF RestPart, Initialising
    <3>3. RestPart'
      BY <1>0, <2>1, <3>c, <3>d DEF RestPart
    <3> USE DEF d
    <3>4. TablePart'
      BY <1>0, <2>1, <2>2, <3>1, <3>2, TasksAreNotCells DEF RestPart, TablePart,
         TaskShape, GuardHolders, SingleFlight, PinsAreBacked, AnswersAgree, Initialising
    <3> QED BY <3>1, <3>3, <3>4, PartsPinInv
  <2>3. CASE GiveUp(t) /\ UNCHANGED ownerVars
    <3>1. TablePart' /\ RestPart'
      BY <1>0, <2>1, <2>3, GiveUpParts DEF Initialising
    <3> QED BY <1>0, <2>3, <3>1, OwnerUnchanged, PartsPinInv
  <2> QED BY <1>4, <2>2, <2>3 DEF ReadAndRegister
<1>5. ASSUME NEW t \in Tasks, PutReturns(t) PROVE PinInv'
  <2>1. /\ t \in guards /\ task[t].digest \in Digests
        /\ UNCHANGED <<file, sess, held, closed, allowed, value, stage>>
    BY <1>0, <1>5 DEF PutReturns, TablePart, TaskShape, GuardHolders
  <2>2. CASE /\ task[t].pc = "put" /\ Goto(t, "commit") /\ UNCHANGED <<ownerVars, cell>>
             /\ blobs' = blobs \cup {task[t].digest}
    <3>1. RestPart'
      BY <1>0, <2>1, <2>2 DEF RestPart, Goto, Initialising
    <3>2. TablePart'
      BY <1>0, <2>1, <2>2 DEF RestPart, TablePart, Goto,
         TaskShape, GuardHolders, SingleFlight, PinsAreBacked, AnswersAgree, Initialising
    <3> QED BY <1>0, <2>2, <3>1, <3>2, OwnerUnchanged, PartsPinInv
  <2>3. CASE DropGuard(t)
    <3>1. OwnerPart' /\ guards' = guards \ {t}
      BY <2>1, <2>3, DropKeepsOwner
    <3>2. CASE task[t].pc = "orphan" /\ End(t) /\ UNCHANGED cell
      <4>1. blobs \subseteq blobs' /\ blobs' \subseteq Digests
        BY <1>0, <1>5, <2>1 DEF PutReturns, RestPart
      <4>2. TablePart' /\ RestPart'
        BY <1>0, <2>1, <3>1, <3>2, <4>1, EndParts DEF Initialising
      <4> QED BY <3>1, <4>2, PartsPinInv
    <3>3. CASE task[t].pc = "put" /\ GiveUp(t) /\ UNCHANGED blobs
      <4>1. TablePart' /\ RestPart'
        BY <1>0, <2>1, <3>1, <3>3, GiveUpParts DEF Initialising
      <4> QED BY <3>1, <4>1, PartsPinInv
    <3> QED BY <1>5, <3>2, <3>3, <2>2 DEF PutReturns
  <2> QED BY <1>5, <2>2, <2>3 DEF PutReturns
<1>6. ASSUME NEW t \in Tasks, Commit(t) PROVE PinInv'
  <2> DEFINE c == task[t].on
             d == task[t].digest
  <2>1. /\ t \in guards /\ d \in Digests /\ d \in blobs /\ c \in Cells /\ cell[c] = "busy"
        /\ c[1] \in Sessions /\ c \notin guards /\ task[t].pc = "commit"
        /\ UNCHANGED <<blobs, file, sess, held, closed, stage>>
    BY <1>0, <1>6 DEF Commit, TablePart, TaskShape, GuardHolders, SingleFlight, Initialising, Cells
  <2>2. CASE /\ accepting
             /\ allowed' = [allowed EXCEPT ![c[1]] = @ \cup {d}]
             /\ cell' = [cell EXCEPT ![c] = "set"]
             /\ value' = [value EXCEPT ![c] = d]
             /\ guards' = (guards \ {t}) \cup {c}
             /\ Goto(t, "done")
             /\ UNCHANGED <<accepting, active, cleanup>>
    <3>1. RestPart'
      BY <1>0, <2>1, <2>2 DEF RestPart, Goto
    <3>2. Cardinality(guards') = Cardinality(guards)
      <4>1. IsFiniteSet(guards) /\ Cardinality(guards) \in Nat
        BY GuardsFinite, FS_CardinalityType DEF PinInv
      <4>2. /\ IsFiniteSet(guards \ {t})
            /\ Cardinality(guards \ {t}) = Cardinality(guards) - 1
        BY <2>1, <4>1, FS_RemoveElement
      <4>3. Cardinality((guards \ {t}) \cup {c}) = Cardinality(guards \ {t}) + 1
        BY <2>1, <4>2, FS_AddElement
      <4> QED BY <2>2, <4>1, <4>2, <4>3
    <3>3. OwnerPart'
      BY <1>0, <2>2, <3>2 DEF OwnerPart, OwnerConsistent, GuardsCounted, NoCleanupUnderGuard,
         cleanupStarted
    <3>4. /\ cell'[c] = "set" /\ value'[c] = d /\ d \in allowed'[c[1]]
          /\ \A x \in Cells : x # c => cell'[x] = cell[x] /\ value'[x] = value[x]
          /\ \A s \in Sessions : allowed[s] \subseteq allowed'[s]
      BY <1>0, <2>1, <2>2 DEF RestPart
    <3>5. /\ task'[t].pc = "done" /\ task'[t].on = c /\ task'[t].digest = d
          /\ \A u \in Tasks : u # t => task'[u] = task[u]
      BY <1>0, <2>2 DEF RestPart, Goto
    <3>6. TaskShape' /\ SingleFlight' /\ AnswersAgree'
      BY <1>0, <2>1, <2>2, <3>4, <3>5 DEF TablePart, TaskShape, SingleFlight, AnswersAgree, Initialising
    <3>7. GuardHolders' /\ guards' \in SUBSET (Tasks \cup Cells)
      BY <1>0, <2>1, <2>2, <3>4, <3>5, TasksAreNotCells DEF TablePart, GuardHolders
    <3>8. PinsAreBacked'
      BY <1>0, <2>1, <2>2, <3>4 DEF TablePart, PinsAreBacked, Cells
    <3> QED BY <3>1, <3>3, <3>6, <3>7, <3>8, PartsPinInv DEF TablePart
  <2>3. CASE DropGuard(t) /\ GiveUp(t) /\ UNCHANGED <<allowed, value>>
    <3>1. OwnerPart' /\ guards' = guards \ {t}
      BY <2>1, <2>3, DropKeepsOwner
    <3>2. TablePart' /\ RestPart'
      BY <1>0, <2>1, <2>3, <3>1, GiveUpParts DEF Initialising
    <3> QED BY <3>1, <3>2, PartsPinInv
  <2> QED BY <1>6, <2>2, <2>3 DEF Commit
<1>7. ASSUME NEW t \in Tasks, Respond(t) PROVE PinInv'
  <2>1. t \notin guards /\ task[t].pc \notin Initialising
    BY <1>0, <1>7 DEF Respond, TablePart, GuardHolders, Initialising
  <2>2. TablePart' /\ RestPart'
    BY <1>0, <1>7, <2>1, EndParts DEF Respond, RestPart
  <2> QED BY <1>0, <1>7, <2>2, OwnerUnchanged, PartsPinInv DEF Respond
<1>8. ASSUME NEW t \in Tasks, CancelRequest(t) PROVE PinInv'
  <2>1. UNCHANGED <<blobs, file, sess, held, closed, allowed, value, stage>>
    BY <1>8 DEF CancelRequest
  <2>2. CASE task[t].pc \in {"lock", "cell", "done"} /\ End(t) /\ UNCHANGED <<ownerVars, cell>>
    <3>1. t \notin guards /\ task[t].pc \notin Initialising
      BY <1>0, <2>2 DEF TablePart, GuardHolders, Initialising
    <3>2. TablePart' /\ RestPart'
      BY <1>0, <2>1, <2>2, <3>1, EndParts DEF RestPart
    <3> QED BY <1>0, <2>2, <3>2, OwnerUnchanged, PartsPinInv
  <2>3. CASE task[t].pc = "read" /\ GiveUp(t) /\ UNCHANGED ownerVars
    <3>1. t \notin guards
      BY <1>0, <2>3 DEF TablePart, GuardHolders
    <3>2. TablePart' /\ RestPart'
      BY <1>0, <2>1, <2>3, <3>1, GiveUpParts DEF Initialising
    <3> QED BY <1>0, <2>3, <3>2, OwnerUnchanged, PartsPinInv
  <2>4. CASE /\ task[t].pc = "put" /\ Goto(t, "orphan")
             /\ cell' = [cell EXCEPT ![task[t].on] = "empty"] /\ UNCHANGED ownerVars
    <3>1. task[t].on \in Cells /\ cell[task[t].on] = "busy"
      BY <1>0, <2>4 DEF TablePart, TaskShape, SingleFlight, Initialising
    <3>2. RestPart'
      BY <1>0, <2>1, <2>4, <3>1 DEF RestPart, Goto
    <3>3. /\ cell'[task[t].on] = "empty"
          /\ \A x \in Cells : x # task[t].on => cell'[x] = cell[x]
      BY <1>0, <2>4, <3>1 DEF RestPart
    <3>4. TablePart'
      BY <1>0, <2>1, <2>4, <3>1, <3>3 DEF RestPart, TablePart, Goto,
         TaskShape, GuardHolders, SingleFlight, PinsAreBacked, AnswersAgree, Initialising
    <3> QED BY <1>0, <2>4, <3>2, <3>4, OwnerUnchanged, PartsPinInv
  <2>5. CASE task[t].pc = "commit" /\ GiveUp(t) /\ DropGuard(t)
    <3>1. t \in guards
      BY <1>0, <2>5 DEF TablePart, GuardHolders
    <3>2. OwnerPart' /\ guards' = guards \ {t}
      BY <2>5, <3>1, DropKeepsOwner
    <3>3. TablePart' /\ RestPart'
      BY <1>0, <2>1, <2>5, <3>2, GiveUpParts DEF Initialising
    <3> QED BY <3>2, <3>3, PartsPinInv
  <2> QED BY <1>8, <2>2, <2>3, <2>4, <2>5 DEF CancelRequest
<1>9. ASSUME NEW s \in Sessions, CreateSession(s) PROVE PinInv'
  <2>1. OwnerPart'
    BY <1>0, <1>9, OwnerUnchanged DEF CreateSession
  <2>2. RestPart'
    BY <1>0, <1>9 DEF CreateSession, RestPart, TablePart, TaskShape, Cells, Initialising
  <2>3. TablePart'
    BY <1>0, <1>9
    DEF CreateSession, RestPart, TablePart, TaskShape, GuardHolders, SingleFlight, PinsAreBacked, AnswersAgree, Cells, Initialising
  <2> QED BY <2>1, <2>2, <2>3, PartsPinInv
<1>10. ASSUME NEW s \in Sessions, BindConnection(s) PROVE PinInv'
  <2>1. OwnerPart'
    BY <1>0, <1>10, OwnerUnchanged DEF BindConnection
  <2>2. RestPart'
    BY <1>0, <1>10 DEF BindConnection, RestPart, TablePart, TaskShape, Cells, Initialising
  <2>3. TablePart'
    BY <1>0, <1>10
    DEF BindConnection, RestPart, TablePart, TaskShape, GuardHolders, SingleFlight, PinsAreBacked, AnswersAgree, Cells, Initialising
  <2> QED BY <2>1, <2>2, <2>3, PartsPinInv
<1>11. ASSUME NEW s \in Sessions, RemoveSession(s) PROVE PinInv'
  <2>1. OwnerPart'
    BY <1>0, <1>11, OwnerUnchanged DEF RemoveSession
  <2>2. RestPart'
    BY <1>0, <1>11 DEF RemoveSession, RestPart, TablePart, TaskShape, Cells, Initialising
  <2>3. TablePart'
    BY <1>0, <1>11
    DEF RemoveSession, RestPart, TablePart, TaskShape, GuardHolders, SingleFlight, PinsAreBacked, AnswersAgree, Cells, Initialising
  <2> QED BY <2>1, <2>2, <2>3, PartsPinInv
<1>12. ASSUME NEW s \in Sessions, ReleaseSession(s) PROVE PinInv'
  <2>1. OwnerPart'
    BY <1>0, <1>12, OwnerUnchanged DEF ReleaseSession
  <2>2. RestPart'
    BY <1>0, <1>12 DEF ReleaseSession, RestPart, TablePart, TaskShape, Cells, Initialising
  <2>3. TablePart'
    BY <1>0, <1>12
    DEF ReleaseSession, RestPart, TablePart, TaskShape, GuardHolders, SingleFlight, PinsAreBacked, AnswersAgree, Cells, Initialising
  <2> QED BY <2>1, <2>2, <2>3, PartsPinInv
<1>13. ASSUME NEW c \in Cells, DropCell(c) PROVE PinInv'
  <2>1. c \in guards /\ UNCHANGED <<blobs, file, sess, held, closed, allowed, value, task, stage>>
    BY <1>0, <1>13 DEF DropCell, TablePart, GuardHolders
  <2>2. OwnerPart' /\ guards' = guards \ {c}
    BY <1>13, <2>1, DropKeepsOwner DEF DropCell
  <2>3. RestPart'
    BY <1>0, <1>13, <2>1 DEF RestPart, DropCell
  <2>4. cell'[c] = "dropped" /\ \A x \in Cells : x # c => cell'[x] = cell[x]
    BY <1>0, <1>13 DEF RestPart, DropCell
  <2>5. \A t \in Tasks : task[t].pc \in Initialising \cup {"done"} => task[t].on # c
    BY <1>0, <1>13 DEF TablePart, TaskShape, DropCell, Running, Initialising
  <2>6. TablePart'
    BY <1>0, <2>1, <2>2, <2>4, <2>5, TasksAreNotCells DEF TablePart,
       TaskShape, GuardHolders, SingleFlight, PinsAreBacked, AnswersAgree, Initialising
  <2> QED BY <2>2, <2>3, <2>6, PartsPinInv
<1>14. ASSUME NEW p \in Paths, Edit(p) PROVE PinInv'
  <2>1. OwnerPart'
    BY <1>0, <1>14, OwnerUnchanged DEF Edit
  <2>2. RestPart'
    BY <1>0, <1>14, MaxEditsNat DEF Edit, RestPart, TablePart, TaskShape, Cells, Initialising, Digests
  <2>3. TablePart'
    BY <1>0, <1>14, MaxEditsNat
    DEF Edit, RestPart, TablePart, TaskShape, GuardHolders, SingleFlight, PinsAreBacked, AnswersAgree, Cells, Initialising, Digests
  <2> QED BY <2>1, <2>2, <2>3, PartsPinInv
<1>15. CASE BeginShutdown
  <2>1. OwnerPart'
    BY <1>0, <1>15, OwnerUnchanged DEF BeginShutdown
  <2>2. RestPart'
    BY <1>0, <1>15 DEF BeginShutdown, RestPart, TablePart, TaskShape, Cells, Initialising, Stages
  <2>3. TablePart'
    BY <1>0, <1>15
    DEF BeginShutdown, RestPart, TablePart, TaskShape, GuardHolders, SingleFlight, PinsAreBacked, AnswersAgree, Cells, Initialising, Stages
  <2> QED BY <2>1, <2>2, <2>3, PartsPinInv
<1>16. CASE TasksDrained
  <2>1. OwnerPart'
    BY <1>0, <1>16, OwnerUnchanged DEF TasksDrained
  <2>2. RestPart'
    BY <1>0, <1>16 DEF TasksDrained, RestPart, TablePart, TaskShape, Cells, Initialising, Stages
  <2>3. TablePart'
    BY <1>0, <1>16
    DEF TasksDrained, RestPart, TablePart, TaskShape, GuardHolders, SingleFlight, PinsAreBacked, AnswersAgree, Cells, Initialising, Stages
  <2> QED BY <2>1, <2>2, <2>3, PartsPinInv
<1>17. CASE ShutdownSessions
  <2>1. OwnerPart'
    BY <1>0, <1>17, OwnerUnchanged DEF ShutdownSessions
  <2>2. RestPart'
    BY <1>0, <1>17 DEF ShutdownSessions, RestPart, TablePart, TaskShape, Cells, Initialising, Stages
  <2>3. TablePart'
    BY <1>0, <1>17
    DEF ShutdownSessions, RestPart, TablePart, TaskShape, GuardHolders, SingleFlight, PinsAreBacked, AnswersAgree, Cells, Initialising, Stages
  <2> QED BY <2>1, <2>2, <2>3, PartsPinInv
<1>18. CASE Close \/ DropRegistry
  <2>1. /\ accepting' = FALSE /\ UNCHANGED <<active, guards>>
        /\ IF active = 0 /\ ~cleanupStarted THEN StartCleanup ELSE UNCHANGED cleanup
    BY <1>18 DEF Close, DropRegistry, CloseOwner
  <2>2. active = 0 => guards = {}
    BY <1>0, GuardsFinite, FS_EmptySet DEF PinInv, GuardsCounted
  <2>3. OwnerPart'
    BY <1>0, <2>1, <2>2 DEF OwnerPart, OwnerConsistent, GuardsCounted, NoCleanupUnderGuard,
       cleanupStarted, StartCleanup
  <2>4. RestPart'
    BY <1>0, <1>18 DEF RestPart, Close, DropRegistry, Stages
  <2>5. UNCHANGED <<guards, blobs, allowed, cell, value, task>>
    BY <1>18 DEF Close, DropRegistry, CloseOwner
  <2>6. TablePart'
    BY <1>0, <2>5 DEF TablePart, TaskShape, GuardHolders, SingleFlight, PinsAreBacked, AnswersAgree, Initialising
  <2> QED BY <2>3, <2>4, <2>6, PartsPinInv
<1>19. CASE DaemonExits
  <2>1. OwnerPart'
    BY <1>0, <1>19, OwnerUnchanged DEF DaemonExits
  <2>2. RestPart'
    BY <1>0, <1>19 DEF DaemonExits, RestPart, TablePart, TaskShape, Cells, Initialising, Stages
  <2>3. TablePart'
    BY <1>0, <1>19
    DEF DaemonExits, RestPart, TablePart, TaskShape, GuardHolders, SingleFlight, PinsAreBacked, AnswersAgree, Cells, Initialising, Stages
  <2> QED BY <2>1, <2>2, <2>3, PartsPinInv
<1>20. CASE CleanupJob
  <2>1. guards = {} /\ cleanup = "job" /\ blobs' \subseteq blobs /\ cleanup' \in {"ok", "failed"}
    BY <1>0, <1>20 DEF CleanupJob, OwnerPart, NoCleanupUnderGuard, cleanupStarted
  <2>2. OwnerPart'
    BY <1>0, <1>20, <2>1 DEF CleanupJob, OwnerPart, OwnerConsistent, GuardsCounted,
       NoCleanupUnderGuard, cleanupStarted
  <2>3. RestPart'
    BY <1>0, <1>20, <2>1 DEF RestPart, CleanupJob
  <2>4. \A c \in Cells : cell[c] # "set"
    BY <1>0, <2>1 DEF TablePart, GuardHolders
  <2>5. \A t \in Tasks : task[t].pc # "commit"
    BY <1>0, <2>1 DEF TablePart, GuardHolders
  <2>6. TablePart'
    BY <1>0, <1>20, <2>4, <2>5 DEF CleanupJob, TablePart, TaskShape, GuardHolders, SingleFlight, PinsAreBacked, AnswersAgree, Initialising
  <2> QED BY <2>2, <2>3, <2>6, PartsPinInv
<1>21. CASE UNCHANGED vars
  <2>1. OwnerPart'
    BY <1>0, <1>21, OwnerUnchanged DEF vars
  <2>2. RestPart' /\ TablePart'
    BY <1>0, <1>21 DEF vars, RestPart, TablePart, TaskShape, GuardHolders, SingleFlight, PinsAreBacked, AnswersAgree, Initialising
  <2> QED BY <2>1, <2>2, PartsPinInv
<1> QED
  BY <1>1, <1>2, <1>3, <1>4, <1>5, <1>6, <1>7, <1>8, <1>9, <1>10, <1>11, <1>12, <1>13,
     <1>14, <1>15, <1>16, <1>17, <1>18, <1>19, <1>20, <1>21
  DEF Next, TaskStep

\* The inductive invariant holds in every reachable state.
THEOREM PinInvariant == Spec => []PinInv
  BY InitPinInv, NextPinInv, PTL DEF Spec

\* Type correctness of the pin tables and of the owner.
THEOREM PinTypes == Spec => []TypeOK
<1>1. PinInv => TypeOK
  BY DEF PinInv
<1> QED BY <1>1, PinInvariant, PTL

\* The ephemeral store is never removed under a live guard.
THEOREM CleanupSafe == Spec => []NoCleanupUnderGuard
<1>1. PinInv => NoCleanupUnderGuard
  BY DEF PinInv
<1> QED BY <1>1, PinInvariant, PTL

\* A published pin stays readable: its blob is stored and its digest is listed.
THEOREM PinsBacked == Spec => []PinsAreBacked
<1>1. PinInv => PinsAreBacked
  BY DEF PinInv
<1> QED BY <1>1, PinInvariant, PTL

\* All answers for one path of one session carry the frozen digest.
THEOREM SnapshotConsistent == Spec => []AnswersAgree
<1>1. PinInv => AnswersAgree
  BY DEF PinInv
<1> QED BY <1>1, PinInvariant, PTL

\* Only a commit writes a cell's value or a session's allowed list.
LEMMA OnlyCommitPublishes ==
  ASSUME Next, ~ \E t \in Tasks : Commit(t) PROVE UNCHANGED <<value, allowed>>
  BY DEF Next, TaskStep, CleanupJob, StartRequest, LockPinned, EnterCell, ReadAndRegister,
     PutReturns, Respond, CancelRequest, CreateSession, BindConnection, RemoveSession,
     ReleaseSession, DropCell, Edit, BeginShutdown, TasksDrained, ShutdownSessions, Close,
     DropRegistry, DaemonExits

\* A pin, once set, is never replaced by a later read of an edited file.
THEOREM PinsFrozen == Spec => PinsAreFrozen
<1>1. PinInv /\ [Next]_vars => [\A c \in Cells : cell[c] = "set" => value'[c] = value[c]]_vars
  <2> SUFFICES ASSUME PinInv, Next, NEW c \in Cells, cell[c] = "set" PROVE value'[c] = value[c]
    OBVIOUS
  <2>1. CASE \E t \in Tasks : Commit(t)
    <3>1. PICK t \in Tasks : Commit(t)
      BY <2>1
    <3>2. task[t].on \in Cells /\ cell[task[t].on] = "busy"
      BY <3>1 DEF Commit, PinInv, TaskShape, SingleFlight, Initialising
    <3> QED BY <3>1, <3>2 DEF Commit, PinInv, TypeOK
  <2> QED BY <2>1, OnlyCommitPublishes
<1> QED BY <1>1, PinInvariant, PTL DEF Spec, PinsAreFrozen
============================================================================
