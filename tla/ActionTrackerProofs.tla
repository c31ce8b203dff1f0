-------------------------- MODULE ActionTrackerProofs --------------------------
(* Proofs that ActionTracker's lanes, leases and table stay consistent for *)
(* any number of attempts, workers and table size.                         *)
EXTENDS ActionTracker, FiniteSetTheorems, SequenceTheorems, WellFoundedInduction,
        TLAPS

LEMMA InitTracker == Init => TrackerInv
  <1> SUFFICES ASSUME Init PROVE TrackerInv
    OBVIOUS
  <1>1. Records(state) = {} /\ \A w \in Workers : RunningOn(w) = {}
    BY DEF Init, Records, RunningOn
  <1>2. TypeOK
    BY DEF Init, TypeOK, DefaultAllocator
  <1>3. QueueInv /\ LeaseInv
    BY DEF Init, QueueInv, LeaseInv, Terminal, Live
  <1>4. ASSUME NEW w \in Workers PROVE LanesOf(w)
    <2>1. /\ lanes[w].next_lane = 1 /\ lanes[w].free_lanes = {} /\ lanes[w].active = 0
          /\ lanes[w] = DefaultAllocator
      BY DEF Init, DefaultAllocator
    <2>2. Cardinality(RunningOn(w)) = 0 /\ Cardinality(lanes[w].free_lanes) = 0
      BY <1>1, <2>1, FS_EmptySet
    <2>3. \A k : k \notin RunningOn(w) /\ k \notin lanes[w].free_lanes
      BY <1>1, <2>1
    <2> QED BY <2>1, <2>2, <2>3, MaxAttemptsPositive DEF LanesOf
  <1>5. IsFiniteSet(Records(state)) /\ Cardinality(Records(state)) = 0
    BY <1>1, FS_EmptySet
  <1>6. SizeInv
    BY <1>5, MaxAttemptsPositive DEF Init, SizeInv
  <1> QED BY <1>2, <1>3, <1>4, <1>6 DEF TrackerInv, LaneInv

(* Removing the first n keys of terminal_order (prune_locked and           *)
(* evict_oldest_terminal) leaves a queue of the other terminal attempts.   *)
LEMMA Forgetting ==
    ASSUME TypeOK, QueueInv, NEW n \in 0..Len(order), Forget(n)
    PROVE  /\ order' \in Seq(Keys)
           /\ \A i, j \in 1..Len(order') : order'[i] = order'[j] => i = j
           /\ \A k \in Keys : (\E i \in 1..Len(order') : order'[i] = k)
                              <=> state[k] \in Terminal /\ k \notin Popped(n)
           /\ Popped(n) \subseteq {k \in Keys : state[k] \in Terminal}
  <1>1. order \in Seq(Keys) /\ Len(order) \in Nat /\ \A i \in 1..Len(order) : order[i] \in Keys
    BY DEF TypeOK
  <1>2. /\ order' \in Seq(Keys) /\ Len(order') = Len(order) - n
        /\ \A i \in 1..Len(order') : order'[i] = order[n + i]
    <2>1. /\ SubSeq(order, n + 1, Len(order)) \in Seq(Keys)
          /\ Len(SubSeq(order, n + 1, Len(order)))
                = IF n + 1 <= Len(order) THEN Len(order) - (n + 1) + 1 ELSE 0
          /\ \A i \in 1..(Len(order) - (n + 1) + 1) :
                SubSeq(order, n + 1, Len(order))[i] = order[(n + 1) + i - 1]
      <3>1. n + 1 \in Int /\ Len(order) \in Int /\ \A i \in (n + 1)..Len(order) : order[i] \in Keys
        BY <1>1
      <3> QED BY <3>1, SubSeqProperties
    <2> QED BY <1>1, <2>1 DEF Forget
  <1>3. ASSUME NEW i \in 1..Len(order'), NEW j \in 1..Len(order'), order'[i] = order'[j]
        PROVE  i = j
    <2>1. n + i \in 1..Len(order) /\ n + j \in 1..Len(order) /\ order[n + i] = order[n + j]
      BY <1>1, <1>2, <1>3
    <2>2. n + i = n + j
      BY <2>1 DEF QueueInv
    <2> QED BY <2>2
  <1>4. Popped(n) \subseteq {k \in Keys : state[k] \in Terminal}
    BY <1>1 DEF Popped, QueueInv
  <1>5. ASSUME NEW k \in Keys, NEW i \in 1..Len(order'), order'[i] = k
        PROVE  state[k] \in Terminal /\ k \notin Popped(n)
    <2>1. n + i \in 1..Len(order) /\ order[n + i] = k
      BY <1>1, <1>2, <1>5
    <2>2. \A j \in 1..n : order[j] # k
      <3> SUFFICES ASSUME NEW j \in 1..n, order[j] = k PROVE FALSE
        OBVIOUS
      <3>1. j \in 1..Len(order) /\ j # n + i
        BY <1>1, <1>2
      <3> QED BY <2>1, <3>1 DEF QueueInv
    <2> QED BY <2>1, <2>2 DEF Popped, QueueInv
  <1>6. ASSUME NEW k \in Keys, state[k] \in Terminal, k \notin Popped(n)
        PROVE  \E i \in 1..Len(order') : order'[i] = k
    <2>1. PICK j \in 1..Len(order) : order[j] = k
      BY <1>6 DEF QueueInv
    <2>2. j > n
      BY <1>1, <1>6, <2>1 DEF Popped
    <2>3. j - n \in 1..Len(order') /\ order'[j - n] = k
      BY <1>1, <1>2, <2>1, <2>2
    <2> QED BY <2>3
  <1> QED BY <1>2, <1>3, <1>4, <1>5, <1>6

(* Removing terminal attempts touches no lease, no lane and no running     *)
(* attempt, and frees their places in the table.                           *)
LEMMA ForgettingKeepsRunning ==
    ASSUME TrackerInv, NEW n \in 0..Len(order), Popped(n) \subseteq {k \in Keys : state[k] \in Terminal}
    PROVE  /\ Records(Kept(n)) = Records(state) \ Popped(n)
           /\ IsFiniteSet(Records(Kept(n)))
           /\ Cardinality(Records(Kept(n))) \in Nat
           /\ Cardinality(Records(Kept(n))) <= MaxAttempts
  <1>1. Records(Kept(n)) = Records(state) \ Popped(n)
    BY DEF Records, Kept
  <1>2. Records(Kept(n)) \in SUBSET Records(state)
    BY <1>1
  <1>3. IsFiniteSet(Records(state)) /\ Cardinality(Records(state)) <= MaxAttempts
    BY DEF TrackerInv, SizeInv
  <1>4. /\ IsFiniteSet(Records(Kept(n)))
        /\ Cardinality(Records(Kept(n))) <= Cardinality(Records(state))
    BY <1>2, <1>3, FS_Subset
  <1>5. Cardinality(Records(Kept(n))) \in Nat /\ Cardinality(Records(state)) \in Nat
    BY <1>3, <1>4, FS_CardinalityType
  <1> QED BY <1>1, <1>3, <1>4, <1>5, MaxAttemptsPositive

(* The lanes of w depend on its running attempts and its allocator only.   *)
LEMMA LanesStay ==
    ASSUME NEW w \in Workers, LanesOf(w), lanes'[w] = lanes[w],
           RunningOn(w)' = RunningOn(w), \A k \in RunningOn(w) : lane'[k] = lane[k]
    PROVE  LanesOf(w)'
  BY DEF LanesOf

(* Pruning n terminal attempts, with or without refusing a new one, keeps  *)
(* the invariant.                                                          *)
LEMMA PruneKeeps ==
    ASSUME TrackerInv, NEW n \in 0..Len(order), Forget(n),
           state' = Kept(n), UNCHANGED <<lane, lanes, worker>>,
           lease' \in [Keys -> {"new", "held", "untracked", "dropped"}],
           \A k \in Keys : \/ lease'[k] = lease[k]
                           \/ lease[k] = "new" /\ lease'[k] = "untracked"
    PROVE  TrackerInv'
  <1>0. TypeOK /\ QueueInv /\ LeaseInv /\ LaneInv /\ SizeInv
    BY DEF TrackerInv
  <1>1. /\ order' \in Seq(Keys)
        /\ \A i, j \in 1..Len(order') : order'[i] = order'[j] => i = j
        /\ \A x \in Keys : (\E i \in 1..Len(order') : order'[i] = x)
                           <=> state[x] \in Terminal /\ x \notin Popped(n)
        /\ Popped(n) \subseteq {x \in Keys : state[x] \in Terminal}
    BY <1>0, Forgetting
  <1>2. \A x \in Keys : state'[x] = IF x \in Popped(n) THEN "absent" ELSE state[x]
    BY DEF Kept
  <1>3. TypeOK'
    BY <1>0, <1>1 DEF TypeOK, Forget, Kept, Live, Terminal
  <1>4. QueueInv'
    <2>1. \A x \in Keys : state'[x] \in Terminal <=> state[x] \in Terminal /\ x \notin Popped(n)
      BY <1>2 DEF Terminal
    <2>2. \A x \in expired' : x \in Keys /\ x \notin Popped(n) /\ state[x] \in Terminal
      BY <1>0 DEF QueueInv, Forget, TypeOK
    <2> QED BY <1>1, <2>1, <2>2 DEF QueueInv
  <1>5. LeaseInv'
    <2> SUFFICES ASSUME NEW x \in Keys
                 PROVE  /\ lease'[x] = "held" <=> state'[x] \in Live
                        /\ state'[x] \in Live => worker'[x] \in Workers
                        /\ lease'[x] \in {"new", "untracked"} => state'[x] = "absent"
                        /\ lease'[x] = "new" => lane'[x] = 0
                        /\ state'[x] \in Live => (lane'[x] = 0 <=> state'[x] # "Running")
      BY DEF LeaseInv
    <2>1. CASE x \in Popped(n)
      BY <1>0, <1>1, <1>2, <2>1 DEF LeaseInv, Live, Terminal
    <2>2. CASE x \notin Popped(n)
      BY <1>0, <1>2, <2>2 DEF LeaseInv, Live
    <2> QED BY <2>1, <2>2
  <1>6. LaneInv'
    <2>1. \A w \in Workers : RunningOn(w)' = RunningOn(w)
      BY <1>1, <1>2 DEF RunningOn, Terminal
    <2> QED BY <1>0, <2>1, LanesStay DEF LaneInv
  <1>7. SizeInv'
    BY <1>0, <1>1, ForgettingKeepsRunning DEF SizeInv
  <1> QED BY <1>3, <1>4, <1>5, <1>6, <1>7 DEF TrackerInv

(* So does starting attempt k where the first n leave room for it.         *)
LEMMA StartKeeps ==
    ASSUME TrackerInv, NEW n \in 0..Len(order), NEW k \in Keys, NEW w \in Workers,
           lease[k] = "new", Cardinality(Records(Kept(n))) < MaxAttempts,
           Start(k, w, n), UNCHANGED <<lane, lanes>>
    PROVE  TrackerInv'
  <1>s. /\ Forget(n) /\ state' = [Kept(n) EXCEPT ![k] = "Created"]
        /\ worker' = [worker EXCEPT ![k] = w]
        /\ lease' = [lease EXCEPT ![k] = "held"]
    BY DEF Start
  <1>0. TypeOK /\ QueueInv /\ LeaseInv /\ LaneInv /\ SizeInv
    BY DEF TrackerInv
  <1>1. /\ order' \in Seq(Keys)
        /\ \A i, j \in 1..Len(order') : order'[i] = order'[j] => i = j
        /\ \A x \in Keys : (\E i \in 1..Len(order') : order'[i] = x)
                           <=> state[x] \in Terminal /\ x \notin Popped(n)
        /\ Popped(n) \subseteq {x \in Keys : state[x] \in Terminal}
    BY <1>0, <1>s, Forgetting
  <1>2. state[k] = "absent" /\ lane[k] = 0 /\ k \notin Popped(n)
    BY <1>0, <1>1 DEF LeaseInv, Terminal
  <1>3. \A x \in Keys : state'[x] = IF x \in Popped(n) THEN "absent"
                                    ELSE IF x = k THEN "Created" ELSE state[x]
    BY <1>s, <1>2 DEF Kept
  <1>w. /\ \A x \in Keys : worker'[x] = IF x = k THEN w ELSE worker[x]
        /\ \A x \in Keys : lease'[x] = IF x = k THEN "held" ELSE lease[x]
        /\ \A x \in Keys : lane'[x] = lane[x]
    <2>1. worker \in [Keys -> Workers \cup {NoWorker}]
      BY <1>0 DEF TypeOK
    <2>2. lease \in [Keys -> {"new", "held", "untracked", "dropped"}]
      BY <1>0 DEF TypeOK
    <2>3. \A x \in Keys : worker'[x] = IF x = k THEN w ELSE worker[x]
      BY <1>s, <2>1
    <2>4. \A x \in Keys : lease'[x] = IF x = k THEN "held" ELSE lease[x]
      BY <1>s, <2>2
    <2> QED BY <2>3, <2>4
  <1>4. TypeOK'
    BY <1>s, <1>0, <1>1 DEF TypeOK, Forget, Kept, Live, Terminal
  <1>5. QueueInv'
    <2>1. \A x \in Keys : state'[x] \in Terminal <=> state[x] \in Terminal /\ x \notin Popped(n)
      BY <1>2, <1>3 DEF Terminal
    <2>2. \A x \in expired' : x \in Keys /\ x \notin Popped(n) /\ state[x] \in Terminal
      BY <1>s, <1>0 DEF QueueInv, Forget, TypeOK
    <2> QED BY <1>1, <2>1, <2>2 DEF QueueInv
  <1>6. LeaseInv'
    <2> SUFFICES ASSUME NEW x \in Keys
                 PROVE  /\ lease'[x] = "held" <=> state'[x] \in Live
                        /\ state'[x] \in Live => worker'[x] \in Workers
                        /\ lease'[x] \in {"new", "untracked"} => state'[x] = "absent"
                        /\ lease'[x] = "new" => lane'[x] = 0
                        /\ state'[x] \in Live => (lane'[x] = 0 <=> state'[x] # "Running")
      BY DEF LeaseInv
    <2>1. CASE x = k
      BY <1>2, <1>3, <1>w, <2>1 DEF Live
    <2>2. CASE x # k /\ x \in Popped(n)
      BY <1>0, <1>1, <1>3, <1>w, <2>2 DEF LeaseInv, Live, Terminal
    <2>3. CASE x # k /\ x \notin Popped(n)
      BY <1>0, <1>3, <1>w, <2>3 DEF LeaseInv
    <2> QED BY <2>1, <2>2, <2>3
  <1>7. LaneInv'
    <2>1. \A x \in Workers : RunningOn(x)' = RunningOn(x)
      BY <1>1, <1>2, <1>3, <1>w DEF RunningOn, Terminal
    <2> QED BY <1>0, <2>1, LanesStay DEF LaneInv
  <1>8. SizeInv'
    <2>1. /\ IsFiniteSet(Records(Kept(n))) /\ Cardinality(Records(Kept(n))) \in Nat
      BY <1>1, ForgettingKeepsRunning
    <2>2. Records(state') = Records(Kept(n)) \cup {k}
      BY <1>s, <1>0 DEF Records, Kept, TypeOK
    <2>3. k \notin Records(Kept(n))
      BY <1>2 DEF Records, Kept
    <2>4. /\ IsFiniteSet(Records(state'))
          /\ Cardinality(Records(state')) = Cardinality(Records(Kept(n))) + 1
      <3> DEFINE R == Records(Kept(n))
      <3>1. /\ IsFiniteSet(R \cup {k})
            /\ Cardinality(R \cup {k}) = IF k \in R THEN Cardinality(R) ELSE Cardinality(R) + 1
        BY <2>1, FS_AddElement
      <3> QED BY <2>2, <2>3, <3>1
    <2>5. Cardinality(Records(state')) <= MaxAttempts
      BY <2>1, <2>4, MaxAttemptsPositive
    <2> QED BY <1>0, <2>4, <2>5 DEF SizeInv
  <1> QED BY <1>4, <1>5, <1>6, <1>7, <1>8 DEF TrackerInv

(* begin_attempt_lease: the evicted attempt makes room for the new one.    *)
LEMMA BeginKeeps ==
    ASSUME TrackerInv, NEW k \in Keys, NEW w \in Workers, begin_attempt_lease(k, w)
    PROVE  TrackerInv'
  <1>0. TypeOK /\ QueueInv /\ Len(order) \in Nat /\ \A i \in 1..Len(order) : order[i] \in Keys
    BY DEF TrackerInv, TypeOK
  <1>1. PICK n \in 0..Len(order) :
             \/ ~Full(Kept(n)) /\ Start(k, w, n)
             \/ Full(Kept(n)) /\ n < Len(order) /\ Start(k, w, n + 1)
             \/ /\ Full(Kept(n)) /\ n = Len(order)
                /\ Forget(n) /\ state' = Kept(n)
                /\ lease' = [lease EXCEPT ![k] = "untracked"]
                /\ UNCHANGED worker
    BY DEF begin_attempt_lease
  <1>2. lease[k] = "new" /\ UNCHANGED <<lane, lanes>>
    BY DEF begin_attempt_lease
  <1>3. \A m \in 0..Len(order) : Popped(m) \subseteq {x \in Keys : state[x] \in Terminal}
    BY <1>0 DEF Popped, QueueInv
  <1>4. CASE ~Full(Kept(n)) /\ Start(k, w, n)
    <2>1. Cardinality(Records(Kept(n))) \in Nat
      BY <1>3, ForgettingKeepsRunning
    <2>2. Cardinality(Records(Kept(n))) < MaxAttempts
      BY <1>4, <2>1, MaxAttemptsPositive DEF Full
    <2> QED BY <1>2, <1>4, <2>2, StartKeeps
  <1>5. CASE n < Len(order) /\ Start(k, w, n + 1)
    <2> DEFINE R == Records(Kept(n))
               x == order[n + 1]
    <2>1. n + 1 \in 0..Len(order) /\ n + 1 \in 1..Len(order)
      BY <1>0, <1>5
    <2>2. R = Records(state) \ Popped(n) /\ IsFiniteSet(R) /\ Cardinality(R) \in Nat
          /\ Cardinality(R) <= MaxAttempts
      BY <1>3, ForgettingKeepsRunning
    <2>3. Records(Kept(n + 1)) = Records(state) \ Popped(n + 1)
      BY <2>1, <1>3, ForgettingKeepsRunning
    <2>4. Popped(n + 1) = Popped(n) \cup {x}
      BY <1>0, <2>1 DEF Popped
    <2>5. x \notin Popped(n)
      BY <1>0, <2>1 DEF Popped, QueueInv
    <2>6. x \in Records(state)
      BY <1>0, <2>1 DEF Records, QueueInv, Terminal
    <2>7. Records(Kept(n + 1)) = R \ {x} /\ x \in R
      BY <2>2, <2>3, <2>4, <2>5, <2>6
    <2> HIDE DEF R, x
    <2>8. Cardinality(R \ {x}) = IF x \in R THEN Cardinality(R) - 1 ELSE Cardinality(R)
      BY <2>2, FS_RemoveElement
    <2>a. Cardinality(Records(Kept(n + 1))) = Cardinality(R) - 1
      BY <2>7, <2>8
    <2>9. Cardinality(Records(Kept(n + 1))) < MaxAttempts
      BY <2>2, <2>a, MaxAttemptsPositive
    <2> QED BY <1>2, <1>5, <2>1, <2>9, StartKeeps
  <1>6. CASE /\ Forget(n) /\ state' = Kept(n)
             /\ lease' = [lease EXCEPT ![k] = "untracked"]
             /\ UNCHANGED worker
    <2>1. lease' \in [Keys -> {"new", "held", "untracked", "dropped"}]
      BY <1>0, <1>6 DEF TypeOK
    <2>2. \A x \in Keys : \/ lease'[x] = lease[x]
                          \/ lease[x] = "new" /\ lease'[x] = "untracked"
      BY <1>0, <1>2, <1>6 DEF TypeOK
    <2> QED BY <1>2, <1>6, <2>1, <2>2, PruneKeeps
  <1> QED BY <1>1, <1>4, <1>5, <1>6

LEMMA SnapshotKeeps ==
    ASSUME TrackerInv, snapshot
    PROVE  TrackerInv'
  <1>1. PICK n \in 1..Len(order) : Forget(n) /\ state' = Kept(n)
    BY DEF snapshot
  <1>2. n \in 0..Len(order) /\ UNCHANGED <<lane, lanes, worker, lease>>
    BY DEF snapshot, TrackerInv, TypeOK
  <1>3. lease' \in [Keys -> {"new", "held", "untracked", "dropped"}]
    BY <1>2 DEF TrackerInv, TypeOK
  <1> QED BY <1>1, <1>2, <1>3, PruneKeeps

-----------------------------------------------------------------------------
(* A heap of lane numbers has a smallest one.                              *)
LEMMA Least ==
    ASSUME NEW S \in SUBSET Nat, S # {}
    PROVE  \E l \in S : \A m \in S : l <= m
  <1> DEFINE R == OpToRel(<, Nat)
  <1>1. IsWellFoundedOn(R, Nat)
    BY NatLessThanWellFounded
  <1>2. \A x, y \in Nat : <<x, y>> \in R <=> x < y
    BY DEF OpToRel
  <1> HIDE DEF R
  <1>3. PICK l \in S : \A m \in S : ~(<<m, l>> \in R)
    BY <1>1, WFMin
  <1>4. ASSUME NEW m \in S PROVE l <= m
    <2>1. ~(m < l)
      BY <1>2, <1>3
    <2> QED BY <2>1
  <1> QED BY <1>4

(* A running attempt is one of the records, so its worker's are finite.    *)
LEMMA RunningFinite ==
    ASSUME TrackerInv, NEW w \in Workers
    PROVE  /\ IsFiniteSet(RunningOn(w)) /\ Cardinality(RunningOn(w)) \in Nat
           /\ \A k \in Records(state) \ RunningOn(w) : Cardinality(RunningOn(w)) < MaxAttempts
  <1>1. IsFiniteSet(Records(state)) /\ Cardinality(Records(state)) <= MaxAttempts
    BY DEF TrackerInv, SizeInv
  <1>2. Cardinality(Records(state)) \in Nat
    BY <1>1, FS_CardinalityType
  <1>3. RunningOn(w) \in SUBSET Records(state)
    BY DEF RunningOn, Records
  <1>4. IsFiniteSet(RunningOn(w)) /\ Cardinality(RunningOn(w)) \in Nat
    BY <1>1, <1>3, FS_Subset, FS_CardinalityType
  <1>5. ASSUME NEW k \in Records(state) \ RunningOn(w)
        PROVE  Cardinality(RunningOn(w)) < MaxAttempts
    <2>1. /\ Cardinality(RunningOn(w)) <= Cardinality(Records(state))
          /\ Cardinality(RunningOn(w)) # Cardinality(Records(state))
      BY <1>1, <1>3, <1>5, FS_Subset
    <2> QED BY <1>1, <1>2, <1>4, <2>1, MaxAttemptsPositive
  <1> QED BY <1>4, <1>5

(* allocate_lane hands out a lane nobody holds.                            *)
LEMMA AllocateLane ==
    ASSUME TrackerInv, NEW w \in Workers, NEW k \in Records(state) \ RunningOn(w)
    PROVE  LET a == lanes[w]
               b == allocate_lane(a)
               l == NextLane(a)
           IN  /\ b \in [next_lane : Nat, free_lanes : SUBSET Nat, active : Nat]
               /\ b.active = a.active + 1
               /\ b.next_lane \in 1..(MaxAttempts + 1) /\ b.next_lane >= a.next_lane
               /\ l \in 1..(b.next_lane - 1) /\ l <= MaxAttempts
               /\ \A j \in RunningOn(w) : lane[j] # l
               /\ l \notin b.free_lanes /\ b.free_lanes \subseteq a.free_lanes
               /\ b.free_lanes \subseteq 1..(b.next_lane - 1)
               /\ b.next_lane - 1 = Cardinality(b.free_lanes) + b.active
  <1> DEFINE a == lanes[w]
             b == allocate_lane(a)
             l == NextLane(a)
  <1>1. /\ a \in [next_lane : Nat, free_lanes : SUBSET Nat, active : Nat]
        /\ LanesOf(w) /\ \A j \in RunningOn(w) : lane[j] \in Nat
    BY DEF TrackerInv, TypeOK, LaneInv, RunningOn
  <1>2. a.active = Cardinality(RunningOn(w)) /\ a.active < MaxAttempts
    BY <1>1, RunningFinite DEF LanesOf
  <1>3. a.free_lanes \in SUBSET (1..(a.next_lane - 1))
    BY <1>1 DEF LanesOf
  <1>4. IsFiniteSet(a.free_lanes) /\ Cardinality(a.free_lanes) \in Nat
    <2>1. IsFiniteSet(1..(a.next_lane - 1))
      BY <1>1, FS_Interval
    <2> QED BY <1>3, <2>1, FS_Subset, FS_CardinalityType
  <1>5. CASE a.free_lanes = {}
    <2>1. l = a.next_lane /\ b.next_lane = a.next_lane + 1 /\ b.active = a.active + 1
      BY <1>5 DEF NextLane, allocate_lane
    <2>2. b.free_lanes = {} /\ Cardinality(a.free_lanes) = 0 /\ Cardinality(b.free_lanes) = 0
      BY <1>5, FS_EmptySet DEF allocate_lane
    <2>3. a.next_lane - 1 = a.active
      BY <1>1, <2>2 DEF LanesOf
    <2>4. \A j \in RunningOn(w) : lane[j] # l
      BY <1>1, <2>1 DEF LanesOf
    <2>5. b \in [next_lane : Nat, free_lanes : SUBSET Nat, active : Nat]
      BY <1>1 DEF allocate_lane
    <2> HIDE DEF a, b, l
    <2>6. b.next_lane \in 1..(MaxAttempts + 1) /\ l <= MaxAttempts /\ l \in 1..(b.next_lane - 1)
      BY <1>1, <1>2, <2>1, <2>3, MaxAttemptsPositive
    <2>7. b.next_lane - 1 = Cardinality(b.free_lanes) + b.active /\ b.next_lane >= a.next_lane
      BY <1>1, <2>1, <2>2, <2>3
    <2>8. l \notin b.free_lanes /\ b.free_lanes \subseteq a.free_lanes
          /\ b.free_lanes \subseteq 1..(b.next_lane - 1)
      BY <2>2
    <2> QED BY <2>1, <2>4, <2>5, <2>6, <2>7, <2>8 DEF a, b, l
  <1>6. CASE a.free_lanes # {}
    <2>1. l \in a.free_lanes
      BY <1>1, <1>6, Least DEF NextLane
    <2>2. /\ b.next_lane = a.next_lane /\ b.active = a.active + 1
          /\ b.free_lanes = a.free_lanes \ {l}
      BY <1>6 DEF allocate_lane
    <2>3. Cardinality(b.free_lanes) = Cardinality(a.free_lanes) - 1
      BY <1>4, <2>1, <2>2, FS_RemoveElement
    <2>4. \A j \in RunningOn(w) : lane[j] # l
      BY <1>1, <2>1 DEF LanesOf
    <2>5. b \in [next_lane : Nat, free_lanes : SUBSET Nat, active : Nat]
      BY <1>1 DEF allocate_lane
    <2>6. a.next_lane \in 1..(MaxAttempts + 1)
          /\ a.next_lane - 1 = Cardinality(a.free_lanes) + a.active
      BY <1>1 DEF LanesOf
    <2> HIDE DEF a, b, l
    <2>7. b.next_lane \in 1..(MaxAttempts + 1) /\ l <= MaxAttempts /\ l \in 1..(b.next_lane - 1)
          /\ b.next_lane >= a.next_lane
      BY <1>1, <1>3, <2>1, <2>2, <2>6, MaxAttemptsPositive
    <2>8. b.next_lane - 1 = Cardinality(b.free_lanes) + b.active
      BY <1>1, <1>4, <2>2, <2>3, <2>6
    <2>9. l \notin b.free_lanes /\ b.free_lanes \subseteq a.free_lanes
          /\ b.free_lanes \subseteq 1..(b.next_lane - 1)
      BY <1>3, <2>2
    <2> QED BY <2>2, <2>4, <2>5, <2>7, <2>8, <2>9 DEF a, b, l
  <1> QED BY <1>5, <1>6

(* A report that the attempt runs: it takes a lane.                        *)
LEMMA RunKeeps ==
    ASSUME TrackerInv, NEW k \in Keys, transition(k, "Running")
    PROVE  TrackerInv'
  <1>0. TypeOK /\ QueueInv /\ LeaseInv /\ LaneInv /\ SizeInv
    BY DEF TrackerInv
  <1>w. PICK w \in Workers : w = worker[k]
    BY <1>0 DEF transition, LeaseInv
  <1> DEFINE l == NextLane(lanes[w])
             b == allocate_lane(lanes[w])
  <1>1. /\ lease[k] = "held" /\ state[k] \in Live /\ state[k] # "Running"
        /\ state' = [state EXCEPT ![k] = "Running"]
        /\ lane' = [lane EXCEPT ![k] = l]
        /\ lanes' = [lanes EXCEPT ![w] = b]
        /\ UNCHANGED <<worker, order, expired, lease>>
    BY <1>w DEF transition, Accepts
  <1>2. k \in Records(state) \ RunningOn(w)
    BY <1>0, <1>1 DEF LeaseInv, Records, RunningOn, Live
  <1>3. /\ b \in [next_lane : Nat, free_lanes : SUBSET Nat, active : Nat]
        /\ b.active = lanes[w].active + 1
        /\ b.next_lane \in 1..(MaxAttempts + 1) /\ b.next_lane >= lanes[w].next_lane
        /\ l \in 1..(b.next_lane - 1) /\ l <= MaxAttempts
        /\ \A j \in RunningOn(w) : lane[j] # l
        /\ l \notin b.free_lanes /\ b.free_lanes \subseteq lanes[w].free_lanes
        /\ b.free_lanes \subseteq 1..(b.next_lane - 1)
        /\ b.next_lane - 1 = Cardinality(b.free_lanes) + b.active
    BY <1>2, AllocateLane
  <1> HIDE DEF l, b
  <1>4. /\ \A x \in Keys : state'[x] = IF x = k THEN "Running" ELSE state[x]
        /\ \A x \in Keys : lane'[x] = IF x = k THEN l ELSE lane[x]
        /\ \A x \in Workers : lanes'[x] = IF x = w THEN b ELSE lanes[x]
    BY <1>0, <1>1 DEF TypeOK
  <1>5. TypeOK'
    BY <1>0, <1>1, <1>2, <1>3 DEF TypeOK, Live
  <1>6. QueueInv'
    <2>1. \A x \in Keys : state'[x] \in Terminal <=> state[x] \in Terminal
      BY <1>1, <1>4 DEF Live, Terminal
    <2> QED BY <1>0, <1>1, <2>1 DEF QueueInv, TypeOK
  <1>7. LeaseInv'
    BY <1>0, <1>w, <1>1, <1>2, <1>3, <1>4 DEF LeaseInv, Live
  <1>8. /\ RunningOn(w)' = RunningOn(w) \cup {k}
        /\ \A x \in Workers \ {w} : RunningOn(x)' = RunningOn(x)
    BY <1>1, <1>4, <1>w DEF RunningOn
  <1>9. ASSUME NEW x \in Workers PROVE LanesOf(x)'
    <2>1. CASE x # w
      <3>1. \A j \in RunningOn(x) : lane'[j] = lane[j]
        BY <1>1, <1>4 DEF RunningOn
      <3> QED BY <1>0, <1>4, <1>8, <2>1, <3>1, LanesStay DEF LaneInv
    <2>2. CASE x = w
      <3>1. Cardinality(RunningOn(w)') = Cardinality(RunningOn(w)) + 1
        BY <1>2, <1>8, RunningFinite, FS_AddElement
      <3>2. lanes'[w] = b /\ LanesOf(w)
        BY <1>0, <1>2, <1>4 DEF LaneInv
      <3>3. b.active = Cardinality(RunningOn(w)') /\ b.active # 0
        BY <1>3, <3>1, <3>2, <1>2, RunningFinite DEF LanesOf
      <3>4. \A j \in RunningOn(w)' : /\ lane'[j] \in 1..(b.next_lane - 1)
                                     /\ lane'[j] \notin b.free_lanes
        <4>1. \A j \in RunningOn(w) : j \in Keys /\ j # k /\ lane'[j] = lane[j] /\ lane[j] \in Nat
          BY <1>0, <1>1, <1>4 DEF RunningOn, TypeOK
        <4>2. lanes[w].next_lane \in Nat
          BY <1>0, <1>2 DEF TypeOK
        <4>3. lane'[k] = l
          BY <1>4
        <4>4. ASSUME NEW j \in RunningOn(w)
              PROVE  lane'[j] \in 1..(b.next_lane - 1) /\ lane'[j] \notin b.free_lanes
          <5>1. lane[j] \in 1..(lanes[w].next_lane - 1) /\ lane[j] \notin lanes[w].free_lanes
            BY <3>2 DEF LanesOf
          <5> QED BY <1>3, <4>1, <4>2, <5>1
        <4> QED BY <1>3, <1>8, <4>3, <4>4
      <3>5. \A i, j \in RunningOn(w)' : lane'[i] = lane'[j] => i = j
        <4>1. \A j \in RunningOn(w) : j # k /\ lane'[j] = lane[j] /\ lane[j] # l
          BY <1>1, <1>3, <1>4 DEF RunningOn
        <4>2. lane'[k] = l
          BY <1>4
        <4> QED BY <1>8, <3>2, <4>1, <4>2 DEF LanesOf
      <3> QED BY <1>3, <2>2, <3>2, <3>3, <3>4, <3>5 DEF LanesOf
    <2> QED BY <2>1, <2>2
  <1>10. SizeInv'
    <2>1. Records(state') = Records(state)
      BY <1>1, <1>4 DEF Records, Live
    <2> QED BY <1>0, <1>3, <1>4, <2>1 DEF SizeInv
  <1> QED BY <1>5, <1>6, <1>7, <1>9, <1>10 DEF TrackerInv, LaneInv

(* Any other report only moves the state.                                  *)
LEMMA ReportKeeps ==
    ASSUME TrackerInv, NEW k \in Keys, NEW next \in Live, next # "Running", transition(k, next)
    PROVE  TrackerInv'
  <1>0. TypeOK /\ QueueInv /\ LeaseInv /\ LaneInv /\ SizeInv
    BY DEF TrackerInv
  <1>1. /\ lease[k] = "held" /\ state[k] \in Live /\ state[k] # "Running"
        /\ state' = [state EXCEPT ![k] = next]
        /\ UNCHANGED <<worker, order, expired, lease, lane, lanes>>
    BY DEF transition, Accepts, state_rank, Live, Terminal
  <1>2. \A x \in Keys : state'[x] = IF x = k THEN next ELSE state[x]
    BY <1>0, <1>1 DEF TypeOK
  <1>3. TypeOK'
    BY <1>0, <1>1 DEF TypeOK
  <1>4. QueueInv'
    <2>1. \A x \in Keys : state'[x] \in Terminal <=> state[x] \in Terminal
      BY <1>1, <1>2 DEF Live, Terminal
    <2> QED BY <1>0, <1>1, <2>1 DEF QueueInv, TypeOK
  <1>5. LeaseInv'
    BY <1>0, <1>1, <1>2 DEF LeaseInv, Live
  <1>6. LaneInv'
    <2>1. \A x \in Workers : RunningOn(x)' = RunningOn(x)
      BY <1>1, <1>2 DEF RunningOn
    <2> QED BY <1>0, <1>1, <2>1, LanesStay DEF LaneInv
  <1>7. SizeInv'
    <2>1. Records(state') = Records(state)
      BY <1>1, <1>2 DEF Records, Live
    <2> QED BY <1>0, <1>1, <2>1 DEF SizeInv
  <1> QED BY <1>3, <1>4, <1>5, <1>6, <1>7 DEF TrackerInv

(* release_lane gives back a lane that k held.                             *)
LEMMA ReleaseLane ==
    ASSUME TrackerInv, NEW w \in Workers, NEW k \in RunningOn(w),
           RunningOn(w)' = RunningOn(w) \ {k}, lanes'[w] = release_lane(lanes[w], lane[k]),
           UNCHANGED lane
    PROVE  LanesOf(w)' /\ lanes'[w] \in [next_lane : Nat, free_lanes : SUBSET Nat, active : Nat]
  <1> DEFINE a == lanes[w]
             l == lane[k]
             b == lanes'[w]
  <1>1. /\ a \in [next_lane : Nat, free_lanes : SUBSET Nat, active : Nat]
        /\ LanesOf(w) /\ l \in Nat
    BY DEF TrackerInv, TypeOK, LaneInv, RunningOn
  <1>2. IsFiniteSet(RunningOn(w)) /\ Cardinality(RunningOn(w)) \in Nat
    BY RunningFinite
  <1>3. Cardinality(RunningOn(w)') = a.active - 1
    <2> DEFINE R == RunningOn(w)
    <2>1. Cardinality(R \ {k}) = IF k \in R THEN Cardinality(R) - 1 ELSE Cardinality(R)
      BY <1>2, FS_RemoveElement
    <2> QED BY <1>1, <2>1 DEF LanesOf
  <1>4. CASE a.active - 1 = 0
    <2>1. b = DefaultAllocator
      BY <1>4 DEF release_lane
    <2>2. /\ b.next_lane = 1 /\ b.free_lanes = {} /\ b.active = 0
          /\ b \in [next_lane : Nat, free_lanes : SUBSET Nat, active : Nat]
      BY <2>1 DEF DefaultAllocator
    <2>3. IsFiniteSet(RunningOn(w)')
      BY <1>2, FS_RemoveElement
    <2>4. \A j : j \notin RunningOn(w)'
      BY <1>3, <1>4, <2>3, FS_EmptySet
    <2>5. Cardinality(b.free_lanes) = 0
      BY <2>2, FS_EmptySet
    <2> QED BY <1>3, <1>4, <2>1, <2>2, <2>4, <2>5, MaxAttemptsPositive DEF LanesOf
  <1>5. CASE a.active - 1 # 0
    <2>1. /\ b.next_lane = a.next_lane /\ b.active = a.active - 1
          /\ b.free_lanes = a.free_lanes \cup {l}
      BY <1>1, <1>5 DEF release_lane
    <2>2. l \in 1..(a.next_lane - 1) /\ l \notin a.free_lanes
      BY <1>1 DEF LanesOf
    <2>3. IsFiniteSet(a.free_lanes) /\ Cardinality(a.free_lanes) \in Nat
      <3>1. IsFiniteSet(1..(a.next_lane - 1))
        BY <1>1, FS_Interval
      <3>2. a.free_lanes \in SUBSET (1..(a.next_lane - 1))
        BY <1>1 DEF LanesOf
      <3> QED BY <3>1, <3>2, FS_Subset, FS_CardinalityType
    <2>4. Cardinality(b.free_lanes) = Cardinality(a.free_lanes) + 1
      BY <2>1, <2>2, <2>3, FS_AddElement
    <2>5. a.next_lane - 1 = Cardinality(a.free_lanes) + a.active /\ a.active # 0
      BY <1>1, <1>2, FS_EmptySet DEF LanesOf
    <2>6. b.next_lane - 1 = Cardinality(b.free_lanes) + b.active
      BY <1>1, <2>1, <2>3, <2>4, <2>5
    <2>7. b \in [next_lane : Nat, free_lanes : SUBSET Nat, active : Nat]
      <3>1. a.active - 1 \in Nat /\ a.free_lanes \cup {l} \in SUBSET Nat
        BY <1>1, <2>5
      <3>2. b = [a EXCEPT !.active = a.active - 1, !.free_lanes = a.free_lanes \cup {l}]
        BY <1>5 DEF release_lane
      <3> HIDE DEF a, b, l
      <3> QED BY <1>1, <3>1, <3>2
    <2>8. \A j \in RunningOn(w)' : lane'[j] # l
      BY <1>1 DEF LanesOf
    <2>9. \A j \in RunningOn(w)' : lane'[j] \in 1..(b.next_lane - 1) /\ lane'[j] \notin b.free_lanes
      BY <1>1, <2>1, <2>8 DEF LanesOf
    <2>10. b.free_lanes \subseteq 1..(b.next_lane - 1)
      BY <1>1, <2>1, <2>2 DEF LanesOf
    <2>11. \A i, j \in RunningOn(w)' : lane'[i] = lane'[j] => i = j
      BY <1>1 DEF LanesOf
    <2>12. b.next_lane \in 1..(MaxAttempts + 1)
      BY <1>1, <2>1 DEF LanesOf
    <2> QED BY <1>3, <1>5, <2>1, <2>6, <2>7, <2>9, <2>10, <2>11, <2>12 DEF LanesOf
  <1> QED BY <1>4, <1>5

(* finish and drop end the attempt and return its lane.                    *)
LEMMA FinishKeeps ==
    ASSUME TrackerInv, NEW k \in Keys, NEW terminal \in Terminal, finish(k, terminal)
    PROVE  TrackerInv'
  <1>0. TypeOK /\ QueueInv /\ LeaseInv /\ LaneInv /\ SizeInv
    BY DEF TrackerInv
  <1>1. lease[k] = "held" /\ state[k] \in Live /\ (lane[k] = 0 <=> state[k] # "Running")
    BY <1>0 DEF finish, LeaseInv
  <1>w. PICK w \in Workers : w = worker[k]
    BY <1>0, <1>1 DEF LeaseInv
  <1>2. Accepts(k, terminal)
    BY <1>1 DEF Accepts, Live, Terminal
  <1>3. /\ lease' = [lease EXCEPT ![k] = "dropped"]
        /\ state' = [state EXCEPT ![k] = terminal]
        /\ order' = Append(order, k)
        /\ lanes' = IF lane[k] = 0 THEN lanes
                    ELSE [lanes EXCEPT ![w] = release_lane(@, lane[k])]
        /\ UNCHANGED <<worker, lane, expired>>
    BY <1>2, <1>w DEF finish
  <1>4. /\ \A x \in Keys : state'[x] = IF x = k THEN terminal ELSE state[x]
        /\ \A x \in Keys : lease'[x] = IF x = k THEN "dropped" ELSE lease[x]
    BY <1>0, <1>3 DEF TypeOK
  <1>5. /\ \A x \in Workers \ {w} : RunningOn(x)' = RunningOn(x)
        /\ RunningOn(w)' = RunningOn(w) \ {k}
    BY <1>3, <1>4, <1>w DEF RunningOn, Terminal
  <1>6. LanesOf(w)' /\ lanes'[w] \in [next_lane : Nat, free_lanes : SUBSET Nat, active : Nat]
    <2>1. CASE lane[k] = 0
      <3>1. RunningOn(w)' = RunningOn(w)
        BY <1>1, <1>5, <2>1 DEF RunningOn
      <3> QED BY <1>0, <1>1, <1>3, <2>1, <3>1, LanesStay DEF LaneInv, TypeOK
    <2>2. CASE lane[k] # 0
      <3>1. k \in RunningOn(w) /\ lanes'[w] = release_lane(lanes[w], lane[k])
        BY <1>0, <1>1, <1>3, <1>w, <2>2 DEF RunningOn, TypeOK
      <3> QED BY <1>1, <1>3, <1>5, <3>1, ReleaseLane
    <2> QED BY <2>1, <2>2
  <1>7. /\ \A x \in Workers \ {w} : lanes'[x] = lanes[x]
        /\ lanes' \in [Workers -> [next_lane : Nat, free_lanes : SUBSET Nat, active : Nat]]
    BY <1>0, <1>1, <1>3, <1>6 DEF TypeOK
  <1>8. LaneInv'
    <2>1. ASSUME NEW x \in Workers \ {w} PROVE LanesOf(x)'
      BY <1>0, <1>3, <1>5, <1>7, LanesStay DEF LaneInv
    <2> QED BY <1>6, <2>1 DEF LaneInv
  <1>9. TypeOK'
    BY <1>0, <1>3, <1>7 DEF TypeOK
  <1>10. QueueInv'
    <2>1. /\ Len(order) \in Nat /\ Len(order') = Len(order) + 1 /\ order'[Len(order) + 1] = k
          /\ \A i \in 1..Len(order) : order'[i] = order[i] /\ order[i] \in Keys
      BY <1>0, <1>3 DEF TypeOK
    <2>2. \A i \in 1..Len(order) : order[i] # k
      BY <1>0, <1>1 DEF QueueInv, Live, Terminal
    <2>3. \A i, j \in 1..Len(order') : order'[i] = order'[j] => i = j
      <3> SUFFICES ASSUME NEW i \in 1..Len(order'), NEW j \in 1..Len(order'), order'[i] = order'[j]
                   PROVE  i = j
        OBVIOUS
      <3>1. CASE i \in 1..Len(order) /\ j \in 1..Len(order)
        BY <1>0, <2>1, <3>1 DEF QueueInv
      <3>2. CASE i = Len(order) + 1 \/ j = Len(order) + 1
        BY <2>1, <2>2, <3>2
      <3> QED BY <2>1, <3>1, <3>2
    <2>4. \A x \in Keys : (\E i \in 1..Len(order') : order'[i] = x)
                         <=> x = k \/ \E i \in 1..Len(order) : order[i] = x
      BY <2>1
    <2>5. \A x \in Keys : state'[x] \in Terminal <=> x = k \/ state[x] \in Terminal
      BY <1>4
    <2>6. \A x \in expired' : x \in Keys /\ state'[x] \in Terminal
      BY <1>0, <1>3, <2>5 DEF QueueInv, TypeOK
    <2> QED BY <1>0, <2>3, <2>4, <2>5, <2>6 DEF QueueInv
  <1>11. LeaseInv'
    BY <1>0, <1>3, <1>4 DEF LeaseInv, Live, Terminal
  <1>12. SizeInv'
    <2>1. Records(state') = Records(state)
      BY <1>1, <1>4 DEF Records, Live, Terminal
    <2> QED BY <1>0, <1>3, <2>1 DEF SizeInv
  <1> QED BY <1>8, <1>9, <1>10, <1>11, <1>12 DEF TrackerInv

LEMMA ExpireKeeps ==
    ASSUME TrackerInv, NEW k \in Keys, Expire(k)
    PROVE  TrackerInv'
  <1>0. TypeOK /\ QueueInv /\ LeaseInv /\ LaneInv /\ SizeInv
    BY DEF TrackerInv
  <1>1. /\ state[k] \in Terminal /\ expired' = expired \cup {k}
        /\ UNCHANGED <<state, worker, lane, order, lanes, lease>>
    BY DEF Expire
  <1>2. TypeOK'
    BY <1>0, <1>1 DEF TypeOK
  <1>3. QueueInv'
    BY <1>0, <1>1 DEF QueueInv
  <1>4. LeaseInv' /\ SizeInv'
    BY <1>0, <1>1 DEF LeaseInv, SizeInv, Records
  <1>5. LaneInv'
    <2>1. \A w \in Workers : RunningOn(w)' = RunningOn(w)
      BY <1>1 DEF RunningOn
    <2> QED BY <1>0, <1>1, <2>1, LanesStay DEF LaneInv
  <1> QED BY <1>2, <1>3, <1>4, <1>5 DEF TrackerInv

LEMMA StutterKeeps ==
    ASSUME TrackerInv, UNCHANGED vars
    PROVE  TrackerInv'
  <1>0. TypeOK /\ QueueInv /\ LeaseInv /\ LaneInv /\ SizeInv
    BY DEF TrackerInv
  <1>1. UNCHANGED <<state, worker, lane, order, expired, lanes, lease>>
    BY DEF vars
  <1>2. TypeOK' /\ QueueInv'
    BY <1>0, <1>1 DEF TypeOK, QueueInv
  <1>3. LeaseInv' /\ SizeInv'
    BY <1>0, <1>1 DEF LeaseInv, SizeInv, Records
  <1>4. LaneInv'
    <2>1. \A w \in Workers : RunningOn(w)' = RunningOn(w)
      BY <1>1 DEF RunningOn
    <2> QED BY <1>0, <1>1, <2>1, LanesStay DEF LaneInv
  <1> QED BY <1>2, <1>3, <1>4 DEF TrackerInv

LEMMA NextTracker == TrackerInv /\ [Next]_vars => TrackerInv'
  <1> SUFFICES ASSUME TrackerInv, [Next]_vars PROVE TrackerInv'
    OBVIOUS
  <1>1. ASSUME NEW k \in Keys, NEW w \in Workers, begin_attempt_lease(k, w) PROVE TrackerInv'
    BY <1>1, BeginKeeps
  <1>2. ASSUME NEW k \in Keys, NEW next \in Live, transition(k, next) PROVE TrackerInv'
    BY <1>2, RunKeeps, ReportKeeps
  <1>3. ASSUME NEW k \in Keys, NEW t \in Terminal, finish(k, t) PROVE TrackerInv'
    BY <1>3, FinishKeeps
  <1>4. ASSUME NEW k \in Keys, Expire(k) PROVE TrackerInv'
    BY <1>4, ExpireKeeps
  <1>5. CASE snapshot
    BY <1>5, SnapshotKeeps
  <1>6. CASE UNCHANGED vars
    BY <1>6, StutterKeeps
  <1> QED BY <1>1, <1>2, <1>3, <1>4, <1>5, <1>6 DEF Next

(* The tracker's tables agree with each other whatever the attempts do     *)
(* (transition_locked, begin_attempt, prune_locked).                       *)
THEOREM TrackerInvariant == Spec => []TrackerInv
  BY InitTracker, NextTracker, PTL DEF Spec

(* allocate_lane never gives one lane of a worker to two running attempts. *)
THEOREM LanesAreDistinct == Spec => []LanesDistinct
  <1>1. TrackerInv => LanesDistinct
    BY DEF TrackerInv, LaneInv, LanesOf, LanesDistinct
  <1> QED BY <1>1, TrackerInvariant, PTL

(* No lane index exceeds MAX_ACTIVITY_ATTEMPTS, so next_lane never reaches *)
(* the end of its type, and an idle worker starts again at lane 1.         *)
THEOREM LanesAreBounded == Spec => []LanesBounded
  <1>1. TrackerInv => LanesBounded
    <2> SUFFICES ASSUME TrackerInv PROVE LanesBounded
      OBVIOUS
    <2>1. ASSUME NEW w \in Workers, RunningOn(w) = {} PROVE lanes[w] = DefaultAllocator
      <3>1. Cardinality(RunningOn(w)) = 0
        BY <2>1, FS_EmptySet
      <3> QED BY <3>1 DEF TrackerInv, LaneInv, LanesOf
    <2> QED BY <2>1 DEF TrackerInv, SizeInv, LanesBounded
  <1> QED BY <1>1, TrackerInvariant, PTL

(* begin_attempt keeps the table within MAX_ACTIVITY_ATTEMPTS and takes no *)
(* attempt from under its lease.                                           *)
THEOREM TableIsBounded == Spec => []TableBounded
  <1>1. TrackerInv => TableBounded
    BY DEF TrackerInv, SizeInv, LeaseInv, TableBounded
  <1> QED BY <1>1, TrackerInvariant, PTL

(* transition_locked accepts no step back, and only terminal attempts are  *)
(* removed by prune_locked and evict_oldest_terminal.                      *)
THEOREM StatesMoveForward == Spec => MovesForward
  <1>1. TrackerInv /\ [Next]_vars => [\A k \in Keys : Moves(k)]_state
    <2> SUFFICES ASSUME TrackerInv, [Next]_vars, NEW k \in Keys PROVE Moves(k)
      OBVIOUS
    <2>0. TypeOK /\ QueueInv /\ LeaseInv /\ state[k] \in Live \cup Terminal \cup {"absent"}
          /\ Len(order) \in Nat /\ \A i \in 1..Len(order) : order[i] \in Keys
      BY DEF TrackerInv, TypeOK
    <2>p. \A n \in 0..Len(order) : k \in Popped(n) => state[k] \in Terminal
      BY <2>0 DEF Popped, QueueInv
    <2>1. ASSUME NEW n \in 0..Len(order), state' = Kept(n) PROVE Moves(k)
      BY <2>p, <2>1 DEF Kept, Moves
    <2>2. ASSUME NEW n \in 0..Len(order), NEW x \in Keys, lease[x] = "new",
                 state' = [Kept(n) EXCEPT ![x] = "Created"]
          PROVE  Moves(k)
      <3>1. state[x] = "absent"
        BY <2>0, <2>2 DEF LeaseInv
      <3>2. state'[k] = IF k = x THEN "Created" ELSE IF k \in Popped(n) THEN "absent" ELSE state[k]
        BY <2>2 DEF Kept
      <3> QED BY <2>p, <3>1, <3>2 DEF Moves
    <2>3. ASSUME NEW x \in Keys, NEW w \in Workers, begin_attempt_lease(x, w) PROVE Moves(k)
      <3>1. PICK n \in 0..Len(order) :
                 \/ Start(x, w, n)
                 \/ n < Len(order) /\ Start(x, w, n + 1)
                 \/ state' = Kept(n)
        BY <2>3 DEF begin_attempt_lease
      <3>2. lease[x] = "new"
        BY <2>3 DEF begin_attempt_lease
      <3>3. n < Len(order) => n + 1 \in 0..Len(order)
        BY <2>0
      <3> QED BY <2>1, <2>2, <3>1, <3>2, <3>3 DEF Start
    <2>4. ASSUME NEW x \in Keys, NEW next \in Live \cup Terminal, Accepts(x, next),
                 state' = [state EXCEPT ![x] = next]
          PROVE  Moves(k)
      <3>1. state_rank(next) > state_rank(state[x]) /\ state[x] \in Live
        BY <2>4 DEF Accepts, state_rank, Live, Terminal
      <3>2. state'[k] = IF k = x THEN next ELSE state[k]
        BY <2>0, <2>4 DEF TypeOK
      <3> QED BY <3>1, <3>2 DEF Moves
    <2>5. ASSUME NEW x \in Keys, NEW next \in Live, transition(x, next) PROVE Moves(k)
      BY <2>4, <2>5 DEF transition
    <2>6. ASSUME NEW x \in Keys, NEW t \in Terminal, finish(x, t) PROVE Moves(k)
      <3>1. CASE UNCHANGED state
        BY <3>1 DEF Moves
      <3> QED BY <2>4, <2>6, <3>1 DEF finish
    <2>7. ASSUME snapshot PROVE Moves(k)
      <3>1. PICK n \in 1..Len(order) : state' = Kept(n)
        BY <2>7 DEF snapshot
      <3>2. n \in 0..Len(order)
        BY <2>0
      <3> QED BY <2>1, <3>1, <3>2
    <2>8. CASE UNCHANGED state
      BY <2>8 DEF Moves
    <2> QED BY <2>3, <2>5, <2>6, <2>7, <2>8 DEF Next, Expire, vars
  <1> QED BY <1>1, TrackerInvariant, PTL DEF Spec, MovesForward
====
