-------------------------- MODULE SchedulerProofs --------------------------
(* Proofs that Scheduler's counts are exact, its attempt numbers fresh and *)
(* its bursts spread, for any number of actions and workers.               *)
EXTENDS Scheduler, FiniteSetTheorems, WellFoundedInduction, TLAPS

(* Every non-empty set of numbers has a smallest one.                      *)
LEMMA Smallest ==
    ASSUME NEW S \in SUBSET Nat, S # {}
    PROVE  \E l \in S : \A m \in S : l <= m
  <1> DEFINE Below == OpToRel(<, Nat)
  <1>1. IsWellFoundedOn(Below, Nat)
    BY NatLessThanWellFounded
  <1>2. \A x, y \in Nat : <<x, y>> \in Below <=> x < y
    BY DEF OpToRel
  <1> HIDE DEF Below
  <1>3. PICK l \in S : \A m \in S : ~(<<m, l>> \in Below)
    BY <1>1, WFMin
  <1>4. ASSUME NEW m \in S PROVE l <= m
    <2>1. ~(m < l)
      BY <1>2, <1>3
    <2> QED BY <2>1
  <1> QED BY <1>4

(* A bounded measure is largest somewhere on every non-empty set.          *)
LEMMA Largest ==
    ASSUME NEW C, C # {}, NEW B \in Nat, NEW f, \A w \in C : f[w] \in 0..B
    PROVE  \E w \in C : \A v \in C : f[v] <= f[w]
  <1> DEFINE S == {B - f[w] : w \in C}
  <1>1. S \in SUBSET Nat /\ S # {}
    OBVIOUS
  <1>2. PICK l \in S : \A m \in S : l <= m
    BY <1>1, Smallest
  <1>3. PICK w \in C : l = B - f[w]
    OBVIOUS
  <1>4. ASSUME NEW v \in C PROVE f[v] <= f[w]
    <2>1. B - f[w] <= B - f[v] /\ f[v] \in 0..B /\ f[w] \in 0..B
      BY <1>2, <1>3
    <2> QED BY <2>1
  <1> QED BY <1>4

(* effective_capacity never exceeds the trusted processor count, so the    *)
(* worker's idle share cannot inflate it.                                  *)
LEMMA CapacityBounded ==
    ASSUME NEW e \in Adverts
    PROVE  /\ trusted_cpus(e) \in 1..MAX_TRUSTED_CPU
           /\ effective_capacity(e) \in 0..MAX_TRUSTED_CPU
  <1>1. e.cpu_count \in Nat /\ MAX_TRUSTED_CPU \in Nat \ {0}
    BY Advertised, Limits
  <1>2. trusted_cpus(e) \in 1..MAX_TRUSTED_CPU
    BY <1>1 DEF trusted_cpus, AtLeast, AtMost
  <1>3. CASE e.idle_cpu_pct = NoCpuSignal
    BY <1>1, <1>2, <1>3 DEF effective_capacity
  <1>4. CASE e.idle_cpu_pct # NoCpuSignal
    <2> DEFINE t == trusted_cpus(e)
               p == AtMost(e.idle_cpu_pct, 100)
    <2>1. p \in 0..100
      BY <1>4, Advertised DEF AtMost
    <2>2. effective_capacity(e) = (t * p) \div 100
      BY <1>4 DEF effective_capacity
    <2> HIDE DEF t, p
    <2>3. t \in 1..MAX_TRUSTED_CPU
      BY <1>2 DEF t
    <2>4. t * p \in Nat /\ t * p <= t * 100
      BY <2>1, <2>3
    <2>5. (t * p) \div 100 \in 0..t
      BY <2>3, <2>4
    <2> QED BY <1>1, <1>2, <2>2, <2>3, <2>5
  <1> QED BY <1>2, <1>3, <1>4

LEMMA WillingBounded ==
    ASSUME TypeOK, NEW w \in Workers
    PROVE  Willing(w) \in 0..MAX_TRUSTED_CPU
  <1>1. table[w] = NotLive \/ table[w] \in Adverts
    BY DEF TypeOK
  <1> QED BY <1>1, CapacityBounded, Limits DEF Willing

LEMMA IdleBounded ==
    ASSUME TypeOK, NEW a \in Actions, NEW w \in Workers
    PROVE  effective_idle(a, w) \in 0..MAX_TRUSTED_CPU
  <1>1. live[a][w] \in 0..MAX_TRUSTED_CPU /\ in_flight[w] \in Nat
    BY DEF TypeOK
  <1> QED BY <1>1, Limits DEF effective_idle

(* The choice is one of the candidates; it has no free slot only when none *)
(* of them has.                                                            *)
LEMMA ChoiceIsSound ==
    ASSUME TypeOK, NEW a \in Actions, Candidates(a) # {}
    PROVE  /\ chosen(a) \in Candidates(a)
           /\ effective_idle(a, chosen(a)) = 0 =>
                  \A v \in Candidates(a) : effective_idle(a, v) = 0
  <1> DEFINE C == Candidates(a)
             idle == [w \in Workers |-> effective_idle(a, w)]
  <1>1. C \subseteq Workers /\ C # {}
    BY DEF Candidates
  <1>2. \A w \in C : idle[w] = effective_idle(a, w) /\ idle[w] \in 0..MAX_TRUSTED_CPU
    BY <1>1, IdleBounded
  <1>3. preferred_index(a) \in C
    <2>1. \A w \in C : Score[a][w] \in 0..U64_MAX
      BY <1>1, Scores
    <2>2. \E w \in C : \A v \in C : Score[a][v] <= Score[a][w]
      <3> DEFINE f == Score[a]
      <3>1. \A w \in C : f[w] \in 0..U64_MAX
        BY <2>1
      <3> HIDE DEF f, C
      <3>2. \E w \in C : \A v \in C : f[v] <= f[w]
        BY <1>1, <3>1, Scores, Largest
      <3> QED BY <3>2 DEF f
    <2> QED BY <2>2 DEF preferred_index
  <1>4. \E w \in C : \A v \in C :
            \/ effective_idle(a, v) < effective_idle(a, w)
            \/ effective_idle(a, v) = effective_idle(a, w) /\ w <= v
    <2> HIDE DEF C, idle
    <2>1. PICK m \in C : \A v \in C : idle[v] <= idle[m]
      BY <1>1, <1>2, Limits, Largest
    <2> DEFINE T == {w \in C : idle[w] = idle[m]}
    <2>2. T \in SUBSET Nat /\ T # {}
      BY <1>1, <2>1, WorkerNumbers
    <2>3. PICK w \in T : \A v \in T : w <= v
      BY <2>2, Smallest
    <2>4. ASSUME NEW v \in C
          PROVE  idle[v] < idle[w] \/ (idle[v] = idle[w] /\ w <= v)
      <3>1. idle[v] <= idle[w] /\ idle[v] \in Int /\ idle[w] \in Int
        BY <1>2, <2>1, <2>3
      <3> QED BY <2>3, <3>1
    <2>5. w \in C
      BY <2>3
    <2> QED BY <1>2, <2>4, <2>5
  <1>5. /\ least_loaded(a) \in C
        /\ \A v \in C :
              \/ effective_idle(a, v) < effective_idle(a, least_loaded(a))
              \/ effective_idle(a, v) = effective_idle(a, least_loaded(a))
    <2> DEFINE L(w) == \A v \in C :
            \/ effective_idle(a, v) < effective_idle(a, w)
            \/ effective_idle(a, v) = effective_idle(a, w) /\ w <= v
    <2>1. least_loaded(a) = CHOOSE w \in C : L(w)
      BY DEF least_loaded
    <2>2. \E w \in C : L(w)
      BY <1>4
    <2> HIDE DEF L, C
    <2>3. least_loaded(a) \in C /\ L(least_loaded(a))
      BY <2>1, <2>2
    <2> QED BY <2>3 DEF L
  <1>6. CASE effective_idle(a, preferred_index(a)) > 0
    <2>1. chosen(a) = preferred_index(a) /\ effective_idle(a, preferred_index(a)) # 0
      BY <1>2, <1>3, <1>6 DEF chosen
    <2> QED BY <1>3, <2>1
  <1>7. CASE ~(effective_idle(a, preferred_index(a)) > 0)
    <2>1. chosen(a) = least_loaded(a)
      BY <1>7 DEF chosen
    <2>2. ASSUME effective_idle(a, least_loaded(a)) = 0, NEW v \in C
          PROVE  effective_idle(a, v) = 0
      <3>1. effective_idle(a, v) \in 0..MAX_TRUSTED_CPU
        BY <1>1, IdleBounded
      <3>2. effective_idle(a, v) < 0 \/ effective_idle(a, v) = 0
        BY <1>5, <2>2
      <3> QED BY <3>1, <3>2, Limits
    <2> QED BY <1>5, <2>1, <2>2
  <1> QED BY <1>6, <1>7

(* run_build's semaphore is never empty.                                   *)
LEMMA FanOutPositive ==
    ASSUME TypeOK
    PROVE  fan_out \in Nat /\ fan_out >= LocalFloor
  <1> DEFINE All == Workers \X (1..MAX_TRUSTED_CPU)
  <1>1. IsFiniteSet(1..MAX_TRUSTED_CPU)
    BY FS_Interval, Limits
  <1>2. IsFiniteSet(All)
    BY <1>1, FS_Product, WorkerNumbers
  <1>3. ClusterSlots \subseteq All
    BY DEF ClusterSlots
  <1>4. cluster_capacity \in Nat
    BY <1>2, <1>3, FS_Subset, FS_CardinalityType DEF cluster_capacity
  <1> QED BY <1>4, Limits DEF fan_out, AtLeast

-----------------------------------------------------------------------------
(* Counting the guards of a worker and the dispatches of a build.          *)
LEMMA Finite ==
    /\ \A w : IsFiniteSet(Guards(w)) /\ Cardinality(Guards(w)) \in Nat
    /\ IsFiniteSet(InGate) /\ Cardinality(InGate) \in Nat
  <1>1. \A w : Guards(w) \subseteq Actions
    BY DEF Guards
  <1>2. InGate \subseteq Actions
    BY ActionSets DEF InGate
  <1> QED BY <1>1, <1>2, ActionSets, FS_Subset, FS_CardinalityType

LEMMA InitSched == Init => SchedInv
  <1> SUFFICES ASSUME Init PROVE SchedInv
    OBVIOUS
  <1>1. \A w \in Workers : Guards(w) = {}
    BY NoneValues DEF Init, Guards
  <1>2. InGate = {}
    BY ActionSets DEF Init, InGate
  <1>3. TypeOK
    BY Limits DEF Init, TypeOK, Steps, Reasons
  <1>4. GuardPart /\ SnapPart /\ AttemptPart
    BY NoneValues DEF Init, GuardPart, SnapPart, AttemptPart, Holding, Candidates
  <1>5. LoadPart
    BY <1>1, FS_EmptySet DEF Init, LoadPart
  <1>6. PermitPart
    BY <1>2, FS_EmptySet DEF Init, PermitPart
  <1> QED BY <1>3, <1>4, <1>5, <1>6 DEF SchedInv

(* A reservation adds one guard and one to the count, on the same worker.  *)
LEMMA ReserveCounts ==
    ASSUME TypeOK, LoadPart, NEW a \in Actions, NEW c \in Workers,
           on[a] = NoWorker, on' = [on EXCEPT ![a] = c],
           in_flight' = [in_flight EXCEPT ![c] = @ + 1]
    PROVE  LoadPart'
  <1>1. ASSUME NEW w \in Workers PROVE in_flight'[w] = Cardinality(Guards(w)')
    <2>1. a \notin Guards(w) /\ in_flight[w] = Cardinality(Guards(w)) /\ in_flight[w] \in Nat
      BY NoneValues DEF Guards, LoadPart, TypeOK
    <2>2. CASE w = c
      <3>1. Guards(w)' = Guards(w) \cup {a}
        BY <2>2 DEF Guards, TypeOK
      <3>2. Cardinality(Guards(w) \cup {a}) = Cardinality(Guards(w)) + 1
        BY <2>1, Finite, FS_AddElement
      <3> QED BY <2>1, <2>2, <3>1, <3>2 DEF TypeOK
    <2>3. CASE w # c
      <3>1. Guards(w)' = Guards(w)
        BY <2>1, <2>3 DEF Guards, TypeOK
      <3> QED BY <2>1, <2>3, <3>1 DEF TypeOK
    <2> QED BY <2>2, <2>3
  <1> QED BY <1>1 DEF LoadPart

(* Dropping the guard takes both away again; the subtraction never         *)
(* saturates.                                                              *)
LEMMA ReleaseCounts ==
    ASSUME TypeOK, LoadPart, NEW a \in Actions, on[a] \in Workers, Release(a)
    PROVE  /\ LoadPart'
           /\ in_flight' \in [Workers -> Nat]
           /\ on' \in [Actions -> Workers \cup {NoWorker}]
  <1>1. ASSUME NEW w \in Workers
        PROVE in_flight'[w] = Cardinality(Guards(w)') /\ in_flight'[w] \in Nat
    <2>1. in_flight[w] = Cardinality(Guards(w)) /\ in_flight[w] \in Nat
      BY DEF LoadPart, TypeOK
    <2>2. CASE w = on[a]
      <3>1. Guards(w)' = Guards(w) \ {a} /\ a \in Guards(w)
        BY <2>2, NoneValues DEF Guards, TypeOK, Release
      <3>2. /\ Cardinality(Guards(w) \ {a}) = Cardinality(Guards(w)) - 1
            /\ IsFiniteSet(Guards(w) \ {a})
        BY <3>1, Finite, FS_RemoveElement
      <3>3. Cardinality(Guards(w) \ {a}) \in Nat
        BY <3>2, FS_CardinalityType
      <3>4. in_flight[w] > 0
        BY <2>1, <3>2, <3>3
      <3>5. in_flight'[w] = in_flight[w] - 1
        BY <2>2, <3>4 DEF TypeOK, Release
      <3> QED BY <2>1, <3>1, <3>2, <3>3, <3>5
    <2>3. CASE w # on[a]
      <3>1. Guards(w)' = Guards(w)
        BY <2>3, NoneValues DEF Guards, TypeOK, Release
      <3> QED BY <2>1, <2>3, <3>1 DEF TypeOK, Release
    <2> QED BY <2>2, <2>3
  <1>2. on' \in [Actions -> Workers \cup {NoWorker}]
    BY DEF TypeOK, Release
  <1>3. in_flight' = [w \in Workers |-> in_flight'[w]]
    BY DEF TypeOK, Release
  <1> QED BY <1>1, <1>2, <1>3 DEF LoadPart

LEMMA LoadKept ==
    ASSUME LoadPart, UNCHANGED <<in_flight, on>>
    PROVE  LoadPart'
  BY DEF LoadPart, Guards

(* A step of a dispatch that neither enters nor leaves the build's gate.   *)
LEMMA GateKept ==
    ASSUME TypeOK, PermitPart, NEW a \in Actions, NEW s,
           pc' = [pc EXCEPT ![a] = s], UNCHANGED <<build, cap, permits>>,
           a \in Batch => pc[a] \notin {"idle", "done"} /\ s \notin {"idle", "done"}
    PROVE  PermitPart'
  <1>1. InGate' = InGate
    BY ActionSets DEF InGate, TypeOK
  <1> QED BY <1>1 DEF PermitPart

(* A dispatch returns, and a build's task drops its permit.                *)
LEMMA GateLeft ==
    ASSUME TypeOK, PermitPart, NEW a \in Actions, NEW s,
           pc' = [pc EXCEPT ![a] = s], UNCHANGED <<build, cap>>, Return(a),
           pc[a] \notin {"idle", "done"}, a \in Batch => s = "done"
    PROVE  PermitPart' /\ permits' \in Nat
  <1>1. permits \in Nat /\ cap \in Nat
    BY DEF TypeOK
  <1>2. CASE a \in Batch
    <2>1. InGate' = InGate \ {a} /\ a \in InGate
      BY <1>2, ActionSets DEF InGate, TypeOK
    <2>2. Cardinality(InGate \ {a}) = Cardinality(InGate) - 1
      BY <2>1, Finite, FS_RemoveElement
    <2>3. permits' = permits + 1
      BY <1>2 DEF Return
    <2> QED BY <1>1, <2>1, <2>2, <2>3, Finite DEF PermitPart
  <1>3. CASE a \notin Batch
    <2>1. InGate' = InGate /\ permits' = permits
      BY <1>3, ActionSets DEF InGate, TypeOK, Return
    <2> QED BY <1>1, <2>1 DEF PermitPart
  <1> QED BY <1>2, <1>3

-----------------------------------------------------------------------------
(* The attempts the tracker knows.                                         *)
Fresh == {"choosing", "picking", "publish"}

LEMMA AttemptShape ==
    ASSUME TypeOK, NEW t \in attempts
    PROVE  /\ t[1] \in Actions /\ t[2] \in Nat /\ t[3] \in Workers \cup {Local}
           /\ t = <<t[1], t[2], t[3]>>
  BY DEF TypeOK

(* A step that tracks nothing new keeps numbers fresh if it raises the     *)
(* number, or does not come from an attempt.                               *)
LEMMA AttemptsKept ==
    ASSUME TypeOK, AttemptPart, NEW a \in Actions, NEW s,
           pc' = [pc EXCEPT ![a] = s], UNCHANGED <<tried, attempts>>, s # "idle",
           \/ attempt_no' = [attempt_no EXCEPT ![a] = @ + 1]
           \/ attempt_no' = attempt_no /\ (s \in Fresh => pc[a] \in Fresh \cup {"idle"})
    PROVE  AttemptPart'
  <1>1. ASSUME NEW t \in attempts
        PROVE  /\ t[2] <= attempt_no'[t[1]]
               /\ pc'[t[1]] \in Fresh => t[2] < attempt_no'[t[1]]
               /\ pc'[t[1]] # "idle"
               /\ t[3] \in Workers => t[3] \in tried'[t[1]]
    <2> DEFINE b == t[1]
    <2>1. b \in Actions /\ t[2] \in Nat /\ attempt_no[b] \in Nat
      BY AttemptShape DEF TypeOK
    <2>2. /\ t[2] <= attempt_no[b] /\ (pc[b] \in Fresh => t[2] < attempt_no[b])
          /\ pc[b] # "idle" /\ (t[3] \in Workers => t[3] \in tried[b])
      BY DEF AttemptPart, Fresh
    <2> HIDE DEF b
    <2>3. CASE b # a
      <3>1. pc'[b] = pc[b] /\ attempt_no'[b] = attempt_no[b] /\ tried' = tried
        BY <2>1, <2>3 DEF TypeOK
      <3> QED BY <2>2, <3>1 DEF b
    <2>4. CASE b = a
      <3>1. pc'[b] = s /\ tried' = tried
        BY <2>1, <2>4 DEF TypeOK
      <3>2. \/ attempt_no'[b] = attempt_no[b] + 1
            \/ attempt_no'[b] = attempt_no[b] /\ (s \in Fresh => pc[b] \in Fresh)
        BY <2>1, <2>2, <2>4 DEF TypeOK
      <3>3. t[2] <= attempt_no'[b] /\ (s \in Fresh => t[2] < attempt_no'[b])
        BY <2>1, <2>2, <3>2
      <3> QED BY <2>2, <3>1, <3>3 DEF b
    <2> QED BY <2>3, <2>4
  <1> QED BY <1>1 DEF AttemptPart, Fresh

(* A new attempt takes the action's current number, which is fresh.        *)
LEMMA AttemptAdded ==
    ASSUME TypeOK, AttemptPart, NEW a \in Actions, NEW s, NEW x \in Workers \cup {Local},
           pc' = [pc EXCEPT ![a] = s], s \notin Fresh \cup {"idle"},
           pc[a] \in Fresh \cup {"idle"}, UNCHANGED attempt_no,
           attempts' = attempts \cup {<<a, attempt_no[a], x>>},
           \/ x \notin tried[a] /\ tried' = [tried EXCEPT ![a] = @ \cup {x}]
           \/ x = Local /\ tried' = tried
    PROVE  AttemptPart'
  <1> DEFINE n == <<a, attempt_no[a], x>>
  <1>1. n[1] = a /\ n[2] = attempt_no[a] /\ n[3] = x /\ attempt_no[a] \in Nat
    BY DEF TypeOK
  <1>2. pc'[a] = s /\ x \notin tried[a] /\ (x \in Workers => x \in tried'[a])
    BY NoneValues DEF TypeOK
  <1>3. \A b \in Actions : tried[b] \subseteq tried'[b] /\ (b # a => pc'[b] = pc[b])
    BY DEF TypeOK
  <1>4. ASSUME NEW t \in attempts
        PROVE  /\ t[2] <= attempt_no[t[1]]
               /\ pc'[t[1]] \in Fresh => t[2] < attempt_no[t[1]]
               /\ pc'[t[1]] # "idle"
               /\ t[3] \in Workers => t[3] \in tried'[t[1]]
    <2>1. t[1] \in Actions
      BY AttemptShape
    <2> QED BY <1>2, <1>3, <2>1 DEF AttemptPart, Fresh
  <1>5. ASSUME NEW t \in attempts, t[1] = a
        PROVE  t[2] # n[2] /\ (t[3] \in Workers => t[3] # n[3])
    <2>1. t[2] \in Nat
      BY AttemptShape
    <2>2. t[2] < attempt_no[a] /\ (t[3] \in Workers => t[3] \in tried[a])
      BY <1>5 DEF AttemptPart, Fresh
    <2> QED BY <1>1, <1>2, <2>1, <2>2
  <1>6. /\ n[2] <= attempt_no[n[1]] /\ pc'[n[1]] \notin Fresh \cup {"idle"}
        /\ (n[3] \in Workers => n[3] \in tried'[n[1]])
    BY <1>1, <1>2
  <1> HIDE DEF n
  <1>7. \A u \in attempts' : u = n \/ u \in attempts
    BY DEF n
  <1>8. ASSUME NEW u \in attempts'
        PROVE  /\ u[2] <= attempt_no'[u[1]]
               /\ pc'[u[1]] \in Fresh => u[2] < attempt_no'[u[1]]
               /\ pc'[u[1]] # "idle"
               /\ u[3] \in Workers => u[3] \in tried'[u[1]]
    BY <1>4, <1>6, <1>7
  <1>9. ASSUME NEW u \in attempts', NEW v \in attempts', u[1] = v[1],
               u[2] = v[2] \/ (u[3] = v[3] /\ u[3] \in Workers)
        PROVE  u = v
    <2>1. CASE u \in attempts /\ v \in attempts
      BY <1>9, <2>1 DEF AttemptPart
    <2>2. CASE u = n /\ v \in attempts
      BY <1>1, <1>5, <1>9, <2>2
    <2>3. CASE v = n /\ u \in attempts
      BY <1>1, <1>5, <1>9, <2>3
    <2> QED BY <1>7, <2>1, <2>2, <2>3
  <1> QED BY <1>8, <1>9 DEF AttemptPart, Fresh

-----------------------------------------------------------------------------
(* The snapshot a dispatcher picks from stays true while the table does.   *)
LEMMA SnapKept ==
    ASSUME TypeOK, SnapPart, NEW a \in Actions, NEW s,
           pc' = [pc EXCEPT ![a] = s], s # "picking", UNCHANGED world,
           \A b \in Actions \ {a} : live'[b] = live[b] /\ tried'[b] = tried[b]
    PROVE  SnapPart'
  <1>1. \A w \in Workers : Willing(w)' = Willing(w)
    BY DEF Willing, world
  <1>2. changes' = changes /\ \A b \in Actions : pc'[b] = IF b = a THEN s ELSE pc[b]
    BY DEF TypeOK, world
  <1>3. ASSUME changes = 0, NEW b \in Actions, NEW w \in Workers, pc'[b] = "picking"
        PROVE  live'[b][w] = IF w \in tried'[b] THEN 0 ELSE Willing(w)'
    BY <1>1, <1>2, <1>3 DEF SnapPart
  <1> QED BY <1>2, <1>3 DEF SnapPart

LEMMA TableKeeps ==
    ASSUME SchedInv, NEW w \in Workers, NEW e \in Adverts \cup {NotLive}, TableChanges(w, e)
    PROVE  SchedInv'
  <1>1. /\ UNCHANGED <<malformed, in_flight, channels, build, cap, permits, pc,
                       live, tried, on, attempt_no, reason, attempts>>
        /\ changes' = changes + 1 /\ changes < MaxChanges /\ changes \in 0..MaxChanges
        /\ table' = [table EXCEPT ![w] = e]
    BY DEF TableChanges, SchedInv, TypeOK
  <1>2. TypeOK'
    BY <1>1, Limits DEF SchedInv, TypeOK
  <1>3. GuardPart' /\ LoadPart' /\ PermitPart' /\ AttemptPart'
    BY <1>1 DEF SchedInv, GuardPart, LoadPart, PermitPart, AttemptPart, Candidates,
                Guards, InGate
  <1>4. SnapPart'
    BY <1>1, Limits DEF SnapPart
  <1> QED BY <1>2, <1>3, <1>4 DEF SchedInv

LEMMA BuildKeeps ==
    ASSUME SchedInv, run_build
    PROVE  SchedInv'
  <1>1. /\ UNCHANGED <<table, malformed, changes, in_flight, pc, live, tried, on,
                       attempt_no, reason, attempts>>
        /\ build = "waiting" /\ build' = "started" /\ channels' \subseteq channels
        /\ cap' = fan_out /\ permits' = fan_out
    BY DEF run_build, prune_channels, world
  <1>2. fan_out \in Nat
    BY FanOutPositive DEF SchedInv
  <1>3. TypeOK'
    BY <1>1, <1>2 DEF SchedInv, TypeOK
  <1>4. GuardPart' /\ LoadPart' /\ AttemptPart' /\ SnapPart'
    BY <1>1 DEF SchedInv, GuardPart, LoadPart, AttemptPart, Candidates, Guards,
                SnapPart, Willing
  <1>5. Cardinality(InGate) = 0
    BY <1>1, Finite DEF SchedInv, TypeOK, PermitPart
  <1>6. PermitPart'
    BY <1>1, <1>2, <1>5 DEF PermitPart, InGate
  <1> QED BY <1>3, <1>4, <1>6 DEF SchedInv

(* The head of a dispatch, without its permit.                             *)
LEMMA DispatchKeeps ==
    ASSUME SchedInv, NEW a \in Actions, Dispatch(a), permits' \in Nat
    PROVE  TypeOK' /\ GuardPart' /\ SnapPart' /\ LoadPart' /\ AttemptPart'
  <1> DEFINE s == IF a \in RouteAway THEN "local" ELSE "choosing"
  <1>1. /\ UNCHANGED <<world, in_flight, channels, build, cap, live, tried, on, attempt_no>>
        /\ pc[a] = "idle" /\ pc' = [pc EXCEPT ![a] = s]
        /\ reason' = reason \/ reason' = [reason EXCEPT ![a] = "RouteAway"]
    BY DEF Dispatch
  <1>2. attempts' = IF a \in RouteAway THEN attempts \cup {<<a, attempt_no[a], Local>>}
                                        ELSE attempts
    BY DEF Dispatch
  <1>3. TypeOK'
    BY <1>1, <1>2 DEF SchedInv, TypeOK, Steps, Reasons, world
  <1>4. GuardPart'
    BY <1>1 DEF SchedInv, TypeOK, GuardPart, Candidates, Holding
  <1>5. SnapPart' /\ LoadPart'
    BY <1>1, SnapKept, LoadKept DEF SchedInv
  <1>6. CASE a \in RouteAway
    <2>1. s = "local" /\ s \notin Fresh \cup {"idle"} /\ UNCHANGED <<attempt_no, tried>>
      BY <1>1, <1>6 DEF Fresh
    <2>2. attempts' = attempts \cup {<<a, attempt_no[a], Local>>} /\ pc[a] \in Fresh \cup {"idle"}
      BY <1>1, <1>2, <1>6
    <2>3. AttemptPart'
      BY <1>1, <2>1, <2>2, AttemptAdded DEF SchedInv
    <2> QED BY <1>3, <1>4, <1>5, <2>3
  <1>7. CASE a \notin RouteAway
    <2>1. AttemptPart'
      BY <1>1, <1>2, <1>7, AttemptsKept DEF SchedInv
    <2> QED BY <1>3, <1>4, <1>5, <2>1
  <1> QED BY <1>6, <1>7

LEMMA SpawnKeeps ==
    ASSUME SchedInv, NEW a \in Actions, Spawn(a)
    PROVE  SchedInv'
  <1>1. /\ Dispatch(a) /\ a \in Batch /\ permits' = permits - 1 /\ permits \in Nat
        /\ permits' \in Nat /\ cap \in Nat /\ UNCHANGED <<build, cap>>
    BY DEF Spawn, Dispatch, SchedInv, TypeOK
  <1>2. pc[a] = "idle" /\ pc'[a] \in {"local", "choosing"}
        /\ \A b \in Actions \ {a} : pc'[b] = pc[b]
    BY <1>1 DEF Dispatch, SchedInv, TypeOK
  <1>3. a \notin InGate /\ InGate' = InGate \cup {a}
    BY <1>1, <1>2, ActionSets DEF InGate
  <1>4. Cardinality(InGate') = Cardinality(InGate) + 1
    BY <1>3, Finite, FS_AddElement
  <1>5. PermitPart'
    BY <1>1, <1>4, Finite DEF SchedInv, PermitPart
  <1> QED BY <1>1, <1>5, DispatchKeeps DEF SchedInv

LEMMA SubmitKeeps ==
    ASSUME SchedInv, NEW a \in Actions, Submit(a)
    PROVE  SchedInv'
  <1>1. Dispatch(a) /\ a \notin Batch /\ permits' = permits /\ permits' \in Nat
    BY DEF Submit, SchedInv, TypeOK
  <1>2. PICK s : pc' = [pc EXCEPT ![a] = s]
    BY <1>1 DEF Dispatch
  <1>3. PermitPart'
    BY <1>1, <1>2, GateKept DEF Dispatch, SchedInv
  <1> QED BY <1>1, <1>3, DispatchKeeps DEF SchedInv

LEMMA SnapshotKeeps ==
    ASSUME SchedInv, NEW a \in Actions, live_snapshot(a)
    PROVE  SchedInv'
  <1> DEFINE seen == [w \in Workers |-> IF w \in tried[a] THEN 0 ELSE Willing(w)]
             s == IF \E w \in Workers : seen[w] > 0 THEN "picking" ELSE "local"
  <1>0. live' = [live EXCEPT ![a] = seen] /\ live'[a] = seen
    BY DEF live_snapshot, SchedInv, TypeOK
  <1>1. /\ UNCHANGED <<world, in_flight, channels, build, cap, permits, tried, on,
                       attempt_no, reason>>
        /\ pc[a] = "choosing" /\ pc' = [pc EXCEPT ![a] = s]
        /\ attempts' = IF s = "picking" THEN attempts
                       ELSE attempts \cup {<<a, attempt_no[a], Local>>}
    BY <1>0 DEF live_snapshot
  <1>2. seen \in [Workers -> 0..MAX_TRUSTED_CPU]
    BY WillingBounded, Limits DEF SchedInv
  <1>3. TypeOK'
    BY <1>0, <1>1, <1>2 DEF SchedInv, TypeOK, Steps, world
  <1>4. GuardPart'
    <2>1. ASSUME NEW b \in Actions \ {a}
          PROVE  pc'[b] = pc[b] /\ Candidates(b)' = Candidates(b)
      BY <1>0, <1>1 DEF SchedInv, TypeOK, Candidates
    <2>2. pc'[a] = s /\ Candidates(a)' = {w \in Workers : seen[w] > 0}
      BY <1>0, <1>1 DEF SchedInv, TypeOK, Candidates
    <2>3. Candidates(a)' \cap tried[a] = {} /\ (s = "picking" => Candidates(a)' # {})
      BY <2>2
    <2>4. s \in {"picking", "local"} /\ on' = on /\ tried' = tried /\ pc[a] = "choosing"
      BY <1>1
    <2> HIDE DEF s, seen
    <2>5. ASSUME NEW b \in Actions
          PROVE  /\ on'[b] \in Workers <=> pc'[b] \in Holding
                 /\ pc'[b] \in Holding => on'[b] \in tried'[b]
                 /\ pc'[b] = "picking" => Candidates(b)' # {}
                 /\ Candidates(b)' \cap tried'[b] = {}
                 /\ pc'[b] \in {"publish", "republish", "aborted"} => b \notin Batch
      <3>1. CASE b = a
        BY <2>2, <2>3, <2>4, <3>1 DEF SchedInv, GuardPart, Holding
      <3>2. CASE b # a
        BY <2>1, <2>4, <3>2 DEF SchedInv, GuardPart
      <3> QED BY <3>1, <3>2
    <2> QED BY <2>5 DEF GuardPart
  <1>5. SnapPart'
    <2>1. \A w \in Workers : Willing(w)' = Willing(w)
      BY <1>1 DEF Willing, world
    <2>2. /\ changes' = changes /\ tried' = tried
          /\ \A b \in Actions \ {a} : pc'[b] = pc[b] /\ live'[b] = live[b]
          /\ \A w \in Workers : live'[a][w] = IF w \in tried[a] THEN 0 ELSE Willing(w)
      BY <1>0, <1>1 DEF SchedInv, TypeOK, world
    <2>3. ASSUME changes = 0, NEW b \in Actions, NEW w \in Workers, pc'[b] = "picking"
          PROVE  live'[b][w] = IF w \in tried'[b] THEN 0 ELSE Willing(w)'
      <3>1. CASE b = a
        BY <2>1, <2>2, <3>1
      <3>2. CASE b # a
        <4>1. live[b][w] = IF w \in tried[b] THEN 0 ELSE Willing(w)
          BY <2>2, <2>3, <3>2 DEF SchedInv, SnapPart
        <4> QED BY <2>1, <2>2, <3>2, <4>1
      <3> QED BY <3>1, <3>2
    <2> QED BY <2>2, <2>3 DEF SnapPart
  <1>6. LoadPart'
    BY <1>1, LoadKept DEF SchedInv
  <1>7. PermitPart'
    BY <1>1, GateKept DEF SchedInv
  <1>8. AttemptPart'
    <2>1. CASE s = "picking"
      BY <1>1, <2>1, AttemptsKept DEF SchedInv, Fresh
    <2>2. CASE s # "picking"
      <3>1. s = "local" /\ s \notin Fresh \cup {"idle"} /\ UNCHANGED <<attempt_no, tried>>
        BY <1>1, <2>2 DEF Fresh
      <3>2. attempts' = attempts \cup {<<a, attempt_no[a], Local>>} /\ pc[a] \in Fresh \cup {"idle"}
        BY <1>1, <2>2 DEF Fresh
      <3> QED BY <1>1, <3>1, <3>2, AttemptAdded DEF SchedInv
    <2> QED BY <2>1, <2>2
  <1> QED BY <1>3, <1>4, <1>5, <1>6, <1>7, <1>8 DEF SchedInv

(* GuardPart for a step of one dispatch that only moves its pc and guard.  *)
LEMMA GuardsKept ==
    ASSUME TypeOK, GuardPart, NEW a \in Actions, NEW s, NEW c,
           pc' = [pc EXCEPT ![a] = s], on' = [on EXCEPT ![a] = c],
           UNCHANGED <<live, tried>>, s # "picking",
           c \in Workers <=> s \in Holding, c \in Workers => c \in tried[a],
           s \in {"publish", "republish", "aborted"} => a \notin Batch
    PROVE  GuardPart'
  <1>1. ASSUME NEW b \in Actions
        PROVE  /\ on'[b] \in Workers <=> pc'[b] \in Holding
               /\ pc'[b] \in Holding => on'[b] \in tried'[b]
               /\ pc'[b] = "picking" => Candidates(b)' # {}
               /\ Candidates(b)' \cap tried'[b] = {}
               /\ pc'[b] \in {"publish", "republish", "aborted"} => b \notin Batch
    <2>1. Candidates(b)' = Candidates(b) /\ tried' = tried
      BY DEF Candidates
    <2>2. CASE b = a
      <3>1. pc'[b] = s /\ on'[b] = c
        BY <2>2 DEF TypeOK
      <3> QED BY <2>1, <2>2, <3>1 DEF GuardPart
    <2>3. CASE b # a
      <3>1. pc'[b] = pc[b] /\ on'[b] = on[b]
        BY <2>3 DEF TypeOK
      <3> QED BY <2>1, <2>3, <3>1 DEF GuardPart
    <2> QED BY <2>2, <2>3
  <1> QED BY <1>1 DEF GuardPart

LEMMA PickKeeps ==
    ASSUME SchedInv, NEW a \in Actions, pick_and_reserve(a)
    PROVE  SchedInv'
  <1> DEFINE c == chosen(a)
  <1>1. /\ UNCHANGED <<world, channels, build, cap, permits, attempt_no, reason>>
        /\ pc[a] = "picking" /\ pc' = [pc EXCEPT ![a] = "reserved"]
        /\ on' = [on EXCEPT ![a] = c]
        /\ in_flight' = [in_flight EXCEPT ![c] = @ + 1]
        /\ tried' = [tried EXCEPT ![a] = @ \cup {c}]
        /\ attempts' = attempts \cup {<<a, attempt_no[a], c>>}
        /\ live' = [live EXCEPT ![a] = [w \in Workers |-> 0]]
    BY DEF pick_and_reserve
  <1>2. Candidates(a) # {} /\ Candidates(a) \cap tried[a] = {}
    BY <1>1 DEF SchedInv, GuardPart
  <1>3. c \in Candidates(a)
    BY <1>2, ChoiceIsSound DEF SchedInv
  <1> HIDE DEF c
  <1>4. c \in Workers /\ c \notin tried[a] /\ on[a] = NoWorker
    BY <1>1, <1>2, <1>3 DEF Candidates, SchedInv, GuardPart, TypeOK, Holding
  <1>5. TypeOK'
    <2>1. in_flight' \in [Workers -> Nat] /\ live' \in [Actions -> [Workers -> 0..MAX_TRUSTED_CPU]]
      BY <1>1, <1>4, Limits DEF SchedInv, TypeOK
    <2>2. /\ pc' \in [Actions -> Steps] /\ tried' \in [Actions -> SUBSET Workers]
          /\ on' \in [Actions -> Workers \cup {NoWorker}]
      BY <1>1, <1>4 DEF SchedInv, TypeOK, Steps, Holding
    <2>3. attempts' \subseteq Actions \X Nat \X (Workers \cup {Local})
      BY <1>1, <1>4 DEF SchedInv, TypeOK
    <2> QED BY <1>1, <2>1, <2>2, <2>3 DEF SchedInv, TypeOK, world
  <1>6. GuardPart'
    <2>1. ASSUME NEW b \in Actions \ {a}
          PROVE  /\ pc'[b] = pc[b] /\ Candidates(b)' = Candidates(b)
                 /\ on'[b] = on[b] /\ tried'[b] = tried[b]
      BY <1>1 DEF SchedInv, TypeOK, Candidates
    <2>2. pc'[a] = "reserved" /\ on'[a] = c /\ c \in tried'[a] /\ Candidates(a)' = {}
      BY <1>1 DEF SchedInv, TypeOK, Candidates
    <2> QED BY <1>4, <2>1, <2>2 DEF SchedInv, GuardPart, Holding
  <1>7. SnapPart'
    <2>1. \A b \in Actions \ {a} : live'[b] = live[b] /\ tried'[b] = tried[b]
      BY <1>1 DEF SchedInv, TypeOK
    <2> QED BY <1>1, <2>1, SnapKept DEF SchedInv
  <1>8. LoadPart'
    BY <1>1, <1>4, ReserveCounts DEF SchedInv
  <1>9. PermitPart'
    BY <1>1, GateKept DEF SchedInv
  <1>a. AttemptPart'
    <2>1. "reserved" \notin Fresh \cup {"idle"} /\ pc[a] \in Fresh \cup {"idle"}
      BY <1>1 DEF Fresh
    <2> QED BY <1>1, <1>4, <2>1, AttemptAdded DEF SchedInv
  <1> QED BY <1>5, <1>6, <1>7, <1>8, <1>9, <1>a DEF SchedInv

LEMMA ChannelKeeps ==
    ASSUME SchedInv, NEW a \in Actions, channel_for(a)
    PROVE  SchedInv'
  <1>1. /\ UNCHANGED <<world, in_flight, build, cap, permits, live, tried, on,
                       attempt_no, reason, attempts>>
        /\ pc[a] = "reserved" /\ pc' = [pc EXCEPT ![a] = "executing"]
        /\ channels' = channels \cup {on[a]}
    BY DEF channel_for
  <1>2. on[a] \in Workers /\ on[a] \in tried[a] /\ on' = [on EXCEPT ![a] = on[a]]
    BY <1>1 DEF SchedInv, TypeOK, GuardPart, Holding
  <1>3. TypeOK'
    BY <1>1, <1>2 DEF SchedInv, TypeOK, Steps, Holding, world
  <1>4. GuardPart'
    <2>1. "executing" \in Holding
      BY DEF Holding
    <2> QED BY <1>1, <1>2, <2>1, GuardsKept DEF SchedInv
  <1>5. SnapPart' /\ LoadPart'
    BY <1>1, SnapKept, LoadKept DEF SchedInv
  <1>6. PermitPart'
    BY <1>1, GateKept DEF SchedInv
  <1>7. AttemptPart'
    <2>1. "executing" \notin Fresh
      BY DEF Fresh
    <2> QED BY <1>1, <2>1, AttemptsKept DEF SchedInv
  <1> QED BY <1>3, <1>4, <1>5, <1>6, <1>7 DEF SchedInv

(* A failed attempt frees its guard and gives the next attempt a number of *)
(* its own.                                                                *)
LEMMA ReassignKeeps ==
    ASSUME SchedInv, NEW a \in Actions, pc[a] \in Holding, Reassign(a), UNCHANGED channels
    PROVE  SchedInv'
  <1>1. /\ UNCHANGED <<world, build, cap, permits, live, tried, attempts>>
        /\ Release(a) /\ on' = [on EXCEPT ![a] = NoWorker]
        /\ attempt_no' = [attempt_no EXCEPT ![a] = @ + 1]
        /\ reason' = [reason EXCEPT ![a] = "RemoteExhausted"]
        /\ pc' = [pc EXCEPT ![a] = "choosing"]
    BY DEF Reassign, Release
  <1>2. on[a] \in Workers /\ pc[a] \notin {"idle", "done"}
    BY DEF SchedInv, GuardPart, Holding
  <1>3. /\ LoadPart' /\ in_flight' \in [Workers -> Nat]
        /\ on' \in [Actions -> Workers \cup {NoWorker}]
    BY <1>1, <1>2, ReleaseCounts DEF SchedInv
  <1>4. TypeOK'
    BY <1>1, <1>3 DEF SchedInv, TypeOK, Steps, Reasons, world
  <1>5. GuardPart'
    <2>1. "choosing" \notin Holding /\ NoWorker \notin Workers
      BY NoneValues DEF Holding
    <2> QED BY <1>1, <2>1, GuardsKept DEF SchedInv
  <1>6. SnapPart'
    BY <1>1, SnapKept DEF SchedInv
  <1>7. PermitPart'
    BY <1>1, <1>2, GateKept DEF SchedInv
  <1>8. AttemptPart'
    BY <1>1, AttemptsKept DEF SchedInv
  <1> QED BY <1>3, <1>4, <1>5, <1>6, <1>7, <1>8 DEF SchedInv

LEMMA AnsweredKeeps ==
    ASSUME SchedInv, NEW a \in Actions, Answered(a)
    PROVE  SchedInv'
  <1> DEFINE s == IF a \in Batch THEN "done" ELSE "publish"
  <1>1. /\ UNCHANGED <<world, channels, build, cap, live, tried, attempts>>
        /\ pc[a] = "executing" /\ Release(a) /\ on' = [on EXCEPT ![a] = NoWorker]
        /\ attempt_no' = [attempt_no EXCEPT ![a] = @ + 1] /\ Return(a)
        /\ reason' = [reason EXCEPT ![a] = "Remote"] /\ pc' = [pc EXCEPT ![a] = s]
    BY DEF Answered, Release
  <1>2. on[a] \in Workers /\ s \in {"done", "publish"} /\ (a \in Batch => s = "done")
    BY <1>1 DEF SchedInv, GuardPart, Holding
  <1> HIDE DEF s
  <1>3. /\ LoadPart' /\ in_flight' \in [Workers -> Nat]
        /\ on' \in [Actions -> Workers \cup {NoWorker}]
    BY <1>1, <1>2, ReleaseCounts DEF SchedInv
  <1>4. PermitPart' /\ permits' \in Nat
    BY <1>1, <1>2, GateLeft DEF SchedInv
  <1>5. TypeOK'
    BY <1>1, <1>2, <1>3, <1>4 DEF SchedInv, TypeOK, Steps, Reasons, Ended, world
  <1>6. GuardPart'
    <2>1. s \notin Holding /\ NoWorker \notin Workers
          /\ (s \in {"publish", "republish", "aborted"} => a \notin Batch)
      BY <1>2, NoneValues DEF Holding
    <2> QED BY <1>1, <1>2, <2>1, GuardsKept DEF SchedInv
  <1>7. SnapPart'
    BY <1>1, <1>2, SnapKept DEF SchedInv
  <1>8. AttemptPart'
    BY <1>1, <1>2, AttemptsKept DEF SchedInv
  <1> QED BY <1>3, <1>4, <1>5, <1>6, <1>7, <1>8 DEF SchedInv

LEMMA LocalKeeps ==
    ASSUME SchedInv, NEW a \in Actions, run_local(a)
    PROVE  SchedInv'
  <1>1. /\ UNCHANGED <<world, in_flight, channels, build, cap, live, tried, on,
                       reason, attempts>>
        /\ pc[a] = "local" /\ pc' = [pc EXCEPT ![a] = "done"] /\ Return(a)
        /\ attempt_no' = [attempt_no EXCEPT ![a] = @ + 1]
    BY DEF run_local
  <1>2. PermitPart' /\ permits' \in Nat
    BY <1>1, GateLeft DEF SchedInv
  <1>3. TypeOK'
    BY <1>1, <1>2 DEF SchedInv, TypeOK, Steps, Ended, world
  <1>4. GuardPart'
    <2>1. "done" \notin Holding /\ on[a] \notin Workers /\ on' = [on EXCEPT ![a] = on[a]]
      BY <1>1 DEF Holding, SchedInv, GuardPart, TypeOK
    <2> QED BY <1>1, <2>1, GuardsKept DEF SchedInv
  <1>5. SnapPart' /\ LoadPart'
    BY <1>1, SnapKept, LoadKept DEF SchedInv
  <1>6. AttemptPart'
    BY <1>1, AttemptsKept DEF SchedInv
  <1> QED BY <1>2, <1>3, <1>4, <1>5, <1>6 DEF SchedInv

(* The intake's steps after a remote answer: publishing, its failure and   *)
(* the local run that follows.                                             *)
LEMMA IntakeKeeps ==
    ASSUME SchedInv, NEW a \in Actions, Published(a) \/ PublishFails(a) \/ FallbackRun(a)
    PROVE  SchedInv'
  <1>1. /\ UNCHANGED <<world, in_flight, channels, build, cap, permits, live, tried,
                       on, attempt_no>>
        /\ pc[a] \in {"publish", "republish"}
        /\ reason' = reason \/ reason' = [reason EXCEPT ![a] = "RemoteExhausted"]
    BY DEF Published, PublishFails, FallbackRun
  <1>2. PICK s \in {"done", "republish"} :
            /\ pc' = [pc EXCEPT ![a] = s]
            /\ \/ attempts' = attempts
               \/ /\ attempts' = attempts \cup {<<a, attempt_no[a], Local>>}
                  /\ pc[a] = "publish" /\ s = "republish"
    BY DEF Published, PublishFails, FallbackRun
  <1>3. a \notin Batch /\ on[a] \notin Workers /\ on' = [on EXCEPT ![a] = on[a]]
    BY <1>1 DEF SchedInv, GuardPart, TypeOK, Holding
  <1>4. TypeOK'
    BY <1>1, <1>2 DEF SchedInv, TypeOK, Steps, Reasons, Ended, world
  <1>5. GuardPart'
    <2>1. s \notin Holding /\ s # "picking"
      BY DEF Holding
    <2> QED BY <1>1, <1>2, <1>3, <2>1, GuardsKept DEF SchedInv
  <1>6. SnapPart' /\ LoadPart'
    BY <1>1, <1>2, SnapKept, LoadKept DEF SchedInv
  <1>7. PermitPart'
    BY <1>1, <1>2, <1>3, GateKept DEF SchedInv
  <1>8. AttemptPart'
    <2>1. s \notin Fresh \cup {"idle"} /\ "publish" \in Fresh /\ UNCHANGED <<attempt_no, tried>>
      BY <1>1 DEF Fresh
    <2>2. CASE attempts' = attempts
      BY <1>2, <2>1, <2>2, AttemptsKept DEF SchedInv
    <2>3. CASE attempts' = attempts \cup {<<a, attempt_no[a], Local>>} /\ pc[a] = "publish"
      <3>1. pc[a] \in Fresh \cup {"idle"}
        BY <2>1, <2>3
      <3> QED BY <1>2, <2>1, <2>3, <3>1, AttemptAdded DEF SchedInv
    <2> QED BY <1>2, <2>2, <2>3
  <1> QED BY <1>4, <1>5, <1>6, <1>7, <1>8 DEF SchedInv

LEMMA AbortKeeps ==
    ASSUME SchedInv, NEW a \in Actions, Abort(a)
    PROVE  SchedInv'
  <1>1. /\ UNCHANGED <<world, channels, build, cap, permits, live, tried, attempt_no,
                       reason, attempts>>
        /\ a \notin Batch /\ pc[a] = "executing" /\ pc' = [pc EXCEPT ![a] = "aborted"]
        /\ Release(a) /\ on' = [on EXCEPT ![a] = NoWorker]
    BY DEF Abort, Release
  <1>2. on[a] \in Workers
    BY <1>1 DEF SchedInv, GuardPart, Holding
  <1>3. /\ LoadPart' /\ in_flight' \in [Workers -> Nat]
        /\ on' \in [Actions -> Workers \cup {NoWorker}]
    BY <1>1, <1>2, ReleaseCounts DEF SchedInv
  <1>4. TypeOK'
    BY <1>1, <1>3 DEF SchedInv, TypeOK, Steps, Ended, world
  <1>5. GuardPart'
    <2>1. "aborted" \notin Holding /\ NoWorker \notin Workers
      BY NoneValues DEF Holding
    <2> QED BY <1>1, <2>1, GuardsKept DEF SchedInv
  <1>6. SnapPart'
    BY <1>1, SnapKept DEF SchedInv
  <1>7. PermitPart'
    BY <1>1, GateKept DEF SchedInv
  <1>8. AttemptPart'
    <2>1. "aborted" \notin Fresh
      BY DEF Fresh
    <2> QED BY <1>1, <2>1, AttemptsKept DEF SchedInv
  <1> QED BY <1>3, <1>4, <1>5, <1>6, <1>7, <1>8 DEF SchedInv

LEMMA AbortIdleKeeps ==
    ASSUME SchedInv, NEW a \in Actions, AbortIdle(a)
    PROVE  SchedInv'
  <1>1. /\ UNCHANGED <<world, in_flight, channels, build, cap, permits, live, tried,
                       on, attempt_no, reason, attempts>>
        /\ a \notin Batch /\ pc[a] \in {"local", "publish", "republish"}
        /\ pc' = [pc EXCEPT ![a] = "aborted"]
    BY DEF AbortIdle
  <1>2. on[a] \notin Workers /\ on' = [on EXCEPT ![a] = on[a]]
    BY <1>1 DEF SchedInv, GuardPart, TypeOK, Holding
  <1>3. TypeOK'
    BY <1>1 DEF SchedInv, TypeOK, Steps, Ended, world
  <1>4. "aborted" \notin Holding /\ "aborted" \notin Fresh
    BY DEF Holding, Fresh
  <1>5. GuardPart' /\ SnapPart' /\ LoadPart'
    BY <1>1, <1>2, <1>4, GuardsKept, SnapKept, LoadKept DEF SchedInv
  <1>6. PermitPart' /\ AttemptPart'
    BY <1>1, <1>4, GateKept, AttemptsKept DEF SchedInv
  <1> QED BY <1>3, <1>5, <1>6 DEF SchedInv

LEMMA StutterKeeps ==
    ASSUME SchedInv, UNCHANGED vars
    PROVE  SchedInv'
  BY DEF SchedInv, TypeOK, GuardPart, SnapPart, LoadPart, PermitPart, AttemptPart,
         Candidates, Guards, InGate, Willing, vars, world

LEMMA StepKeeps == SchedInv /\ [Next]_vars => SchedInv'
  <1> SUFFICES ASSUME SchedInv, [Next]_vars PROVE SchedInv'
    OBVIOUS
  <1>1. CASE UNCHANGED vars
    BY <1>1, StutterKeeps
  <1>2. CASE \E w \in Workers, e \in Adverts \cup {NotLive} : TableChanges(w, e)
    BY <1>2, TableKeeps
  <1>3. CASE run_build
    BY <1>3, BuildKeeps
  <1>4. ASSUME NEW a \in Actions, Spawn(a) \/ Submit(a) \/ live_snapshot(a)
                   \/ pick_and_reserve(a) \/ channel_for(a)
        PROVE  SchedInv'
    BY <1>4, SpawnKeeps, SubmitKeeps, SnapshotKeeps, PickKeeps, ChannelKeeps
  <1>5. ASSUME NEW a \in Actions, Unreachable(a) \/ AttemptFails(a) PROVE SchedInv'
    <2>1. pc[a] \in Holding /\ Reassign(a) /\ UNCHANGED channels
      BY <1>5 DEF Unreachable, AttemptFails, Holding
    <2> QED BY <2>1, ReassignKeeps
  <1>6. ASSUME NEW a \in Actions, Answered(a) \/ run_local(a) \/ Published(a)
                   \/ PublishFails(a) \/ FallbackRun(a) \/ Abort(a) \/ AbortIdle(a)
        PROVE  SchedInv'
    BY <1>6, AnsweredKeeps, LocalKeeps, IntakeKeeps, AbortKeeps, AbortIdleKeeps
  <1> QED BY <1>1, <1>2, <1>3, <1>4, <1>5, <1>6 DEF Next, Attempt

(* Counts, permits and attempt numbers are exact in every reachable state. *)
THEOREM SchedInvariant == Spec => []SchedInv
  BY InitSched, StepKeeps, PTL DEF Spec

(* AssignGuard "cannot leak a slot": when no dispatch is in an attempt,    *)
(* every worker's in-flight count is back at zero, however the attempts    *)
(* ended.                                                                  *)
THEOREM NoSlotLeaks ==
    Spec => []((\A a \in Actions : pc[a] \notin Holding) =>
                   \A w \in Workers : in_flight[w] = 0)
  <1>1. ASSUME SchedInv, \A a \in Actions : pc[a] \notin Holding, NEW w \in Workers
        PROVE  in_flight[w] = 0
    <2>1. Guards(w) = {}
      BY <1>1 DEF SchedInv, GuardPart, Guards
    <2> QED BY <1>1, <2>1, FS_EmptySet DEF SchedInv, LoadPart
  <1>2. SchedInv => ((\A a \in Actions : pc[a] \notin Holding) =>
                        \A w \in Workers : in_flight[w] = 0)
    BY <1>1
  <1> QED BY <1>2, SchedInvariant, PTL

-----------------------------------------------------------------------------
LEMMA BurstStep == SchedInv /\ BurstSpreads /\ [Next]_vars => BurstSpreads'
  <1> SUFFICES ASSUME SchedInv, BurstSpreads, [Next]_vars, Burst',
                      NEW v \in Workers, NEW w \in Workers, in_flight'[w] > Willing(w)'
               PROVE  in_flight'[v] >= Willing(v)'
    BY DEF BurstSpreads
  <1>0. changes \in Nat /\ changes' = 0
    BY Limits DEF Burst, SchedInv, TypeOK
  <1>1. ASSUME UNCHANGED <<world, in_flight>>, Burst PROVE in_flight'[v] >= Willing(v)'
    BY <1>1 DEF BurstSpreads, Willing, world
  <1>2. ASSUME UNCHANGED <<world, in_flight, tried, on>>, NEW a \in Actions,
               \A b \in Actions \ {a} : pc'[b] = pc[b],
               pc'[a] \in Holding => pc[a] \in Holding
        PROVE  Burst
    BY <1>2 DEF Burst, world
  <1>3. CASE UNCHANGED vars
    <2>1. Burst
      BY <1>3 DEF vars, world, Burst
    <2> QED BY <1>1, <1>3, <2>1 DEF vars
  <1>4. CASE \E x \in Workers, e \in Adverts \cup {NotLive} : TableChanges(x, e)
    BY <1>0, <1>4 DEF TableChanges
  <1>5. CASE run_build
    <2>1. UNCHANGED <<world, in_flight, tried, on, pc>>
      BY <1>5 DEF run_build
    <2>2. Burst
      BY <2>1 DEF Burst, world
    <2> QED BY <1>1, <2>1, <2>2
  <1>6. ASSUME NEW a \in Actions,
               Spawn(a) \/ Submit(a) \/ live_snapshot(a) \/ channel_for(a) \/ run_local(a)
                   \/ Published(a) \/ PublishFails(a) \/ FallbackRun(a) \/ AbortIdle(a)
        PROVE  in_flight'[v] >= Willing(v)'
    <2>1. UNCHANGED <<world, in_flight, tried, on>>
      BY <1>6 DEF Spawn, Submit, Dispatch, live_snapshot, channel_for, run_local,
                  Published, PublishFails, FallbackRun, AbortIdle
    <2>2. PICK s : /\ pc' = [pc EXCEPT ![a] = s]
                   /\ s \in Holding => pc[a] \in Holding
      BY <1>6 DEF Spawn, Submit, Dispatch, live_snapshot, channel_for, run_local,
                  Published, PublishFails, FallbackRun, AbortIdle, Holding
    <2>3. pc'[a] = s /\ \A b \in Actions \ {a} : pc'[b] = pc[b]
      BY <2>2 DEF SchedInv, TypeOK
    <2> QED BY <1>1, <1>2, <2>1, <2>2, <2>3
  <1>7. ASSUME NEW a \in Actions,
               Unreachable(a) \/ AttemptFails(a) \/ Answered(a) \/ Abort(a)
        PROVE  FALSE
    <2>1. pc[a] \in Holding /\ tried' = tried
      BY <1>7 DEF Unreachable, AttemptFails, Reassign, Answered, Abort, Holding
    <2>2. PICK s : pc' = [pc EXCEPT ![a] = s] /\ s \notin Holding
      BY <1>7 DEF Unreachable, AttemptFails, Reassign, Answered, Abort, Holding
    <2>3. pc'[a] \notin Holding /\ tried'[a] # {}
      BY <2>1, <2>2 DEF SchedInv, TypeOK, GuardPart
    <2> QED BY <2>3 DEF Burst
  <1>8. ASSUME NEW a \in Actions, pick_and_reserve(a) PROVE in_flight'[v] >= Willing(v)'
    <2> DEFINE c == chosen(a)
    <2>1. /\ UNCHANGED world /\ pc[a] = "picking" /\ pc' = [pc EXCEPT ![a] = "reserved"]
          /\ on' = [on EXCEPT ![a] = c] /\ tried' = [tried EXCEPT ![a] = @ \cup {c}]
          /\ in_flight' = [in_flight EXCEPT ![c] = @ + 1]
      BY <1>8 DEF pick_and_reserve
    <2>2. Candidates(a) # {} /\ Candidates(a) \cap tried[a] = {}
      BY <2>1 DEF SchedInv, GuardPart
    <2>3. /\ c \in Candidates(a)
          /\ effective_idle(a, c) = 0 => \A u \in Candidates(a) : effective_idle(a, u) = 0
      BY <2>2, ChoiceIsSound DEF SchedInv
    <2> HIDE DEF c
    <2>4. tried'[a] = tried[a] \cup {c} /\ on'[a] = c /\ c \in Workers /\ c \notin tried[a]
      BY <2>1, <2>2, <2>3 DEF SchedInv, TypeOK, Candidates
    <2>5. tried[a] = {}
      BY <2>4 DEF Burst
    <2>6. \A b \in Actions \ {a} : pc'[b] = pc[b] /\ on'[b] = on[b] /\ tried'[b] = tried[b]
      BY <2>1 DEF SchedInv, TypeOK
    <2>7. changes = 0 /\ Willing(w)' = Willing(w) /\ Willing(v)' = Willing(v)
      BY <1>0, <2>1 DEF world, Willing
    <2>8. Burst
      BY <2>5, <2>6, <2>7 DEF Burst
    <2>9. /\ in_flight[v] \in Nat /\ in_flight[w] \in Nat
          /\ Willing(v) \in Nat /\ Willing(w) \in Nat
          /\ in_flight'[v] \in Nat /\ in_flight'[v] >= in_flight[v]
          /\ in_flight'[w] = IF w = c THEN in_flight[w] + 1 ELSE in_flight[w]
      <3>1. Willing(v) \in 0..MAX_TRUSTED_CPU /\ Willing(w) \in 0..MAX_TRUSTED_CPU
        BY WillingBounded DEF SchedInv
      <3>2. /\ in_flight \in [Workers -> Nat]
            /\ in_flight' = [in_flight EXCEPT ![c] = in_flight[c] + 1]
        BY <2>1 DEF SchedInv, TypeOK
      <3> QED BY <2>4, <3>1, <3>2, Limits
    <2>a. CASE in_flight[w] > Willing(w)
      BY <2>7, <2>8, <2>9, <2>a DEF BurstSpreads
    <2>b. CASE ~(in_flight[w] > Willing(w))
      <3>1. w = c /\ in_flight[c] = Willing(c)
        BY <2>7, <2>9, <2>b
      <3>2. live[a][c] = Willing(c) /\ live[a][v] = Willing(v)
        BY <2>1, <2>4, <2>5, <2>7 DEF SchedInv, SnapPart
      <3>3. effective_idle(a, c) = 0
        BY <2>9, <3>1, <3>2 DEF effective_idle
      <3>4. Willing(v) > 0 => effective_idle(a, v) = 0
        BY <2>3, <3>2, <3>3 DEF Candidates
      <3>5. in_flight[v] >= Willing(v)
        BY <2>9, <3>2, <3>4 DEF effective_idle
      <3>6. Willing(v)' = Willing(v)
        BY <2>7
      <3> QED BY <2>9, <3>5, <3>6
    <2> QED BY <2>a, <2>b
  <1> QED BY <1>3, <1>4, <1>5, <1>6, <1>7, <1>8 DEF Next, Attempt

(* "Concurrent dispatchers spread": for any number of workers, capacities  *)
(* and dispatchers, a first burst fills every worker before it overfills   *)
(* one.                                                                    *)
THEOREM BurstsSpread == Spec => []BurstSpreads
  <1>1. Init => BurstSpreads
    <2> SUFFICES ASSUME Init, NEW w \in Workers, in_flight[w] > Willing(w) PROVE FALSE
      BY DEF BurstSpreads
    <2>1. TypeOK /\ in_flight[w] = 0
      BY InitSched DEF SchedInv, Init
    <2>2. Willing(w) \in 0..MAX_TRUSTED_CPU
      BY <2>1, WillingBounded
    <2> QED BY <2>1, <2>2, Limits
  <1>2. SchedInv /\ BurstSpreads /\ [Next]_vars => BurstSpreads'
    BY BurstStep
  <1> QED BY <1>1, <1>2, SchedInvariant, PTL DEF Spec
=============================================================================
