-------------------------- MODULE WorkerTableProofs --------------------------
(***************************************************************************)
(* The table's inductive invariant holds for every number of processes and *)
(* identities and for all durations in which keepalive is longer than the  *)
(* dead timeout and shorter than the reaping delay; AgesOut and OwnersKept *)
(* follow from it.                                                         *)
(***************************************************************************)
EXTENDS WorkerTable, TLAPS

USE Durations, Identities, FaultBound, NoEntryIsNone

LEMMA ReapAfterNat == ReapAfter \in Nat /\ Keepalive < ReapAfter /\ DeadTimeout <= ReapAfter
<1>1. ReapAfter \in Nat /\ Keepalive < ReapAfter
  BY DEF ReapAfter
<1>2. \A d, r \in Nat \ {0} : d <= d * r
  OBVIOUS
<1> QED BY <1>1, <1>2 DEF ReapAfter

LEMMA InitTable == Init => TableInv
BY ReapAfterNat DEF Init, TableInv, TypeOK, KnownInv, HeardInv, CheckedInv, Conns

\* Steps that leave the table and the clocks alone, and open no stream of a worker.
LEMMA Quietly ==
  ASSUME TableInv, CheckedInv', UNCHANGED <<table, quiet>>, conn' \in [Procs -> Conns],
         streams' \subseteq Procs, streams' \cap Trusted \subseteq streams,
         strays' = strays \cap streams', faults' \in 0..MaxFaults
  PROVE  TableInv'
BY DEF TableInv, TypeOK, KnownInv, HeardInv

\* What a registration makes of the entries, when it is accepted and when not.
LEMMA Registering ==
  ASSUME TableInv, CheckedInv', NEW p \in Procs, upsert_register(p), Heard(p),
         conn' \in [Procs -> Conns], faults' \in 0..MaxFaults, UNCHANGED <<streams, strays>>
  PROVE  TableInv'
<1> USE ReapAfterNat
<1> DEFINE i == Id[p]
<1>1. i \in Ids
  OBVIOUS
<1>2. /\ Reaped \in [Ids -> Entries \cup {NoEntry}]
      /\ \A j \in Ids : Reaped[j] # NoEntry => Reaped[j] = table[j]
      /\ \A j \in Ids : table[j] # NoEntry /\ table[j].age < ReapAfter => Reaped[j] = table[j]
  BY DEF TableInv, TypeOK, Reaped, Reaps, Entries
<1>3. \A q \in streams \cap Trusted : table[Id[q]] # NoEntry => Reaped[Id[q]] = table[Id[q]]
  BY <1>2 DEF TableInv, KnownInv, TypeOK, Entries
<1>4. CASE Accepted(p)
  <2>1. /\ table' = [Reaped EXCEPT ![i] = [ep |-> p, age |-> 0]]
        /\ quiet' = [quiet EXCEPT ![p] = 0]
        /\ p \in Trusted
    BY <1>4 DEF upsert_register, Heard, Accepted, check
  <2>2. [ep |-> p, age |-> 0] \in Entries
    BY DEF Entries
  <2>3. TypeOK'
    BY <1>1, <1>2, <2>1, <2>2 DEF TableInv, TypeOK
  <2>4. KnownInv'
    <3> SUFFICES ASSUME NEW q \in streams \cap Trusted
                 PROVE  /\ quiet'[q] <= Keepalive
                        /\ q \notin strays => table'[Id[q]] # NoEntry
                        /\ table'[Id[q]] # NoEntry => table'[Id[q]].age <= quiet'[q]
      BY DEF KnownInv
    <3>1. /\ q \in Procs /\ Id[q] \in Ids /\ q \in Trusted /\ quiet[q] \in Nat
          /\ quiet[q] <= Keepalive
      BY DEF TableInv, TypeOK, KnownInv
    <3>2. quiet'[q] \in {quiet[q], 0}
      BY <2>1, <3>1 DEF TableInv, TypeOK
    <3>3. CASE Id[q] = i
      <4>1. table'[Id[q]] = [ep |-> p, age |-> 0]
        BY <1>1, <1>2, <2>1, <3>3
      <4>2. table'[Id[q]] # NoEntry /\ table'[Id[q]].age = 0
        BY <2>2, <4>1
      <4> QED BY <3>1, <3>2, <4>2
    <3>4. CASE Id[q] # i
      <4>1. quiet'[q] = quiet[q]
        BY <2>1, <3>1, <3>4 DEF TableInv, TypeOK
      <4>2. table'[Id[q]] = Reaped[Id[q]]
        BY <1>2, <2>1, <3>1, <3>4
      <4> QED BY <1>2, <1>3, <3>1, <4>1, <4>2 DEF TableInv, KnownInv
    <3> QED BY <3>3, <3>4
  <2>5. ASSUME NEW j \in Ids, table'[j] # NoEntry
        PROVE  /\ Id[table'[j].ep] = j
               /\ \E q \in Trusted : Id[q] = j /\ quiet'[q] <= table'[j].age
    <3>1. CASE j = i
      <4>1. table'[j].ep = p /\ table'[j].age = 0 /\ quiet'[p] = 0
        BY <1>1, <1>2, <2>1, <3>1 DEF TableInv, TypeOK
      <4> QED BY <2>1, <3>1, <4>1
    <3>2. CASE j # i
      <4>1. table'[j] = table[j] /\ table[j] # NoEntry /\ table[j] \in Entries
        BY <1>2, <2>1, <2>5, <3>2 DEF TableInv, TypeOK
      <4>2. PICK q \in Trusted : Id[q] = j /\ quiet[q] <= table[j].age
        BY <4>1 DEF TableInv, HeardInv
      <4>3. quiet'[q] = quiet[q]
        BY <2>1, <3>2, <4>2 DEF TableInv, TypeOK
      <4>4. Id[table[j].ep] = j
        BY <4>1 DEF TableInv, HeardInv
      <4> QED BY <4>1, <4>2, <4>3, <4>4
    <3> QED BY <3>1, <3>2
  <2>6. HeardInv'
    BY <2>5 DEF HeardInv
  <2> QED BY <2>3, <2>4, <2>6 DEF TableInv
<1>5. CASE ~Accepted(p)
  <2>1. quiet' = quiet /\ table' \in {table, Reaped}
    BY <1>5 DEF upsert_register, Heard, Accepted, check, TableInv, TypeOK
  <2>2. TypeOK'
    BY <1>2, <2>1 DEF TableInv, TypeOK
  <2>3. KnownInv'
    BY <1>2, <1>3, <2>1 DEF TableInv, KnownInv, TypeOK
  <2>4. HeardInv'
    BY <1>2, <2>1 DEF TableInv, HeardInv
  <2> QED BY <2>2, <2>3, <2>4 DEF TableInv
<1> QED BY <1>4, <1>5

\* An accepted ping resets the entry and the silence of its sender, which holds
\* the token and presents the entry's id.
LEMMA Pinging ==
  ASSUME TableInv, CheckedInv', NEW p \in Trusted, table' = Pinged(Id[p]),
         quiet' = [quiet EXCEPT ![p] = 0],
         conn' \in [Procs -> Conns], UNCHANGED faults,
         \/ p \in streams /\ UNCHANGED <<streams, strays>>
         \/ /\ streams' = streams \cup {p}
            /\ strays' = IF table[Id[p]] = NoEntry THEN strays \cup {p} ELSE strays \ {p}
  PROVE  TableInv'
<1> USE ReapAfterNat
<1>1. /\ p \in Procs /\ Id[p] \in Ids /\ quiet' \in [Procs -> 0..Keepalive]
      /\ quiet'[p] = 0 /\ \A q \in Procs : q # p => quiet'[q] = quiet[q]
      /\ streams' \subseteq Procs /\ strays' \subseteq streams'
  BY DEF TableInv, TypeOK
<1>2. \A j \in Ids : \/ table'[j] = table[j] /\ (j = Id[p] => table[j] = NoEntry)
                     \/ /\ j = Id[p] /\ table[j] # NoEntry /\ table'[j] \in Entries
                        /\ table'[j].ep = table[j].ep /\ table'[j].age = 0
  <2> SUFFICES ASSUME NEW j \in Ids, j = Id[p], table[j] # NoEntry
               PROVE  /\ table'[j] \in Entries
                      /\ table'[j].ep = table[j].ep /\ table'[j].age = 0
    BY DEF TableInv, TypeOK, Pinged
  <2>1. table[j] \in Entries /\ table'[j] = [table[j] EXCEPT !.age = 0]
    BY DEF TableInv, TypeOK, Pinged, Refreshed
  <2> QED BY <2>1 DEF Entries
<1>3. table' \in [Ids -> Entries \cup {NoEntry}]
  <2>1. table' = [j \in Ids |-> table'[j]]
    BY DEF Pinged, TableInv, TypeOK
  <2>2. \A j \in Ids : table'[j] \in Entries \cup {NoEntry}
    BY <1>2 DEF TableInv, TypeOK
  <2> QED BY <2>1, <2>2
<1>4. TypeOK'
  BY <1>1, <1>3 DEF TableInv, TypeOK
<1>5. KnownInv'
  <2> SUFFICES ASSUME NEW q \in streams' \cap Trusted
               PROVE  /\ quiet'[q] <= Keepalive
                      /\ q \notin strays' => table'[Id[q]] # NoEntry
                      /\ table'[Id[q]] # NoEntry => table'[Id[q]].age <= quiet'[q]
    BY DEF KnownInv
  <2>1. q \in Procs /\ Id[q] \in Ids
    BY <1>1
  <2>2. CASE q = p
    <3>1. quiet'[q] = 0
      BY <1>1, <2>2
    <3>2. q \notin strays' => table[Id[q]] # NoEntry
      BY <2>2 DEF TableInv, KnownInv
    <3> QED BY <1>2, <2>1, <2>2, <3>1, <3>2
  <2>3. CASE q # p
    <3>1. q \in streams /\ quiet'[q] = quiet[q] /\ quiet[q] \in Nat /\ (q \in strays <=> q \in strays')
      BY <1>1, <2>1, <2>3 DEF TableInv, TypeOK
    <3>2. /\ quiet[q] <= Keepalive
          /\ q \notin strays => table[Id[q]] # NoEntry
          /\ table[Id[q]] # NoEntry => table[Id[q]].age <= quiet[q]
      BY <3>1 DEF TableInv, KnownInv
    <3> QED BY <1>2, <2>1, <3>1, <3>2
  <2> QED BY <2>2, <2>3
<1>6. ASSUME NEW j \in Ids, table'[j] # NoEntry
      PROVE  /\ Id[table'[j].ep] = j
             /\ \E q \in Trusted : Id[q] = j /\ quiet'[q] <= table'[j].age
  <2>1. table[j] # NoEntry /\ table[j] \in Entries /\ table'[j].ep = table[j].ep
    BY <1>2, <1>6 DEF TableInv, TypeOK
  <2>2. Id[table[j].ep] = j
    BY <2>1 DEF TableInv, HeardInv
  <2>3. CASE j = Id[p]
    <3>1. table'[j].age = 0 /\ quiet'[p] <= 0
      BY <1>1, <1>2, <2>1, <2>3
    <3> QED BY <2>1, <2>2, <2>3, <3>1
  <2>4. CASE j # Id[p]
    <3>1. table'[j] = table[j]
      BY <1>2, <2>4
    <3>2. PICK q \in Trusted : Id[q] = j /\ quiet[q] <= table[j].age
      BY <2>1 DEF TableInv, HeardInv
    <3>3. quiet'[q] = quiet[q]
      BY <1>1, <2>4, <3>2
    <3> QED BY <2>1, <2>2, <3>1, <3>2, <3>3
  <2> QED BY <2>3, <2>4
<1>7. HeardInv'
  BY <1>6 DEF HeardInv
<1> QED BY <1>4, <1>5, <1>7 DEF TableInv

\* Time passes for entries and processes alike.
LEMMA Ticking == ASSUME TableInv, CheckedInv', Tick PROVE TableInv'
<1> USE ReapAfterNat
<1>1. /\ \A n \in 0..ReapAfter : Older(n, ReapAfter) \in 0..ReapAfter
      /\ \A n \in 0..Keepalive : Older(n, Keepalive) \in 0..Keepalive
  BY DEF Older
<1>2. /\ \A m \in 0..Keepalive, n \in 0..ReapAfter :
            m <= n => Older(m, Keepalive) <= Older(n, ReapAfter)
      /\ \A m \in 0..ReapAfter, n \in 0..Keepalive :
            m <= n /\ n < Keepalive => Older(m, ReapAfter) <= Older(n, Keepalive)
  BY DEF Older
<1>3. \A p \in Procs : quiet[p] \in 0..Keepalive /\ quiet'[p] = Older(quiet[p], Keepalive)
  BY DEF Tick, TableInv, TypeOK
<1>4. ASSUME NEW i \in Ids
      PROVE  /\ table[i] = NoEntry => table'[i] = NoEntry
             /\ table[i] # NoEntry => /\ table[i] \in Entries
                                      /\ table'[i] \in Entries
                                      /\ table'[i].ep = table[i].ep
                                      /\ table'[i].age = Older(table[i].age, ReapAfter)
  <2>1. table[i] # NoEntry => table[i] \in Entries /\ table[i].age \in 0..ReapAfter
    BY DEF TableInv, TypeOK, Entries
  <2>2. table'[i] = IF table[i] = NoEntry THEN NoEntry
                    ELSE [table[i] EXCEPT !.age = Older(table[i].age, ReapAfter)]
    BY DEF Tick
  <2> QED BY <1>1, <2>1, <2>2 DEF Entries
<1>5. table' \in [Ids -> Entries \cup {NoEntry}]
  <2>1. table' = [i \in Ids |-> table'[i]]
    BY DEF Tick
  <2>2. \A i \in Ids : table'[i] \in Entries \cup {NoEntry}
    BY <1>4
  <2> QED BY <2>1, <2>2
<1>6. quiet' \in [Procs -> 0..Keepalive]
  BY <1>1, <1>3 DEF Tick
<1>7. TypeOK'
  BY <1>5, <1>6 DEF Tick, TableInv, TypeOK
<1>8. KnownInv'
  <2> SUFFICES ASSUME NEW p \in streams \cap Trusted
               PROVE  /\ quiet'[p] <= Keepalive
                      /\ p \notin strays => table'[Id[p]] # NoEntry
                      /\ table'[Id[p]] # NoEntry => table'[Id[p]].age <= quiet'[p]
    BY DEF Tick, KnownInv
  <2>1. /\ p \in Procs /\ p \in Trusted /\ Id[p] \in Ids /\ quiet[p] < Keepalive
        /\ p \notin strays => table[Id[p]] # NoEntry
        /\ table[Id[p]] # NoEntry => table[Id[p]].age <= quiet[p]
    BY DEF TableInv, TypeOK, KnownInv, Tick
  <2>2. quiet[p] \in 0..Keepalive /\ quiet'[p] <= Keepalive
    BY <1>1, <1>3, <2>1
  <2>3. CASE table[Id[p]] = NoEntry
    BY <1>4, <2>1, <2>2, <2>3
  <2>4. CASE table[Id[p]] # NoEntry
    <3>1. table[Id[p]].age \in 0..ReapAfter /\ table'[Id[p]].age = Older(table[Id[p]].age, ReapAfter)
      BY <1>4, <2>1, <2>4 DEF Entries
    <3>2. table'[Id[p]] # NoEntry
      BY <1>4, <2>1, <2>4
    <3> QED BY <1>2, <1>3, <2>1, <2>2, <2>4, <3>1, <3>2
  <2> QED BY <2>3, <2>4
<1>9. HeardInv'
  <2> SUFFICES ASSUME NEW i \in Ids, table'[i] # NoEntry
               PROVE  /\ Id[table'[i].ep] = i
                      /\ \E p \in Trusted : Id[p] = i /\ quiet'[p] <= table'[i].age
    BY DEF HeardInv
  <2>1. table[i] # NoEntry /\ table[i] \in Entries /\ table'[i].ep = table[i].ep
    BY <1>4
  <2>2. table[i].age \in 0..ReapAfter
    BY <2>1 DEF Entries
  <2>3. table'[i].age = Older(table[i].age, ReapAfter)
    BY <1>4, <2>1
  <2>4. PICK p \in Trusted : Id[p] = i /\ quiet[p] <= table[i].age
    BY <2>1 DEF TableInv, HeardInv
  <2>5. quiet'[p] <= table'[i].age
    BY <1>2, <1>3, <2>2, <2>3, <2>4
  <2>6. Id[table[i].ep] = i
    BY <2>1 DEF TableInv, HeardInv
  <2> QED BY <2>1, <2>4, <2>5, <2>6
<1> QED BY <1>7, <1>8, <1>9 DEF TableInv

LEMMA NextTable == ASSUME TableInv, [Next]_vars PROVE TableInv'
<1> USE ReapAfterNat
<1>0. CheckedInv'
  BY DEF TableInv, TypeOK, CheckedInv, Next, Worker, register, RegisterLost, DialFails, Retry,
     heartbeat, HeartbeatFails, StrangerHeartbeat, on_ping, CloseStream, Break, PongsClosed, AfterClose, Leave,
     AgentRestart, Tick, vars, Accepted, check
<1>1. ASSUME NEW p \in Procs, Worker(p) PROVE TableInv'
  <2>1. CASE Retry(p) \/ CloseStream(p) \/ PongsClosed(p) \/ Leave(p)
    BY <2>1, <1>0, Quietly DEF Retry, CloseStream, PongsClosed, Leave, TableInv, TypeOK,
       Conns, AfterClose
  <2>2. CASE DialFails(p) \/ HeartbeatFails(p) \/ Break(p)
    BY <2>2, <1>0, Quietly DEF DialFails, HeartbeatFails, Break, Fault, TableInv, TypeOK, Conns
  <2>3. CASE register(p)
    <3>1. conn' \in [Procs -> Conns] /\ faults' \in 0..MaxFaults
      BY <2>3 DEF register, TableInv, TypeOK, Conns
    <3> QED BY <2>3, <3>1, <1>0, Registering DEF register
  <2>4. CASE RegisterLost(p)
    <3>1. conn' \in [Procs -> Conns] /\ faults' \in 0..MaxFaults
      BY <2>4 DEF RegisterLost, Fault, TableInv, TypeOK, Conns
    <3> QED BY <2>4, <3>1, <1>0, Registering DEF RegisterLost
  <2>5. CASE heartbeat(p)
    <3>1. conn' \in [Procs -> Conns] /\ p \in Trusted
      BY <2>5 DEF heartbeat, TableInv, TypeOK, Conns, CheckedInv
    <3> QED BY <2>5, <3>1, <1>0, Pinging DEF heartbeat
  <2>6. CASE on_ping(p) /\ ping_check(p)
    <3>1. conn' \in [Procs -> Conns] /\ p \in Trusted
      BY <2>6 DEF on_ping, ping_check, TableInv, TypeOK
    <3> QED BY <2>6, <3>1, <1>0, Pinging DEF on_ping
  <2>7. CASE on_ping(p) /\ ~ping_check(p)
    BY <2>7, <1>0, Quietly DEF on_ping, TableInv, TypeOK
  <2>8. CASE StrangerHeartbeat(p)
    BY <2>8, <1>0, Quietly DEF StrangerHeartbeat, TableInv, TypeOK
  <2> QED BY <1>1, <2>1, <2>2, <2>3, <2>4, <2>5, <2>6, <2>7, <2>8 DEF Worker
<1>2. CASE AgentRestart
  BY <1>0, <1>2 DEF AgentRestart, Fault, TableInv, TypeOK, KnownInv, HeardInv
<1>3. CASE Tick
  BY <1>0, <1>3, Ticking
<1>4. CASE UNCHANGED vars
  BY <1>0, <1>4 DEF vars, TableInv, TypeOK, KnownInv, HeardInv
<1> QED BY <1>1, <1>2, <1>3, <1>4 DEF Next

\* The worker table's invariant: an identity pinged on an open stream is known,
\* and entries are filed under their owner's id.
THEOREM TableInvariant == Spec => []TableInv
<1> QED BY InitTable, NextTable, PTL DEF Spec

\* An id is live only while a process that presents it and holds the cluster
\* token was heard from within the dead timeout: pings without the token, which
\* the heartbeat handler checks one by one, keep nobody alive.
THEOREM SilentWorkersAgeOut == Spec => []AgesOut
<1>1. TableInv => AgesOut
  <2> SUFFICES ASSUME TableInv, NEW i \in Ids, is_live(i)
               PROVE  \E p \in Trusted : Id[p] = i /\ quiet[p] < DeadTimeout
    BY DEF AgesOut
  <2>1. table[i] # NoEntry /\ table[i].age \in Nat /\ table[i].age < DeadTimeout
    BY ReapAfterNat DEF TableInv, TypeOK, is_live, Entries
  <2>2. PICK p \in Trusted : Id[p] = i /\ quiet[p] <= table[i].age
    BY <2>1 DEF TableInv, HeardInv
  <2>3. quiet[p] \in Nat
    BY <2>2 DEF TableInv, TypeOK
  <2> QED BY <2>1, <2>2, <2>3
<1> QED BY <1>1, TableInvariant, PTL

\* A live entry keeps its endpoint until the agent restarts.
THEOREM LiveOwnersKept == Spec => OwnersKept
<1>1. ASSUME TableInv, [Next]_vars, ~UNCHANGED vars, NEW i \in Ids, is_live(i)
      PROVE  \/ table'[i] # NoEntry /\ table'[i].ep = table[i].ep
             \/ faults' > faults /\ table' = [j \in Ids |-> NoEntry]
  <2>1. /\ table[i] # NoEntry /\ table[i] \in Entries /\ table[i].age \in Nat
        /\ table[i].age < DeadTimeout /\ table[i].age < ReapAfter
    BY <1>1, ReapAfterNat DEF is_live, TableInv, TypeOK, Entries
  <2>2. CASE table' = table
    BY <2>1, <2>2
  <2>3. ASSUME NEW p \in Procs, upsert_register(p) PROVE table'[i] # NoEntry /\ table'[i].ep = table[i].ep
    <3>1. Reaped[i] = table[i]
      BY <2>1, ReapAfterNat DEF Reaped, Reaps
    <3>2. Reaped = [j \in Ids |-> Reaped[j]] /\ Id[p] \in Ids
      BY DEF Reaped
    <3>3. CASE ~Owned(p) /\ check(p) /\ i = Id[p]
      <4>1. table[i].ep = p
        BY <2>1, <3>1, <3>3 DEF Owned
      <4>2. table'[i] = [ep |-> p, age |-> 0]
        BY <2>3, <3>2, <3>3 DEF upsert_register
      <4>3. [ep |-> p, age |-> 0] \in Entries
        BY ReapAfterNat DEF Entries
      <4> QED BY <4>1, <4>2, <4>3
    <3>4. CASE ~(~Owned(p) /\ check(p) /\ i = Id[p])
      <4>1. table'[i] = table[i]
        BY <2>3, <3>1, <3>2, <3>4 DEF upsert_register
      <4> QED BY <2>1, <4>1
    <3> QED BY <3>3, <3>4
  <2>4. ASSUME NEW j, table' = Pinged(j) PROVE table'[i] # NoEntry /\ table'[i].ep = table[i].ep
    <3>1. [table[i] EXCEPT !.age = 0] \in Entries /\ [table[i] EXCEPT !.age = 0].ep = table[i].ep
      BY <2>1, ReapAfterNat DEF Entries
    <3>2. table'[i] = table[i] \/ table'[i] = [table[i] EXCEPT !.age = 0]
      BY <1>1, <2>4 DEF Pinged, Refreshed, TableInv, TypeOK
    <3> QED BY <2>1, <3>1, <3>2
  <2>5. CASE Tick
    <3>1. table'[i] = [table[i] EXCEPT !.age = Older(table[i].age, ReapAfter)]
      BY <2>1, <2>5 DEF Tick
    <3>2. Older(table[i].age, ReapAfter) \in 0..ReapAfter
      BY <2>1, ReapAfterNat DEF Older
    <3>3. table'[i] \in Entries /\ table'[i].ep = table[i].ep
      BY <2>1, <3>1, <3>2 DEF Entries
    <3> QED BY <3>3
  <2>6. CASE AgentRestart
    BY <1>1, <2>6 DEF AgentRestart, Fault, TableInv, TypeOK
  <2> QED BY <1>1, <2>2, <2>3, <2>4, <2>5, <2>6
      DEF Next, Worker, register, RegisterLost, DialFails, Retry, heartbeat, HeartbeatFails,
          StrangerHeartbeat, on_ping, CloseStream, Break, PongsClosed, Leave, vars
<1>2. TableInv /\ [Next]_vars => [\A i \in Ids : OwnerKept(i)]_vars
  BY <1>1 DEF OwnerKept
<1> QED BY <1>2, TableInvariant, PTL DEF Spec, OwnersKept
=============================================================================
