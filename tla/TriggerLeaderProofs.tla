------------------------ MODULE TriggerLeaderProofs ------------------------
(***************************************************************************)
(* Theorems about TriggerLeader, for any number of replicas, any lease     *)
(* time and any heartbeat interval that is not longer.                     *)
(***************************************************************************)
EXTENDS TriggerLeader, TLAPS

\* The replica that holds the lease: its heartbeat comes before the expiry, and
\* its loop knows that it leads.
Leading(r) ==
  /\ pc[r] \in {"probe", "asleep", "beatWrite"}
  /\ lease.left >= 0
  /\ pc[r] = "probe" => age[r] = 0
  /\ pc[r] \in {"probe", "asleep"} => lease.left >= Ttl - age[r]
  /\ pc[r] = "asleep" => was[r]
  /\ pc[r] = "beatWrite" => ask[r] = "update" /\ age[r] = 0

\* Every other replica: it runs nothing, and may only try the first INSERT.
Following(r) ==
  /\ ~ loaded[r]
  /\ pc[r] # "beatWrite"
  /\ pc[r] = "asleep" => ~ was[r]
  /\ pc[r] = "bootWrite" => ask[r] = "insert" /\ age[r] = 0
  /\ pc[r] \in {"probe", "asleep"} => lease.holder # NoOne

Calm ==
  /\ paused = {}
  /\ \A r \in Replicas : IF lease.holder = r THEN Leading(r) ELSE Following(r)

Inductive == TypeOK /\ (Untroubled => Calm)

-----------------------------------------------------------------------------
(* Types.                                                                  *)

LEMMA InitType == Init => TypeOK
BY LeaseAssumption DEF Init, TypeOK, Labels

LEMMA ElectedType ==
  ASSUME TypeOK, NEW r \in Replicas, NEW won \in BOOLEAN, Elected(r, won)
  PROVE  /\ pc' \in [Replicas -> Labels]
         /\ ask' \in [Replicas -> {"insert", "update"}]
         /\ age' \in [Replicas -> 0..Ttl + 1]
         /\ was' \in [Replicas -> BOOLEAN]
         /\ loaded' \in [Replicas -> BOOLEAN]
BY LeaseAssumption
   DEF TypeOK, Elected, Booted, Beaten, Booting, Asleep, Labels

LEMMA TakenType ==
  ASSUME TypeOK, NEW r \in Replicas
  PROVE  Taken(r) \in [holder : Replicas \cup {NoOne}, left : -1..Ttl]
BY LeaseAssumption DEF TypeOK, Taken

LEMMA NextType == TypeOK /\ [Next]_vars => TypeOK'
<1> SUFFICES ASSUME TypeOK, [Next]_vars PROVE TypeOK'
  OBVIOUS
<1> USE LeaseAssumption
<1>1. ASSUME NEW r \in Replicas, Read(r) PROVE TypeOK'
  <2>1. CASE Wanted(r) = "none"
    BY <1>1, <2>1, ElectedType DEF Read, TypeOK, bounds
  <2>2. CASE Wanted(r) # "none"
    BY <1>1, <2>2 DEF Read, TypeOK, bounds, Wanted, Labels
  <2> QED BY <2>1, <2>2
<1>2. ASSUME NEW r \in Replicas, Write(r) PROVE TypeOK'
  BY <1>2, ElectedType, TakenType DEF Write, TypeOK, bounds, Conflict
<1>3. ASSUME NEW r \in Replicas, Probe(r) PROVE TypeOK'
  BY <1>3 DEF Probe, Asleep, TypeOK, bounds, Leads, Expired, Labels
<1>4. ASSUME NEW r \in Replicas, Fault(r) PROVE TypeOK'
  <2>1. /\ faults' \in 0..MaxFaults
        /\ UNCHANGED <<paused, crashes, pauses>>
    BY <1>4 DEF Fault, TypeOK
  <2>2. CASE ElectionFault(r)
    BY <2>1, <2>2, ElectedType, TakenType DEF ElectionFault, TypeOK
  <2>3. CASE ProbeFault(r)
    BY <2>1, <2>3 DEF ProbeFault, Asleep, TypeOK, Labels
  <2>4. CASE ReloadFault(r)
    BY <2>1, <2>4, TakenType DEF ReloadFault, Asleep, TypeOK, Labels
  <2> QED BY <1>4, <2>2, <2>3, <2>4 DEF Fault
<1>5. ASSUME NEW r \in Replicas, Start(r) PROVE TypeOK'
  BY <1>5 DEF Start, TypeOK, bounds, Labels
<1>6. ASSUME NEW r \in Replicas, Crash(r) PROVE TypeOK'
  BY <1>6 DEF Crash, TypeOK, Labels
<1>7. ASSUME NEW r \in Replicas, Pause(r) \/ Resume(r) PROVE TypeOK'
  BY <1>7 DEF Pause, Resume, TypeOK, replica, bounds
<1>8. CASE Tick
  <2>1. \A r \in Replicas : Older(r) \in 0..Ttl + 1
    BY DEF TypeOK, Older, Writing
  <2>2. lease' \in [holder : Replicas \cup {NoOne}, left : -1..Ttl]
    BY <1>8 DEF Tick, TypeOK, Expired
  <2> QED BY <1>8, <2>1, <2>2 DEF Tick, TypeOK, bounds
<1>9. CASE UNCHANGED vars
  BY <1>9 DEF vars, replica, bounds, TypeOK
<1> QED BY <1>1, <1>2, <1>3, <1>4, <1>5, <1>6, <1>7, <1>8, <1>9
        DEF Next, Elects

\* Every state of the election has the types of the lease, the replicas'
\* places and the bounds, for every value of the constants.
THEOREM TypeCorrect == Spec => []TypeOK
<1>1. Init => TypeOK
  BY InitType
<1>2. TypeOK /\ [Next]_vars => TypeOK'
  BY NextType
<1> QED BY <1>1, <1>2, PTL DEF Spec

-----------------------------------------------------------------------------
(* The lease while no replica is troubled.                                 *)

LEMMA InitInductive == Init => Inductive
BY InitType, LeaseAssumption DEF Init, Inductive, Calm, Following, Untroubled

\* The lease of an untroubled leader has not expired when somebody asks.
LEMMA NotExpired ==
  ASSUME TypeOK, Calm, lease.holder # NoOne
  PROVE  ~ Expired
<1>1. lease.holder \in Replicas /\ lease.left \in Int
  BY LeaseAssumption DEF TypeOK
<1>2. Leading(lease.holder)
  BY <1>1 DEF Calm
<1> QED BY <1>1, <1>2 DEF Leading, Expired

LEMMA ReadCalm ==
  ASSUME TypeOK, Calm, NEW r \in Replicas, Read(r)
  PROVE  Calm'
<1> USE LeaseAssumption
<1>0. /\ lease' = lease /\ paused' = {}
      /\ Due(r) /\ pc[r] \in {"boot", "asleep"}
  BY DEF Read, Calm, Due
<1>1. ASSUME NEW s \in Replicas, s # r
      PROVE  /\ pc'[s] = pc[s] /\ ask'[s] = ask[s] /\ age'[s] = age[s]
             /\ was'[s] = was[s] /\ loaded'[s] = loaded[s]
  BY <1>1 DEF Read, Elected, Booted, Beaten, Asleep, TypeOK
<1>2. IF lease.holder = r THEN Leading(r)' ELSE Following(r)'
  <2>1. CASE lease.holder = r
    <3>1. Wanted(r) = "update" /\ Leading(r) /\ pc[r] = "asleep"
      BY <1>0, <2>1 DEF Wanted, Calm, Leading
    <3> QED BY <1>0, <2>1, <3>1 DEF Read, Leading, TypeOK
  <2>2. CASE lease.holder = NoOne
    <3>1. Wanted(r) = "insert" /\ Following(r) /\ pc[r] = "boot"
      BY <1>0, <2>2 DEF Wanted, Calm, Following
    <3> QED BY <1>0, <2>2, <3>1 DEF Read, Following, TypeOK
  <2>3. CASE lease.holder # r /\ lease.holder # NoOne
    <3>1. Wanted(r) = "none" /\ Following(r)
      BY <2>3, NotExpired DEF Wanted, Calm
    <3>2. Elected(r, FALSE)
      BY <3>1 DEF Read
    <3> QED BY <1>0, <2>3, <3>1, <3>2
            DEF Elected, Booted, Beaten, Booting, Asleep, Following, TypeOK
  <2> QED BY <2>1, <2>2, <2>3
<1> QED BY <1>0, <1>1, <1>2 DEF Calm, Leading, Following

LEMMA WriteCalm ==
  ASSUME TypeOK, Calm, NEW r \in Replicas, Write(r)
  PROVE  Calm'
<1> USE LeaseAssumption
<1>0. /\ paused' = {}
      /\ Elected(r, ~ Conflict(r))
      /\ pc[r] \in {"bootWrite", "beatWrite"}
  BY DEF Write, Calm, Writing
<1>1. ASSUME NEW s \in Replicas, s # r
      PROVE  /\ pc'[s] = pc[s] /\ ask'[s] = ask[s] /\ age'[s] = age[s]
             /\ was'[s] = was[s] /\ loaded'[s] = loaded[s]
  BY <1>0, <1>1 DEF Elected, Booted, Beaten, Asleep, TypeOK
<1>2. CASE Conflict(r)
  <2>1. /\ lease' = lease /\ lease.holder # NoOne /\ lease.holder # r
        /\ Following(r) /\ pc[r] = "bootWrite"
    BY <1>0, <1>2 DEF Write, Conflict, Calm, Leading, Following
  <2>2. Following(r)'
    BY <1>0, <1>2, <2>1 DEF Elected, Booted, Booting, Following, TypeOK
  <2> QED BY <1>0, <1>1, <2>1, <2>2 DEF Calm, Leading, Following
<1>3. CASE ~ Conflict(r)
  <2>1. lease.holder = r \/ lease.holder = NoOne
    BY <1>0, <1>3 DEF Conflict, Calm, Following
  <2>2. age[r] = 0
    BY <1>0, <2>1 DEF Calm, Leading, Following
  <2>3. lease' = [holder |-> r, left |-> Ttl]
    BY <1>3, <2>2 DEF Write, Taken
  <2>4. Leading(r)'
    <3>1. CASE pc[r] = "bootWrite"
      BY <1>0, <1>3, <2>3, <3>1 DEF Elected, Booted, Booting, Leading, TypeOK
    <3>2. CASE pc[r] = "beatWrite"
      <4>1. Beaten(r, TRUE)
        BY <1>0, <1>3, <3>2 DEF Elected, Booting
      <4>2. pc'[r] = "asleep" /\ age'[r] = 0 /\ was'[r]
        BY <4>1 DEF Beaten, Asleep, TypeOK
      <4> QED BY <2>3, <4>2 DEF Leading
    <3> QED BY <1>0, <3>1, <3>2
  <2>5. ASSUME NEW s \in Replicas, s # r PROVE Following(s)'
    BY <1>1, <2>1, <2>3, <2>5 DEF Calm, Following
  <2> QED BY <1>0, <2>3, <2>4, <2>5 DEF Calm
<1> QED BY <1>2, <1>3

LEMMA ProbeCalm ==
  ASSUME TypeOK, Calm, NEW r \in Replicas, Probe(r)
  PROVE  Calm'
<1> USE LeaseAssumption
<1>0. lease' = lease /\ paused' = {} /\ ask' = ask /\ loaded' = loaded
  BY DEF Probe, Calm
<1>1. ASSUME NEW s \in Replicas, s # r
      PROVE  pc'[s] = pc[s] /\ age'[s] = age[s] /\ was'[s] = was[s]
  BY <1>1 DEF Probe, Asleep, TypeOK
<1>2. pc'[r] = "asleep" /\ age'[r] = 0 /\ was'[r] = Leads(r)
  BY DEF Probe, Asleep, TypeOK
<1>3. CASE lease.holder = r
  <2>1. Leads(r) /\ Leading(r)
    BY <1>3, NotExpired DEF Leads, Calm
  <2>2. Leading(r)'
    BY <1>0, <1>2, <2>1 DEF Leading, Probe
  <2> QED BY <1>0, <1>1, <1>3, <2>2 DEF Calm, Leading, Following
<1>4. CASE lease.holder # r
  <2>1. ~ Leads(r) /\ Following(r) /\ pc[r] = "probe"
    BY <1>4 DEF Leads, Calm, Probe
  <2>2. Following(r)'
    BY <1>0, <1>2, <2>1 DEF Following
  <2> QED BY <1>0, <1>1, <1>4, <2>2 DEF Calm, Leading, Following
<1> QED BY <1>3, <1>4

LEMMA StartCalm ==
  ASSUME TypeOK, Calm, NEW r \in Replicas, Start(r)
  PROVE  Calm'
BY DEF TypeOK, Calm, Start, Leading, Following, bounds

\* Time passes only when every replica sleeps, the leader's heartbeat ahead.
LEMMA TickCalm ==
  ASSUME TypeOK, Calm, Tick
  PROVE  Calm'
<1> USE LeaseAssumption
<1>1. /\ paused' = {} /\ pc' = pc /\ ask' = ask /\ was' = was /\ loaded' = loaded
      /\ \A r \in Replicas : Punctual(r) /\ age'[r] = Older(r)
      /\ lease'.holder = lease.holder
  BY DEF Tick, Calm, Expired, TypeOK
<1>2. ASSUME NEW r \in Replicas, lease.holder = r PROVE Leading(r)'
  <2>1. Leading(r) /\ pc[r] = "asleep" /\ age[r] < Interval
    BY <1>1, <1>2 DEF Calm, Leading, Punctual
  <2>2. age'[r] = age[r] + 1 /\ age[r] \in Nat
    BY <1>1, <2>1 DEF Older, Writing, TypeOK
  <2>3. lease'.left = lease.left - 1 /\ lease.left \in Int
    BY <2>1 DEF Tick, Leading, Expired, TypeOK
  <2> QED BY <1>1, <2>1, <2>2, <2>3 DEF Leading
<1>3. ASSUME NEW r \in Replicas, lease.holder # r PROVE Following(r)'
  BY <1>1, <1>3 DEF Calm, Following, Punctual
<1> QED BY <1>1, <1>2, <1>3 DEF Calm

LEMMA NextInductive == Inductive /\ [Next]_vars => Inductive'
<1> SUFFICES ASSUME Inductive, [Next]_vars, Untroubled' PROVE Calm'
  BY NextType DEF Inductive
<1>1. TypeOK
  BY DEF Inductive
<1>2. ASSUME NEW r \in Replicas PROVE ~ Fault(r) /\ ~ Crash(r) /\ ~ Pause(r)
  BY <1>1 DEF Fault, Crash, Pause, Untroubled, TypeOK
<1>3. ASSUME NEW r \in Replicas, Elects(r) \/ Start(r) PROVE Calm'
  <2>1. Calm
    BY <1>3 DEF Elects, Read, Write, Probe, Start, bounds, Untroubled, Inductive
  <2> QED BY <1>1, <1>3, <2>1, ReadCalm, WriteCalm, ProbeCalm, StartCalm DEF Elects
<1>4. ASSUME NEW r \in Replicas, Resume(r) PROVE Calm'
  BY <1>4 DEF Resume, bounds, Untroubled, Inductive, Calm
<1>5. CASE Tick
  BY <1>1, <1>5, TickCalm DEF Tick, bounds, Untroubled, Inductive
<1>6. CASE UNCHANGED vars
  BY <1>6 DEF vars, replica, bounds, Untroubled, Inductive, Calm, Leading, Following
<1> QED BY <1>2, <1>3, <1>4, <1>5, <1>6 DEF Next

\* On a new database, until a replica ends or stalls or the database fails, at
\* most one replica runs the webhook and file-watch triggers, whatever the
\* number of replicas and however their elections interleave: the leader's
\* heartbeat always comes before its lease expires, so no other replica gets
\* further than a read, and of two first INSERTs one fails.
THEOREM OneLeader == Spec => []Exclusive
<1>1. Inductive => Exclusive
  BY DEF Inductive, Calm, Following, Exclusive
<1> QED BY <1>1, InitInductive, NextInductive, PTL DEF Spec
=============================================================================
