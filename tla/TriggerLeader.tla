---------------------------- MODULE TriggerLeader ----------------------------
(***************************************************************************)
(* Which replica runs the webhook and file-watch triggers.  A single row   *)
(* of tb_trigger_leader is the lease.  Every replica tries to get it when  *)
(* it starts (TriggerRegistry.load_from_db) and then at every heartbeat    *)
(* (start_heartbeat); it loads the triggers when it becomes the leader and *)
(* unloads them when a heartbeat tells it that it no longer is.            *)
(* TriggerLeaderElection.acquire_or_renew reads the row and writes it in   *)
(* one transaction, but the read locks nothing and the UPDATE repeats no   *)
(* condition, so two replicas interleave between the two.                  *)
(***************************************************************************)
EXTENDS Integers

CONSTANTS
  Replicas,    \* worker processes with a trigger registry
  NoOne,       \* the lease row does not exist yet
  Ttl,         \* ttl_seconds, in ticks
  Interval,    \* the heartbeat interval, in ticks
  MaxCrashes,  \* bound on replicas that end
  MaxPauses,   \* bound on replicas that stall (a blocked event loop)
  MaxFaults    \* bound on database errors

ASSUME LeaseAssumption ==
  /\ Ttl \in Nat /\ Interval \in Nat \ {0}
  /\ Interval <= Ttl
  /\ MaxCrashes \in Nat /\ MaxPauses \in Nat /\ MaxFaults \in Nat
  /\ NoOne \notin Replicas

VARIABLES
  lease,    \* its holder, and how long until it expires; -1 once it has
  pc,       \* where each replica is
  ask,      \* the statement a replica is about to send
  age,      \* ticks since it began to sleep, or since it read the row
  was,      \* was_leader of the heartbeat loop
  loaded,   \* whether its webhook and file-watch triggers run
  paused,   \* replicas that stall
  crashes, pauses, faults

replica == <<pc, ask, age, was, loaded>>
bounds  == <<crashes, pauses, faults>>
vars    == <<lease, replica, paused, bounds>>

\* "boot": load_from_db; "probe": start_heartbeat's first is_leader.
Labels == {"down", "boot", "bootWrite", "probe", "asleep", "beatWrite"}
Booting(r) == pc[r] \in {"boot", "bootWrite"}
Writing(r) == pc[r] \in {"bootWrite", "beatWrite"}

Init ==
  /\ lease = [holder |-> NoOne, left |-> -1]
  /\ pc = [r \in Replicas |-> "down"]
  /\ ask = [r \in Replicas |-> "update"]
  /\ age = [r \in Replicas |-> 0]
  /\ was = [r \in Replicas |-> FALSE]
  /\ loaded = [r \in Replicas |-> FALSE]
  /\ paused = {}
  /\ crashes = 0 /\ pauses = 0 /\ faults = 0

Expired == lease.left < 0

\* Mutant: the row is inserted or updated, whatever is there.
ConflictNever(r) == FALSE

\* The row was missing when it was read, and is there now: the INSERT fails.
Conflict(r) == ask[r] = "insert" /\ lease.holder # NoOne

\* is_leader.
Leads(r) == lease.holder = r /\ ~ Expired

-----------------------------------------------------------------------------
(* The election, and what a replica makes of it.                           *)

\* Due: it is time to call acquire_or_renew.
Due(r) == pc[r] = "boot" \/ (pc[r] = "asleep" /\ age[r] >= Interval)

Asleep(r) ==
  /\ pc' = [pc EXCEPT ![r] = "asleep"]
  /\ age' = [age EXCEPT ![r] = 0]

\* load_from_db makes of the answer what it loads.
Booted(r, won) ==
  /\ loaded' = [loaded EXCEPT ![r] = won]
  /\ pc' = [pc EXCEPT ![r] = "probe"]
  /\ age' = [age EXCEPT ![r] = 0]
  /\ UNCHANGED was

\* Mutant: the loop remembers that it lost the lease and unloads nothing.
BeatenKeeps(r, won) ==
  /\ loaded' = [loaded EXCEPT ![r] = @ \/ won]
  /\ was' = [was EXCEPT ![r] = won \/ loaded[r]]
  /\ Asleep(r)

\* A heartbeat loads or unloads if the answer is not that of the one before.
Beaten(r, won) ==
  /\ loaded' = [loaded EXCEPT ![r] = IF won = was[r] THEN @ ELSE won]
  /\ was' = [was EXCEPT ![r] = won]
  /\ Asleep(r)

Elected(r, won) ==
  /\ IF Booting(r) THEN Booted(r, won) ELSE Beaten(r, won)
  /\ UNCHANGED ask

\* Mutant: the holder's name decides, an expired lease stays with its holder.
WantedByHolder(r) ==
  IF lease.holder = NoOne THEN "insert"
  ELSE IF lease.holder = r THEN "update" ELSE "none"

\* acquire_or_renew's decision on the row as it was read: "none" if another
\* replica holds the lease.
Wanted(r) ==
  IF lease.holder = NoOne THEN "insert"
  ELSE IF lease.holder = r \/ Expired THEN "update" ELSE "none"

\* The row is read; a replica that may have the lease goes on to write it.
Read(r) ==
  /\ r \notin paused
  /\ Due(r)
  /\ IF Wanted(r) = "none" THEN Elected(r, FALSE)
     ELSE /\ ask' = [ask EXCEPT ![r] = Wanted(r)]
          /\ age' = [age EXCEPT ![r] = 0]
          /\ pc' = [pc EXCEPT ![r] = IF @ = "boot" THEN "bootWrite" ELSE "beatWrite"]
          /\ UNCHANGED <<was, loaded>>
  /\ UNCHANGED <<lease, paused, bounds>>

\* Mutant: the lease is extended from its old expiry.
TakenOnTop(r) == [holder |-> r, left |-> lease.left + Ttl - age[r]]

\* The UPDATE or INSERT, and the commit: whoever holds the lease by now, it is
\* r's.  The new expiry counts from the time of the read.
Taken(r) == [holder |-> r, left |-> Ttl - age[r]]

Write(r) ==
  /\ r \notin paused
  /\ Writing(r)
  /\ lease' = IF Conflict(r) THEN lease ELSE Taken(r)
  /\ Elected(r, ~ Conflict(r))
  /\ UNCHANGED <<paused, bounds>>

\* start_heartbeat asks once more who leads, before its first sleep.
Probe(r) ==
  /\ r \notin paused
  /\ pc[r] = "probe"
  /\ was' = [was EXCEPT ![r] = Leads(r)]
  /\ Asleep(r)
  /\ UNCHANGED <<lease, ask, loaded, paused, bounds>>

\* A database error in an election counts as "not the leader"; one at the commit
\* may come after the row was written.  A boot that could not list the triggers
\* takes the lease all the same, and loads nothing either.
ElectionFault(r) ==
  /\ Due(r) \/ Writing(r)
  /\ \/ UNCHANGED lease
     \/ Writing(r) /\ ~ Conflict(r) /\ lease' = Taken(r)
  /\ Elected(r, FALSE)

ProbeFault(r) ==
  /\ pc[r] = "probe"
  /\ was' = [was EXCEPT ![r] = FALSE]
  /\ Asleep(r)
  /\ UNCHANGED <<lease, ask, loaded>>

\* list_enabled fails when a heartbeat that got the lease reloads: it answers
\* with no rows, nothing is loaded, and the loop takes that for done.
ReloadFault(r) ==
  /\ pc[r] = "beatWrite" /\ ~ was[r] /\ ~ Conflict(r)
  /\ lease' = Taken(r)
  /\ was' = [was EXCEPT ![r] = TRUE]
  /\ Asleep(r)
  /\ UNCHANGED <<ask, loaded>>

Fault(r) ==
  /\ faults < MaxFaults
  /\ r \notin paused
  /\ faults' = faults + 1
  /\ ElectionFault(r) \/ ProbeFault(r) \/ ReloadFault(r)
  /\ UNCHANGED <<paused, crashes, pauses>>

-----------------------------------------------------------------------------
(* Processes and time.                                                     *)

Start(r) ==
  /\ pc[r] = "down"
  /\ pc' = [pc EXCEPT ![r] = "boot"]
  /\ UNCHANGED <<lease, ask, age, was, loaded, paused, bounds>>

\* A replica ends, by a crash or a shutdown: neither gives the lease back.
Crash(r) ==
  /\ crashes < MaxCrashes
  /\ pc[r] # "down"
  /\ crashes' = crashes + 1
  /\ pc' = [pc EXCEPT ![r] = "down"]
  /\ age' = [age EXCEPT ![r] = 0]
  /\ was' = [was EXCEPT ![r] = FALSE]
  /\ loaded' = [loaded EXCEPT ![r] = FALSE]
  /\ paused' = paused \ {r}
  /\ UNCHANGED <<lease, ask, pauses, faults>>

Pause(r) ==
  /\ pauses < MaxPauses
  /\ pc[r] # "down"
  /\ r \notin paused
  /\ pauses' = pauses + 1
  /\ paused' = paused \cup {r}
  /\ UNCHANGED <<lease, replica, crashes, faults>>

Resume(r) ==
  /\ r \in paused
  /\ paused' = paused \ {r}
  /\ UNCHANGED <<lease, replica, bounds>>

\* A replica that does not stall is done with an election, and with a boot,
\* before the next tick, and does not oversleep.
Punctual(r) == pc[r] = "down" \/ (pc[r] = "asleep" /\ age[r] < Interval)

Older(r) ==
  LET limit == IF Writing(r) THEN Ttl + 1 ELSE Interval
  IN  IF age[r] >= limit THEN age[r] ELSE age[r] + 1

Tick ==
  /\ \A r \in Replicas \ paused : Punctual(r)
  /\ lease' = IF Expired THEN lease ELSE [lease EXCEPT !.left = @ - 1]
  /\ age' = [r \in Replicas |-> Older(r)]
  /\ UNCHANGED <<pc, ask, was, loaded, paused, bounds>>

Elects(r) == Read(r) \/ Write(r) \/ Probe(r)

Next ==
  \/ \E r \in Replicas :
       Elects(r) \/ Fault(r) \/ Start(r) \/ Crash(r) \/ Pause(r) \/ Resume(r)
  \/ Tick

\* The database answers, asyncio runs the heartbeat when its sleep is over, a
\* replica that stalls goes on, and time passes.  Nobody has to start a replica.
Fairness ==
  /\ WF_vars(Tick)
  /\ \A r \in Replicas : WF_vars(Elects(r)) /\ WF_vars(Resume(r))

Spec == Init /\ [][Next]_vars /\ Fairness

-----------------------------------------------------------------------------
(* Properties.                                                             *)

TypeOK ==
  /\ lease \in [holder : Replicas \cup {NoOne}, left : -1..Ttl]
  /\ pc \in [Replicas -> Labels]
  /\ ask \in [Replicas -> {"insert", "update"}]
  /\ age \in [Replicas -> 0..Ttl + 1]
  /\ was \in [Replicas -> BOOLEAN]
  /\ loaded \in [Replicas -> BOOLEAN]
  /\ paused \in SUBSET Replicas
  /\ crashes \in 0..MaxCrashes /\ pauses \in 0..MaxPauses /\ faults \in 0..MaxFaults

Untroubled == crashes = 0 /\ pauses = 0 /\ faults = 0

\* As long as no replica ends or stalls and the database answers, a webhook or
\* a file change is handled by one replica at most, although the election is
\* a read and an unconditional write (acquire_or_renew).
Exclusive ==
  Untroubled => \A r, s \in Replicas : loaded[r] /\ loaded[s] => r = s

OneRuns == \A r, s \in Replicas : loaded[r] /\ loaded[s] => r = s

\* A replica between two heartbeats runs the triggers if and only if its loop
\* takes it for the leader: what the loop compares with is what is loaded.
Known == \A r \in Replicas : pc[r] = "asleep" => was[r] = loaded[r]

\* Heartbeats repair a double election: if the loops know what is loaded, then
\* whatever ends, stalls or fails, in the end one replica at most runs the
\* triggers, the others having unloaded them (start_heartbeat).
Converges == []Known => <>[]OneRuns

\* Failover: if the loops know what is loaded and some replica stays up, in the
\* end some replica runs the triggers for good.
Served ==
  ([]Known /\ \E r \in Replicas : <>[](pc[r] # "down"))
    => <>[](\E r \in Replicas : loaded[r])

\* What README.md:103 says of leader election: the triggers run on the leader
\* only.  A take-over may overlap for a heartbeat, but not for ever.
OnlyLeaderRuns == <>[]OneRuns
=============================================================================
