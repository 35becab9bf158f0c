---------------------------- MODULE DispatchProofs ----------------------------
(***************************************************************************)
(* Theorems about Dispatch, for any number of workers and runs of each     *)
(* kind, any assignment of messages to sessions, and any quota.            *)
(***************************************************************************)
EXTENDS Dispatch, FiniteSetTheorems, TLAPS

\* What the steps of the kinds are, and where answers are.
Places ==
  /\ \A r \in Tools : step[r] \notin {"checked", "run", "offered", "advance"}
  /\ \A r \in executed : step[r] = "over"
  /\ \A r \in Dispatches : record[r] = "completed" => step[r] = "over"

\* A dispatch that offers a review can be answered.
Offered == \A r \in Dispatches : step[r] = "offered" => queue[home[r]][Key(r)] = r

\* An answer that is in a queue is the one that was accepted; a queue without
\* one has not had any.
Boxed ==
  /\ \A r \in Runs \ Chats : box[r] # None => told[r] = box[r]
  /\ \A r \in Runs \ Chats, w \in Workers, k \in Keys :
       queue[w][k] = r /\ box[r] = None => told[r] = None

Inductive == TypeOK /\ QueuesWaited /\ VerdictHolds /\ Places /\ Offered /\ Boxed

-----------------------------------------------------------------------------
LEMMA Kinds ==
  /\ Dispatches \cap Chats = {} /\ Dispatches \cap Tools = {} /\ Chats \cap Tools = {}
  /\ None \notin Runs /\ None \notin Workers /\ None \notin Answers /\ None \notin Statuses
  /\ \A r \in Runs : Key(r) \in Keys
  /\ \A r \in Runs \ Chats, s \in Runs : Key(s) = Key(r) => s = r
  /\ \A r \in Runs : r \in Dispatches \/ r \in Chats \/ r \in Tools
BY DispatchAssumption DEF Runs, Dispatches, Key, Keys

LEMMA NoneNoAnswer == TypeOK => \A r \in Runs : box[r] # None => box[r] \in Answers
BY DEF TypeOK

LEMMA InitInductive == Init => Inductive
<1> SUFFICES ASSUME Init PROVE Inductive
  OBVIOUS
<1>1. TypeOK
  <2>1. \A r \in Runs : step[r] = "new" <=> home[r] = None
    BY DEF Init
  <2>2. \A r \in Runs : round[r] = 1
    BY DEF Init
  <2> QED BY <2>1, Zenon DEF Init, TypeOK, Steps, Ended
<1>2. QueuesWaited
  <2>1. \A r \in Runs : step[r] # "waiting"
    BY DEF Init
  <2>2. \A w \in Workers, k \in Keys : queue[w][k] = None
    BY DEF Init
  <2> QED BY <2>1, <2>2 DEF QueuesWaited
<1>3. Places
  <2>1. \A r \in Dispatches : record[r] # "completed"
    BY Kinds DEF Init, Statuses
  <2>2. \A r \in Tools : step[r] = "new"
    BY DEF Init, Runs
  <2> QED BY <2>1, <2>2 DEF Init, Places
<1>4. Offered
  BY DEF Init, Offered, Runs
<1>5. Boxed
  <2>1. \A r \in Runs \ Chats : box[r] = None /\ told[r] = None
    BY DEF Init
  <2> QED BY <2>1 DEF Boxed
<1>6. VerdictHolds
  <2>1. \A r \in Runs : step[r] = "new"
    BY DEF Init
  <2> QED BY <2>1, Kinds DEF Init, VerdictHolds, Runs, Statuses
<1> QED BY <1>1, <1>2, <1>3, <1>4, <1>5, <1>6 DEF Inductive

-----------------------------------------------------------------------------
(* Types.                                                                  *)

\* What register does to the registry of the run's worker.
LEMMA RegisterQueue ==
  ASSUME TypeOK, NEW r \in Runs, home[r] \in Workers, Registered(r)
  PROVE  /\ queue' \in [Workers -> [Keys -> Runs \cup {None}]]
         /\ \A w \in Workers, k \in Keys :
              queue'[w][k] = IF w = home[r] /\ k = Key(r) THEN r ELSE queue[w][k]
         /\ box' \in [Runs -> Answers \cup {None}]
         /\ told' \in [Runs \ Chats -> Answers \cup {None}]
         /\ box'[r] = None
         /\ \A s \in Runs \ {r} : box'[s] = box[s]
         /\ \A s \in Runs \ Chats : told'[s] = IF s = r THEN None ELSE told[s]
<1>1. Key(r) \in Keys
  BY Kinds
<1>2. queue \in [Workers -> [Keys -> Runs \cup {None}]]
  BY DEF TypeOK
<1>3. queue' = [queue EXCEPT ![home[r]] = [queue[home[r]] EXCEPT ![Key(r)] = r]]
  BY <1>2 DEF Registered
<1>4. [queue[home[r]] EXCEPT ![Key(r)] = r] \in [Keys -> Runs \cup {None}]
  BY <1>1, <1>2
<1>5. queue' \in [Workers -> [Keys -> Runs \cup {None}]]
  BY <1>2, <1>3, <1>4
<1>6. ASSUME NEW w \in Workers, NEW k \in Keys
      PROVE  queue'[w][k] = IF w = home[r] /\ k = Key(r) THEN r ELSE queue[w][k]
  BY <1>1, <1>2, <1>3
<1>7. /\ box' \in [Runs -> Answers \cup {None}]
      /\ box'[r] = None
      /\ \A s \in Runs \ {r} : box'[s] = box[s]
  BY DEF Registered, TypeOK
<1>8. /\ told' \in [Runs \ Chats -> Answers \cup {None}]
      /\ \A s \in Runs \ Chats : told'[s] = IF s = r THEN None ELSE told[s]
  BY DEF Registered, TypeOK
<1> QED BY <1>5, <1>6, <1>7, <1>8

LEMMA RemoveQueue ==
  ASSUME TypeOK, NEW r \in Runs, home[r] \in Workers, Removed(r)
  PROVE  /\ queue' \in [Workers -> [Keys -> Runs \cup {None}]]
         /\ \A w \in Workers, k \in Keys :
              queue'[w][k] = IF w = home[r] /\ k = Key(r) THEN None ELSE queue[w][k]
<1>1. Key(r) \in Keys
  BY Kinds
<1>2. queue \in [Workers -> [Keys -> Runs \cup {None}]]
  BY DEF TypeOK
<1>3. queue' = [queue EXCEPT ![home[r]] = [queue[home[r]] EXCEPT ![Key(r)] = None]]
  BY <1>2 DEF Removed
<1>4. [queue[home[r]] EXCEPT ![Key(r)] = None] \in [Keys -> Runs \cup {None}]
  BY <1>1, <1>2
<1>5. queue' \in [Workers -> [Keys -> Runs \cup {None}]]
  BY <1>2, <1>3, <1>4
<1>6. ASSUME NEW w \in Workers, NEW k \in Keys
      PROVE  queue'[w][k] = IF w = home[r] /\ k = Key(r) THEN None ELSE queue[w][k]
  BY <1>1, <1>2, <1>3
<1> QED BY <1>5, <1>6

\* Where a run is.
LEMMA AtHome == ASSUME TypeOK, NEW r \in Runs, step[r] # "new" PROVE home[r] \in Workers
BY DEF TypeOK

LEMMA GoesStep ==
  ASSUME TypeOK, NEW r \in Runs, NEW s \in Steps, Goes(r, s)
  PROVE  /\ step' \in [Runs -> Steps]
         /\ step'[r] = s
         /\ \A q \in Runs \ {r} : step'[q] = step[q]
BY DEF TypeOK, Goes

\* A run that has started stays where it is.
LEMMA GoesHome ==
  ASSUME TypeOK, NEW r \in Runs, step[r] # "new", NEW s \in Steps \ {"new"}, Goes(r, s), UNCHANGED home
  PROVE  /\ step' \in [Runs -> Steps]
         /\ home' \in [Runs -> Workers \cup {None}]
         /\ \A q \in Runs : step'[q] = "new" <=> home'[q] = None
<1>1. step' \in [Runs -> Steps] /\ step'[r] = s /\ \A q \in Runs \ {r} : step'[q] = step[q]
  BY GoesStep
<1>2. ASSUME NEW q \in Runs PROVE step'[q] = "new" <=> home'[q] = None
  <2>1. CASE q = r
    BY <1>1, <2>1 DEF TypeOK
  <2>2. CASE q # r
    BY <1>1, <2>2 DEF TypeOK
  <2> QED BY <2>1, <2>2
<1> QED BY <1>1, <1>2 DEF TypeOK

LEMMA NextType == TypeOK /\ Boxed /\ [Next]_vars => TypeOK'
<1> SUFFICES ASSUME TypeOK, Boxed, [Next]_vars PROVE TypeOK'
  OBVIOUS
<1> USE DEF Steps, Ended, Fault
<1>1. ASSUME NEW r \in Runs, NEW w \in Workers, Arrive(r, w) PROVE TypeOK'
  <2>1. PICK s \in {"admitted", "refused", "checked"} : Goes(r, s)
    BY <1>1 DEF Arrive
  <2>2. step' \in [Runs -> Steps] /\ step'[r] = s /\ \A q \in Runs \ {r} : step'[q] = step[q]
    BY <2>1, GoesStep
  <2>3. home' \in [Runs -> Workers \cup {None}] /\ home'[r] = w /\ \A q \in Runs \ {r} : home'[q] = home[q]
    BY <1>1 DEF Arrive, TypeOK
  <2>4. \A q \in Runs : step'[q] = "new" <=> home'[q] = None
    BY <2>2, <2>3, Kinds DEF TypeOK
  <2> QED BY <1>1, <2>2, <2>3, <2>4 DEF Arrive, TypeOK
<1>2. ASSUME NEW r \in Runs, Deduct(r) PROVE TypeOK'
  <2>1. step[r] # "new" /\ Goes(r, "admitted") /\ UNCHANGED home
    BY <1>2 DEF Deduct
  <2>2. /\ step' \in [Runs -> Steps] /\ home' \in [Runs -> Workers \cup {None}]
        /\ \A q \in Runs : step'[q] = "new" <=> home'[q] = None
    BY <2>1, GoesHome
  <2> QED BY <1>2, <2>2 DEF Deduct, TypeOK
<1>3. ASSUME NEW r \in Runs, Begin(r) \/ Offer(r) \/ Await(r) PROVE TypeOK'
  <2>1. step[r] # "new" /\ UNCHANGED <<home, used, executed, round>>
    BY <1>3 DEF Begin, Offer, Await
  <2>2. PICK s \in {"run", "over", "waiting", "offered", "advance"} : Goes(r, s)
    BY <1>3 DEF Begin, Offer, Await
  <2>3. /\ step' \in [Runs -> Steps] /\ home' \in [Runs -> Workers \cup {None}]
        /\ \A q \in Runs : step'[q] = "new" <=> home'[q] = None
    BY <2>1, <2>2, GoesHome
  <2>4. home[r] \in Workers
    BY <2>1, AtHome
  <2>5. /\ queue' \in [Workers -> [Keys -> Runs \cup {None}]]
        /\ box' \in [Runs -> Answers \cup {None}]
        /\ told' \in [Runs \ Chats -> Answers \cup {None}]
    <3>1. CASE Registered(r)
      BY <2>4, <3>1, RegisterQueue
    <3>2. CASE UNCHANGED <<queue, box, told>>
      BY <3>2 DEF TypeOK
    <3> QED BY <1>3, <3>1, <3>2 DEF Begin, Offer, Await
  <2>6. record' \in [Dispatches -> Statuses \cup {None}] /\ faults' \in Nat
    BY <1>3 DEF Begin, Offer, Await, TypeOK, Statuses
  <2> QED BY <2>1, <2>3, <2>5, <2>6 DEF TypeOK
<1>4. ASSUME NEW r \in Runs, Abandon(r) PROVE TypeOK'
  <2>1. step[r] # "new" /\ Goes(r, "abandoned") /\ UNCHANGED home
    BY <1>4 DEF Abandon
  <2>2. /\ step' \in [Runs -> Steps] /\ home' \in [Runs -> Workers \cup {None}]
        /\ \A q \in Runs : step'[q] = "new" <=> home'[q] = None
    BY <2>1, GoesHome
  <2> QED BY <1>4, <2>2 DEF Abandon, TypeOK
<1>5. ASSUME NEW r \in Runs, Take(r) \/ Expire(r) \/ Cancel(r) PROVE TypeOK'
  <2>1. step[r] # "new" /\ UNCHANGED <<home, used, round, record, told>>
    BY <1>5 DEF Take, Expire, Cancel
  <2>2. PICK s \in {"over", "advance", "expired", "left"} : Goes(r, s)
    BY <1>5 DEF Take, Expire, Cancel, Reviewed
  <2>3. /\ step' \in [Runs -> Steps] /\ home' \in [Runs -> Workers \cup {None}]
        /\ \A q \in Runs : step'[q] = "new" <=> home'[q] = None
    BY <2>1, <2>2, GoesHome
  <2>4. home[r] \in Workers
    BY <2>1, AtHome
  <2>5. queue' \in [Workers -> [Keys -> Runs \cup {None}]]
    <3>1. CASE Removed(r)
      BY <2>4, <3>1, RemoveQueue
    <3>2. CASE UNCHANGED queue
      BY <3>2 DEF TypeOK
    <3> QED BY <1>5, <3>1, <3>2 DEF Take, Expire, Cancel
  <2>6. box' \in [Runs -> Answers \cup {None}] /\ faults' \in Nat
    BY <1>5 DEF Take, Expire, Cancel, TypeOK
  <2>7. executed' \subseteq Tools
    BY <1>5 DEF Take, Expire, Cancel, Reviewed, TypeOK
  <2> QED BY <2>1, <2>3, <2>5, <2>6, <2>7 DEF TypeOK
<1>6. ASSUME NEW r \in Runs, Again(r) \/ Complete(r) \/ Fail(r) PROVE TypeOK'
  <2>1. step[r] # "new" /\ UNCHANGED <<home, used, queue, box, told, executed>>
    BY <1>6 DEF Again, Complete, Fail
  <2>2. PICK s \in {"run", "over"} : Goes(r, s)
    BY <1>6 DEF Again, Complete, Fail
  <2>3. /\ step' \in [Runs -> Steps] /\ home' \in [Runs -> Workers \cup {None}]
        /\ \A q \in Runs : step'[q] = "new" <=> home'[q] = None
    BY <2>1, <2>2, GoesHome
  <2>4. record' \in [Dispatches -> Statuses \cup {None}]
    BY <1>6 DEF Again, Complete, Fail, TypeOK, Statuses
  <2>5. round' \in [Runs -> Nat] /\ faults' \in Nat
    BY <1>6 DEF Again, Complete, Fail, TypeOK
  <2> QED BY <2>1, <2>3, <2>4, <2>5 DEF TypeOK
<1>7. ASSUME NEW w \in Workers, Kill(w) PROVE TypeOK'
  <2>1. step' \in [Runs -> Steps] /\ UNCHANGED <<home, used, round, record, told, executed>> /\ faults' \in Nat
    BY <1>7 DEF Kill, TypeOK
  <2>2. \A q \in Runs : step'[q] = "new" <=> home'[q] = None
    BY <1>7, Kinds DEF Kill, TypeOK
  <2>3. /\ queue' \in [Workers -> [Keys -> Runs \cup {None}]]
        /\ box' \in [Runs -> Answers \cup {None}]
    BY <1>7 DEF Kill, TypeOK
  <2> QED BY <2>1, <2>2, <2>3 DEF TypeOK
<1>8. ASSUME NEW w \in Workers, NEW k \in Keys, NEW a \in Answers, Answer(w, k, a) PROVE TypeOK'
  <2> DEFINE r == queue[w][k]
  <2>1. r \in Runs /\ box[r] = None /\ box' = [box EXCEPT ![r] = a]
    BY <1>8 DEF Answer, TypeOK
  <2>2. told' \in [Runs \ Chats -> Answers \cup {None}]
    <3>1. CASE r \in Chats
      BY <1>8, <3>1 DEF Answer, TypeOK
    <3>2. CASE r \notin Chats
      <4>1. told[r] = None
        BY <2>1, <3>2 DEF Boxed
      <4> QED BY <1>8, <2>1, <3>2, <4>1 DEF Answer, TypeOK
    <3> QED BY <3>1, <3>2
  <2> QED BY <1>8, <2>1, <2>2 DEF Answer, TypeOK
<1>9. CASE UNCHANGED vars
  BY <1>9 DEF vars, TypeOK
<1> QED BY <1>1, <1>2, <1>3, <1>4, <1>5, <1>6, <1>7, <1>8, <1>9 DEF Next, Run

-----------------------------------------------------------------------------
(* A run that takes a step leaves the others as they are.                  *)

LEMMA Others ==
  ASSUME TypeOK, NEW r \in Runs, Run(r), NEW s \in Runs \ {r}
  PROVE  /\ step'[s] = step[s] /\ home'[s] = home[s] /\ box'[s] = box[s]
         /\ s \notin Chats => told'[s] = told[s]
         /\ s \in Dispatches => record'[s] = record[s]
         /\ s \in executed' <=> s \in executed
<1>1. step'[s] = step[s]
  BY DEF TypeOK, Run, Arrive, Deduct, Begin, Offer, Await, Abandon, Take, Expire, Again, Complete, Fail, Cancel, Goes, Reviewed
<1>2. home'[s] = home[s]
  BY DEF TypeOK, Run, Arrive, Deduct, Begin, Offer, Await, Abandon, Take, Expire, Again, Complete, Fail, Cancel
<1>3. box'[s] = box[s]
  BY DEF TypeOK, Run, Arrive, Deduct, Begin, Offer, Await, Abandon, Take, Expire, Again, Complete, Fail, Cancel, Registered
<1>4. s \notin Chats => told'[s] = told[s]
  BY DEF TypeOK, Run, Arrive, Deduct, Begin, Offer, Await, Abandon, Take, Expire, Again, Complete, Fail, Cancel, Registered
<1>5. s \in Dispatches => record'[s] = record[s]
  BY DEF TypeOK, Run, Arrive, Deduct, Begin, Offer, Await, Abandon, Take, Expire, Again, Complete, Fail, Cancel
<1>6. s \in executed' <=> s \in executed
  BY DEF TypeOK, Run, Arrive, Deduct, Begin, Offer, Await, Abandon, Take, Expire, Again, Complete, Fail, Cancel, Reviewed
<1> QED BY <1>1, <1>2, <1>3, <1>4, <1>5, <1>6

\* A run whose queue may be in a registry.
Queued(r) == step[r] = "waiting" \/ (r \in Dispatches /\ step[r] \in {"offered", "abandoned"})

\* What QueuesWaited says of an entry of a registry, and of a run.
Entry(w, k) ==
  queue[w][k] # None => home[queue[w][k]] = w /\ Key(queue[w][k]) = k /\ Queued(queue[w][k])

Reached(r) ==
  step[r] = "waiting" /\ (\A s \in Runs \ {r} : Key(s) = Key(r) => home[s] # home[r])
    => queue[home[r]][Key(r)] = r

LEMMA PartsNext ==
  QueuesWaited' <=> (\A w \in Workers, k \in Keys : Entry(w, k)') /\ (\A r \in Runs : Reached(r)')
BY DEF QueuesWaited, Entry, Reached, Queued

LEMMA InQueue ==
  ASSUME QueuesWaited, NEW w \in Workers, NEW k \in Keys, NEW r \in Runs, queue[w][k] = r
  PROVE  home[r] = w /\ Key(r) = k /\ Queued(r)
BY Kinds DEF QueuesWaited, Queued

-----------------------------------------------------------------------------
(* The registries.                                                         *)

\* A step of a run that is not in a registry and does not get there.
LEMMA QueueSame ==
  ASSUME TypeOK, QueuesWaited, Offered, NEW r \in Runs, Run(r), UNCHANGED queue,
         ~Queued(r), ~Queued(r)', step[r] = "new" \/ UNCHANGED home
  PROVE  QueuesWaited' /\ Offered'
<1>1. \A s \in Runs \ {r} : step'[s] = step[s] /\ home'[s] = home[s]
  BY Others
<1>2. ASSUME NEW w \in Workers, NEW k \in Keys
      PROVE  Entry(w, k)'
  <2> SUFFICES ASSUME queue[w][k] # None PROVE Entry(w, k)'
    BY DEF Entry
  <2>1. PICK s \in Runs : queue[w][k] = s
    BY DEF TypeOK
  <2>2. home[s] = w /\ Key(s) = k /\ Queued(s)
    BY <2>1, InQueue
  <2>3. home'[s] = w /\ Queued(s)'
    BY <1>1, <2>2 DEF Queued
  <2> QED BY <2>1, <2>2, <2>3 DEF Entry, Queued
<1>3. ASSUME NEW s \in Runs PROVE Reached(s)'
  <2> SUFFICES ASSUME step'[s] = "waiting",
                      \A q \in Runs \ {s} : Key(q) = Key(s) => home'[q] # home'[s]
               PROVE  queue'[home'[s]][Key(s)] = s
    BY DEF Reached
  <2>1. s # r
    BY DEF Queued
  <2>2. step[s] = "waiting" /\ home[s] = home'[s]
    BY <1>1, <2>1
  <2>3. home[s] \in Workers
    BY <2>2, AtHome
  <2>4. \A q \in Runs \ {s} : Key(q) = Key(s) => home[q] # home[s]
    BY <1>1, <2>2, <2>3, Kinds DEF TypeOK
  <2> QED BY <2>2, <2>4 DEF QueuesWaited
<1>4. Offered'
  <2> SUFFICES ASSUME NEW s \in Dispatches, step'[s] = "offered"
               PROVE  queue'[home'[s]][Key(s)] = s
    BY DEF Offered
  <2>1. s \in Runs /\ s # r
    BY DEF Runs, Queued
  <2> QED BY <1>1, <2>1 DEF Offered
<1> QED BY <1>2, <1>3, <1>4, PartsNext

\* A run registers.
LEMMA QueueRegistered ==
  ASSUME TypeOK, QueuesWaited, Offered, NEW r \in Runs, Run(r), Registered(r), home[r] \in Workers,
         ~Queued(r), Queued(r)', UNCHANGED home
  PROVE  QueuesWaited' /\ Offered'
<1>1. \A s \in Runs \ {r} : step'[s] = step[s]
  BY Others
<1>2. \A w \in Workers, k \in Keys :
        queue'[w][k] = IF w = home[r] /\ k = Key(r) THEN r ELSE queue[w][k]
  BY RegisterQueue
<1>3. ASSUME NEW w \in Workers, NEW k \in Keys
      PROVE  Entry(w, k)'
  <2> SUFFICES ASSUME queue'[w][k] # None PROVE Entry(w, k)'
    BY DEF Entry
  <2>1. CASE w = home[r] /\ k = Key(r)
    <3>1. queue'[w][k] = r /\ home'[r] = w
      BY <1>2, <2>1
    <3> QED BY <2>1, <3>1 DEF Entry, Queued
  <2>2. CASE ~(w = home[r] /\ k = Key(r))
    <3>1. PICK s \in Runs : queue'[w][k] = s /\ queue[w][k] = s
      BY <1>2, <2>2 DEF TypeOK
    <3>2. home[s] = w /\ Key(s) = k /\ Queued(s)
      BY <3>1, InQueue
    <3>3. home'[s] = w /\ Queued(s)'
      BY <1>1, <3>2 DEF Queued
    <3> QED BY <3>1, <3>2, <3>3 DEF Entry, Queued
  <2> QED BY <2>1, <2>2
<1>4. ASSUME NEW s \in Runs PROVE Reached(s)'
  <2> SUFFICES ASSUME step'[s] = "waiting",
                      \A q \in Runs \ {s} : Key(q) = Key(s) => home'[q] # home'[s]
               PROVE  queue'[home'[s]][Key(s)] = s
    BY DEF Reached
  <2>1. CASE s = r
    BY <1>2, <2>1, Kinds
  <2>2. CASE s # r
    <3>1. step[s] = "waiting" /\ home[s] \in Workers
      BY <1>1, <2>2, AtHome
    <3>2. queue[home[s]][Key(s)] = s
      BY <3>1 DEF QueuesWaited
    <3>3. ~(home[s] = home[r] /\ Key(s) = Key(r))
      BY <2>2
    <3> QED BY <1>2, <3>1, <3>2, <3>3, Kinds
  <2> QED BY <2>1, <2>2
<1>5. Offered'
  <2> SUFFICES ASSUME NEW s \in Dispatches, step'[s] = "offered"
               PROVE  queue'[home'[s]][Key(s)] = s
    BY DEF Offered
  <2>1. s \in Runs \ Chats
    BY Kinds DEF Runs
  <2>2. CASE s = r
    BY <1>2, <2>2, Kinds
  <2>3. CASE s # r
    <3>1. step[s] = "offered" /\ home[s] \in Workers
      BY <1>1, <2>1, <2>3, AtHome
    <3>2. Key(s) # Key(r)
      BY <2>1, <2>3, Kinds
    <3> QED BY <1>2, <2>1, <3>1, <3>2, Kinds DEF Offered
  <2> QED BY <2>2, <2>3
<1> QED BY <1>3, <1>4, <1>5, PartsNext

\* A run that waited ends its wait.
LEMMA QueueRemoved ==
  ASSUME TypeOK, QueuesWaited, Offered, NEW r \in Runs, Run(r), Removed(r), home[r] \in Workers,
         ~Queued(r)', UNCHANGED home
  PROVE  /\ QueuesWaited' /\ Offered'
         /\ \A w \in Workers, k \in Keys : queue'[w][k] # r
<1>1. \A s \in Runs \ {r} : step'[s] = step[s]
  BY Others
<1>2. \A w \in Workers, k \in Keys :
        queue'[w][k] = IF w = home[r] /\ k = Key(r) THEN None ELSE queue[w][k]
  BY RemoveQueue
<1>3. ASSUME NEW w \in Workers, NEW k \in Keys PROVE queue'[w][k] # r
  <2>1. r # None
    BY Kinds
  <2> QED BY <1>2, <2>1, InQueue
<1>4. ASSUME NEW w \in Workers, NEW k \in Keys
      PROVE  Entry(w, k)'
  <2> SUFFICES ASSUME queue'[w][k] # None PROVE Entry(w, k)'
    BY DEF Entry
  <2>1. PICK s \in Runs : queue'[w][k] = s /\ queue[w][k] = s
    BY <1>2 DEF TypeOK
  <2>2. home[s] = w /\ Key(s) = k /\ Queued(s)
    BY <2>1, InQueue
  <2>3. home'[s] = w /\ Queued(s)'
    BY <1>1, <1>3, <2>1, <2>2 DEF Queued
  <2> QED BY <2>1, <2>2, <2>3 DEF Entry, Queued
<1>5. ASSUME NEW s \in Runs PROVE Reached(s)'
  <2> SUFFICES ASSUME step'[s] = "waiting",
                      \A q \in Runs \ {s} : Key(q) = Key(s) => home'[q] # home'[s]
               PROVE  queue'[home'[s]][Key(s)] = s
    BY DEF Reached
  <2>1. s # r
    BY DEF Queued
  <2>2. step[s] = "waiting" /\ home[s] \in Workers
    BY <1>1, <2>1, AtHome
  <2>3. queue[home[s]][Key(s)] = s
    BY <2>2 DEF QueuesWaited
  <2>4. ~(home[s] = home[r] /\ Key(s) = Key(r))
    BY <2>1
  <2> QED BY <1>2, <2>2, <2>3, <2>4, Kinds
<1>6. Offered'
  <2> SUFFICES ASSUME NEW s \in Dispatches, step'[s] = "offered"
               PROVE  queue'[home'[s]][Key(s)] = s
    BY DEF Offered
  <2>1. s \in Runs \ Chats /\ s # r
    BY Kinds DEF Runs, Queued
  <2>2. step[s] = "offered" /\ home[s] \in Workers
    BY <1>1, <2>1, AtHome
  <2>3. Key(s) # Key(r)
    BY <2>1, Kinds
  <2> QED BY <1>2, <2>1, <2>2, <2>3, Kinds DEF Offered
<1> QED BY <1>3, <1>4, <1>5, <1>6, PartsNext

LEMMA NextQueues == TypeOK /\ QueuesWaited /\ Offered /\ [Next]_vars => QueuesWaited' /\ Offered'
<1> SUFFICES ASSUME TypeOK, QueuesWaited, Offered, [Next]_vars PROVE QueuesWaited' /\ Offered'
  OBVIOUS
<1>1. ASSUME NEW r \in Runs, \E w \in Workers : Arrive(r, w) PROVE QueuesWaited' /\ Offered'
  <2>1. UNCHANGED queue /\ step[r] = "new" /\ step'[r] \in {"admitted", "refused", "checked"}
    BY <1>1 DEF Arrive, Goes, TypeOK
  <2> QED BY <1>1, <2>1, QueueSame DEF Queued, Run
<1>2. ASSUME NEW r \in Runs, Deduct(r) PROVE QueuesWaited' /\ Offered'
  <2>1. UNCHANGED <<queue, home>> /\ step[r] = "checked" /\ step'[r] = "admitted"
    BY <1>2 DEF Deduct, Goes, TypeOK
  <2> QED BY <1>2, <2>1, QueueSame DEF Queued, Run
<1>3. ASSUME NEW r \in Runs, Begin(r) PROVE QueuesWaited' /\ Offered'
  <2>1. UNCHANGED home /\ step[r] = "admitted" /\ home[r] \in Workers
    BY <1>3, AtHome DEF Begin
  <2>2. \/ UNCHANGED queue /\ step'[r] \in {"run", "over"}
        \/ Registered(r) /\ step'[r] = "waiting"
    BY <1>3 DEF Begin, Goes, TypeOK
  <2> QED BY <1>3, <2>1, <2>2, QueueSame, QueueRegistered DEF Queued, Run
<1>4. ASSUME NEW r \in Runs, Offer(r) PROVE QueuesWaited' /\ Offered'
  <2>1. UNCHANGED home /\ step[r] = "run" /\ home[r] \in Workers
    BY <1>4, AtHome DEF Offer
  <2>2. \/ UNCHANGED queue /\ r \notin Dispatches /\ step'[r] \in {"offered", "advance"}
        \/ Registered(r) /\ step'[r] = "offered" /\ r \in Dispatches
    BY <1>4, Kinds DEF Offer, Goes, TypeOK
  <2> QED BY <1>4, <2>1, <2>2, QueueSame, QueueRegistered DEF Queued, Run
<1>5. ASSUME NEW r \in Runs, Await(r) PROVE QueuesWaited' /\ Offered'
  <2>1. UNCHANGED home /\ step[r] = "offered" /\ home[r] \in Workers /\ step'[r] = "waiting"
    BY <1>5, AtHome DEF Await, Goes, TypeOK
  <2>2. CASE r \in Chats
    <3>1. r \notin Dispatches /\ Registered(r)
      BY <1>5, <2>2, Kinds DEF Await, Dispatches
    <3> QED BY <1>5, <2>1, <3>1, QueueRegistered DEF Queued, Run
  <2>3. CASE r \notin Chats
    <3>1. r \in Dispatches /\ UNCHANGED queue
      BY <1>5, <2>3 DEF Await, Dispatches
    <3>2. queue[home[r]][Key(r)] = r
      BY <2>1, <3>1 DEF Offered
    <3>3. \A s \in Runs \ {r} : step'[s] = step[s]
      BY <1>5, Others DEF Run
    <3>4. ASSUME NEW w \in Workers, NEW k \in Keys PROVE Entry(w, k)'
      <4> SUFFICES ASSUME queue[w][k] # None PROVE Entry(w, k)'
        BY <3>1 DEF Entry
      <4>1. PICK s \in Runs : queue[w][k] = s
        BY DEF TypeOK
      <4>2. home[s] = w /\ Key(s) = k /\ Queued(s)
        BY <4>1, InQueue
      <4>3. home'[s] = w /\ Queued(s)'
        BY <2>1, <3>3, <4>2 DEF Queued
      <4> QED BY <3>1, <4>1, <4>2, <4>3 DEF Entry, Queued
    <3>5. ASSUME NEW s \in Runs PROVE Reached(s)'
      BY <2>1, <3>1, <3>2, <3>3 DEF Reached, QueuesWaited
    <3>6. Offered'
      BY <2>1, <3>1, <3>2, <3>3 DEF Offered, Runs
    <3> QED BY <3>4, <3>5, <3>6, PartsNext
  <2> QED BY <2>2, <2>3
<1>6. ASSUME NEW r \in Runs, Abandon(r) PROVE QueuesWaited' /\ Offered'
  <2>1. UNCHANGED <<home, queue>> /\ step[r] = "offered" /\ step'[r] = "abandoned" /\ r \in Dispatches
    BY <1>6 DEF Abandon, Goes, TypeOK, Dispatches
  <2>2. \A s \in Runs \ {r} : step'[s] = step[s]
    BY <1>6, Others DEF Run
  <2>3. ASSUME NEW w \in Workers, NEW k \in Keys PROVE Entry(w, k)'
    <3> SUFFICES ASSUME queue[w][k] # None PROVE Entry(w, k)'
      BY <2>1 DEF Entry
    <3>1. PICK s \in Runs : queue[w][k] = s
      BY DEF TypeOK
    <3>2. home[s] = w /\ Key(s) = k /\ Queued(s)
      BY <3>1, InQueue
    <3>3. home'[s] = w /\ Queued(s)'
      BY <2>1, <2>2, <3>2 DEF Queued
    <3> QED BY <2>1, <3>1, <3>2, <3>3 DEF Entry, Queued
  <2>4. ASSUME NEW s \in Runs PROVE Reached(s)'
    BY <2>1, <2>2 DEF Reached, QueuesWaited
  <2>5. Offered'
    BY <2>1, <2>2 DEF Offered, Runs
  <2> QED BY <2>3, <2>4, <2>5, PartsNext
<1>7. ASSUME NEW r \in Runs, Take(r) \/ Expire(r) PROVE QueuesWaited' /\ Offered'
  <2>1. UNCHANGED home /\ step[r] = "waiting" /\ home[r] \in Workers /\ Removed(r)
    BY <1>7, AtHome DEF Take, Expire
  <2>2. step'[r] \in {"over", "advance", "expired"}
    BY <1>7 DEF Take, Expire, Reviewed, Goes, TypeOK
  <2> QED BY <1>7, <2>1, <2>2, QueueRemoved DEF Queued, Run
<1>8. ASSUME NEW r \in Runs, Cancel(r) PROVE QueuesWaited' /\ Offered'
  <2>1. UNCHANGED home /\ step[r] # "new" /\ step'[r] = "left"
    BY <1>8 DEF Cancel, Goes, TypeOK
  <2>2. home[r] \in Workers
    BY <2>1, AtHome
  <2>3. CASE step[r] = "waiting"
    <3>1. Removed(r)
      BY <1>8, <2>3 DEF Cancel
    <3> QED BY <1>8, <2>1, <2>2, <3>1, QueueRemoved DEF Queued, Run
  <2>4. CASE step[r] # "waiting"
    <3>1. UNCHANGED queue /\ ~Queued(r)
      BY <1>8, <2>4, Kinds DEF Cancel, Queued
    <3> QED BY <1>8, <2>1, <3>1, QueueSame DEF Queued, Run
  <2> QED BY <2>3, <2>4
<1>9. ASSUME NEW r \in Runs, Again(r) \/ Complete(r) \/ Fail(r) PROVE QueuesWaited' /\ Offered'
  <2>1. UNCHANGED <<home, queue>> /\ step[r] \in {"run", "advance"} /\ step'[r] \in {"run", "over"}
    BY <1>9 DEF Again, Complete, Fail, Goes, TypeOK
  <2> QED BY <1>9, <2>1, QueueSame DEF Queued, Run
<1>10. ASSUME NEW w \in Workers, Kill(w) PROVE QueuesWaited' /\ Offered'
  <2>1. UNCHANGED home /\ \A v \in Workers, k \in Keys : queue'[v][k] = IF v = w THEN None ELSE queue[v][k]
    BY <1>10 DEF Kill, TypeOK
  <2>2. \A s \in Runs : home[s] # w => step'[s] = step[s]
    BY <1>10 DEF Kill
  <2>3. \A s \in Runs : home[s] = w => step'[s] \in Ended
    BY <1>10 DEF Kill, Ended
  <2>4. \A s \in Runs : step'[s] \in {"waiting", "offered"} => home[s] # w /\ step[s] = step'[s] /\ home[s] \in Workers
    BY <2>2, <2>3, AtHome DEF Ended
  <2>5. ASSUME NEW v \in Workers, NEW k \in Keys PROVE Entry(v, k)'
    <3> SUFFICES ASSUME queue'[v][k] # None PROVE Entry(v, k)'
      BY DEF Entry
    <3>1. PICK s \in Runs : queue[v][k] = s /\ queue'[v][k] = s /\ v # w
      BY <2>1 DEF TypeOK
    <3>2. home[s] = v /\ Key(s) = k /\ Queued(s)
      BY <3>1, InQueue
    <3>3. home'[s] = v /\ Queued(s)'
      BY <2>1, <2>2, <3>1, <3>2 DEF Queued
    <3> QED BY <3>1, <3>2, <3>3 DEF Entry, Queued
  <2>6. ASSUME NEW s \in Runs PROVE Reached(s)'
    <3> SUFFICES ASSUME step'[s] = "waiting",
                        \A q \in Runs \ {s} : Key(q) = Key(s) => home'[q] # home'[s]
                 PROVE  queue'[home'[s]][Key(s)] = s
      BY DEF Reached
    <3>1. step[s] = "waiting" /\ home[s] # w /\ home[s] \in Workers
      BY <2>4
    <3>2. queue[home[s]][Key(s)] = s
      BY <2>1, <3>1 DEF QueuesWaited
    <3> QED BY <2>1, <3>1, <3>2, Kinds
  <2>7. Offered'
    <3> SUFFICES ASSUME NEW s \in Dispatches, step'[s] = "offered"
                 PROVE  queue'[home'[s]][Key(s)] = s
      BY DEF Offered
    <3>1. s \in Runs /\ step[s] = "offered" /\ home[s] # w /\ home[s] \in Workers
      BY <2>4 DEF Runs
    <3> QED BY <2>1, <3>1, Kinds DEF Offered
  <2> QED BY <2>5, <2>6, <2>7, PartsNext
<1>11. CASE (\E w \in Workers, k \in Keys, a \in Answers : Answer(w, k, a)) \/ UNCHANGED vars
  <2>1. UNCHANGED <<step, home, queue>>
    BY <1>11 DEF Answer, vars
  <2> QED BY <2>1 DEF QueuesWaited, Offered
<1> QED BY <1>1, <1>2, <1>3, <1>4, <1>5, <1>6, <1>7, <1>8, <1>9, <1>10, <1>11 DEF Next, Run

-----------------------------------------------------------------------------
(* The answers.                                                            *)

\* Places, Boxed and VerdictHolds, run by run.
PlacesOf(r) ==
  /\ r \in Tools => step[r] \notin {"checked", "run", "offered", "advance"}
  /\ r \in executed => step[r] = "over"
  /\ r \in Dispatches => (record[r] = "completed" => step[r] = "over")

BoxedOf(r) ==
  r \notin Chats =>
    /\ box[r] # None => told[r] = box[r]
    /\ \A w \in Workers, k \in Keys : queue[w][k] = r /\ box[r] = None => told[r] = None

VerdictOf(r) ==
  /\ r \in Tools /\ r \in executed => told[r] = "approve"
  /\ r \in Tools /\ step[r] = "over" /\ told[r] = "approve" => r \in executed
  /\ r \in Dispatches /\ (step[r] = "advance" \/ record[r] = "completed") => told[r] \in {"approve", "modify"}

Answered(r) == PlacesOf(r) /\ BoxedOf(r) /\ VerdictOf(r)

LEMMA AnsweredAll ==
  TypeOK => (Places /\ Boxed /\ VerdictHolds <=> \A r \in Runs : Answered(r))
BY DEF Places, Boxed, VerdictHolds, Answered, PlacesOf, BoxedOf, VerdictOf, Runs, TypeOK

LEMMA AnsweredAllNext ==
  TypeOK' => (Places' /\ Boxed' /\ VerdictHolds' <=> \A r \in Runs : Answered(r)')
BY DEF Places, Boxed, VerdictHolds, Answered, PlacesOf, BoxedOf, VerdictOf, Runs, TypeOK

\* A run that is not the one that takes the step keeps its part.
LEMMA AnsweredOthers ==
  ASSUME TypeOK, NEW r \in Runs, Run(r), NEW s \in Runs \ {r}, Answered(s),
         \A w \in Workers, k \in Keys : queue'[w][k] = s => queue[w][k] = s
  PROVE  Answered(s)'
<1>1. /\ step'[s] = step[s] /\ box'[s] = box[s]
      /\ s \notin Chats => told'[s] = told[s]
      /\ s \in Dispatches => record'[s] = record[s]
      /\ s \in executed' <=> s \in executed
  BY Others
<1>2. s \in Dispatches \/ s \in Tools => s \notin Chats
  BY Kinds
<1> QED BY <1>1, <1>2 DEF Answered, PlacesOf, BoxedOf, VerdictOf

\* The registries hold nothing new but the run that takes the step.
LEMMA QueueOthers ==
  ASSUME TypeOK, NEW r \in Runs, Run(r), NEW s \in Runs \ {r}, NEW w \in Workers, NEW k \in Keys,
         queue'[w][k] = s
  PROVE  queue[w][k] = s
<1>1. CASE UNCHANGED queue
  BY <1>1
<1>2. CASE Registered(r) /\ step[r] # "new"
  BY <1>2, AtHome, RegisterQueue
<1>3. CASE Removed(r) /\ step[r] # "new"
  <2>1. s # None
    BY Kinds
  <2> QED BY <1>3, <2>1, AtHome, RemoveQueue
<1> QED BY <1>1, <1>2, <1>3 DEF Run, Arrive, Deduct, Begin, Offer, Await, Abandon, Take, Expire, Again, Complete, Fail, Cancel

LEMMA NextAnswered ==
  TypeOK /\ TypeOK' /\ QueuesWaited /\ QueuesWaited' /\ Places /\ Boxed /\ VerdictHolds /\ [Next]_vars
    => Places' /\ Boxed' /\ VerdictHolds'
<1> SUFFICES ASSUME TypeOK, TypeOK', QueuesWaited, QueuesWaited', Places, Boxed, VerdictHolds, [Next]_vars,
                    NEW q \in Runs
             PROVE  Answered(q)'
  BY AnsweredAllNext
<1>0. /\ \A s \in Runs : Answered(s)
      /\ Answered(q) /\ PlacesOf(q) /\ BoxedOf(q) /\ VerdictOf(q)
  BY AnsweredAll DEF Answered
<1>a. q \notin Chats => told[q] \in Answers \cup {None}
  BY DEF TypeOK
<1>b. \A w \in Workers, k \in Keys : queue[w][k] = q => Queued(q)
  BY InQueue
<1>1. ASSUME NEW r \in Runs, Run(r), r # q PROVE Answered(q)'
  BY <1>0, <1>1, AnsweredOthers, QueueOthers
<1>2. ASSUME \E w \in Workers : Arrive(q, w) PROVE Answered(q)'
  <2>1. step[q] = "new" /\ step'[q] \in {"admitted", "refused", "checked"} /\ UNCHANGED <<queue, box, told, record, executed>>
    BY <1>2 DEF Arrive, Goes, TypeOK
  <2>2. q \in Tools => step'[q] # "checked"
    BY <1>2, Kinds DEF Arrive, Goes, TypeOK, Metered, Dispatches
  <2> QED BY <1>0, <2>1, <2>2, Kinds DEF Answered, PlacesOf, BoxedOf, VerdictOf
<1>3. CASE Deduct(q)
  <2>1. step[q] = "checked" /\ step'[q] = "admitted" /\ UNCHANGED <<queue, box, told, record, executed>>
    BY <1>3 DEF Deduct, Goes, TypeOK
  <2> QED BY <1>0, <2>1, Kinds DEF Answered, PlacesOf, BoxedOf, VerdictOf
<1>4. CASE Begin(q)
  <2>1. step[q] = "admitted" /\ UNCHANGED executed
    BY <1>4 DEF Begin
  <2>2. CASE q \in Tools
    <3>1. Registered(q) /\ step'[q] = "waiting" /\ home[q] \in Workers /\ q \notin Dispatches /\ q \notin Chats
      BY <1>4, <2>1, <2>2, Kinds, AtHome DEF Begin, Goes, TypeOK
    <3>2. box'[q] = None /\ told'[q] = None
      BY <3>1, RegisterQueue
    <3> QED BY <1>0, <2>1, <3>1, <3>2 DEF Answered, PlacesOf, BoxedOf, VerdictOf
  <2>3. CASE q \notin Tools
    <3>1. step'[q] \in {"run", "over"} /\ UNCHANGED <<queue, box, told>>
      BY <1>4, <2>3 DEF Begin, Goes, TypeOK
    <3>2. q \in Dispatches => record'[q] \in {record[q], "running"}
      BY <1>4 DEF Begin, TypeOK
    <3> QED BY <1>0, <2>1, <2>3, <3>1, <3>2 DEF Answered, PlacesOf, BoxedOf, VerdictOf
  <2> QED BY <2>2, <2>3
<1>5. CASE Offer(q)
  <2>1. step[q] = "run" /\ UNCHANGED <<executed, record>> /\ q \notin Tools
    BY <1>0, <1>5 DEF Offer, PlacesOf
  <2>2. CASE q \in Dispatches
    <3>1. Registered(q) /\ step'[q] = "offered" /\ home[q] \in Workers /\ q \notin Chats
      BY <1>5, <2>1, <2>2, Kinds, AtHome DEF Offer, Goes, TypeOK
    <3>2. box'[q] = None /\ told'[q] = None
      BY <3>1, RegisterQueue
    <3> QED BY <1>0, <2>1, <2>2, <3>1, <3>2 DEF Answered, PlacesOf, BoxedOf, VerdictOf
  <2>3. CASE q \notin Dispatches
    <3>1. q \in Chats /\ step'[q] # "new"
      BY <2>1, <2>3, Kinds, <1>5 DEF Offer, Goes, TypeOK
    <3> QED BY <1>0, <2>1, <2>3, <3>1 DEF Answered, PlacesOf, BoxedOf, VerdictOf
  <2> QED BY <2>2, <2>3
<1>6. CASE Await(q)
  <2>1. step[q] = "offered" /\ step'[q] = "waiting" /\ UNCHANGED <<executed, record>> /\ q \notin Tools
    BY <1>0, <1>6 DEF Await, PlacesOf, Goes, TypeOK
  <2>2. q \notin Chats => UNCHANGED <<queue, box, told>>
    BY <1>6 DEF Await
  <2> QED BY <1>0, <2>1, <2>2, Kinds DEF Answered, PlacesOf, BoxedOf, VerdictOf
<1>7. CASE Abandon(q)
  <2>1. step[q] = "offered" /\ step'[q] = "abandoned" /\ UNCHANGED <<executed, record, queue, box, told>> /\ q \notin Tools
    BY <1>0, <1>7 DEF Abandon, PlacesOf, Goes, TypeOK
  <2> QED BY <1>0, <2>1, Kinds DEF Answered, PlacesOf, BoxedOf, VerdictOf
<1>8. CASE Take(q)
  <2>1. step[q] = "waiting" /\ UNCHANGED <<record, told>> /\ home[q] \in Workers /\ box[q] # None /\ box'[q] = None
    BY <1>8, AtHome DEF Take, TypeOK
  <2>2. step'[q] = (IF q \in Tools \/ box[q] = "reject" THEN "over" ELSE "advance")
    BY <1>8 DEF Take, Reviewed, Goes, TypeOK
  <2>3. executed' = IF q \in Tools /\ box[q] = "approve" THEN executed \cup {q} ELSE executed
    BY <1>8 DEF Take, Reviewed
  <2>4. \A w \in Workers, k \in Keys : queue'[w][k] # q
    <3>1. Removed(q)
      BY <1>8 DEF Take
    <3>2. q # None
      BY Kinds
    <3> QED BY <2>1, <3>1, <3>2, RemoveQueue, InQueue
  <2>5. q \notin Chats => box[q] = told[q] /\ box[q] \in Answers
    BY <1>0, <2>1 DEF BoxedOf, TypeOK
  <2>6. q \notin executed /\ (q \in Dispatches => record[q] # "completed")
    BY <1>0, <2>1 DEF PlacesOf
  <2>7. PlacesOf(q)'
    BY <2>1, <2>2, <2>3, <2>6, Kinds DEF PlacesOf
  <2>8. BoxedOf(q)'
    BY <2>1, <2>4 DEF BoxedOf
  <2>9. VerdictOf(q)'
    BY <2>1, <2>2, <2>3, <2>5, <2>6, Kinds DEF VerdictOf, Answers
  <2> QED BY <2>7, <2>8, <2>9 DEF Answered
<1>9. CASE Expire(q) \/ Cancel(q)
  <2>1. /\ step[q] \notin {"new", "over"} /\ step'[q] \in {"expired", "left"}
        /\ UNCHANGED <<record, told, executed>> /\ box'[q] = None
    BY <1>9 DEF Expire, Cancel, Goes, TypeOK
  <2>2. \A w \in Workers, k \in Keys : queue'[w][k] # q
    <3>1. CASE step[q] = "waiting"
      <4>1. Removed(q) /\ home[q] \in Workers /\ q # None
        BY <1>9, <2>1, <3>1, Kinds, AtHome DEF Expire, Cancel
      <4> QED BY <4>1, RemoveQueue, InQueue
    <3>2. CASE step[q] # "waiting"
      <4>1. UNCHANGED queue /\ ~Queued(q)
        BY <1>9, <3>2, Kinds DEF Expire, Cancel, Queued
      <4> QED BY <4>1, <1>b
    <3> QED BY <3>1, <3>2
  <2> QED BY <1>0, <2>1, <2>2 DEF Answered, PlacesOf, BoxedOf, VerdictOf
<1>10. CASE Again(q) \/ Complete(q) \/ Fail(q)
  <2>1. UNCHANGED <<queue, box, told, executed>> /\ q \notin Tools /\ step[q] # "over"
    BY <1>0, <1>10 DEF Again, Complete, Fail, PlacesOf
  <2>2. \/ step'[q] = "over"
        \/ step'[q] = "run" /\ UNCHANGED record
    BY <1>10 DEF Again, Complete, Fail, Goes, TypeOK
  <2>3. q \in Dispatches /\ record'[q] = "completed" => step[q] = "advance" \/ record[q] = "completed"
    BY <1>10 DEF Again, Complete, Fail, TypeOK
  <2>4. step'[q] # "advance"
    BY <2>2
  <2>5. q \notin executed
    BY <1>0, <2>1 DEF PlacesOf
  <2> QED BY <1>0, <2>1, <2>2, <2>3, <2>4, <2>5 DEF Answered, PlacesOf, BoxedOf, VerdictOf
<1>11. ASSUME NEW w \in Workers, Kill(w) PROVE Answered(q)'
  <2>1. UNCHANGED <<record, told, executed, home>> /\ step'[q] \in {step[q], "left"} /\ (step[q] = "over" => step'[q] = "over")
    BY <1>11 DEF Kill, Ended
  <2>2. CASE home[q] = w
    <3>1. box'[q] = None
      BY <1>11, <2>2 DEF Kill
    <3>2. \A v \in Workers, k \in Keys : queue'[v][k] # q
      <4>1. \A v \in Workers, k \in Keys : queue'[v][k] = IF v = w THEN None ELSE queue[v][k]
        BY <1>11 DEF Kill, TypeOK
      <4> QED BY <2>2, <4>1, Kinds, InQueue
    <3> QED BY <1>0, <2>1, <3>1, <3>2 DEF Answered, PlacesOf, BoxedOf, VerdictOf
  <2>3. CASE home[q] # w
    <3>1. box'[q] = box[q]
      BY <1>11, <2>3 DEF Kill
    <3>2. \A v \in Workers, k \in Keys : queue'[v][k] = q => queue[v][k] = q
      <4>1. \A v \in Workers, k \in Keys : queue'[v][k] = IF v = w THEN None ELSE queue[v][k]
        BY <1>11 DEF Kill, TypeOK
      <4> QED BY <4>1, Kinds
    <3> QED BY <1>0, <2>1, <3>1, <3>2 DEF Answered, PlacesOf, BoxedOf, VerdictOf
  <2> QED BY <2>2, <2>3
<1>12. ASSUME NEW w \in Workers, NEW k \in Keys, NEW a \in Answers, Answer(w, k, a) PROVE Answered(q)'
  <2>1. UNCHANGED <<step, queue, executed, record, home>>
    BY <1>12 DEF Answer
  <2>2. CASE queue[w][k] # q
    <3>1. box'[q] = box[q] /\ (q \notin Chats => told'[q] = told[q])
      BY <1>12, <2>2 DEF Answer, TypeOK
    <3> QED BY <1>0, <2>1, <3>1, Kinds DEF Answered, PlacesOf, BoxedOf, VerdictOf
  <2>3. CASE queue[w][k] = q
    <3>1. Queued(q) /\ box[q] = None /\ box'[q] = a
      BY <1>12, <1>b, <2>3 DEF Answer, TypeOK
    <3>2. q \notin Chats => told'[q] = a
      <4> SUFFICES ASSUME q \notin Chats PROVE told'[q] = a
        OBVIOUS
      <4>1. told[q] = None
        BY <1>0, <2>3, <3>1 DEF BoxedOf
      <4> QED BY <1>12, <2>3, <4>1 DEF Answer, TypeOK
    <3>3. a # None
      BY Kinds
    <3>4. q \notin executed /\ step[q] # "over" /\ step[q] # "advance" /\ (q \in Dispatches => record[q] # "completed")
      BY <1>0, <3>1 DEF PlacesOf, Queued
    <3> QED BY <1>0, <2>1, <3>1, <3>2, <3>3, <3>4 DEF Answered, PlacesOf, BoxedOf, VerdictOf
  <2> QED BY <2>2, <2>3
<1>13. CASE UNCHANGED vars
  BY <1>0, <1>13 DEF vars, Answered, PlacesOf, BoxedOf, VerdictOf
<1> QED BY <1>1, <1>2, <1>3, <1>4, <1>5, <1>6, <1>7, <1>8, <1>9, <1>10, <1>11, <1>12, <1>13 DEF Next, Run

-----------------------------------------------------------------------------
(* The quota: what is checked and not yet deducted is counted, and there   *)
(* is one such run per worker.                                             *)

Checked == {r \in Runs : step[r] = "checked"}

OnePerWorker == \A r \in Checked, s \in Checked : home[r] = home[s] => r = s

Reserved == used + Cardinality(Checked) <= Limit + Cardinality(Workers) - 1

LEMMA CheckedBound ==
  ASSUME NEW C, NEW f \in [C -> Workers], \A r \in C, s \in C : f[r] = f[s] => r = s
  PROVE  IsFiniteSet(C) /\ Cardinality(C) <= Cardinality(Workers)
<1>1. f \in Injection(C, Workers)
  BY DEF Injection, IsInjective
<1> QED BY <1>1, FS_Injection, DispatchAssumption

LEMMA CheckedFinite ==
  ASSUME TypeOK, OnePerWorker
  PROVE  IsFiniteSet(Checked) /\ Cardinality(Checked) \in Nat
<1>1. [r \in Checked |-> home[r]] \in [Checked -> Workers]
  BY AtHome DEF Checked
<1>2. IsFiniteSet(Checked)
  BY <1>1, CheckedBound DEF OnePerWorker
<1> QED BY <1>2, FS_CardinalityType

\* A step after which no more is checked than before, and the rest as before.
LEMMA CheckedFewer ==
  ASSUME TypeOK, OnePerWorker, Reserved, UNCHANGED <<used, home>>, Checked' \subseteq Checked
  PROVE  OnePerWorker' /\ Reserved'
<1>1. Cardinality(Checked') <= Cardinality(Checked) /\ Cardinality(Checked') \in Nat
  BY CheckedFinite, FS_Subset, FS_CardinalityType
<1>2. Cardinality(Workers) \in Nat /\ Limit \in Nat /\ used \in Nat
  BY DispatchAssumption, FS_CardinalityType DEF TypeOK
<1> QED BY <1>1, <1>2, CheckedFinite DEF OnePerWorker, Reserved

LEMMA NextReserved == TypeOK /\ OnePerWorker /\ Reserved /\ [Next]_vars => OnePerWorker' /\ Reserved'
<1> SUFFICES ASSUME TypeOK, OnePerWorker, Reserved, [Next]_vars PROVE OnePerWorker' /\ Reserved'
  OBVIOUS
<1>0. Cardinality(Workers) \in Nat /\ Limit \in Nat /\ used \in Nat
  BY DispatchAssumption, FS_CardinalityType DEF TypeOK
<1>1. ASSUME NEW r \in Runs, NEW w \in Workers, Arrive(r, w) PROVE OnePerWorker' /\ Reserved'
  <2>1. /\ step[r] = "new" /\ Free(w) /\ UNCHANGED used
        /\ home'[r] = w /\ \A s \in Runs \ {r} : home'[s] = home[s] /\ step'[s] = step[s]
    BY <1>1 DEF Arrive, Goes, TypeOK
  <2>2. \A s \in Checked : s # r /\ home'[s] = home[s] /\ home[s] # w /\ home[s] \in Workers
    BY <2>1, AtHome DEF Checked, Free
  <2>3. CASE step'[r] = "checked"
    <3>1. Checked' = Checked \cup {r} /\ r \notin Checked
      BY <2>1, <2>3 DEF Checked
    <3>2. OnePerWorker'
      BY <2>1, <2>2, <3>1 DEF OnePerWorker
    <3>3. [s \in Checked' |-> home'[s]] \in [Checked' -> Workers]
      BY <2>1, <2>2, <3>1
    <3>4. Cardinality(Checked') <= Cardinality(Workers) /\ IsFiniteSet(Checked')
      BY <3>2, <3>3, CheckedBound DEF OnePerWorker
    <3>5. used + 1 <= Limit
      BY <1>1, <2>3, <1>0 DEF Arrive, Goes, TypeOK
    <3>6. Cardinality(Checked') \in Nat
      BY <3>4, FS_CardinalityType
    <3> QED BY <1>0, <2>1, <3>2, <3>4, <3>5, <3>6 DEF Reserved
  <2>4. CASE step'[r] # "checked"
    <3>1. Checked' = Checked
      BY <2>1, <2>4 DEF Checked
    <3> QED BY <2>1, <2>2, <3>1 DEF OnePerWorker, Reserved
  <2> QED BY <2>3, <2>4
<1>2. ASSUME NEW r \in Runs, Deduct(r) PROVE OnePerWorker' /\ Reserved'
  <2>1. step[r] = "checked" /\ UNCHANGED home /\ used' \in {used, used + 1}
    BY <1>2 DEF Deduct
  <2>2. step'[r] = "admitted" /\ \A s \in Runs \ {r} : step'[s] = step[s]
    BY <1>2 DEF Deduct, Goes, TypeOK
  <2>3. Checked' = Checked \ {r} /\ r \in Checked
    BY <2>1, <2>2 DEF Checked
  <2>4. Cardinality(Checked') = Cardinality(Checked) - 1
    BY <2>3, CheckedFinite, FS_RemoveElement
  <2>5. Cardinality(Checked) \in Nat
    BY CheckedFinite
  <2> QED BY <1>0, <2>1, <2>3, <2>4, <2>5 DEF OnePerWorker, Reserved
<1>3. ASSUME NEW r \in Runs,
             Begin(r) \/ Offer(r) \/ Await(r) \/ Abandon(r) \/ Take(r) \/ Expire(r)
               \/ Again(r) \/ Complete(r) \/ Fail(r) \/ Cancel(r)
      PROVE  OnePerWorker' /\ Reserved'
  <2>1. UNCHANGED <<used, home>>
    BY <1>3 DEF Begin, Offer, Await, Abandon, Take, Expire, Again, Complete, Fail, Cancel
  <2>2. \A s \in Runs : step'[s] = "checked" => step[s] = "checked"
    BY <1>3 DEF TypeOK, Begin, Offer, Await, Abandon, Take, Expire, Again, Complete, Fail, Cancel, Goes, Reviewed
  <2>3. Checked' \subseteq Checked
    BY <2>2 DEF Checked
  <2> QED BY <2>1, <2>3, CheckedFewer
<1>4. ASSUME NEW w \in Workers, Kill(w) PROVE OnePerWorker' /\ Reserved'
  <2>1. UNCHANGED <<used, home>> /\ Checked' \subseteq Checked
    BY <1>4 DEF Kill, Checked
  <2> QED BY <2>1, CheckedFewer
<1>5. CASE (\E w \in Workers, k \in Keys, a \in Answers : Answer(w, k, a)) \/ UNCHANGED vars
  <2>1. UNCHANGED <<used, home, step>>
    BY <1>5 DEF Answer, vars
  <2> QED BY <2>1, CheckedFewer DEF Checked
<1> QED BY <1>1, <1>2, <1>3, <1>4, <1>5 DEF Next, Run

LEMMA InitReserved == Init => OnePerWorker /\ Reserved
<1> SUFFICES ASSUME Init PROVE OnePerWorker /\ Reserved
  OBVIOUS
<1>1. Checked = {} /\ used = 0
  BY DEF Init, Checked
<1>2. Cardinality(Workers) \in Nat /\ Cardinality(Workers) # 0 /\ Limit \in Nat
  BY DispatchAssumption, FS_CardinalityType, FS_EmptySet
<1> QED BY <1>1, <1>2, FS_EmptySet DEF OnePerWorker, Reserved

-----------------------------------------------------------------------------
(* The theorems.                                                           *)

LEMMA InductiveAlways == Spec => []Inductive
<1>1. Init => Inductive
  BY InitInductive
<1>2. Inductive /\ [Next]_vars => Inductive'
  BY NextType, NextQueues, NextAnswered DEF Inductive
<1> QED BY <1>1, <1>2, PTL DEF Spec

\* Everything has its type; in particular a review gets at most one accepted
\* answer while its queue can be found (process_approval, await_review).
THEOREM TypeCorrect == Spec => []TypeOK
<1>1. Inductive => TypeOK
  BY DEF Inductive
<1> QED BY <1>1, InductiveAlways, PTL

\* A queue in a registry is one that its run waits at, or a dispatch that was
\* left at its review; a run that waits can be reached, unless another message
\* of its session waits on the same worker (ReviewRegistry).
THEOREM QueuesAreWaitedAt == Spec => []QueuesWaited
<1>1. Inductive => QueuesWaited
  BY DEF Inductive
<1> QED BY <1>1, InductiveAlways, PTL

\* The accepted answer is what happens: a tool is called if and only if its
\* call was approved, and no dispatch goes on from a round whose rejection was
\* accepted (guard_tool_call, _review_wait_and_handle).
THEOREM VerdictsHold == Spec => []VerdictHolds
<1>1. Inductive => VerdictHolds
  BY DEF Inductive
<1> QED BY <1>1, InductiveAlways, PTL

\* For any number of workers the quota is exceeded by less than one request
\* per worker (QuotaService.check, deduct).
THEOREM QuotaBounded == Spec => []QuotaBound
<1>1. Init => Inductive /\ OnePerWorker /\ Reserved
  BY InitInductive, InitReserved
<1>2. Inductive /\ OnePerWorker /\ Reserved /\ [Next]_vars => OnePerWorker' /\ Reserved'
  BY NextReserved DEF Inductive
<1>3. Inductive /\ OnePerWorker /\ Reserved => QuotaBound
  <2> SUFFICES ASSUME TypeOK, OnePerWorker, Reserved PROVE QuotaBound
    BY DEF Inductive
  <2>1. Cardinality(Workers) \in Nat /\ Limit \in Nat /\ used \in Nat /\ Cardinality(Checked) \in Nat
    BY DispatchAssumption, FS_CardinalityType, CheckedFinite DEF TypeOK
  <2> QED BY <2>1 DEF Reserved, QuotaBound
<1> QED BY <1>1, <1>2, <1>3, InductiveAlways, PTL DEF Spec
=============================================================================
