--------------------------- MODULE PlanRoundsProofs ---------------------------
(***************************************************************************)
(* Theorems about PlanRounds, for any plans that the planner or a reviewer *)
(* may come up with, and any limits.                                       *)
(***************************************************************************)
EXTENDS PlanRounds, TLAPS, WellFoundedInduction

Running == phase \in {"run", "review", "advance"}

Work == TaskStep \/ AgentReturns

\* Tasks are in the front only while the graph runs, and a review is of a
\* first round.
Phased ==
  /\ phase # "run" => DOMAIN front = {}
  /\ phase = "review" => replan = 0

\* What is in the front can run, and what has run has left its result.
Frontier ==
  Running =>
    /\ ran \subseteq DOMAIN Results
    /\ \A i \in DOMAIN front : /\ front[i] = "done" => i \in DOMAIN writes \cup DOMAIN Results
                               /\ front[i] = "busy" => i \notin DOMAIN Results
    /\ \A t \in Tasks(graph) : t.id \in DOMAIN front => t.deps \cap IdsOf(graph) \subseteq ran

\* What an agent was started for is in the thread, or still in the front.
Traced ==
  Running =>
    \A x \in started :
      \/ x[1] \in DOMAIN threads /\ x[2] \in DOMAIN threads[x[1]]
      \/ x[1] = Thread /\ x[2] \in DOMAIN front /\ front[x[2]] # "todo"

Inductive == TypeOK /\ Phased /\ Frontier /\ Traced

-----------------------------------------------------------------------------
(* Functions and plans.                                                    *)

LEMMA PutIs ==
  ASSUME NEW f, NEW i, NEW v
  PROVE  /\ DOMAIN Put(f, i, v) = DOMAIN f \cup {i}
         /\ Put(f, i, v)[i] = v
         /\ \A j \in DOMAIN f \ {i} : Put(f, i, v)[j] = f[j]
BY DEF Put

LEMMA MergeIs ==
  ASSUME NEW f, NEW g
  PROVE  /\ DOMAIN Merge(f, g) = DOMAIN f \cup DOMAIN g
         /\ \A j \in DOMAIN g : Merge(f, g)[j] = g[j]
         /\ \A j \in DOMAIN f \ DOMAIN g : Merge(f, g)[j] = f[j]
BY DEF Merge

LEMMA NothingIs == DOMAIN Nothing = {}
BY DEF Nothing

LEMMA OneTaskPerId ==
  ASSUME NEW p, Distinct(p), NEW t \in Tasks(p), NEW u \in Tasks(p), t.id = u.id
  PROVE  t = u
BY DEF Distinct, Tasks

-----------------------------------------------------------------------------
(* Rounds.                                                                 *)

\* What a round that is launched starts with.
LEMMA LaunchIs ==
  ASSUME NEW p, NEW a, NEW b, NEW known, NEW kept, Launch(p, <<a, b>>, known, kept), Builds(p)
  PROVE  /\ phase' = "run" /\ graph' = p /\ replan' = a /\ loop' = b
         /\ DOMAIN threads' = DOMAIN kept \cup {<<a, b>>}
         /\ \A x \in DOMAIN kept \ {<<a, b>>} : threads'[x] = kept[x]
         /\ \A x \in DOMAIN kept : DOMAIN kept[x] \subseteq DOMAIN threads'[x]
         /\ \A i \in DOMAIN front' : front'[i] = "todo"
         /\ ran' = {} /\ DOMAIN writes' = {}
         /\ \A t \in Tasks(p) : t.id \in DOMAIN front' => t.deps = {}
<1> DEFINE th == <<a, b>>
           old == IF th \in DOMAIN kept THEN kept[th] ELSE Nothing
           new == Merge(old, known)
<1>1. threads' = Put(kept, th, new)
  BY DEF Launch
<1>2. th \in DOMAIN kept => old = kept[th]
  OBVIOUS
<1>3. DOMAIN old \subseteq DOMAIN new
  <2> HIDE DEF old
  <2> QED BY MergeIs
<1> HIDE DEF th, old, new
<1>5. /\ DOMAIN threads' = DOMAIN kept \cup {th}
      /\ \A x \in DOMAIN kept \ {th} : threads'[x] = kept[x]
      /\ threads'[th] = new
  BY <1>1 DEF Put
<1>6. \A x \in DOMAIN kept : DOMAIN kept[x] \subseteq DOMAIN threads'[x]
  BY <1>2, <1>3, <1>5
<1>4. ASSUME NEW t \in Tasks(p), t.id \in DOMAIN front' PROVE t.deps = {}
  <2>1. DOMAIN front' = Entry(p)
    BY DEF Launch
  <2>2. PICK u \in Tasks(p) : u.deps = {} /\ u.id = t.id
    BY <1>4, <2>1 DEF Entry
  <2> QED BY <2>2, OneTaskPerId DEF Builds
<1>7. /\ phase' = "run" /\ graph' = p /\ replan' = a /\ loop' = b
      /\ \A i \in DOMAIN front' : front'[i] = "todo"
      /\ ran' = {} /\ DOMAIN writes' = {}
  BY NothingIs DEF Launch
<1> QED BY <1>4, <1>5, <1>6, <1>7 DEF th, old, new

\* A round keeps the invariant, whatever it starts with: it is the first of a
\* workflow, or goes on with the threads there are.
LEMMA LaunchKeeps ==
  ASSUME NEW p, NEW a \in Nat, NEW b \in 0..MaxLoop, NEW known, NEW kept,
         Launch(p, <<a, b>>, known, kept), Builds(p),
         a <= (IF MaxReplan > 1 THEN MaxReplan ELSE 1),
         messages' \in 0..MaxMessages, edited' \in BOOLEAN,
         \A i \in DOMAIN context' : context'[i].out \in Outs,
         started' = {} \/ (kept = threads /\ UNCHANGED started /\ phase \in {"review", "advance"}),
         Inductive
  PROVE  Inductive'
<1> DEFINE th == <<a, b>>
<1>1. /\ phase' = "run" /\ graph' = p /\ replan' = a /\ loop' = b
      /\ DOMAIN threads' = DOMAIN kept \cup {th}
      /\ \A x \in DOMAIN kept : DOMAIN kept[x] \subseteq DOMAIN threads'[x]
      /\ \A i \in DOMAIN front' : front'[i] = "todo"
      /\ ran' = {} /\ DOMAIN writes' = {}
      /\ \A t \in Tasks(p) : t.id \in DOMAIN front' => t.deps = {}
  BY LaunchIs
<1>2. Thread' = th
  BY <1>1 DEF Thread
<1> HIDE DEF th
<1>3. TypeOK'
  <2>1. phase' \in Phases
    BY <1>1 DEF Phases
  <2>2. loop' \in 0..MaxLoop /\ replan' \in 0..(IF MaxReplan > 1 THEN MaxReplan ELSE 1)
    <3>1. (IF MaxReplan > 1 THEN MaxReplan ELSE 1) \in Nat
      BY PlanAssumption
    <3> QED BY <1>1, <3>1
  <2>3. \A i \in DOMAIN front' : front'[i] \in {"todo", "busy", "done"}
    BY <1>1
  <2>4. Builds(graph') /\ Thread' \in DOMAIN threads'
    BY <1>1, <1>2
  <2>5. DOMAIN writes' \subseteq DOMAIN front' /\ ran' \cap DOMAIN front' = {}
    BY <1>1
  <2> QED BY <2>1, <2>2, <2>3, <2>4, <2>5 DEF TypeOK
<1>4. Phased'
  BY <1>1 DEF Phased
<1>5. Frontier'
  <2>1. \A t \in Tasks(graph)' : t.id \in DOMAIN front' => t.deps = {}
    <3>1. Tasks(graph)' = Tasks(p)
      BY <1>1 DEF Tasks
    <3> QED BY <1>1, <3>1
  <2> QED BY <1>1, <2>1 DEF Frontier
<1>6. Traced'
  <2> SUFFICES ASSUME NEW x \in started', kept = threads, UNCHANGED started, phase \in {"review", "advance"}
               PROVE  x[1] \in DOMAIN threads' /\ x[2] \in DOMAIN threads'[x[1]]
    BY DEF Traced
  <2>1. DOMAIN front = {} /\ Running
    BY DEF Inductive, Phased, Running
  <2>2. x[1] \in DOMAIN threads /\ x[2] \in DOMAIN threads[x[1]]
    BY <2>1 DEF Inductive, Traced
  <2> QED BY <2>2, <1>1
<1> QED BY <1>3, <1>4, <1>5, <1>6 DEF Inductive

\* The same for a message that is over, and a workflow that is.
LEMMA IdleKeeps ==
  ASSUME Idle, messages' \in 0..MaxMessages, edited' \in BOOLEAN,
         \A i \in DOMAIN context' : context'[i].out \in Outs
  PROVE  Inductive'
BY NothingIs, PlanAssumption DEF Idle, Inductive, TypeOK, Phases, Phased, Frontier, Traced, Running

LEMMA OverKeeps ==
  ASSUME Inductive, phase # "run", Over, UNCHANGED <<messages, edited, context>>
  PROVE  Inductive'
<1>1. phase' = "outer" /\ UNCHANGED <<replan, loop, front, writes, ran>>
  BY DEF Over
<1>2. TypeOK' /\ Phased'
  BY <1>1 DEF Inductive, TypeOK, Phased, Phases
<1>3. Frontier' /\ Traced'
  BY <1>1 DEF Frontier, Traced, Running
<1> QED BY <1>2, <1>3 DEF Inductive

\* A workflow starts, or its plan is no graph.
LEMMA EnterKeeps ==
  ASSUME Inductive, NEW p, Enter(p), messages' \in 0..MaxMessages,
         \A i \in DOMAIN context' : context'[i].out \in Outs
  PROVE  Inductive'
<1>1. CASE Builds(p)
  <2>1. Launch(p, <<0, 0>>, Nothing, Kept) /\ started' = {}
    BY <1>1 DEF Enter
  <2>3. edited' \in BOOLEAN
    BY DEF Enter
  <2>2. 0 \in 0..MaxLoop /\ 0 \in Nat /\ 0 <= (IF MaxReplan > 1 THEN MaxReplan ELSE 1)
    BY PlanAssumption
  <2> QED BY <1>1, <2>1, <2>2, <2>3, LaunchKeeps
<1>2. CASE ~Builds(p)
  BY <1>2, IdleKeeps DEF Enter
<1> QED BY <1>1, <1>2

-----------------------------------------------------------------------------
(* Tasks.                                                                  *)

\* A task of the front gets on: it starts, is skipped or returns.
LEMMA TaskKeeps ==
  ASSUME Inductive, InGraph, phase = "run", NEW j \in DOMAIN front,
         NEW to \in {"busy", "done"}, front' = [front EXCEPT ![j] = to],
         to = "busy" => j \notin DOMAIN Results,
         to = "done" => j \in DOMAIN writes' \cup DOMAIN Results,
         DOMAIN writes \subseteq DOMAIN writes', DOMAIN writes' \subseteq DOMAIN writes \cup {j},
         \A i \in DOMAIN context' : context'[i].out \in Outs,
         started' = started \/ started' = started \cup {<<Thread, j>>}
  PROVE  Inductive'
<1>1. /\ UNCHANGED <<phase, graph, replan, loop, threads, ran, messages, edited>>
      /\ UNCHANGED <<Thread, Results>>
  BY DEF InGraph, Thread, Results
<1>2. /\ DOMAIN front' = DOMAIN front /\ front'[j] = to
      /\ \A i \in DOMAIN front \ {j} : front'[i] = front[i]
  OBVIOUS
<1>3. TypeOK'
  <2>1. \A i \in DOMAIN front' : front'[i] \in {"todo", "busy", "done"}
    BY <1>2 DEF Inductive, TypeOK
  <2>2. DOMAIN writes' \subseteq DOMAIN front'
    BY <1>2 DEF Inductive, TypeOK
  <2>3. ran' \cap DOMAIN front' = {}
    BY <1>1, <1>2 DEF Inductive, TypeOK
  <2>4. phase' \in {"run", "review", "advance"} => Builds(graph)' /\ Thread' \in DOMAIN threads'
    BY <1>1 DEF Inductive, TypeOK
  <2>5. /\ phase' \in Phases /\ messages' \in 0..MaxMessages /\ edited' \in BOOLEAN
        /\ loop' \in 0..MaxLoop /\ replan' \in 0..(IF MaxReplan > 1 THEN MaxReplan ELSE 1)
    BY <1>1 DEF Inductive, TypeOK
  <2> QED BY <2>1, <2>2, <2>3, <2>4, <2>5 DEF TypeOK
<1>4. Phased'
  BY <1>1 DEF Phased
<1>5. Frontier'
  <2>1. Running
    BY DEF Running
  <2>2. ran' \subseteq DOMAIN Results'
    BY <1>1, <2>1 DEF Inductive, Frontier
  <2>3. ASSUME NEW i \in DOMAIN front'
        PROVE  /\ front'[i] = "done" => i \in DOMAIN writes' \cup DOMAIN Results'
               /\ front'[i] = "busy" => i \notin DOMAIN Results'
    BY <1>1, <1>2, <2>1 DEF Inductive, Frontier
  <2>4. \A t \in Tasks(graph)' : t.id \in DOMAIN front' => t.deps \cap IdsOf(graph)' \subseteq ran'
    BY <1>1, <1>2, <2>1 DEF Inductive, Frontier, Tasks, IdsOf
  <2> QED BY <2>2, <2>3, <2>4 DEF Frontier
<1>6. Traced'
  <2> SUFFICES ASSUME NEW x \in started'
               PROVE  \/ x[1] \in DOMAIN threads /\ x[2] \in DOMAIN threads[x[1]]
                      \/ x[1] = Thread /\ x[2] \in DOMAIN front' /\ front'[x[2]] # "todo"
    BY <1>1 DEF Traced
  <2>1. CASE x \in started
    <3>1. \/ x[1] \in DOMAIN threads /\ x[2] \in DOMAIN threads[x[1]]
          \/ x[1] = Thread /\ x[2] \in DOMAIN front /\ front[x[2]] # "todo"
      BY <2>1 DEF Inductive, Traced, Running
    <3> QED BY <3>1, <1>2
  <2>2. CASE x = <<Thread, j>>
    BY <2>2, <1>2
  <2> QED BY <2>1, <2>2
<1> QED BY <1>3, <1>4, <1>5, <1>6 DEF Inductive

LEMMA ReturnKeeps ==
  ASSUME Inductive, phase = "run", NEW t \in Tasks(graph), t.id \in DOMAIN front,
         NEW entry, NEW known, Return(t, entry, known), \A i \in DOMAIN known : known[i].out \in Outs
  PROVE  Inductive'
<1>1. /\ InGraph /\ front' = [front EXCEPT ![t.id] = "done"]
      /\ writes' = Put(writes, t.id, entry) /\ context' = known /\ started' = started
  BY DEF Return
<1>2. DOMAIN writes' = DOMAIN writes \cup {t.id}
  BY <1>1 DEF Put
<1> QED BY <1>1, <1>2, TaskKeeps

LEMMA PutOut ==
  ASSUME NEW f, NEW i, NEW v, \A j \in DOMAIN f : f[j].out \in Outs, v.out \in Outs
  PROVE  /\ \A j \in DOMAIN Put(f, i, v) : Put(f, i, v)[j].out \in Outs
         /\ \A j \in DOMAIN PutNew(f, i, v) : PutNew(f, i, v)[j].out \in Outs
BY DEF Put, PutNew

LEMMA WorkKeeps ==
  ASSUME Inductive, Work
  PROVE  Inductive'
<1>1. \A i \in DOMAIN context : context[i].out \in Outs
  BY DEF Inductive, TypeOK
<1> SUFFICES ASSUME NEW t \in Tasks(graph),
                    \/ Skip(t) \/ Begin(t) \/ AcquireTimeout(t) \/ Fail(t)
                    \/ \E out \in Outs \ {"error"} : Complete(t, out)
             PROVE  Inductive'
  BY DEF Work, TaskStep, AgentReturns
<1>2. CASE Skip(t)
  BY <1>1, <1>2, TaskKeeps DEF Skip, Todo
<1>3. CASE Begin(t)
  BY <1>1, <1>3, TaskKeeps DEF Begin, Todo
<1>4. CASE AcquireTimeout(t)
  <2> DEFINE error == Result(t, "error", TRUE)
  <2>1. Todo(t) /\ Return(t, error, PutNew(context, t.id, error))
    BY <1>4 DEF AcquireTimeout
  <2>2. error.out \in Outs
    BY DEF Result, Outs
  <2> HIDE DEF error
  <2> QED BY <1>1, <2>1, <2>2, PutOut, ReturnKeeps DEF Todo
<1>5. CASE Fail(t)
  <2> DEFINE result == Result(t, "empty", TRUE)
  <2>1. t \in Busy /\ Return(t, result, PutNew(context, t.id, result))
    BY <1>5 DEF Fail
  <2>2. result.out \in Outs
    BY DEF Result, Outs
  <2>3. phase = "run" /\ t.id \in DOMAIN front
    BY <2>1 DEF Busy, Inductive, Phased
  <2> HIDE DEF result
  <2> QED BY <1>1, <2>1, <2>2, <2>3, PutOut, ReturnKeeps
<1>6. ASSUME NEW out \in Outs \ {"error"}, Complete(t, out) PROVE Inductive'
  <2> DEFINE result == Result(t, out, FALSE)
  <2>1. t \in Busy /\ Return(t, result, Put(context, t.id, result))
    BY <1>6 DEF Complete
  <2>2. result.out \in Outs
    BY DEF Result
  <2>3. phase = "run" /\ t.id \in DOMAIN front
    BY <2>1 DEF Busy, Inductive, Phased
  <2> HIDE DEF result
  <2> QED BY <1>1, <2>1, <2>2, <2>3, PutOut, ReturnKeeps
<1> QED BY <1>2, <1>3, <1>4, <1>5, <1>6

\* What the tasks returned goes to the thread, and the tasks that can run now
\* are ones whose dependencies have.
LEMMA SuperStepKeeps ==
  ASSUME Inductive, SuperStep
  PROVE  Inductive'
<1> DEFINE merged == Merge(Results, writes)
<1>1. /\ phase = "run" /\ \A i \in DOMAIN front : front[i] = "done"
      /\ UNCHANGED <<graph, replan, loop, context, started, messages, edited>>
      /\ ran' = ran \cup DOMAIN front /\ DOMAIN writes' = {}
      /\ front' = [i \in Ready(graph, ran') |-> "todo"]
      /\ phase' = IF DOMAIN front' # {} THEN "run"
                  ELSE IF Approval /\ replan = 0 THEN "review" ELSE "advance"
  BY NothingIs DEF SuperStep
<1>2. Running /\ Builds(graph) /\ Thread \in DOMAIN threads
  BY <1>1 DEF Running, Inductive, TypeOK
<1>3. Thread' = Thread
  BY <1>1 DEF Thread
<1>4. /\ DOMAIN threads' = DOMAIN threads /\ threads'[Thread] = merged
      /\ \A x \in DOMAIN threads \ {Thread} : threads'[x] = threads[x]
  <2>1. threads' = [threads EXCEPT ![Thread] = merged]
    BY DEF SuperStep, Results
  <2> HIDE DEF merged
  <2> QED BY <1>2, <2>1
<1>5. DOMAIN merged = DOMAIN Results \cup DOMAIN writes
  BY DEF Merge
<1> HIDE DEF merged
<1>6. DOMAIN Results' = DOMAIN Results \cup DOMAIN writes
  BY <1>3, <1>4, <1>5 DEF Results
<1>7. DOMAIN front' = Ready(graph, ran') /\ \A i \in DOMAIN front' : front'[i] = "todo"
  BY <1>1
<1>8. TypeOK'
  <2>1. ran' \cap DOMAIN front' = {}
    BY <1>7 DEF Ready
  <2>2. phase' \in Phases
    BY <1>1 DEF Phases
  <2>3. Builds(graph)' /\ Thread' \in DOMAIN threads'
    BY <1>1, <1>2, <1>3, <1>4
  <2>4. \A i \in DOMAIN front' : front'[i] \in {"todo", "busy", "done"}
    BY <1>7
  <2>5. /\ messages' \in 0..MaxMessages /\ edited' \in BOOLEAN /\ loop' \in 0..MaxLoop
        /\ replan' \in 0..(IF MaxReplan > 1 THEN MaxReplan ELSE 1)
        /\ \A i \in DOMAIN context' : context'[i].out \in Outs
    BY <1>1 DEF Inductive, TypeOK
  <2> QED BY <1>1, <2>1, <2>2, <2>3, <2>4, <2>5 DEF TypeOK
<1>9. Phased'
  BY <1>1 DEF Phased
<1>10. Frontier'
  <2>1. ran' \subseteq DOMAIN Results'
    BY <1>1, <1>2, <1>6 DEF Inductive, Frontier
  <2>2. ASSUME NEW t \in Tasks(graph)', t.id \in DOMAIN front'
        PROVE  t.deps \cap IdsOf(graph)' \subseteq ran'
    <3>1. t \in Tasks(graph) /\ IdsOf(graph)' = IdsOf(graph)
      BY <1>1 DEF Tasks, IdsOf
    <3>2. PICK u \in Tasks(graph) : u.id = t.id /\ Joined(u, graph, ran')
      BY <1>7, <2>2 DEF Ready
    <3>3. t = u
      BY <1>2, <3>1, <3>2, OneTaskPerId DEF Builds
    <3> QED BY <3>1, <3>2, <3>3 DEF Joined
  <2> QED BY <1>7, <2>1, <2>2 DEF Frontier
<1>11. Traced'
  <2> SUFFICES ASSUME NEW x \in started
               PROVE  x[1] \in DOMAIN threads' /\ x[2] \in DOMAIN threads'[x[1]]
    BY <1>1 DEF Traced
  <2>1. CASE x[1] \in DOMAIN threads /\ x[2] \in DOMAIN threads[x[1]]
    <3>1. CASE x[1] = Thread
      BY <2>1, <3>1, <1>4, <1>5 DEF Results
    <3>2. CASE x[1] # Thread
      BY <2>1, <3>2, <1>4
    <3> QED BY <3>1, <3>2
  <2>2. CASE x[1] = Thread /\ x[2] \in DOMAIN front
    <3>1. x[2] \in DOMAIN writes \cup DOMAIN Results
      BY <1>1, <1>2, <2>2 DEF Inductive, Frontier
    <3> QED BY <1>2, <1>4, <1>5, <2>2, <3>1
  <2> QED BY <1>2, <2>1, <2>2 DEF Inductive, Traced
<1> QED BY <1>8, <1>9, <1>10, <1>11 DEF Inductive

-----------------------------------------------------------------------------
(* Reviews and decisions.                                                  *)

LEMMA ReviewKeeps ==
  ASSUME Inductive, Review
  PROVE  Inductive'
<1>1. CASE Approve
  <2>1. /\ phase' = "advance" /\ phase = "review"
        /\ UNCHANGED <<graph, replan, loop, threads, front, ran, writes, edited, context, started, messages>>
    BY <1>1 DEF Approve, Kind
  <2>2. UNCHANGED Thread /\ UNCHANGED Results
    BY <2>1 DEF Thread, Results
  <2>3. TypeOK'
    BY <2>1, <2>2 DEF Inductive, TypeOK, Phases
  <2>4. Phased'
    BY <2>1 DEF Inductive, Phased
  <2>5. Frontier'
    BY <2>1, <2>2 DEF Inductive, Frontier, Running, Tasks, IdsOf
  <2>6. Traced'
    BY <2>1, <2>2 DEF Inductive, Traced, Running
  <2> QED BY <2>3, <2>4, <2>5, <2>6 DEF Inductive
<1>2. CASE Reject
  BY <1>2, OverKeeps DEF Reject, Kind
<1> QED BY <1>1, <1>2 DEF Review

\* A review that sends the round back: the changed plan takes a replan.
LEMMA AmendKeeps ==
  ASSUME Inductive, AmendNothing \/ \E p \in Edited : Amend(p)
  PROVE  Inductive'
<1>1. /\ phase = "review" /\ edited' \in BOOLEAN
      /\ UNCHANGED <<context, started, messages>>
  BY DEF AmendNothing, Amend, Kind, Inductive, TypeOK
<1>2. /\ replan = 0 /\ loop \in 0..MaxLoop /\ edited \in BOOLEAN /\ Builds(graph)
      /\ messages \in 0..MaxMessages /\ \A i \in DOMAIN context : context[i].out \in Outs
  BY <1>1 DEF Inductive, Phased, TypeOK
<1>3. /\ edited' \in BOOLEAN /\ messages' \in 0..MaxMessages
      /\ \A i \in DOMAIN context' : context'[i].out \in Outs
  BY <1>1, <1>2
<1>4. /\ 0 <= (IF MaxReplan > 1 THEN MaxReplan ELSE 1)
      /\ 1 <= (IF MaxReplan > 1 THEN MaxReplan ELSE 1)
  BY PlanAssumption
<1>5. CASE AmendNothing
  <2>1. Launch(graph, <<0, loop>>, seed, threads)
    BY <1>2, <1>5 DEF AmendNothing, Thread
  <2> QED BY <1>1, <1>2, <1>3, <1>4, <2>1, LaunchKeeps
<1>6. ASSUME NEW p \in Edited, Amend(p) PROVE Inductive'
  <2> DEFINE q == IF Builds(p) THEN p ELSE graph
  <2>1. Launch(q, <<1, loop>>, seed, threads)
    BY <1>2, <1>6 DEF Amend
  <2>2. Builds(q)
    BY <1>2
  <2> HIDE DEF q
  <2> QED BY <1>1, <1>2, <1>3, <1>4, <2>1, <2>2, LaunchKeeps
<1> QED BY <1>5, <1>6

LEMMA AdvanceKeeps ==
  ASSUME Inductive, Advance
  PROVE  Inductive'
<1>1. phase = "advance" /\ UNCHANGED <<context, started, messages, edited>>
  BY DEF Advance, LoopAgain, Replan, Finish, Advancing, Kind
<1>2. /\ replan \in 0..(IF MaxReplan > 1 THEN MaxReplan ELSE 1) /\ loop \in 0..MaxLoop
      /\ messages \in 0..MaxMessages /\ edited \in BOOLEAN
      /\ \A i \in DOMAIN context : context[i].out \in Outs
  BY DEF Inductive, TypeOK
<1>3. ASSUME NEW p, NEW a \in Nat, NEW b \in 0..MaxLoop, NEW known, Round(p, <<a, b>>, known),
             a <= (IF MaxReplan > 1 THEN MaxReplan ELSE 1)
      PROVE  Inductive'
  <2>1. CASE Builds(p)
    <3>1. Launch(p, <<a, b>>, known, threads)
      BY <1>3, <2>1 DEF Round
    <3> QED BY <1>1, <1>2, <1>3, <2>1, <3>1, LaunchKeeps
  <2>2. CASE ~Builds(p)
    BY <1>1, <1>3, <2>2, OverKeeps DEF Round
  <2> QED BY <2>1, <2>2
<1>4. (IF MaxReplan > 1 THEN MaxReplan ELSE 1) \in Nat
  BY PlanAssumption
<1>5. CASE LoopAgain
  <2>1. loop < MaxLoop /\ Round(plan, <<replan, loop + 1>>, Nothing)
    BY <1>5 DEF LoopAgain
  <2>2. /\ loop + 1 \in 0..MaxLoop /\ replan \in Nat
        /\ replan <= (IF MaxReplan > 1 THEN MaxReplan ELSE 1)
    BY <1>2, <1>4, <2>1, PlanAssumption
  <2> QED BY <1>3, <2>1, <2>2
<1>6. ASSUME NEW p \in Followups, NEW query \in Queries, Replan(p, query) PROVE Inductive'
  <2>1. replan < MaxReplan /\ Round(ReuseIds(plan, Planned(p, query)), <<replan + 1, loop>>, context)
    BY <1>6 DEF Replan, ReplanOn
  <2>2. replan + 1 \in Nat /\ replan + 1 <= (IF MaxReplan > 1 THEN MaxReplan ELSE 1)
    BY <1>2, <1>4, <2>1, PlanAssumption
  <2> QED BY <1>2, <1>3, <2>1, <2>2
<1>7. CASE Finish
  BY <1>1, <1>7, OverKeeps DEF Finish
<1> QED BY <1>5, <1>6, <1>7 DEF Advance

-----------------------------------------------------------------------------
(* Messages, and every step.                                               *)

LEMMA SessionKeeps ==
  ASSUME Inductive, (\E p \in Plans, query \in Queries : Receive(p, query)) \/ Iterate \/ Disconnect
  PROVE  Inductive'
<1>1. /\ messages \in 0..MaxMessages /\ edited \in BOOLEAN
      /\ \A i \in DOMAIN context : context[i].out \in Outs
  BY DEF Inductive, TypeOK
<1>2. ASSUME NEW p \in Plans, NEW query \in Queries, Receive(p, query) PROVE Inductive'
  <2>1. /\ messages < MaxMessages /\ messages' = messages + 1
        /\ DOMAIN context' = {} /\ Enter(Planned(p, query))
    BY <1>2, NothingIs DEF Receive
  <2>2. messages' \in 0..MaxMessages
    BY <1>1, <2>1, PlanAssumption
  <2> QED BY <2>1, <2>2, EnterKeeps
<1>3. CASE Stop
  BY <1>1, <1>3, IdleKeeps DEF Stop
<1>4. CASE Disconnect
  BY <1>1, <1>4, IdleKeeps DEF Disconnect
<1>5. ASSUME NEW p \in Followups, NEW query \in Queries, GoOn(p, query) PROVE Inductive'
  <2>1. /\ Enter(Planned(p, query)) /\ messages' \in 0..MaxMessages
        /\ \A i \in DOMAIN context' : context'[i].out \in Outs
    BY <1>1, <1>5 DEF GoOn
  <2> QED BY <2>1, EnterKeeps
<1> QED BY <1>2, <1>3, <1>4, <1>5 DEF Iterate

LEMMA Starts == Init => Inductive
<1> SUFFICES ASSUME Init PROVE Inductive
  OBVIOUS
<1>1. TypeOK
  <2>1. phase = "idle" /\ messages = 0 /\ loop = 0 /\ replan = 0 /\ edited = FALSE
    BY DEF Init
  <2>3. 0 \in 0..MaxMessages /\ 0 \in 0..MaxLoop /\ 0 \in 0..(IF MaxReplan > 1 THEN MaxReplan ELSE 1)
    BY PlanAssumption
  <2>2. DOMAIN front = {} /\ DOMAIN context = {} /\ DOMAIN writes = {} /\ ran = {}
    BY NothingIs DEF Init
  <2> QED BY <2>1, <2>2, <2>3 DEF TypeOK, Phases
<1> QED BY <1>1, NothingIs DEF Init, Inductive, Phased, Frontier, Traced, Running

LEMMA Keeps == Inductive /\ [Next]_vars => Inductive'
<1> SUFFICES ASSUME Inductive, [Next]_vars PROVE Inductive'
  OBVIOUS
<1>1. CASE Work
  BY <1>1, WorkKeeps
<1>2. CASE SuperStep
  BY <1>2, SuperStepKeeps
<1>3. CASE Review
  BY <1>3, ReviewKeeps
<1>4. CASE Advance
  BY <1>4, AdvanceKeeps
<1>5. CASE AmendNothing \/ \E p \in Edited : Amend(p)
  BY <1>5, AmendKeeps
<1>6. CASE (\E p \in Plans, query \in Queries : Receive(p, query)) \/ Iterate \/ Disconnect
  BY <1>6, SessionKeeps
<1>7. CASE UNCHANGED vars
  <2>1. UNCHANGED <<Thread, Results>>
    BY <1>7 DEF vars, Thread, Results
  <2>2. TypeOK'
    BY <1>7, <2>1 DEF vars, Inductive, TypeOK
  <2>3. Phased'
    BY <1>7 DEF vars, Inductive, Phased
  <2>4. Frontier'
    BY <1>7, <2>1 DEF vars, Inductive, Frontier, Running, Tasks, IdsOf
  <2>5. Traced'
    BY <1>7, <2>1 DEF vars, Inductive, Traced, Running
  <2> QED BY <2>2, <2>3, <2>4, <2>5 DEF Inductive
<1> QED BY <1>1, <1>2, <1>3, <1>4, <1>5, <1>6, <1>7 DEF Next, Progress, Work

THEOREM Invariant == Spec => []Inductive
BY Starts, Keeps, PTL DEF Spec

-----------------------------------------------------------------------------
(* What the rounds promise.                                                *)

\* The variables keep their types, and no sequence of loops, replans and
\* modified plans passes the limits of WorkflowRunner.
THEOREM TypeCorrect == Spec => []TypeOK
<1>1. Inductive => TypeOK
  BY DEF Inductive
<1> QED BY <1>1, Invariant, PTL

\* An agent starts only when the results of the tasks it depends on are in the
\* state it reads, whatever the plan is (_add_edges, _build_node).
THEOREM DependenciesFirst == Spec => []AfterDeps
<1>1. Inductive => AfterDeps
  <2> SUFFICES ASSUME Inductive, NEW t \in Busy
               PROVE  t.deps \cap IdsOf(graph) \subseteq DOMAIN Results
    BY DEF AfterDeps
  <2>1. t \in Tasks(graph) /\ t.id \in DOMAIN front
    BY DEF Busy
  <2>2. Running
    BY <2>1 DEF Inductive, Phased, Running
  <2> QED BY <2>1, <2>2 DEF Inductive, Frontier
<1> QED BY <1>1, Invariant, PTL

\* An agent runs at most once in a round: a round that a review repeats on the
\* same thread finds the results of what it ran (_build_node).
THEOREM RunsOnce == Spec => OncePerThread
<1>1. Inductive /\ [Next]_vars => [\A t \in Tasks(graph) : Begin(t) => <<Thread, t.id>> \notin started]_vars
  <2> SUFFICES ASSUME Inductive, NEW t \in Tasks(graph), Begin(t), <<Thread, t.id>> \in started
               PROVE  FALSE
    OBVIOUS
  <2>1. phase = "run" /\ t.id \in DOMAIN front /\ front[t.id] = "todo" /\ t.id \notin DOMAIN Results
    BY DEF Begin, Todo
  <2>2. \/ Thread \in DOMAIN threads /\ t.id \in DOMAIN threads[Thread]
        \/ t.id \in DOMAIN front /\ front[t.id] # "todo"
    BY <2>1 DEF Inductive, Traced, Running
  <2> QED BY <2>1, <2>2 DEF Results
<1> QED BY <1>1, Invariant, PTL DEF Spec, OncePerThread

-----------------------------------------------------------------------------
(* Two copies of the results.  Threads that the workflow keeps for itself  *)
(* hold nothing but results of the message; a round that is new has a      *)
(* thread of its own.                                                      *)

AgreesWith(f, c) == \A i \in DOMAIN f : ~f[i].failed => i \in DOMAIN c /\ c[i] = f[i]

\* No thread belongs to a round after round <<a, b>>.
Upto(keys, a, b) ==
  \A x \in keys : \E m, n \in Nat : x = <<m, n>> /\ (m < a \/ (m = a /\ n <= b))

Private ==
  Running => /\ AgreesWith(Results, context)
             /\ AgreesWith(writes, context)
             /\ Upto(DOMAIN threads, replan, loop)
             /\ replan = 0 => seed = Nothing

LEMMA MergeAgrees ==
  ASSUME NEW f, NEW g, NEW c, AgreesWith(f, c), AgreesWith(g, c)
  PROVE  AgreesWith(Merge(f, g), c)
BY DEF AgreesWith, Merge

LEMMA NothingAgrees ==
  ASSUME NEW f, NEW c, DOMAIN f = {}
  PROVE  AgreesWith(f, c)
BY DEF AgreesWith

LEMMA LaunchPrivate ==
  ASSUME NEW p, NEW a \in Nat, NEW b \in Nat, NEW known, NEW kept,
         Launch(p, <<a, b>>, known, kept), Builds(p),
         AgreesWith(known, context'),
         <<a, b>> \in DOMAIN kept => AgreesWith(kept[<<a, b>>], context'),
         Upto(DOMAIN kept, a, b),
         a = 0 => known = Nothing
  PROVE  Private'
<1> DEFINE th == <<a, b>>
           old == IF th \in DOMAIN kept THEN kept[th] ELSE Nothing
           new == Merge(old, known)
<1>1. /\ replan' = a /\ loop' = b /\ seed' = known /\ DOMAIN writes' = {}
      /\ threads' = Put(kept, th, new)
  BY NothingIs DEF Launch
<1>2. AgreesWith(new, context')
  <2>1. AgreesWith(old, context')
    <3>1. CASE th \in DOMAIN kept
      BY <3>1
    <3>2. CASE th \notin DOMAIN kept
      BY <3>2, NothingIs, NothingAgrees
    <3> QED BY <3>1, <3>2
  <2> HIDE DEF old
  <2> QED BY <2>1, MergeAgrees
<1>3. Thread' = th
  BY <1>1 DEF Thread
<1> HIDE DEF new, th
<1>4. DOMAIN threads' = DOMAIN kept \cup {th} /\ Results' = new
  BY <1>1, <1>3 DEF Put, Results
<1>5. AgreesWith(Results, context)'
  BY <1>2, <1>4 DEF AgreesWith
<1>6. AgreesWith(writes, context)'
  BY <1>1 DEF AgreesWith
<1>7. Upto(DOMAIN threads, replan, loop)'
  <2> SUFFICES ASSUME NEW x \in DOMAIN kept \cup {th}
               PROVE  \E m, n \in Nat : x = <<m, n>> /\ (m < a \/ (m = a /\ n <= b))
    BY <1>1, <1>4 DEF Upto
  <2>1. CASE x = th
    BY <2>1 DEF th
  <2>2. CASE x \in DOMAIN kept
    BY <2>2 DEF Upto
  <2> QED BY <2>1, <2>2
<1>8. (replan = 0 => seed = Nothing)'
  BY <1>1 DEF Nothing
<1> QED BY <1>5, <1>6, <1>7, <1>8 DEF Private

LEMMA EnterPrivate ==
  ASSUME SharedSaver = FALSE, NEW p, Enter(p)
  PROVE  Private'
<1>1. CASE Builds(p)
  <2>1. Launch(p, <<0, 0>>, Nothing, Nothing)
    BY <1>1 DEF Enter, Kept
  <2>2. /\ AgreesWith(Nothing, context') /\ Upto(DOMAIN Nothing, 0, 0)
        /\ <<0, 0>> \notin DOMAIN Nothing
    BY NothingIs, NothingAgrees DEF Upto
  <2> QED BY <1>1, <2>1, <2>2, LaunchPrivate
<1>2. CASE ~Builds(p)
  BY <1>2 DEF Enter, Idle, Private, Running
<1> QED BY <1>1, <1>2

\* A task that ran for the first time leaves the same result in both; a task
\* that failed may leave an older one in the context.
LEMMA ReturnPrivate ==
  ASSUME Inductive, Private, phase = "run", NEW t \in Tasks(graph), NEW entry, NEW known,
         Return(t, entry, known),
         \/ known = Put(context, t.id, entry) /\ t.id \notin DOMAIN Results
         \/ known = PutNew(context, t.id, entry) /\ entry.failed
  PROVE  Private'
<1>1. /\ writes' = Put(writes, t.id, entry) /\ context' = known
      /\ UNCHANGED <<phase, replan, loop, seed, threads>>
  BY DEF Return, InGraph
<1>2. UNCHANGED Results
  BY <1>1 DEF Results, Thread
<1>3. /\ AgreesWith(Results, context) /\ AgreesWith(writes, context)
      /\ Upto(DOMAIN threads, replan, loop) /\ (replan = 0 => seed = Nothing)
  BY DEF Private, Running
<1>4. AgreesWith(Results, known) /\ AgreesWith(Put(writes, t.id, entry), known)
  <2>1. CASE known = Put(context, t.id, entry) /\ t.id \notin DOMAIN Results
    BY <1>3, <2>1 DEF AgreesWith, Put
  <2>2. CASE known = PutNew(context, t.id, entry) /\ entry.failed
    BY <1>3, <2>2 DEF AgreesWith, Put, PutNew
  <2> QED BY <2>1, <2>2
<1>5. AgreesWith(Results, context)' /\ AgreesWith(writes, context)'
  BY <1>1, <1>2, <1>4 DEF AgreesWith
<1>6. Upto(DOMAIN threads, replan, loop)' /\ (replan = 0 => seed = Nothing)'
  BY <1>1, <1>3 DEF Upto, Nothing
<1> QED BY <1>5, <1>6 DEF Private

LEMMA WorkPrivate ==
  ASSUME Inductive, Private, Work
  PROVE  Private'
<1> SUFFICES ASSUME NEW t \in Tasks(graph),
                    \/ Skip(t) \/ Begin(t) \/ AcquireTimeout(t) \/ Fail(t)
                    \/ \E out \in Outs \ {"error"} : Complete(t, out)
             PROVE  Private'
  BY DEF Work, TaskStep, AgentReturns
<1>1. CASE Skip(t) \/ Begin(t)
  <2>1. /\ UNCHANGED <<phase, replan, loop, seed, threads, context, writes>> /\ phase = "run"
    BY <1>1 DEF Skip, Begin, Todo, InGraph
  <2>2. UNCHANGED Results
    BY <2>1 DEF Results, Thread
  <2> QED BY <2>1, <2>2 DEF Private, Running, AgreesWith, Upto, Nothing
<1>2. CASE AcquireTimeout(t)
  <2> DEFINE error == Result(t, "error", TRUE)
  <2>1. phase = "run" /\ Return(t, error, PutNew(context, t.id, error))
    BY <1>2 DEF AcquireTimeout, Todo
  <2>2. error.failed
    BY DEF Result
  <2> HIDE DEF error
  <2> QED BY <2>1, <2>2, ReturnPrivate
<1>3. ASSUME t \in Busy
      PROVE  phase = "run" /\ t.id \notin DOMAIN Results
  <2>1. t.id \in DOMAIN front /\ front[t.id] = "busy"
    BY <1>3 DEF Busy
  <2>2. phase = "run"
    BY <2>1 DEF Inductive, Phased
  <2> QED BY <2>1, <2>2 DEF Inductive, Frontier, Running
<1>4. CASE Fail(t)
  <2> DEFINE result == Result(t, "empty", TRUE)
  <2>1. t \in Busy /\ Return(t, result, PutNew(context, t.id, result))
    BY <1>4 DEF Fail
  <2>2. result.failed
    BY DEF Result
  <2> HIDE DEF result
  <2> QED BY <1>3, <2>1, <2>2, ReturnPrivate
<1>5. ASSUME NEW out \in Outs \ {"error"}, Complete(t, out) PROVE Private'
  <2> DEFINE result == Result(t, out, FALSE)
  <2>1. t \in Busy /\ Return(t, result, Put(context, t.id, result))
    BY <1>5 DEF Complete
  <2> HIDE DEF result
  <2> QED BY <1>3, <2>1, ReturnPrivate
<1> QED BY <1>1, <1>2, <1>4, <1>5

LEMMA SuperStepPrivate ==
  ASSUME Inductive, Private, SuperStep
  PROVE  Private'
<1> DEFINE merged == Merge(Results, writes)
<1>1. /\ phase = "run" /\ UNCHANGED <<replan, loop, seed, context>> /\ DOMAIN writes' = {}
      /\ threads' = [threads EXCEPT ![Thread] = merged]
  BY NothingIs DEF SuperStep, Results
<1>2. /\ AgreesWith(Results, context) /\ AgreesWith(writes, context)
      /\ Upto(DOMAIN threads, replan, loop) /\ (replan = 0 => seed = Nothing)
      /\ Thread \in DOMAIN threads
  BY <1>1 DEF Private, Running, Inductive, TypeOK
<1>3. AgreesWith(merged, context)
  BY <1>2, MergeAgrees
<1> HIDE DEF merged
<1>4. DOMAIN threads' = DOMAIN threads /\ threads'[Thread] = merged
  BY <1>1, <1>2
<1>5. Results' = merged
  BY <1>1, <1>4 DEF Results, Thread
<1>6. AgreesWith(Results, context)' /\ AgreesWith(writes, context)'
  BY <1>1, <1>3, <1>5 DEF AgreesWith
<1>7. Upto(DOMAIN threads, replan, loop)' /\ (replan = 0 => seed = Nothing)'
  BY <1>1, <1>2, <1>4 DEF Upto, Nothing
<1> QED BY <1>6, <1>7 DEF Private

\* A new round has a thread of its own, or, when a review changed nothing, goes
\* on with the one it had.
LEMMA RoundPrivate ==
  ASSUME Inductive, Private, Advance \/ AmendNothing \/ \E p \in Edited : Amend(p)
  PROVE  Private'
<1>1. /\ phase \in {"review", "advance"} /\ context' = context /\ (phase = "review" => replan = 0)
  BY DEF Advance, LoopAgain, Replan, Finish, Advancing, AmendNothing, Amend, Kind, Inductive, Phased
<1>2. /\ AgreesWith(Results, context) /\ Upto(DOMAIN threads, replan, loop)
      /\ (replan = 0 => seed = Nothing) /\ replan \in Nat /\ loop \in Nat /\ Builds(graph)
  <2>1. /\ loop \in 0..MaxLoop /\ replan \in 0..(IF MaxReplan > 1 THEN MaxReplan ELSE 1)
        /\ Builds(graph)
    BY <1>1 DEF Inductive, TypeOK
  <2> QED BY <1>1, <2>1, PlanAssumption DEF Private, Running
<1>3. AgreesWith(Nothing, context')
  BY NothingIs, NothingAgrees
<1>4. /\ <<replan, loop + 1>> \notin DOMAIN threads /\ Upto(DOMAIN threads, replan, loop + 1)
      /\ <<replan + 1, loop>> \notin DOMAIN threads /\ Upto(DOMAIN threads, replan + 1, loop)
  BY <1>2 DEF Upto
<1>5. CASE AmendNothing
  <2>1. /\ Launch(graph, <<replan, loop>>, Nothing, threads) /\ replan = 0
        /\ AgreesWith(threads[<<replan, loop>>], context')
    BY <1>1, <1>2, <1>5 DEF AmendNothing, Thread, Results
  <2> QED BY <1>2, <1>3, <2>1, LaunchPrivate
<1>6. ASSUME NEW p \in Edited, Amend(p) PROVE Private'
  <2> DEFINE q == IF Builds(p) THEN p ELSE graph
  <2>1. Launch(q, <<replan + 1, loop>>, Nothing, threads)
    BY <1>1, <1>2, <1>6 DEF Amend
  <2>2. Builds(q) /\ replan + 1 \in Nat
    BY <1>2
  <2> HIDE DEF q
  <2> QED BY <1>2, <1>3, <1>4, <2>1, <2>2, LaunchPrivate
<1>7. ASSUME Over PROVE Private'
  BY <1>7 DEF Over, Private, Running
<1>8. CASE LoopAgain
  <2>1. Round(plan, <<replan, loop + 1>>, Nothing) /\ loop + 1 \in Nat
    BY <1>2, <1>8 DEF LoopAgain
  <2>2. CASE Builds(plan)
    <3>1. Launch(plan, <<replan, loop + 1>>, Nothing, threads)
      BY <2>1, <2>2 DEF Round
    <3> QED BY <1>2, <1>3, <1>4, <2>1, <2>2, <3>1, LaunchPrivate
  <2> QED BY <1>7, <2>1, <2>2 DEF Round
<1>9. ASSUME NEW p \in Followups, NEW query \in Queries, Replan(p, query) PROVE Private'
  <2> DEFINE q == ReuseIds(plan, Planned(p, query))
  <2>1. Round(q, <<replan + 1, loop>>, context)
    BY <1>9 DEF Replan
  <2> HIDE DEF q
  <2>2. CASE Builds(q)
    <3>1. Launch(q, <<replan + 1, loop>>, context, threads)
      BY <2>1, <2>2 DEF Round
    <3>2. AgreesWith(context, context') /\ replan + 1 \in Nat /\ replan + 1 # 0
      BY <1>1, <1>2 DEF AgreesWith
    <3> QED BY <1>2, <1>4, <2>2, <3>1, <3>2, LaunchPrivate
  <2> QED BY <1>7, <2>1, <2>2 DEF Round
<1> QED BY <1>5, <1>6, <1>7, <1>8, <1>9 DEF Advance, Finish

LEMMA KeepsPrivate ==
  ASSUME SharedSaver = FALSE, Inductive, Private, [Next]_vars
  PROVE  Private'
<1>1. CASE Work
  BY <1>1, WorkPrivate
<1>2. CASE SuperStep
  BY <1>2, SuperStepPrivate
<1>3. CASE Advance \/ AmendNothing \/ \E p \in Edited : Amend(p)
  BY <1>3, RoundPrivate
<1>4. CASE Approve \/ UNCHANGED vars
  <2>1. /\ UNCHANGED <<replan, loop, seed, threads, context, writes>>
        /\ Running' => Running
    BY <1>4 DEF Approve, Kind, vars, Running
  <2>2. UNCHANGED Results
    BY <2>1 DEF Results, Thread
  <2> QED BY <2>1, <2>2 DEF Private, AgreesWith, Upto, Nothing
<1>5. CASE Reject \/ Stop \/ Disconnect
  BY <1>5 DEF Reject, Stop, Disconnect, Over, Idle, Private, Running
<1>6. CASE \E p \in Plans, query \in Queries : Receive(p, query)
  BY <1>6, EnterPrivate DEF Receive
<1>7. CASE \E p \in Followups, query \in Queries : GoOn(p, query)
  BY <1>7, EnterPrivate DEF GoOn
<1> QED BY <1>1, <1>2, <1>3, <1>4, <1>5, <1>6, <1>7 DEF Next, Progress, Work, Review, Iterate

\* What advance judges and the answer is made of is what the tasks of the round
\* returned, unless they failed, when threads live no longer than the workflow
\* (_collect_event and the results channel are two copies of the results).
THEOREM ResultsAgree ==
  ASSUME SharedSaver = FALSE
  PROVE  Spec => []ContextAgrees
<1>1. Init => Private
  BY DEF Init, Private, Running
<1>2. Inductive /\ Private /\ [Next]_vars => Private'
  BY KeepsPrivate
<1>3. Private => ContextAgrees
  BY DEF Private, Running, ContextAgrees, AgreesWith
<1> QED BY <1>1, <1>2, <1>3, Invariant, PTL DEF Spec

-----------------------------------------------------------------------------
(* Plans.                                                                  *)

LEMMA Least ==
  ASSUME NEW S \in SUBSET Nat, S # {}
  PROVE  \E x \in S : \A y \in S : x <= y
<1>1. \E x \in S : \A y \in S : <<y, x>> \notin OpToRel(<, Nat)
  BY WFMin, NatLessThanWellFounded
<1>2. PICK x \in S : \A y \in S : <<y, x>> \notin OpToRel(<, Nat)
  BY <1>1
<1>3. ASSUME NEW y \in S PROVE x <= y
  <2>1. <<y, x>> \in Nat \X Nat /\ <<y, x>>[1] = y /\ <<y, x>>[2] = x
    OBVIOUS
  <2>2. <<y, x>> \notin {ss \in Nat \X Nat : ss[1] < ss[2]}
    BY <1>2 DEF OpToRel
  <2>3. ~(y < x)
    BY <2>1, <2>2
  <2> QED BY <2>3
<1> QED BY <1>3

LEMMA FallbackIs ==
  ASSUME NEW query \in Queries
  PROVE  Fallback(query) \in ExecutionPlan /\ Valid(Fallback(query))
<1>1. Fallback(query) \in ExecutionPlan
  <2> DEFINE task == [id |-> "fallback_task", agent |-> "default", text |-> query, deps |-> {},
                      stop |-> TRUE, until |-> FALSE, when |-> "never"]
  <2>1. task \in TaskNode
    <3>1. {} \in SUBSET Names
      OBVIOUS
    <3>2. TRUE \in BOOLEAN /\ FALSE \in BOOLEAN
      OBVIOUS
    <3>3. "fallback_task" \in Names /\ "default" \in Names /\ query \in Names
      BY PlanAssumption
    <3> QED BY <3>1, <3>2, <3>3, Zenon DEF TaskNode
  <2> HIDE DEF task
  <2>2. <<task>> \in Seq(TaskNode)
    BY <2>1
  <2>3. Fallback(query) = [mode |-> "graph", tasks |-> <<task>>]
    BY DEF Fallback, task
  <2> QED BY <2>2, <2>3 DEF ExecutionPlan
<1>2. /\ DOMAIN Fallback(query).tasks = {1} /\ Fallback(query).tasks[1].id = "fallback_task"
      /\ Fallback(query).tasks[1].deps = {} /\ Len(Fallback(query).tasks) = 1
  BY DEF Fallback
<1>3. Distinct(Fallback(query)) /\ IdsOf(Fallback(query)) = {"fallback_task"} /\ \A t \in Tasks(Fallback(query)) : t.deps = {}
  BY <1>2 DEF Distinct, IdsOf, Tasks
<1>4. Acyclic(Fallback(query))
  <2>1. [i \in {"fallback_task"} |-> 1] \in [IdsOf(Fallback(query)) -> 1..Len(Fallback(query).tasks)]
    BY <1>2, <1>3
  <2> QED BY <1>3, <2>1 DEF Acyclic
<1> QED BY <1>1, <1>3, <1>4 DEF Valid

\* The planner hands out valid plans only.
LEMMA PlannedIs ==
  ASSUME NEW p \in ExecutionPlan, NEW query \in Queries
  PROVE  Planned(p, query) \in ExecutionPlan /\ Valid(Planned(p, query))
<1>1. CASE ~Valid(p)
  BY <1>1, FallbackIs DEF Planned
<1>2. CASE Valid(p)
  <2>1. Planned(p, query) \in ExecutionPlan /\ Planned(p, query).tasks = p.tasks
    BY <1>2 DEF Planned, ExecutionPlan
  <2>2. Tasks(Planned(p, query)) = Tasks(p)
    BY <2>1 DEF Tasks
  <2> QED BY <1>2, <2>1, <2>2 DEF Valid, Distinct, Acyclic, IdsOf
<1> QED BY <1>1, <1>2

LEMMA TasksIs ==
  ASSUME NEW p \in ExecutionPlan
  PROVE  /\ p.tasks \in Seq(TaskNode) /\ Tasks(p) \subseteq TaskNode
         /\ \A n \in DOMAIN p.tasks : p.tasks[n] \in Tasks(p)
         /\ \A t \in Tasks(p) : t.id \in Names /\ t.deps \in SUBSET Names
         /\ IdsOf(p) \subseteq Names
<1>1. p.tasks \in Seq(TaskNode)
  BY DEF ExecutionPlan
<1>2. \A n \in DOMAIN p.tasks : p.tasks[n] \in TaskNode
  BY <1>1
<1>3. Tasks(p) \subseteq TaskNode /\ \A n \in DOMAIN p.tasks : p.tasks[n] \in Tasks(p)
  BY <1>2 DEF Tasks
<1>4. \A t \in TaskNode : t.id \in Names /\ t.deps \in SUBSET Names
  BY DEF TaskNode
<1> QED BY <1>1, <1>3, <1>4 DEF IdsOf

\* The first task that is the same, if there is one.
LEMMA FirstIs ==
  ASSUME NEW p \in ExecutionPlan, NEW t, NEW s \in Tasks(p), Same(s, t)
  PROVE  \E n \in DOMAIN p.tasks : Same(p.tasks[n], t) /\ \A m \in 1..n - 1 : ~Same(p.tasks[m], t)
<1> DEFINE S == {n \in DOMAIN p.tasks : Same(p.tasks[n], t)}
<1>1. DOMAIN p.tasks = 1..Len(p.tasks) /\ Len(p.tasks) \in Nat
  BY TasksIs
<1>2. S # {} /\ S \in SUBSET Nat
  BY <1>1 DEF Tasks
<1>3. PICK n \in S : \A m \in S : n <= m
  <2> HIDE DEF S
  <2> QED BY <1>2, Least
<1>4. ASSUME NEW m \in 1..n - 1 PROVE ~Same(p.tasks[m], t)
  <2>1. m \in DOMAIN p.tasks /\ ~(n <= m)
    BY <1>1, <1>3
  <2> QED BY <1>3, <2>1
<1> QED BY <1>3, <1>4

\* What _diff_and_reuse_ids makes of a plan: its tasks with other names, which
\* are names of the same task in the old plan, and the names in the
\* dependencies replaced with them.
Renames(name, new, R) ==
  /\ R.tasks \in Seq(TaskNode) /\ DOMAIN R.tasks = DOMAIN new.tasks /\ Len(R.tasks) = Len(new.tasks)
  /\ \A n \in DOMAIN new.tasks :
       /\ R.tasks[n].id = name[new.tasks[n]]
       /\ Same(R.tasks[n], new.tasks[n])
       /\ \A e \in R.tasks[n].deps : \E d \in new.tasks[n].deps :
            IF d \in IdsOf(new) THEN \E u \in Tasks(new) : u.id = d /\ e = name[u] ELSE e = d

LEMMA ReuseIdsIs ==
  ASSUME NEW old \in ExecutionPlan, NEW new \in ExecutionPlan
  PROVE  /\ ReuseIds(old, new) \in ExecutionPlan
         /\ \E name \in [Tasks(new) -> Names] :
              /\ \A t \in Tasks(new) : \/ name[t] = t.id
                                       \/ \E s \in Tasks(old) : Same(s, t) /\ name[t] = s.id
              /\ Renames(name, new, ReuseIds(old, new))
<1> DEFINE first(t) == CHOOSE n \in DOMAIN old.tasks :
                         Same(old.tasks[n], t) /\ \A m \in 1..n - 1 : ~Same(old.tasks[m], t)
           id(t) == IF \E s \in Tasks(old) : Same(s, t) THEN old.tasks[first(t)].id ELSE t.id
           named(d) == IF d \in IdsOf(new) THEN id(CHOOSE t \in Tasks(new) : t.id = d) ELSE d
           renamed(t) == [t EXCEPT !.id = id(t), !.deps = {named(d) : d \in t.deps}]
           name == [t \in Tasks(new) |-> id(t)]
           R == ReuseIds(old, new)
<1>1. R = [new EXCEPT !.tasks = [n \in DOMAIN new.tasks |-> renamed(new.tasks[n])]]
  BY DEF ReuseIds
<1>2. ASSUME NEW t \in Tasks(new)
      PROVE  /\ id(t) \in Names
             /\ id(t) = t.id \/ \E s \in Tasks(old) : Same(s, t) /\ id(t) = s.id
  <2>1. CASE \E s \in Tasks(old) : Same(s, t)
    <3>1. \E n \in DOMAIN old.tasks : Same(old.tasks[n], t) /\ \A m \in 1..n - 1 : ~Same(old.tasks[m], t)
      BY <2>1, FirstIs
    <3>2. first(t) \in DOMAIN old.tasks /\ Same(old.tasks[first(t)], t)
      BY <3>1
    <3> HIDE DEF first
    <3>3. old.tasks[first(t)] \in Tasks(old) /\ id(t) = old.tasks[first(t)].id
      BY <2>1, <3>2 DEF Tasks
    <3> QED BY <3>2, <3>3, TasksIs
  <2>2. CASE ~\E s \in Tasks(old) : Same(s, t)
    BY <2>2, TasksIs
  <2> QED BY <2>1, <2>2
<1> HIDE DEF id, first
<1>3. ASSUME NEW d \in IdsOf(new)
      PROVE  \E u \in Tasks(new) : u.id = d /\ named(d) = id(u)
  <2>1. \E u \in Tasks(new) : u.id = d
    BY DEF IdsOf
  <2> QED BY <2>1
<1>4. ASSUME NEW d \in Names PROVE named(d) \in Names
  BY <1>2, <1>3
<1> HIDE DEF named
<1>5. ASSUME NEW t \in Tasks(new)
      PROVE  /\ renamed(t) \in TaskNode
             /\ renamed(t).id = id(t) /\ Same(renamed(t), t)
             /\ renamed(t).deps = {named(d) : d \in t.deps}
  <2>1. t \in TaskNode /\ t.deps \subseteq Names
    BY TasksIs
  <2>2. {named(d) : d \in t.deps} \in SUBSET Names
    BY <1>4, <2>1
  <2> QED BY <1>2, <2>1, <2>2 DEF TaskNode, Same
<1> HIDE DEF renamed
<1>6. /\ new.tasks \in Seq(TaskNode) /\ DOMAIN new.tasks = 1..Len(new.tasks)
      /\ \A n \in DOMAIN new.tasks : new.tasks[n] \in Tasks(new)
  BY TasksIs
<1>7. /\ R.tasks = [n \in DOMAIN new.tasks |-> renamed(new.tasks[n])]
      /\ R = [mode |-> new.mode, tasks |-> R.tasks] /\ new.mode \in {"direct", "graph", "dynamic", "debate"}
  BY <1>1 DEF ExecutionPlan
<1>8. R.tasks \in Seq(TaskNode) /\ DOMAIN R.tasks = DOMAIN new.tasks /\ Len(R.tasks) = Len(new.tasks)
  BY <1>5, <1>6, <1>7
<1>9. R \in ExecutionPlan
  BY <1>7, <1>8 DEF ExecutionPlan
<1> HIDE DEF R
<1>10. ASSUME NEW n \in DOMAIN new.tasks
       PROVE  /\ R.tasks[n].id = name[new.tasks[n]]
              /\ Same(R.tasks[n], new.tasks[n])
              /\ \A e \in R.tasks[n].deps : \E d \in new.tasks[n].deps :
                   IF d \in IdsOf(new) THEN \E u \in Tasks(new) : u.id = d /\ e = name[u] ELSE e = d
  <2>1. R.tasks[n] = renamed(new.tasks[n]) /\ new.tasks[n] \in Tasks(new)
    BY <1>6, <1>7
  <2>2. /\ R.tasks[n].id = id(new.tasks[n]) /\ Same(R.tasks[n], new.tasks[n])
        /\ R.tasks[n].deps = {named(d) : d \in new.tasks[n].deps}
    BY <1>5, <2>1
  <2>3. ASSUME NEW d \in new.tasks[n].deps
        PROVE  IF d \in IdsOf(new) THEN \E u \in Tasks(new) : u.id = d /\ named(d) = name[u] ELSE named(d) = d
    BY <1>3 DEF named
  <2> QED BY <2>1, <2>2, <2>3
<1>11. Renames(name, new, R)
  BY <1>8, <1>10 DEF Renames
<1>12. /\ name \in [Tasks(new) -> Names]
       /\ \A t \in Tasks(new) : name[t] = t.id \/ \E s \in Tasks(old) : Same(s, t) /\ name[t] = s.id
  BY <1>2
<1> HIDE DEF name
<1> QED BY <1>9, <1>11, <1>12 DEF R

\* A valid plan stays one when names are reused, unless two of its tasks get
\* the same.
LEMMA ReusedValid ==
  ASSUME NEW old \in ExecutionPlan, NEW new \in ExecutionPlan, Valid(new), Distinct(ReuseIds(old, new))
  PROVE  Valid(ReuseIds(old, new))
<1> DEFINE R == ReuseIds(old, new)
<1>1. PICK name \in [Tasks(new) -> Names] : Renames(name, new, R)
  BY ReuseIdsIs
<1>2. R \in ExecutionPlan /\ Distinct(R)
  BY ReuseIdsIs
<1> HIDE DEF R
<1>3. /\ DOMAIN R.tasks = DOMAIN new.tasks /\ Len(R.tasks) = Len(new.tasks)
      /\ \A n \in DOMAIN new.tasks : new.tasks[n] \in Tasks(new) /\ R.tasks[n] \in Tasks(R)
      /\ \A n \in DOMAIN new.tasks : R.tasks[n].id = name[new.tasks[n]]
  BY <1>1, <1>2, TasksIs DEF Renames
<1>4. ASSUME NEW n \in DOMAIN new.tasks, NEW e \in R.tasks[n].deps
      PROVE  \E m \in DOMAIN new.tasks : new.tasks[m].id \in new.tasks[n].deps /\ e = R.tasks[m].id
  <2>1. PICK d \in new.tasks[n].deps :
          IF d \in IdsOf(new) THEN \E u \in Tasks(new) : u.id = d /\ e = name[u] ELSE e = d
    BY <1>1 DEF Renames
  <2>2. d \in IdsOf(new)
    BY <1>3 DEF Valid
  <2>3. PICK u \in Tasks(new) : u.id = d /\ e = name[u]
    BY <2>1, <2>2
  <2>4. PICK m \in DOMAIN new.tasks : u = new.tasks[m]
    BY DEF Tasks
  <2> QED BY <1>3, <2>3, <2>4
<1>5. \A t \in Tasks(R) : t.deps \subseteq IdsOf(R)
  <2> SUFFICES ASSUME NEW n \in DOMAIN new.tasks, NEW e \in R.tasks[n].deps
               PROVE  e \in IdsOf(R)
    BY <1>3 DEF Tasks
  <2> QED BY <1>3, <1>4 DEF IdsOf
<1>6. PICK rank \in [IdsOf(new) -> 1..Len(new.tasks)] :
        \A t \in Tasks(new) : \A d \in t.deps : rank[d] < rank[t.id]
  BY DEF Valid, Acyclic
<1> DEFINE at(i) == CHOOSE n \in DOMAIN new.tasks : R.tasks[n].id = i
           order == [i \in IdsOf(R) |-> rank[new.tasks[at(i)].id]]
<1>7. ASSUME NEW n \in DOMAIN new.tasks
      PROVE  /\ R.tasks[n].id \in IdsOf(R) /\ order[R.tasks[n].id] = rank[new.tasks[n].id]
             /\ new.tasks[n].id \in IdsOf(new)
  <2>1. R.tasks[n].id \in IdsOf(R) /\ new.tasks[n].id \in IdsOf(new)
    BY <1>3 DEF IdsOf
  <2>2. at(R.tasks[n].id) \in DOMAIN new.tasks /\ R.tasks[at(R.tasks[n].id)].id = R.tasks[n].id
    OBVIOUS
  <2>3. at(R.tasks[n].id) = n
    <3> HIDE DEF at
    <3> QED BY <1>2, <1>3, <2>2 DEF Distinct
  <2> HIDE DEF at
  <2> QED BY <2>1, <2>3
<1> HIDE DEF at
<1>8. order \in [IdsOf(R) -> 1..Len(R.tasks)]
  <2> SUFFICES ASSUME NEW i \in IdsOf(R) PROVE order[i] \in 1..Len(R.tasks)
    OBVIOUS
  <2>1. PICK n \in DOMAIN new.tasks : i = R.tasks[n].id
    <3>1. PICK t \in Tasks(R) : i = t.id
      BY DEF IdsOf
    <3> QED BY <1>3, <3>1 DEF Tasks
  <2>2. order[i] = rank[new.tasks[n].id] /\ new.tasks[n].id \in IdsOf(new)
    BY <1>7, <2>1
  <2> HIDE DEF order
  <2> QED BY <1>3, <1>6, <2>2
<1> HIDE DEF order
<1>9. ASSUME NEW t \in Tasks(R), NEW e \in t.deps PROVE order[e] < order[t.id]
  <2>1. PICK n \in DOMAIN new.tasks : t = R.tasks[n]
    BY <1>3 DEF Tasks
  <2>2. PICK m \in DOMAIN new.tasks : new.tasks[m].id \in new.tasks[n].deps /\ e = R.tasks[m].id
    BY <1>4, <2>1
  <2>3. rank[new.tasks[m].id] < rank[new.tasks[n].id]
    BY <1>3, <1>6, <2>2
  <2> QED BY <1>7, <2>1, <2>2, <2>3
<1>10. Acyclic(R)
  BY <1>8, <1>9 DEF Acyclic
<1> QED BY <1>2, <1>5, <1>10 DEF Valid, R

-----------------------------------------------------------------------------
(* Every task runs.  Until a reviewer edited it, the plan that runs is      *)
(* valid; its graph stops when no task is left whose dependencies have run. *)

Covered ==
  /\ Running => plan \in ExecutionPlan /\ graph \in ExecutionPlan
  /\ Running /\ ~edited =>
       /\ Valid(plan) /\ Valid(graph)
       /\ Entry(graph) \subseteq ran \cup DOMAIN front
       /\ phase # "run" => Ready(graph, ran) = {}

\* Of tasks that depend on each other without a cycle none is left over.
LEMMA NoneLeft ==
  ASSUME NEW p, Valid(p), NEW done, Entry(p) \subseteq done, Ready(p, done) = {},
         Len(p.tasks) \in Nat
  PROVE  IdsOf(p) \subseteq done
<1> SUFFICES ASSUME IdsOf(p) \ done # {} PROVE FALSE
  OBVIOUS
<1>1. PICK rank \in [IdsOf(p) -> 1..Len(p.tasks)] :
        \A t \in Tasks(p) : \A d \in t.deps : rank[d] < rank[t.id]
  BY DEF Valid, Acyclic
<1> DEFINE left == IdsOf(p) \ done
           ranks == {rank[i] : i \in left}
<1>2. ranks # {} /\ ranks \in SUBSET Nat
  BY <1>1
<1>3. PICK r \in ranks : \A s \in ranks : r <= s
  <2> HIDE DEF ranks
  <2> QED BY <1>2, Least
<1>4. PICK i \in left : r = rank[i]
  OBVIOUS
<1>5. PICK t \in Tasks(p) : t.id = i
  BY DEF IdsOf
<1>6. ASSUME NEW d \in t.deps PROVE d \in done
  <2>1. d \in IdsOf(p) /\ rank[d] < rank[i]
    BY <1>1, <1>5 DEF Valid
  <2>2. rank[d] \in Nat /\ rank[i] \in Nat
    BY <1>1, <1>4, <2>1
  <2>3. CASE d \in left
    <3>1. rank[i] <= rank[d]
      BY <1>3, <1>4, <2>3
    <3> QED BY <2>1, <2>2, <3>1
  <2> QED BY <2>1, <2>3
<1>7. CASE t.deps = {}
  BY <1>4, <1>5, <1>7 DEF Entry
<1>8. CASE t.deps # {}
  <2>1. Joined(t, p, done)
    BY <1>6, <1>8 DEF Joined, Valid
  <2> QED BY <1>4, <1>5, <2>1 DEF Ready
<1> QED BY <1>7, <1>8

LEMMA PlansSame ==
  ASSUME UNCHANGED <<plan, graph>>
  PROVE  /\ Valid(plan)' <=> Valid(plan)
         /\ Valid(graph)' <=> Valid(graph)
         /\ Entry(graph)' = Entry(graph)
         /\ Ready(graph, ran)' = Ready(graph, ran')
BY DEF Valid, Distinct, Acyclic, IdsOf, Entry, Tasks, Ready, Joined

LEMMA LaunchCovered ==
  ASSUME NEW p \in ExecutionPlan, Valid(p), plan' = p,
         NEW th, NEW known, NEW kept, Launch(p, th, known, kept)
  PROVE  Covered'
<1>1. phase' = "run" /\ graph' = p /\ DOMAIN front' = Entry(p)
  BY DEF Launch
<1>2. Valid(plan)' /\ Valid(graph)' /\ Entry(graph)' = Entry(p)
  <2>1. Valid(plan)'
    <3>1. Tasks(plan)' = Tasks(p) /\ IdsOf(plan)' = IdsOf(p) /\ Len(plan.tasks)' = Len(p.tasks)
      BY DEF IdsOf, Tasks
    <3>2. Distinct(plan)' /\ (\A t \in Tasks(plan) : t.deps \subseteq IdsOf(plan))'
      BY <3>1 DEF Valid, Distinct
    <3>3. Acyclic(plan)'
      BY <3>1 DEF Valid, Acyclic
    <3> QED BY <3>2, <3>3 DEF Valid
  <2>2. Valid(graph)'
    <3>1. Tasks(graph)' = Tasks(p) /\ IdsOf(graph)' = IdsOf(p) /\ Len(graph.tasks)' = Len(p.tasks)
      BY <1>1 DEF IdsOf, Tasks
    <3>2. Distinct(graph)' /\ (\A t \in Tasks(graph) : t.deps \subseteq IdsOf(graph))'
      BY <1>1, <3>1 DEF Valid, Distinct
    <3>3. Acyclic(graph)'
      BY <3>1 DEF Valid, Acyclic
    <3> QED BY <3>2, <3>3 DEF Valid
  <2>3. Entry(graph)' = Entry(p)
    BY <1>1 DEF Entry, Tasks
  <2> QED BY <2>1, <2>2, <2>3
<1> QED BY <1>1, <1>2 DEF Covered

LEMMA EnterCovered ==
  ASSUME NEW p \in Plans \cup Followups, NEW query \in Queries, Enter(Planned(p, query))
  PROVE  Covered'
<1>1. Planned(p, query) \in ExecutionPlan /\ Valid(Planned(p, query))
  BY PlannedIs, PlanAssumption
<1>2. CASE Builds(Planned(p, query))
  <2>1. plan' = Planned(p, query) /\ Launch(Planned(p, query), <<0, 0>>, Nothing, Kept)
    BY <1>2 DEF Enter
  <2> QED BY <1>1, <2>1, LaunchCovered
<1>3. CASE ~Builds(Planned(p, query))
  BY <1>3 DEF Enter, Idle, Covered, Running
<1> QED BY <1>2, <1>3

LEMMA CoveredKept ==
  ASSUME Covered, UNCHANGED <<phase, plan, graph, ran, edited>>, DOMAIN front' = DOMAIN front
  PROVE  Covered'
BY PlansSame DEF Covered, Running

LEMMA WorkCovered ==
  ASSUME Covered, Work
  PROVE  Covered'
<1>1. InGraph /\ \E i, to : front' = [front EXCEPT ![i] = to]
  <2> SUFFICES ASSUME NEW t \in Tasks(graph),
                      \/ Skip(t) \/ Begin(t) \/ AcquireTimeout(t) \/ Fail(t)
                      \/ \E out \in Outs \ {"error"} : Complete(t, out)
               PROVE  InGraph /\ \E i, to : front' = [front EXCEPT ![i] = to]
    BY DEF Work, TaskStep, AgentReturns
  <2> QED BY DEF Skip, Begin, AcquireTimeout, Fail, Complete, Return
<1>2. UNCHANGED <<phase, plan, graph, ran, edited>> /\ DOMAIN front' = DOMAIN front
  BY <1>1 DEF InGraph
<1> QED BY <1>2, CoveredKept

LEMMA SuperStepCovered ==
  ASSUME Covered, SuperStep
  PROVE  Covered'
<1>1. /\ phase = "run" /\ UNCHANGED <<plan, graph, edited>>
      /\ ran' = ran \cup DOMAIN front
      /\ DOMAIN front' = Ready(graph, ran')
      /\ phase' # "run" => DOMAIN front' = {}
      /\ phase' \in {"run", "review", "advance"}
  BY DEF SuperStep
<1> QED BY <1>1, PlansSame DEF Covered, Running

LEMMA AdvanceCovered ==
  ASSUME Covered, Advance
  PROVE  Covered'
<1>1. phase = "advance" /\ edited' = edited
  BY DEF Advance, LoopAgain, Replan, Finish, Advancing
<1>2. plan \in ExecutionPlan /\ (~edited => Valid(plan))
  BY <1>1 DEF Covered, Running
<1>3. ASSUME Over PROVE Covered'
  BY <1>3 DEF Over, Covered, Running
<1>4. ASSUME NEW p \in ExecutionPlan, NEW th, NEW known, Round(p, th, known),
             ~edited /\ Distinct(p) => Valid(p)
      PROVE  Covered'
  <2>1. CASE Builds(p)
    <3>1. plan' = p /\ Launch(p, th, known, threads)
      BY <1>4, <2>1 DEF Round
    <3>2. CASE ~edited
      BY <1>4, <2>1, <3>1, <3>2, LaunchCovered DEF Builds
    <3>3. CASE edited
      BY <1>1, <3>1, <3>3 DEF Covered, Launch
    <3> QED BY <3>2, <3>3
  <2>2. CASE ~Builds(p)
    BY <1>3, <1>4, <2>2 DEF Round
  <2> QED BY <2>1, <2>2
<1>5. CASE LoopAgain
  <2>1. Round(plan, <<replan, loop + 1>>, Nothing)
    BY <1>5 DEF LoopAgain
  <2> QED BY <1>2, <1>4, <2>1
<1>6. ASSUME NEW p \in Followups, NEW query \in Queries, Replan(p, query) PROVE Covered'
  <2> DEFINE q == Planned(p, query)
  <2>1. q \in ExecutionPlan /\ Valid(q)
    BY PlannedIs, PlanAssumption
  <2>2. Round(ReuseIds(plan, q), <<replan + 1, loop>>, context)
    BY <1>6 DEF Replan
  <2> HIDE DEF q
  <2>3. ReuseIds(plan, q) \in ExecutionPlan
    BY <1>2, <2>1, ReuseIdsIs
  <2>4. Distinct(ReuseIds(plan, q)) => Valid(ReuseIds(plan, q))
    BY <1>2, <2>1, ReusedValid
  <2> QED BY <1>4, <2>2, <2>3, <2>4
<1> QED BY <1>3, <1>5, <1>6 DEF Advance, Finish

LEMMA AmendCovered ==
  ASSUME Covered, AmendNothing \/ \E p \in Edited : Amend(p)
  PROVE  Covered'
<1>1. plan \in ExecutionPlan /\ graph \in ExecutionPlan /\ phase = "review"
  BY DEF AmendNothing, Amend, Covered, Running
<1>2. CASE \E p \in Edited : Amend(p)
  <2>1. plan' \in ExecutionPlan /\ graph' \in ExecutionPlan /\ edited'
    BY <1>1, <1>2, PlanAssumption DEF Amend, Launch
  <2> QED BY <2>1 DEF Covered
<1>3. CASE AmendNothing
  <2>1. /\ UNCHANGED <<plan, graph, edited>> /\ phase' = "run"
        /\ DOMAIN front' = Entry(graph)
    BY <1>3 DEF AmendNothing, Launch
  <2>2. ~edited => Valid(plan) /\ Valid(graph)
    BY <1>1 DEF Covered, Running
  <2> QED BY <1>1, <2>1, <2>2, PlansSame DEF Covered
<1> QED BY <1>2, <1>3

LEMMA KeepsCovered ==
  ASSUME Inductive, Covered, [Next]_vars
  PROVE  Covered'
<1>1. CASE Work
  BY <1>1, WorkCovered
<1>2. CASE SuperStep
  BY <1>2, SuperStepCovered
<1>3. CASE Advance
  BY <1>3, AdvanceCovered
<1>4. CASE AmendNothing \/ \E p \in Edited : Amend(p)
  BY <1>4, AmendCovered
<1>5. CASE UNCHANGED vars
  BY <1>5, CoveredKept DEF vars
<1>6. CASE Approve
  <2>1. /\ phase = "review" /\ phase' = "advance"
        /\ UNCHANGED <<plan, graph, ran, front, edited>>
    BY <1>6 DEF Approve
  <2> QED BY <2>1, PlansSame DEF Covered, Running
<1>7. CASE Reject \/ Stop \/ Disconnect
  BY <1>7 DEF Reject, Stop, Disconnect, Over, Idle, Covered, Running
<1>8. CASE \E p \in Plans, query \in Queries : Receive(p, query)
  BY <1>8, EnterCovered DEF Receive
<1>9. CASE \E p \in Followups, query \in Queries : GoOn(p, query)
  BY <1>9, EnterCovered DEF GoOn
<1> QED BY <1>1, <1>2, <1>3, <1>4, <1>5, <1>6, <1>7, <1>8, <1>9
     DEF Next, Progress, Work, Review, Iterate

\* A round leaves no task of a planner's plan without a result, also when names
\* were reused or results seeded: the check of _validate_plan_structure and the
\* edges of _add_edges are enough for it.
THEOREM EveryTaskRuns == Spec => []AllRan
<1>1. Init => Covered
  BY DEF Init, Covered, Running
<1>2. Inductive /\ Covered /\ [Next]_vars => Covered'
  BY KeepsCovered
<1>3. Inductive /\ Covered => AllRan
  <2> SUFFICES ASSUME Inductive, Covered, phase \in {"review", "advance"}, ~edited
               PROVE  IdsOf(graph) \subseteq DOMAIN Results
    BY DEF AllRan
  <2>1. DOMAIN front = {} /\ Running /\ ran \subseteq DOMAIN Results
    BY DEF Inductive, Phased, Frontier, Running
  <2>2. Valid(graph) /\ Entry(graph) \subseteq ran /\ Ready(graph, ran) = {}
    BY <2>1 DEF Covered
  <2>3. Len(graph.tasks) \in Nat
    BY <2>1, TasksIs DEF Covered
  <2> QED BY <2>1, <2>2, <2>3, NoneLeft
<1> QED BY <1>1, <1>2, <1>3, Invariant, PTL DEF Spec

-----------------------------------------------------------------------------
(* Names.  Whatever is renamed, seeded or kept goes by a name that a plan  *)
(* gave to the same task.                                                  *)

Given(i, r) == \E p \in Sources : \E t \in Tasks(p) : t.id = i /\ Same(t, r)
GivenTasks(p) == \A t \in Tasks(p) : Given(t.id, t)
GivenResults(f) == \A i \in DOMAIN f : Given(i, f[i])

Named ==
  /\ GivenTasks(plan) /\ GivenTasks(graph)
  /\ GivenResults(context) /\ GivenResults(seed) /\ GivenResults(writes)
  /\ \A x \in DOMAIN threads : GivenResults(threads[x])

LEMMA SourceGiven ==
  ASSUME NEW p \in Sources
  PROVE  GivenTasks(p)
BY DEF GivenTasks, Given, Same

LEMMA PlannedGiven ==
  ASSUME NEW p \in Plans \cup Followups, NEW query \in Queries
  PROVE  GivenTasks(Planned(p, query))
<1>1. CASE ~Valid(p)
  BY <1>1, SourceGiven DEF Planned, Sources
<1>2. CASE Valid(p)
  <2>1. Planned(p, query).tasks = p.tasks
    BY <1>2, PlanAssumption DEF Planned, ExecutionPlan
  <2> QED BY <2>1, SourceGiven DEF Sources, GivenTasks, Tasks
<1> QED BY <1>1, <1>2

LEMMA ReusedGiven ==
  ASSUME NEW old \in ExecutionPlan, NEW new \in ExecutionPlan, GivenTasks(old), GivenTasks(new)
  PROVE  GivenTasks(ReuseIds(old, new))
<1> DEFINE R == ReuseIds(old, new)
<1>1. PICK name \in [Tasks(new) -> Names] :
        /\ \A t \in Tasks(new) : name[t] = t.id \/ \E s \in Tasks(old) : Same(s, t) /\ name[t] = s.id
        /\ Renames(name, new, R)
  BY ReuseIdsIs
<1> HIDE DEF R
<1> SUFFICES ASSUME NEW u \in Tasks(R) PROVE Given(u.id, u)
  BY DEF GivenTasks, R
<1>2. PICK n \in DOMAIN new.tasks : u.id = name[new.tasks[n]] /\ Same(u, new.tasks[n])
  BY <1>1 DEF Renames, Tasks
<1>3. new.tasks[n] \in Tasks(new)
  BY TasksIs
<1>4. CASE name[new.tasks[n]] = new.tasks[n].id
  BY <1>2, <1>3, <1>4 DEF GivenTasks, Given, Same
<1>5. ASSUME NEW s \in Tasks(old), Same(s, new.tasks[n]), name[new.tasks[n]] = s.id
      PROVE  Given(u.id, u)
  BY <1>2, <1>5 DEF GivenTasks, Given, Same
<1> QED BY <1>1, <1>3, <1>4, <1>5

LEMMA PutGiven ==
  ASSUME NEW f, GivenResults(f), NEW i, NEW v, Given(i, v)
  PROVE  GivenResults(Put(f, i, v)) /\ GivenResults(PutNew(f, i, v))
BY DEF GivenResults, Put, PutNew

LEMMA MergeGiven ==
  ASSUME NEW f, GivenResults(f), NEW g, GivenResults(g)
  PROVE  GivenResults(Merge(f, g))
BY DEF GivenResults, Merge

LEMMA NothingGiven == GivenResults(Nothing)
BY NothingIs DEF GivenResults

LEMMA LaunchGiven ==
  ASSUME NEW p, GivenTasks(p), NEW th, NEW known, GivenResults(known),
         NEW kept, \A x \in DOMAIN kept : GivenResults(kept[x]),
         Launch(p, th, known, kept), GivenTasks(plan)', GivenResults(context)'
  PROVE  Named'
<1> DEFINE old == IF th \in DOMAIN kept THEN kept[th] ELSE Nothing
           new == Merge(old, known)
<1>1. /\ graph' = p /\ seed' = known /\ writes' = Nothing /\ threads' = Put(kept, th, new)
  BY DEF Launch
<1>2. GivenResults(new)
  <2>1. GivenResults(old)
    BY NothingGiven
  <2> HIDE DEF old
  <2> QED BY <2>1, MergeGiven
<1> HIDE DEF new
<1>3. \A x \in DOMAIN threads' : GivenResults(threads'[x])
  BY <1>1, <1>2 DEF Put
<1>4. GivenTasks(graph)' /\ GivenResults(seed)' /\ GivenResults(writes)'
  <2>1. GivenTasks(graph)'
    BY <1>1 DEF GivenTasks, Tasks
  <2>2. GivenResults(seed)' /\ GivenResults(writes)'
    BY <1>1, NothingGiven DEF GivenResults
  <2> QED BY <2>1, <2>2
<1>5. (\A x \in DOMAIN threads : GivenResults(threads[x]))'
  BY <1>3 DEF GivenResults
<1> QED BY <1>4, <1>5 DEF Named

\* A plan and the threads of an earlier workflow, or none.
LEMMA EnterGiven ==
  ASSUME Named, NEW p \in Plans \cup Followups, NEW query \in Queries, Enter(Planned(p, query)), GivenResults(context)'
  PROVE  Named'
<1>1. GivenTasks(Planned(p, query)) /\ plan' = Planned(p, query)
  BY PlannedGiven DEF Enter
<1>2. GivenTasks(plan)'
  BY <1>1 DEF GivenTasks, Tasks
<1>3. \A x \in DOMAIN Kept : GivenResults(Kept[x])
  BY NothingIs DEF Kept, Named
<1>4. CASE Builds(Planned(p, query))
  <2>1. Launch(Planned(p, query), <<0, 0>>, Nothing, Kept)
    BY <1>4 DEF Enter
  <2> QED BY <1>1, <1>2, <1>3, <2>1, NothingGiven, LaunchGiven
<1>5. CASE Idle
  <2>1. threads' = Kept /\ seed' = Nothing /\ writes' = Nothing /\ graph' = graph
    BY <1>5 DEF Idle
  <2>2. (\A x \in DOMAIN threads : GivenResults(threads[x]))'
    BY <1>3, <2>1 DEF GivenResults
  <2>3. GivenResults(seed)' /\ GivenResults(writes)' /\ GivenTasks(graph)'
    BY <2>1, NothingGiven DEF GivenResults, GivenTasks, Tasks, Named
  <2> QED BY <1>2, <2>2, <2>3 DEF Named
<1> QED BY <1>4, <1>5 DEF Enter

LEMMA WorkGiven ==
  ASSUME Named, Work
  PROVE  Named'
<1> SUFFICES ASSUME NEW t \in Tasks(graph),
                    \/ Skip(t) \/ Begin(t) \/ AcquireTimeout(t) \/ Fail(t)
                    \/ \E out \in Outs \ {"error"} : Complete(t, out)
             PROVE  Named'
  BY DEF Work, TaskStep, AgentReturns
<1>1. UNCHANGED <<plan, graph, seed, threads>>
  BY DEF Skip, Begin, AcquireTimeout, Fail, Complete, Return, InGraph
<1>2. GivenTasks(plan)' /\ GivenTasks(graph)' /\ GivenResults(seed)'
      /\ (\A x \in DOMAIN threads : GivenResults(threads[x]))'
  BY <1>1 DEF Named, GivenTasks, Tasks, GivenResults
<1>3. GivenResults(context') /\ GivenResults(writes')
  <2>1. CASE Skip(t) \/ Begin(t)
    BY <2>1 DEF Skip, Begin, Named
  <2>2. ASSUME NEW out, NEW failed, Return(t, Result(t, out, failed), context'),
               \/ context' = Put(context, t.id, Result(t, out, failed))
               \/ context' = PutNew(context, t.id, Result(t, out, failed))
        PROVE  GivenResults(context') /\ GivenResults(writes')
    <3> DEFINE entry == Result(t, out, failed)
    <3>1. Given(t.id, entry)
      BY DEF Named, GivenTasks, Given, Result, Same
    <3>2. writes' = Put(writes, t.id, entry)
      BY <2>2 DEF Return
    <3>3. context' = Put(context, t.id, entry) \/ context' = PutNew(context, t.id, entry)
      BY <2>2
    <3> HIDE DEF entry
    <3> QED BY <3>1, <3>2, <3>3, PutGiven DEF Named
  <2>3. CASE AcquireTimeout(t)
    BY <2>2, <2>3 DEF AcquireTimeout, Return
  <2>4. CASE Fail(t)
    BY <2>2, <2>4 DEF Fail, Return
  <2>5. ASSUME NEW out \in Outs \ {"error"}, Complete(t, out)
        PROVE  GivenResults(context') /\ GivenResults(writes')
    BY <2>2, <2>5 DEF Complete, Return
  <2> QED BY <2>1, <2>3, <2>4, <2>5
<1>4. GivenResults(context)' /\ GivenResults(writes)'
  BY <1>3 DEF GivenResults
<1> QED BY <1>2, <1>4 DEF Named

LEMMA SuperStepGiven ==
  ASSUME Inductive, Named, SuperStep
  PROVE  Named'
<1> DEFINE merged == Merge(Results, writes)
<1>1. /\ UNCHANGED <<plan, graph, seed, context>> /\ writes' = Nothing
      /\ threads' = [threads EXCEPT ![Thread] = merged] /\ phase = "run"
  BY DEF SuperStep, Results
<1>2. GivenResults(merged)
  BY <1>1, MergeGiven DEF Named, Results, Inductive, TypeOK
<1> HIDE DEF merged
<1>3. \A x \in DOMAIN threads' : GivenResults(threads'[x])
  BY <1>1, <1>2 DEF Named
<1>4. (\A x \in DOMAIN threads : GivenResults(threads[x]))'
  BY <1>3 DEF GivenResults
<1>5. GivenTasks(plan)' /\ GivenTasks(graph)' /\ GivenResults(seed)' /\ GivenResults(context)'
  BY <1>1 DEF Named, GivenTasks, Tasks, GivenResults
<1>6. GivenResults(writes)'
  BY <1>1, NothingGiven DEF GivenResults
<1> QED BY <1>4, <1>5, <1>6 DEF Named

\* The threads of a workflow, and the plan and results it has.
LEMMA NamedKept ==
  ASSUME Named, UNCHANGED <<plan, graph, seed, context, writes, threads>>
  PROVE  Named'
BY DEF Named, GivenTasks, Tasks, GivenResults

LEMMA RoundGiven ==
  ASSUME Covered, Named, Advance \/ AmendNothing \/ \E p \in Edited : Amend(p)
  PROVE  Named'
<1>1. /\ phase \in {"review", "advance"} /\ context' = context
      /\ \A x \in DOMAIN threads : GivenResults(threads[x])
      /\ GivenResults(context) /\ GivenResults(seed) /\ GivenTasks(plan) /\ GivenTasks(graph)
  BY DEF Advance, LoopAgain, Replan, Finish, Advancing, AmendNothing, Amend, Kind, Named
<1>2. GivenResults(context)'
  BY <1>1 DEF GivenResults
<1>3. ASSUME NEW p, GivenTasks(p), NEW th, NEW known, GivenResults(known), Round(p, th, known)
      PROVE  Named'
  <2>1. CASE Builds(p)
    <3>1. plan' = p /\ Launch(p, th, known, threads)
      BY <1>3, <2>1 DEF Round
    <3>2. GivenTasks(plan)'
      BY <1>3, <3>1 DEF GivenTasks, Tasks
    <3> QED BY <1>1, <1>2, <1>3, <3>1, <3>2, LaunchGiven
  <2>2. CASE ~Builds(p)
    BY <1>1, <1>3, <2>2, NamedKept DEF Round, Over
  <2> QED BY <2>1, <2>2
<1>4. CASE LoopAgain
  <2>1. Round(plan, <<replan, loop + 1>>, Nothing)
    BY <1>4 DEF LoopAgain
  <2> QED BY <1>1, <1>3, <2>1, NothingGiven
<1>5. ASSUME NEW p \in Followups, NEW query \in Queries, Replan(p, query) PROVE Named'
  <2> DEFINE q == Planned(p, query)
  <2>1. q \in ExecutionPlan /\ GivenTasks(q)
    BY PlannedIs, PlannedGiven, PlanAssumption
  <2>2. Round(ReuseIds(plan, q), <<replan + 1, loop>>, context)
    BY <1>5 DEF Replan
  <2> HIDE DEF q
  <2>3. GivenTasks(ReuseIds(plan, q))
    BY <1>1, <2>1, ReusedGiven DEF Covered, Running
  <2> QED BY <1>1, <1>3, <2>2, <2>3
<1>6. CASE Finish
  BY <1>1, <1>6, NamedKept DEF Finish, Over
<1>7. CASE AmendNothing
  <2>1. Launch(graph, Thread, seed, threads) /\ plan' = plan
    BY <1>7 DEF AmendNothing
  <2>2. GivenTasks(plan)'
    BY <1>1, <2>1 DEF GivenTasks, Tasks
  <2> QED BY <1>1, <1>2, <2>1, <2>2, LaunchGiven
<1>8. ASSUME NEW p \in Edited, Amend(p) PROVE Named'
  <2> DEFINE q == IF Builds(p) THEN p ELSE graph
  <2>1. Launch(q, <<replan + 1, loop>>, seed, threads) /\ plan' = p
    BY <1>8 DEF Amend
  <2>2. GivenTasks(p) /\ GivenTasks(q)
    BY <1>1, SourceGiven DEF Sources
  <2>3. GivenTasks(plan)'
    BY <2>1, <2>2 DEF GivenTasks, Tasks
  <2> HIDE DEF q
  <2> QED BY <1>1, <1>2, <2>1, <2>2, <2>3, LaunchGiven
<1> QED BY <1>4, <1>5, <1>6, <1>7, <1>8 DEF Advance

LEMMA KeepsNamed ==
  ASSUME Inductive, Covered, Named, [Next]_vars
  PROVE  Named'
<1>1. CASE Work
  BY <1>1, WorkGiven
<1>2. CASE SuperStep
  BY <1>2, SuperStepGiven
<1>3. CASE Advance \/ AmendNothing \/ \E p \in Edited : Amend(p)
  BY <1>3, RoundGiven
<1>4. CASE Approve \/ Reject \/ UNCHANGED vars
  <2>1. UNCHANGED <<plan, graph, seed, context, writes, threads>>
    BY <1>4 DEF Approve, Reject, Over, Kind, vars
  <2> QED BY <2>1, NamedKept
<1>5. CASE Stop \/ Disconnect
  <2>1. /\ UNCHANGED <<plan, context, graph>>
        /\ threads' = Kept /\ seed' = Nothing /\ writes' = Nothing
    BY <1>5 DEF Stop, Disconnect, Idle
  <2>2. \A x \in DOMAIN Kept : GivenResults(Kept[x])
    BY NothingIs DEF Kept, Named
  <2>3. (\A x \in DOMAIN threads : GivenResults(threads[x]))'
    BY <2>1, <2>2 DEF GivenResults
  <2>4. GivenResults(seed)' /\ GivenResults(writes)' /\ GivenResults(context)'
    BY <2>1, NothingGiven DEF GivenResults, Named
  <2>5. GivenTasks(graph)' /\ GivenTasks(plan)'
    BY <2>1 DEF GivenTasks, Tasks, Named
  <2> QED BY <2>3, <2>4, <2>5 DEF Named
<1>6. ASSUME NEW p \in Plans, NEW query \in Queries, Receive(p, query) PROVE Named'
  <2>1. Enter(Planned(p, query)) /\ context' = Nothing
    BY <1>6 DEF Receive
  <2>2. GivenResults(context)'
    BY <2>1, NothingGiven DEF GivenResults
  <2> QED BY <2>1, <2>2, EnterGiven
<1>7. ASSUME NEW p \in Followups, NEW query \in Queries, GoOn(p, query) PROVE Named'
  <2>1. Enter(Planned(p, query)) /\ context' = context
    BY <1>7 DEF GoOn
  <2>2. GivenResults(context)'
    BY <2>1 DEF GivenResults, Named
  <2> QED BY <2>1, <2>2, EnterGiven
<1> QED BY <1>1, <1>2, <1>3, <1>4, <1>5, <1>6, <1>7 DEF Next, Progress, Work, Review, Iterate

\* A task whose name no two plans give to different tasks (two fallbacks of the
\* planner do) is skipped only for a result of its own, although results are seeded, threads shared by messages and names
\* reused (_build_node, _seeded_state, _diff_and_reuse_ids).
THEOREM SkippedForOwn == Spec => SkipsOwn
<1>1. Init => Covered /\ Named
  <2> SUFFICES ASSUME Init PROVE Covered /\ Named
    OBVIOUS
  <2>1. Tasks(NoPlan) = {}
    BY DEF NoPlan, Tasks
  <2>2. GivenTasks(plan) /\ GivenTasks(graph)
    BY <2>1 DEF Init, GivenTasks
  <2>3. \A x \in DOMAIN threads : GivenResults(threads[x])
    BY NothingIs DEF Init
  <2> QED BY <2>2, <2>3, NothingGiven DEF Init, Named, Covered, Running
<1>2. Inductive /\ Covered /\ Named /\ [Next]_vars => Covered' /\ Named'
  BY KeepsCovered, KeepsNamed
<1>3. Inductive /\ Named /\ [Next]_vars => [\A t \in Tasks(graph) : Skip(t) /\ OneName(t.id) => Same(Results[t.id], t)]_vars
  <2> SUFFICES ASSUME Inductive, Named, NEW t \in Tasks(graph), Skip(t), OneName(t.id)
               PROVE  Same(Results[t.id], t)
    OBVIOUS
  <2>1. phase = "run" /\ t.id \in DOMAIN Results /\ Thread \in DOMAIN threads
    BY DEF Skip, Todo, Inductive, TypeOK
  <2>2. Given(t.id, t) /\ Given(t.id, Results[t.id])
    BY <2>1 DEF Named, GivenTasks, GivenResults, Results
  <2> QED BY <2>2 DEF Given, OneName, Same
<1> QED BY <1>1, <1>2, <1>3, Invariant, PTL DEF Spec, SkipsOwn
=============================================================================
