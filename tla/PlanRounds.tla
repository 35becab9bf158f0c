------------------------------ MODULE PlanRounds ------------------------------
(***************************************************************************)
(* The plan executor: one chat session whose messages are planned, run as  *)
(* graphs of agents, reviewed by a human, looped and replanned.            *)
(*                                                                         *)
(* A message starts a workflow (_execute_with_workflow), or a sequence of  *)
(* them in the modes "dynamic" and "debate".  A workflow is a sequence of  *)
(* rounds.  A round runs a graph in super-steps: the tasks of `front` run  *)
(* together, and what they return is merged into the state of the round's  *)
(* thread when all of them have returned.  Then the reviewer is asked      *)
(* (first rounds only) and WorkflowRunner.advance decides what comes next. *)
(*                                                                         *)
(* A task is known by its agent and its text; its id is a name the planner *)
(* invents, and reuses.  Each result remembers the task it came from, and  *)
(* whether that task failed, for the properties: the code keeps neither.   *)
(***************************************************************************)
EXTENDS Naturals, Sequences, FiniteSets

CONSTANTS
  Names,          \* of tasks and agents, and texts of tasks
  Plans,          \* what the planner's model may answer to a message
  Followups,      \* what it may answer when it is asked to go on
  Edited,         \* plans a reviewer may send back
  Queries,        \* prompts the planner is asked with, a user's or its own
  Limited,        \* agents with a rate limit (of one)
  Approval,       \* agent.execution.replan.human_approval
  SharedSaver,    \* threads are kept in MySQL, else by the workflow
  MaxReplan, MaxLoop, MaxSteps, MaxDebate,
  MaxMessages     \* messages of the session

TaskNode == [id : Names, agent : Names, text : Names, deps : SUBSET Names,
             stop : BOOLEAN, until : BOOLEAN, when : {"never", "failed", "keyword"}]
ExecutionPlan == [mode : {"direct", "graph", "dynamic", "debate"}, tasks : Seq(TaskNode)]

ASSUME PlanAssumption ==
  /\ {"fallback_task", "default"} \cup Queries \subseteq Names
  /\ Plans \cup Followups \cup Edited \subseteq ExecutionPlan
  /\ Approval \in BOOLEAN /\ SharedSaver \in BOOLEAN
  /\ MaxReplan \in Nat /\ MaxLoop \in Nat /\ MaxSteps \in Nat /\ MaxDebate \in Nat
  /\ MaxMessages \in Nat

VARIABLES
  phase,          \* what the message's coroutine is doing
  mode,           \* of the plan the message started with
  head,           \* the plan the outer loop handed to the workflow
  plan,           \* `plan` of the workflow: what advance decides about
  graph,          \* the plan the compiled graph was built from
  step,           \* workflows of this message that are over
  replan, loop,   \* rounds of the workflow
  seed,           \* initial_state["results"]
  context,        \* results of the message
  threads,        \* state of each thread: the results channel
  front,          \* the tasks of the super-step and how far each is
  ran,            \* the tasks of earlier super-steps of the round
  writes,         \* what the tasks of the super-step have returned
  started,        \* history: agents started by the workflow, by thread and id
  messages,
  edited          \* history: a reviewer has changed the plan of the workflow

vars == <<phase, mode, head, plan, graph, step, replan, loop, seed, context, threads,
          front, ran, writes, started, messages, edited>>

Phases == {"idle", "run", "review", "advance", "outer"}
Outs == {"plain", "keyword", "error", "empty"}

Tasks(p) == {p.tasks[n] : n \in DOMAIN p.tasks}
IdsOf(p) == {t.id : t \in Tasks(p)}
Distinct(p) == \A m, n \in DOMAIN p.tasks : p.tasks[m].id = p.tasks[n].id => m = n
Same(s, t) == s.agent = t.agent /\ s.text = t.text

Nothing == [i \in {} |-> "none"]
Put(f, i, v) == [j \in DOMAIN f \cup {i} |-> IF j = i THEN v ELSE f[j]]
PutNew(f, i, v) == IF i \in DOMAIN f THEN f ELSE Put(f, i, v)
Merge(f, g) == [j \in DOMAIN f \cup DOMAIN g |-> IF j \in DOMAIN g THEN g[j] ELSE f[j]]

(***************************************************************************)
(* The planner: an answer that is no valid plan is replaced by one task,   *)
(* whose text is the prompt (a message, or what replan, _plan_next_step    *)
(* and _replan_debate ask) and whose id is always the same.                *)
(***************************************************************************)
Acyclic(p) ==
  \E rank \in [IdsOf(p) -> 1..Len(p.tasks)] :
     \A t \in Tasks(p) : \A d \in t.deps : rank[d] < rank[t.id]

Valid(p) == /\ Distinct(p)
            /\ \A t \in Tasks(p) : t.deps \subseteq IdsOf(p)
            /\ Acyclic(p)

Fallback(query) ==
  [mode |-> "graph",
   tasks |-> <<[id |-> "fallback_task", agent |-> "default", text |-> query, deps |-> {},
                stop |-> TRUE, until |-> FALSE, when |-> "never"]>>]

Planned(p, query) ==
  IF ~Valid(p) THEN Fallback(query)
  ELSE IF Len(p.tasks) = 1 THEN [p EXCEPT !.mode = "graph"] ELSE p

(***************************************************************************)
(* The graph.                                                              *)
(***************************************************************************)
Builds(p) == Distinct(p) /\ \E t \in Tasks(p) : t.deps = {}

Entry(p) == {t.id : t \in {u \in Tasks(p) : u.deps = {}}}

\* Mutant: one edge per dependency instead of one for all.
JoinedAny(t, p, done) == t.deps \cap done # {}

Joined(t, p, done) == LET known == t.deps \cap IdsOf(p) IN known # {} /\ known \subseteq done

Ready(p, done) == {t.id : t \in {u \in Tasks(p) : Joined(u, p, done)}} \ done

Thread == <<replan, loop>>
Results == threads[Thread]

Busy == {t \in Tasks(graph) : t.id \in DOMAIN front /\ front[t.id] = "busy"}
Free(t) == t.agent \notin Limited \/ \A u \in Busy : u.agent # t.agent

Result(t, out, failed) == [out |-> out, agent |-> t.agent, text |-> t.text, failed |-> failed]

Launch(p, th, known, kept) ==
  /\ phase' = "run"
  /\ seed' = known
  /\ threads' = Put(kept, th, Merge(IF th \in DOMAIN kept THEN kept[th] ELSE Nothing, known))
  /\ front' = [i \in Entry(p) |-> "todo"]
  /\ ran' = {}
  /\ writes' = Nothing
  /\ graph' = p
  /\ replan' = th[1] /\ loop' = th[2]

Kept == IF SharedSaver THEN threads ELSE Nothing

Idle ==
  /\ phase' = "idle"
  /\ threads' = Kept
  /\ replan' = 0 /\ loop' = 0 /\ seed' = Nothing
  /\ front' = Nothing /\ ran' = {} /\ writes' = Nothing
  /\ UNCHANGED graph

Enter(p) ==
  /\ plan' = p /\ head' = p
  /\ started' = {} /\ edited' = FALSE
  /\ IF Builds(p) THEN Launch(p, <<0, 0>>, Nothing, Kept) ELSE Idle

Receive(p, query) ==
  /\ phase = "idle" /\ messages < MaxMessages
  /\ messages' = messages + 1
  /\ mode' = Planned(p, query).mode
  /\ step' = 0
  /\ context' = Nothing
  /\ Enter(Planned(p, query))

(***************************************************************************)
(* The nodes.  An agent that raises is reported by an event: neither the   *)
(* adapter nor the executor raises, so on_failure is never looked at and   *)
(* the result is the empty string.                                         *)
(***************************************************************************)
Todo(t) == phase = "run" /\ t \in Tasks(graph) /\ t.id \in DOMAIN front /\ front[t.id] = "todo"

InGraph == UNCHANGED <<phase, mode, head, plan, graph, step, replan, loop, seed, threads, ran,
                       messages, edited>>

Return(t, entry, known) ==
  /\ front' = [front EXCEPT ![t.id] = "done"]
  /\ writes' = Put(writes, t.id, entry)
  /\ context' = known
  /\ InGraph /\ UNCHANGED started

Skip(t) ==
  /\ Todo(t) /\ t.id \in DOMAIN Results
  /\ front' = [front EXCEPT ![t.id] = "done"]
  /\ InGraph /\ UNCHANGED <<context, writes, started>>

Begin(t) ==
  /\ Todo(t) /\ t.id \notin DOMAIN Results /\ Free(t)
  /\ front' = [front EXCEPT ![t.id] = "busy"]
  /\ started' = started \cup {<<Thread, t.id>>}
  /\ InGraph /\ UNCHANGED <<context, writes>>

AcquireTimeout(t) ==
  /\ Todo(t) /\ t.id \notin DOMAIN Results /\ ~Free(t)
  /\ LET error == Result(t, "error", TRUE) IN Return(t, error, PutNew(context, t.id, error))

\* Mutant: the result of an earlier round is kept.
CompleteKeeps(t, out) ==
  /\ t \in Busy
  /\ LET result == Result(t, out, FALSE) IN Return(t, result, PutNew(context, t.id, result))

Complete(t, out) ==
  /\ t \in Busy
  /\ LET result == Result(t, out, FALSE) IN Return(t, result, Put(context, t.id, result))

Fail(t) ==
  /\ t \in Busy
  /\ LET result == Result(t, "empty", TRUE) IN Return(t, result, PutNew(context, t.id, result))

SuperStep ==
  /\ phase = "run" /\ \A i \in DOMAIN front : front[i] = "done"
  /\ threads' = [threads EXCEPT ![Thread] = Merge(@, writes)]
  /\ ran' = ran \cup DOMAIN front
  /\ front' = [i \in Ready(graph, ran') |-> "todo"]
  /\ writes' = Nothing
  /\ phase' = IF DOMAIN front' # {} THEN "run"
              ELSE IF Approval /\ replan = 0 THEN "review" ELSE "advance"
  /\ UNCHANGED <<mode, head, plan, graph, step, replan, loop, seed, context, started,
                 messages, edited>>

(***************************************************************************)
(* The review.  No answer in time is a rejection.                          *)
(***************************************************************************)
Over == phase' = "outer" /\ UNCHANGED <<plan, graph, replan, loop, seed, threads, front, ran, writes>>

Kind == UNCHANGED <<mode, head, step, context, started, messages>>

Approve ==
  /\ phase = "review" /\ phase' = "advance"
  /\ Kind /\ UNCHANGED <<plan, graph, replan, loop, seed, threads, front, ran, writes, edited>>

Reject ==
  /\ phase = "review" /\ Over
  /\ Kind /\ UNCHANGED edited

Amend(p) ==
  /\ phase = "review"
  /\ edited' = TRUE
  /\ plan' = p
  /\ Launch(IF Builds(p) THEN p ELSE graph, <<replan + 1, loop>>, seed, threads)
  /\ Kind

\* Mutant: the round that is repeated gets a checkpointer of its own.
AmendForgets ==
  /\ phase = "review"
  /\ Launch(graph, Thread, seed, Nothing)
  /\ Kind /\ UNCHANGED <<plan, edited>>

\* A modification without a valid plan: the round is not counted, so it is
\* repeated, on the thread that has just finished, and reviewed again.
AmendNothing ==
  /\ phase = "review"
  /\ Launch(graph, Thread, seed, threads)
  /\ Kind /\ UNCHANGED <<plan, edited>>

(***************************************************************************)
(* WorkflowRunner.advance.                                                 *)
(***************************************************************************)
Out(i) == IF i \in DOMAIN context THEN context[i].out ELSE "empty"

LoopOn == MaxLoop > 0 /\ \E t \in Tasks(plan) : t.until /\ Out(t.id) # "keyword"

Fires(t) == \/ t.when = "failed" /\ Out(t.id) = "error"
            \/ t.when = "keyword" /\ Out(t.id) = "keyword"

\* Mutant: replans are not limited.
ReplanOnAlways == \E t \in Tasks(plan) : Fires(t)

ReplanOn == replan < MaxReplan /\ \E t \in Tasks(plan) : Fires(t)

\* Mutant: the ids are replaced, the dependencies keep the new ones.
ReuseIdsOnly(old, new) ==
  LET id(t) == IF \E s \in Tasks(old) : Same(s, t)
               THEN (CHOOSE s \in Tasks(old) : Same(s, t)).id ELSE t.id
  IN [new EXCEPT !.tasks = [n \in DOMAIN @ |-> [@[n] EXCEPT !.id = id(new.tasks[n])]]]

\* Mutant: a task of the same agent is taken for the same task.
ReuseIdsByAgent(old, new) ==
  LET first(t) == CHOOSE n \in DOMAIN old.tasks :
                     /\ old.tasks[n].agent = t.agent
                     /\ \A m \in 1..n - 1 : old.tasks[m].agent # t.agent
      id(t) == IF \E s \in Tasks(old) : s.agent = t.agent THEN old.tasks[first(t)].id ELSE t.id
      named(d) == IF d \in IdsOf(new) THEN id(CHOOSE t \in Tasks(new) : t.id = d) ELSE d
      renamed(t) == [t EXCEPT !.id = id(t), !.deps = {named(d) : d \in @}]
  IN [new EXCEPT !.tasks = [n \in DOMAIN @ |-> renamed(@[n])]]

ReuseIds(old, new) ==
  LET first(t) == CHOOSE n \in DOMAIN old.tasks :
                     Same(old.tasks[n], t) /\ \A m \in 1..n - 1 : ~Same(old.tasks[m], t)
      id(t) == IF \E s \in Tasks(old) : Same(s, t) THEN old.tasks[first(t)].id ELSE t.id
      named(d) == IF d \in IdsOf(new) THEN id(CHOOSE t \in Tasks(new) : t.id = d) ELSE d
      renamed(t) == [t EXCEPT !.id = id(t), !.deps = {named(d) : d \in @}]
  IN [new EXCEPT !.tasks = [n \in DOMAIN @ |-> renamed(@[n])]]

Round(p, th, known) ==
  IF Builds(p) THEN plan' = p /\ Launch(p, th, known, threads) ELSE Over

Advancing == phase = "advance" /\ Kind /\ UNCHANGED edited

\* Mutant: a loop is not counted.
LoopUncounted == Advancing /\ LoopOn /\ loop < MaxLoop /\ Round(plan, Thread, Nothing)

LoopAgain == Advancing /\ LoopOn /\ loop < MaxLoop /\ Round(plan, <<replan, loop + 1>>, Nothing)

Replan(p, query) ==
  /\ Advancing /\ ~LoopOn /\ ReplanOn
  /\ Round(ReuseIds(plan, Planned(p, query)), <<replan + 1, loop>>, context)

Finish == Advancing /\ (LoopOn => loop = MaxLoop) /\ Over

(***************************************************************************)
(* Between workflows: the modes that iterate.                              *)
(***************************************************************************)
Settled ==
  CASE mode = "dynamic" -> step + 1 >= MaxSteps \/ Out(head.tasks[1].id) \in {"empty", "error"}
    [] mode = "debate"  -> \/ step + 1 >= MaxDebate \/ step + 1 >= 2
                           \/ Out(head.tasks[Len(head.tasks)].id) \in {"empty", "keyword"}
    [] OTHER -> TRUE

Stop ==
  /\ phase = "outer" /\ Idle
  /\ UNCHANGED <<mode, head, plan, step, context, started, messages, edited>>

GoOn(p, query) ==
  /\ phase = "outer" /\ ~Settled /\ Planned(p, query).tasks # <<>>
  /\ step' = step + 1
  /\ Enter(Planned(p, query))
  /\ UNCHANGED <<mode, context, messages>>

Disconnect ==
  /\ phase # "idle" /\ Idle
  /\ UNCHANGED <<mode, head, plan, step, context, started, messages, edited>>

(***************************************************************************)
(* Behaviours.                                                             *)
(***************************************************************************)
NoPlan == [mode |-> "direct", tasks |-> <<>>]

Init ==
  /\ phase = "idle" /\ mode = "direct"
  /\ head = NoPlan /\ plan = NoPlan /\ graph = NoPlan
  /\ step = 0 /\ replan = 0 /\ loop = 0
  /\ seed = Nothing /\ context = Nothing /\ threads = Nothing
  /\ front = Nothing /\ ran = {} /\ writes = Nothing
  /\ started = {} /\ messages = 0 /\ edited = FALSE

TaskStep == \E t \in Tasks(graph) : Skip(t) \/ Begin(t) \/ AcquireTimeout(t)

\* An agent answers or raises.
AgentReturns == \E t \in Tasks(graph) : Fail(t) \/ \E out \in Outs \ {"error"} : Complete(t, out)

Review == Approve \/ Reject
Advance == LoopAgain \/ Finish \/ \E p \in Followups, query \in Queries : Replan(p, query)
Iterate == Stop \/ \E p \in Followups, query \in Queries : GoOn(p, query)

\* What the coroutine does by itself: waits for a semaphore and for a reviewer
\* have timeouts, an agent that streams has none.
Progress == TaskStep \/ SuperStep \/ Review \/ Advance \/ Iterate

Next == \/ Progress \/ AgentReturns
        \/ \E p \in Plans, query \in Queries : Receive(p, query)
        \/ \E p \in Edited : Amend(p)
        \/ AmendNothing \/ Disconnect

Spec == Init /\ [][Next]_vars /\ WF_vars(Progress)

(***************************************************************************)
(* Properties.                                                             *)
(***************************************************************************)
\* Everything has its type, and the rounds stay within the limits of
\* WorkflowRunner: a reviewer's modification takes one of the replans.
TypeOK ==
  /\ phase \in Phases
  /\ messages \in 0..MaxMessages /\ edited \in BOOLEAN
  /\ loop \in 0..MaxLoop
  /\ replan \in 0..(IF MaxReplan > 1 THEN MaxReplan ELSE 1)
  /\ \A i \in DOMAIN front : front[i] \in {"todo", "busy", "done"}
  /\ \A i \in DOMAIN context : context[i].out \in Outs
  /\ phase \in {"run", "review", "advance"} => Builds(graph) /\ Thread \in DOMAIN threads
  /\ DOMAIN writes \subseteq DOMAIN front /\ ran \cap DOMAIN front = {}

\* An agent starts only when the results of all tasks it depends on are in the
\* state it reads (_add_edges joins the edges of a task).
AfterDeps == \A t \in Busy : t.deps \cap IdsOf(graph) \subseteq DOMAIN Results

\* A round leaves no task of a planner's plan without a result, also when its
\* ids were rewritten by _diff_and_reuse_ids or results were seeded.
AllRan == phase \in {"review", "advance"} /\ ~edited => IdsOf(graph) \subseteq DOMAIN Results

\* What advance judges and the answer is made of, `context`, is what the tasks
\* of the round returned, unless they failed (the results of the thread and
\* the results collected from events are two copies).
ContextAgrees ==
  phase \in {"review", "advance"} =>
    \A i \in DOMAIN Results : ~Results[i].failed => i \in DOMAIN context /\ context[i] = Results[i]

\* An agent runs at most once in a round, also when a review that changes
\* nothing runs the round again on the same thread.
OncePerThread == [][\A t \in Tasks(graph) : Begin(t) => <<Thread, t.id>> \notin started]_vars

\* The plans that can give an id to a task, and whether they give it to one.
Sources == Plans \cup Followups \cup Edited \cup {Fallback(query) : query \in Queries}

OneName(i) ==
  \A p, q \in Sources : \A s \in Tasks(p), t \in Tasks(q) : s.id = i /\ t.id = i => Same(s, t)

\* A task is skipped only for a result of that same task, its agent and text,
\* through seeds and the ids that _diff_and_reuse_ids rewrites, as long as its
\* id, a name that planners invent, is not given to two tasks.
SkipsOwn ==
  [][\A t \in Tasks(graph) : Skip(t) /\ OneName(t.id) => Same(Results[t.id], t)]_vars

\* A task with on_failure "stop" that failed stops the graph: nothing that
\* depends on it starts.
StopStops ==
  \A t \in Busy : \A s \in Tasks(graph) : s.id \in t.deps /\ s.stop => ~Results[s.id].failed

\* Every message ends, for loops, replans and iterations are counted, if its
\* agents return and its reviewer does not for ever send back nothing: the
\* round which that repeats is not counted.
Ends ==
  WF_vars(AgentReturns) /\ <>[][~AmendNothing]_vars
    => ((phase # "idle") ~> (phase = "idle"))
=============================================================================
