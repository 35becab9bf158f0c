-------------------------------- MODULE MCPlan --------------------------------
(***************************************************************************)
(* PlanRounds for model checking.  One id names two tasks in the plans of  *)
(* a reviewer (a1, m1) and when the planner fails for two prompts.         *)
(***************************************************************************)
EXTENDS PlanRounds

Task(id, agent, text, deps) ==
  [id |-> id, agent |-> agent, text |-> text, deps |-> deps,
   stop |-> TRUE, until |-> FALSE, when |-> "never"]
Until(t) == [t EXCEPT !.until = TRUE]
When(t, trigger) == [t EXCEPT !.when = trigger]
Plan(kind, tasks) == [mode |-> kind, tasks |-> tasks]

\* Two tasks of one agent, and one that joins them.
Join == Plan("graph", <<Task("a1", "x", "p", {}), When(Task("a2", "x", "q", {}), "keyword"),
                        When(Task("a3", "y", "r", {"a1", "a2"}), "failed")>>)
\* A chain that is looped until its last task finds the keyword.
Chain == Plan("graph", <<When(Task("b1", "x", "p", {}), "keyword"), Until(Task("b2", "y", "q", {"b1"}))>>)
Fork == Plan("graph", <<Task("f1", "x", "p", {}), Task("f2", "y", "q", {"f1"}), Task("f3", "z", "r", {"f1", "f2"})>>)
Cyclic == Plan("graph", <<Task("c1", "x", "p", {"c2"}), Task("c2", "y", "q", {"c1"})>>)
Dynamic == Plan("dynamic", <<Task("d1", "x", "p", {}), Task("d2", "y", "q", {"d1"})>>)
Debate == Plan("debate", <<Task("e1", "x", "p", {}), Task("e2", "y", "q", {"e1"})>>)

\* One task as before, one more that depends on it.
More == Plan("graph", <<Task("n1", "x", "p", {}), When(Task("n2", "y", "s", {"n1"}), "keyword")>>)
\* The same task twice: both get the old id, and the graph is not built.
Twice == Plan("graph", <<Task("n3", "x", "p", {}), Task("n4", "x", "p", {})>>)
\* A reviewer's plan is not validated: a changed task that keeps its id, one
\* without its dependency and a cycle; and one id for two tasks.
Loose == Plan("graph", <<Task("a1", "x", "changed", {}), Task("m2", "z", "v", {"gone"}),
                         Task("m3", "z", "w", {"m4"}), Task("m4", "z", "o", {"m3"})>>)
Double == Plan("graph", <<Task("m1", "z", "v", {}), Task("m1", "z", "w", {})>>)

MCNames == STRING
MCPlans == {Join, Chain, Fork, Cyclic, Dynamic, Debate}
MCFollowups == {More, Twice, Cyclic, NoPlan}
MCEdited == {Loose, Double}
=============================================================================
