-------------------------------- MODULE Dispatch --------------------------------
(***************************************************************************)
(* Runs and their reviews.  A run is a dispatch of agents, called over the *)
(* API or by a trigger, a message of a chat, or a call of a guarded tool.  *)
(* It passes the quota of its workspace, keeps a record if it is a         *)
(* dispatch, and stops for a human review: the plans after each round, a   *)
(* tool before it is called.  The registry of the reviews holds, for each  *)
(* worker process, the queue that an answer has to reach.                  *)
(*                                                                         *)
(* A worker's event loop runs one of its runs until that one awaits;       *)
(* answers reach any worker.  human_approval is on and the quota's action  *)
(* is "block"; what a round does is PlanRounds' matter.                    *)
(***************************************************************************)
EXTENDS Naturals, FiniteSets

CONSTANTS
  Workers,
  Calls, Triggered,       \* dispatches over the API and by triggers
  Chats,                  \* messages that the plan executor works on
  Tools,                  \* calls of tools the guard does not let pass
  Session,                \* the session of each message
  Limit,                  \* of the quota, in units of one request's estimate
  None,
  MaxArrivals, MaxRounds, MaxFaults

Dispatches == Calls \cup Triggered
Runs == Dispatches \cup Chats \cup Tools

\* The id a review is registered under: new for each dispatch and tool call.
Key(r) == IF r \in Chats THEN Session[r] ELSE r
Keys == {Key(r) : r \in Runs}

Answers == {"approve", "modify", "reject"}
Statuses == {"running", "completed", "failed"}

ASSUME DispatchAssumption ==
  /\ IsFiniteSet(Workers) /\ Workers # {}
  /\ Dispatches \cap Chats = {} /\ Dispatches \cap Tools = {} /\ Chats \cap Tools = {}
  /\ Calls \cap Triggered = {}
  /\ \A r \in Chats : Session[r] \notin Runs
  /\ None \notin Runs \cup Workers \cup Answers \cup Statuses
  /\ Limit \in Nat /\ MaxArrivals \in Nat /\ MaxRounds \in Nat /\ MaxFaults \in Nat

VARIABLES
  used,           \* used_value of the quota
  step,           \* what each run does
  home,           \* the worker it runs on
  round,
  record,         \* tb_dispatch_record: the status of each dispatch
  queue,          \* the registries: the run that made the queue of an id
  box,            \* the answer in the queue of each run
  told,           \* history: the answer accepted for the review of a
                  \* dispatch or a tool
  executed,       \* tools that were called
  faults

vars == <<used, step, home, round, record, queue, box, told, executed, faults>>

Ended == {"refused", "over", "expired", "left", "abandoned"}
Steps == {"new", "checked", "admitted", "run", "offered", "waiting", "advance"} \cup Ended

Init ==
  /\ used = 0
  /\ step = [r \in Runs |-> "new"]
  /\ home = [r \in Runs |-> None]
  /\ round = [r \in Runs |-> 1]
  /\ record = [r \in Dispatches |-> None]
  /\ queue = [w \in Workers |-> [k \in Keys |-> None]]
  /\ box = [r \in Runs |-> None]
  /\ told = [r \in Runs \ Chats |-> None]
  /\ executed = {}
  /\ faults = 0

\* Mutant: an await between the check of the quota and the deduction.
FreeAlways(w) == w \in Workers

\* Nothing runs between a check of the quota and the deduction.
Free(w) == \A r \in Runs : home[r] = w => step[r] # "checked"

Fault == faults < MaxFaults /\ faults' = faults + 1

Goes(r, s) == step' = [step EXCEPT ![r] = s]

-----------------------------------------------------------------------------
(* The quota.  A check that fails lets the request pass.                   *)

Metered(r) == r \in Calls \cup Chats

Arrive(r, w) ==
  /\ step[r] = "new" /\ Free(w)
  /\ Cardinality({s \in Runs : step[s] # "new"}) < MaxArrivals
  /\ home' = [home EXCEPT ![r] = w]
  /\ \/ /\ Goes(r, IF ~Metered(r) THEN "admitted" ELSE IF used + 1 > Limit THEN "refused" ELSE "checked")
        /\ UNCHANGED faults
     \/ Metered(r) /\ Fault /\ Goes(r, "admitted")
  /\ UNCHANGED <<used, round, record, queue, box, told, executed>>

Deduct(r) ==
  /\ step[r] = "checked"
  /\ Goes(r, "admitted")
  /\ \/ used' = used + 1 /\ UNCHANGED faults
     \/ Fault /\ UNCHANGED used
  /\ UNCHANGED <<home, round, record, queue, box, told, executed>>

-----------------------------------------------------------------------------
(* The registry.                                                           *)

\* register replaces a queue there may be.
Registered(r) ==
  /\ queue' = [queue EXCEPT ![home[r]][Key(r)] = r]
  /\ box' = [box EXCEPT ![r] = None]
  /\ told' = IF r \in Chats THEN told ELSE [told EXCEPT ![r] = None]

\* Mutant: only an answer or a timeout removes the queue.
RemovedUnlessCancelled(r) ==
  IF step'[r] = "left" THEN UNCHANGED queue
  ELSE queue' = [queue EXCEPT ![home[r]][Key(r)] = None]

\* await_review ends, in whatever way: it removes what its id has by now.
Removed(r) == queue' = [queue EXCEPT ![home[r]][Key(r)] = None]

\* Mutant: a queue takes any number of answers.
AnswerAlways(w, k, a) ==
  /\ Free(w) /\ queue[w][k] # None
  /\ LET r == queue[w][k]
     IN /\ box' = [box EXCEPT ![r] = a]
        /\ told' = IF r \in Chats THEN told ELSE [told EXCEPT ![r] = IF @ = None THEN a ELSE "several"]
  /\ UNCHANGED <<used, step, home, round, record, queue, executed, faults>>

\* An answer for an id that is not registered at the worker is refused, and so
\* is one to a queue that holds an answer.
Answer(w, k, a) ==
  /\ Free(w) /\ queue[w][k] # None
  /\ LET r == queue[w][k]
     IN /\ box[r] = None
        /\ box' = [box EXCEPT ![r] = a]
        /\ told' = IF r \in Chats THEN told ELSE [told EXCEPT ![r] = IF @ = None THEN a ELSE "several"]
  /\ UNCHANGED <<used, step, home, round, record, queue, executed, faults>>

-----------------------------------------------------------------------------
(* A run.                                                                  *)

Begin(r) ==
  /\ step[r] = "admitted" /\ Free(home[r])
  /\ \/ /\ r \in Dispatches
        /\ \/ record' = [record EXCEPT ![r] = "running"] /\ Goes(r, "run") /\ UNCHANGED faults
           \/ Fault /\ Goes(r, "over") /\ UNCHANGED record
        /\ UNCHANGED <<queue, box, told>>
     \/ r \in Chats /\ Goes(r, "run") /\ UNCHANGED <<record, queue, box, told, faults>>
     \/ r \in Tools /\ Registered(r) /\ Goes(r, "waiting") /\ UNCHANGED <<record, faults>>
  /\ UNCHANGED <<used, home, round, executed>>

\* The round is over and the review is offered: a dispatch registers it first,
\* a chat after the event.  A replan of a chat is not reviewed again.
Offer(r) ==
  /\ step[r] = "run" /\ Free(home[r])
  /\ \/ r \in Dispatches /\ Registered(r) /\ Goes(r, "offered")
     \/ r \in Chats /\ Goes(r, "offered") /\ UNCHANGED <<queue, box, told>>
     \/ r \in Chats /\ round[r] > 1 /\ Goes(r, "advance") /\ UNCHANGED <<queue, box, told>>
  /\ UNCHANGED <<used, home, round, record, executed, faults>>

\* The reader of the events asks for the next one.
Await(r) ==
  /\ step[r] = "offered" /\ Free(home[r])
  /\ \/ r \in Calls /\ UNCHANGED <<queue, box, told>>
     \/ r \in Chats /\ Registered(r)
  /\ Goes(r, "waiting")
  /\ UNCHANGED <<used, home, round, record, executed, faults>>

\* The reader does not: a client has gone, or a trigger, which takes the event
\* for a dictionary and raises.
Abandon(r) ==
  /\ step[r] = "offered" /\ Free(home[r])
  /\ \/ r \in Triggered /\ UNCHANGED faults
     \/ r \in Calls /\ Fault
  /\ Goes(r, "abandoned")
  /\ UNCHANGED <<used, home, round, record, queue, box, told, executed>>

\* Mutant: the guard asks for a rejection instead of an approval.
ReviewedUnlessRejected(r, a) ==
  /\ Goes(r, IF r \in Tools \/ a = "reject" THEN "over" ELSE "advance")
  /\ executed' = IF r \in Tools /\ a # "reject" THEN executed \cup {r} ELSE executed

Reviewed(r, a) ==
  /\ Goes(r, IF r \in Tools \/ a = "reject" THEN "over" ELSE "advance")
  /\ executed' = IF r \in Tools /\ a = "approve" THEN executed \cup {r} ELSE executed

Take(r) ==
  /\ step[r] = "waiting" /\ Free(home[r]) /\ box[r] # None
  /\ Reviewed(r, box[r])
  /\ Removed(r)
  /\ box' = [box EXCEPT ![r] = None]
  /\ UNCHANGED <<used, home, round, record, told, faults>>

\* A timeout counts as a rejection, also when an answer comes with it.
Expire(r) ==
  /\ step[r] = "waiting" /\ Free(home[r])
  /\ Goes(r, "expired")
  /\ Removed(r)
  /\ box' = [box EXCEPT ![r] = None]
  /\ UNCHANGED <<used, home, round, record, told, executed, faults>>

\* advance and the end of a dispatch; the record of one that fails says so.
Again(r) ==
  /\ step[r] = "advance" /\ Free(home[r]) /\ round[r] < MaxRounds
  /\ round' = [round EXCEPT ![r] = @ + 1]
  /\ Goes(r, "run")
  /\ UNCHANGED <<used, home, record, queue, box, told, executed, faults>>

Complete(r) ==
  /\ step[r] = "advance" /\ Free(home[r])
  /\ Goes(r, "over")
  /\ record' = IF r \in Dispatches THEN [record EXCEPT ![r] = "completed"] ELSE record
  /\ UNCHANGED <<used, home, round, queue, box, told, executed, faults>>

Fail(r) ==
  /\ step[r] \in {"run", "advance"} /\ Free(home[r])
  /\ Fault
  /\ Goes(r, "over")
  /\ \/ r \in Dispatches /\ record' = [record EXCEPT ![r] = "failed"]
     \/ UNCHANGED record
  /\ UNCHANGED <<used, home, round, queue, box, told, executed>>

\* The task is cancelled where it awaits.
Cancel(r) ==
  /\ step[r] \in {"run", "waiting", "advance"} \/ (r \in Chats /\ step[r] = "offered")
  /\ Free(home[r])
  /\ Fault
  /\ Goes(r, "left")
  /\ IF step[r] = "waiting" THEN Removed(r) ELSE UNCHANGED queue
  /\ box' = [box EXCEPT ![r] = None]
  /\ UNCHANGED <<used, home, round, record, told, executed>>

Kill(w) ==
  /\ Fault
  /\ step' = [r \in Runs |-> IF home[r] = w /\ step[r] \notin Ended \ {"abandoned"} THEN "left" ELSE step[r]]
  /\ queue' = [queue EXCEPT ![w] = [k \in Keys |-> None]]
  /\ box' = [r \in Runs |-> IF home[r] = w THEN None ELSE box[r]]
  /\ UNCHANGED <<used, home, round, record, told, executed>>

Run(r) ==
  \/ \E w \in Workers : Arrive(r, w)
  \/ Deduct(r) \/ Begin(r) \/ Offer(r) \/ Await(r) \/ Abandon(r) \/ Take(r) \/ Expire(r)
  \/ Again(r) \/ Complete(r) \/ Fail(r) \/ Cancel(r)

Next ==
  \/ \E r \in Runs : Run(r)
  \/ \E w \in Workers : Kill(w) \/ \E k \in Keys, a \in Answers : Answer(w, k, a)

Spec == Init /\ [][Next]_vars

-----------------------------------------------------------------------------
(* Properties.                                                             *)

\* Everything has its type: in particular at most one answer is accepted for a
\* review, in all the time its queue can be found.
TypeOK ==
  /\ used \in Nat
  /\ step \in [Runs -> Steps]
  /\ home \in [Runs -> Workers \cup {None}]
  /\ \A r \in Runs : step[r] = "new" <=> home[r] = None
  /\ round \in [Runs -> Nat]
  /\ record \in [Dispatches -> Statuses \cup {None}]
  /\ queue \in [Workers -> [Keys -> Runs \cup {None}]]
  /\ box \in [Runs -> Answers \cup {None}]
  /\ told \in [Runs \ Chats -> Answers \cup {None}]
  /\ executed \subseteq Tools
  /\ faults \in Nat

\* A queue in a registry is one that its run waits at or is about to, on that
\* worker, but for a dispatch whose reader left it between registering and
\* waiting; and a run that waits can be reached, unless another run of its
\* session came to the same worker (ReviewRegistry, whose doc says that no
\* queue stays).
QueuesWaited ==
  /\ \A w \in Workers, k \in Keys :
       LET r == queue[w][k]
       IN r # None =>
            /\ home[r] = w /\ Key(r) = k
            /\ \/ step[r] = "waiting"
               \/ r \in Dispatches /\ step[r] \in {"offered", "abandoned"}
  /\ \A r \in Runs :
       /\ step[r] = "waiting"
       /\ \A s \in Runs \ {r} : Key(s) = Key(r) => home[s] # home[r]
       => queue[home[r]][Key(r)] = r

\* A reviewer who is told that the answer is accepted is the only one for that
\* review, and the answer is what happens, unless the wait ends otherwise: a
\* tool is called after an approval, and only then; a dispatch goes on, and is
\* completed, only in a round that nobody was told is rejected.
VerdictHolds ==
  /\ \A r \in Tools :
       /\ r \in executed => told[r] = "approve"
       /\ step[r] = "over" /\ told[r] = "approve" => r \in executed
  /\ \A r \in Dispatches :
       step[r] = "advance" \/ record[r] = "completed" => told[r] \in {"approve", "modify"}

\* The quota is exceeded at most by what the other workers check meanwhile:
\* the check and the deduction are two transactions, but one step of a worker.
QuotaBound == used <= Limit + Cardinality(Workers) - 1
=============================================================================
