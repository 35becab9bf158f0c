----------------------------- MODULE ReleaseView -----------------------------
(***************************************************************************)
(* What anyone else can observe of an agent is the state between handlers. *)
(* The history variable seen holds it, and through it the release cycle    *)
(* implements the abstract ReleaseGate.                                    *)
(***************************************************************************)
EXTENDS AgentReleaseProps

CONSTANT NoVersion

VARIABLE seen

Stage == IF agent.deleted THEN "deleted" ELSE agent.release
Work  == [cfg |-> agent.cfg, bound |-> bound]

Held(S) == IF S = {} THEN NoVersion
           ELSE LET r == CHOOSE r \in S : TRUE
                IN  [cfg |-> rows[r].cfg, bound |-> rows[r].bound]

View == [stage |-> Stage, work |-> Work,
         candidate |-> Held(Pending), live |-> Held(Published)]

ViewInit == Init /\ seen = View
ViewNext == Next /\ seen' = IF Quiet' THEN View' ELSE seen
ViewSpec == ViewInit /\ [][ViewNext]_<<vars, seen>>

Gate == INSTANCE ReleaseGate WITH
          Contents  <- [cfg : Column, bound : SUBSET Tools],
          None      <- NoVersion,
          stage     <- seen.stage,
          work      <- seen.work,
          candidate <- seen.candidate,
          live      <- seen.live

\* One worker's handlers, seen from outside, are the steps of ReleaseGate:
\* only an approval changes the published version, and it publishes the
\* working copy that was submitted.
ImplementsGate == Gate!Spec

-----------------------------------------------------------------------------
(* What makes that inductive.                                              *)

\* A column that may not be NULL is not, in the working copy and in versions.
Columns ==
  /\ agent.cfg \in Column
  /\ \A r \in Used : rows[r].cfg \in Column
  /\ \A w \in Workers : pc[w] \in {"snapBind", "insert"} => loc[w].cfg \in Column

\* What was seen is an agent, and its published version shows no NULL.
SeenType ==
  /\ seen.stage \in Release \cup {"deleted"}
  /\ seen.live # NoVersion => seen.live.cfg \in Column

\* What was seen when worker w's handler started, while it works.
SeenSoFar(w) ==
  LET kind == loc[w].kind IN
  /\ seen.stage = "deleted" <=> agent.deleted
  /\ seen.stage = "draft" => seen.candidate = NoVersion
  /\ pc[w] \in Freezing \cup {"idle", "decide", "number", "probe", "write", "archive",
               "reject", "unbindAll"} => seen = View
  /\ pc[w] \notin {"publish", "approved"} => seen.live = Held(Published)
  /\ pc[w] \in Updating \cup {"delFlag"} => seen.candidate = Held(Pending)
  /\ pc[w] \in {"unbind", "bind"} /\ kind = "edit" => ~ agent.deleted
  /\ pc[w] \in {"unbind", "bind"} /\ kind = "edit" /\ ~ loc[w].differs =>
       /\ seen.stage = agent.release
       /\ seen.work = [cfg |-> agent.cfg, bound |-> loc[w].bound]
  /\ pc[w] \in Freezing \cup {"number", "mark"} /\ kind = "submit" =>
       agent.release = "draft" /\ ~ agent.deleted
  /\ pc[w] \in {"mark", "publish", "approved"} => seen.work = Work
  /\ pc[w] = "mark" => seen.stage = "draft"
  /\ pc[w] \in {"publish", "approved"} => seen.candidate = Work
  /\ pc[w] \in {"archive", "publish", "approved", "reject"}
       \/ (pc[w] = "draft" /\ kind = "reject") => seen.stage = "pending"

SeenRight == \A w \in Workers : SeenSoFar(w)
=============================================================================
