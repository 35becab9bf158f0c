-------------------------- MODULE AgentReleaseProps --------------------------
(***************************************************************************)
(* The properties of AgentRelease, those of one worker (nothing overlaps,  *)
(* nothing fails) apart from those that hold however handlers interleave   *)
(* and fail.                                                               *)
(***************************************************************************)
EXTENDS AgentRelease

\* The type of the state: what the handlers of agent_manage.py and
\* agent_version_service.py keep in the database and in their locals.
TypeOK ==
  /\ agent \in Agent
  /\ bound \in SUBSET Tools
  /\ rows \in [RowIds -> Version]
  /\ pc \in [Workers -> Labels]
  /\ loc \in [Workers -> Local]
  /\ clean \in SUBSET Workers
  /\ faults \in 0..MaxFaults

Quiet == \A w \in Workers : pc[w] = "idle"

Content(r) == <<rows[r].cfg, rows[r].bound>>

-----------------------------------------------------------------------------
(* However many workers, whatever fails.                                   *)

\* A draft snapshot (POST /agents/{id}/versions) is never published: no
\* handler that changes a status holds a row that was not submitted, however
\* stale the row it holds.
DraftsStayDrafts ==
  [][\A r \in RowIds : rows[r].status = "draft" => rows'[r].status = "draft"]_rows

\* An approval that nothing overlaps leaves exactly the version it picked
\* published, whatever earlier races and failures left in the table.
CleanApproval ==
  \A w \in clean : pc[w] = "approved" => Published = {loc[w].row}

\* Every number next_version_no would try has a version.
Exhausted ==
  \A m \in (agent.no + 1)..(agent.no + Tries) : \E q \in Used : rows[q].no = m

\* A submission that nothing overlaps has frozen the working copy as it
\* stands, under a number no other version has (unless next_version_no found
\* every number it tried taken), by the time it puts the agent under review.
CleanSubmission ==
  \A w \in clean : pc[w] = "mark" =>
    LET r == loc[w].row IN
    /\ rows[r].status = "pending_review"
    /\ Content(r) = <<agent.cfg, bound>>
    /\ Exhausted \/ \A q \in Used \ {r} : rows[q].no # rows[r].no

\* An edit (PUT /agents/{id}) that nothing overlaps leaves the working copy as
\* it asked and, if that is a change, a draft without the pending version it
\* found; whatever races and failures went before.
CleanEdit ==
  [][\A w \in clean :
       loc[w].kind = "edit" /\ pc'[w] = "idle" /\ faults' = faults =>
         /\ agent'.cfg = Overlay(loc[w].cfg, agent'.cfg)
         /\ loc[w].rebind => bound' = loc[w].bound
         /\ agent'.release = IF loc[w].differs THEN "draft" ELSE loc[w].was
         /\ Invalidates(w) =>
              Pending' = {} \/ rows'[loc[w].row].status = "invalidated"]_vars

-----------------------------------------------------------------------------
(* What makes them inductive.                                              *)

\* The labels at which a handler holds the key of a version.
Holding == {"mark", "archive", "publish", "approved", "reject", "invalidate"}

\* The labels at which a version is being frozen.
Freezing == {"snapRow", "snapBind", "insert"}

\* The version a handler holds was submitted, or inserted as published.
HoldsRow ==
  \A w \in Workers : pc[w] \in Holding =>
    /\ loc[w].row \in RowIds
    /\ rows[loc[w].row].status \notin {"free", "draft"}

\* The worker in clean is inside a handler, and no other worker is.
CleanAlone ==
  \A w \in clean : /\ pc[w] # "idle"
                   /\ \A v \in Workers \ {w} : pc[v] = "idle"

\* How far a clean approval has come.
ApprovalSoFar ==
  \A w \in clean :
    /\ pc[w] = "publish" => Published = {}
    /\ pc[w] = "approved" => Published = {loc[w].row}

\* How far a clean submission has come.
SubmissionSoFar ==
  \A w \in clean :
    /\ pc[w] = "number" => loc[w].no = agent.no
    /\ pc[w] = "probe" => loc[w].kind = "backfill"
    /\ pc[w] \in {"snapRow", "snapBind", "insert"} /\ loc[w].kind = "submit" =>
         Exhausted \/ \A q \in Used : rows[q].no # loc[w].no
    /\ pc[w] \in {"snapBind", "insert"} => loc[w].cfg = agent.cfg
    /\ pc[w] = "insert" => loc[w].bound = bound

\* What the labels say of the handler that is at them.
Kinded ==
  \A w \in Workers : LET kind == loc[w].kind IN
    /\ pc[w] = "decide" => kind = "edit"
    /\ pc[w] \in Updating \cup {"getPending", "invalidate"} => kind \in {"edit", "rollback"}
    /\ pc[w] = "draft" => kind \in {"reject", "rollback"}
    /\ pc[w] = "reject" => kind = "reject"
    /\ pc[w] \in {"number", "mark"} => kind = "submit"
    /\ pc[w] = "probe" => kind = "backfill"
    /\ pc[w] \in Freezing => kind \in {"submit", "snapshot", "backfill"}
    /\ kind = "edit" => pc[w] \in Updating \cup {"decide", "getPending", "invalidate"}

\* How far a clean edit has come.
EditSoFar ==
  \A w \in clean : loc[w].kind = "edit" =>
    /\ pc[w] \in {"decide", "write"} => ~ agent.deleted /\ agent.release = loc[w].was
    /\ pc[w] \in {"unbind", "bind", "getPending", "invalidate"} =>
         /\ agent.cfg = Overlay(loc[w].cfg, agent.cfg)
         /\ agent.release = IF loc[w].differs THEN "draft" ELSE loc[w].was
    /\ pc[w] = "bind" => bound = {}
    /\ pc[w] \in {"unbind", "bind"} => loc[w].rebind
    /\ pc[w] \in {"getPending", "invalidate"} => (loc[w].rebind => bound = loc[w].bound)

Inductive ==
  /\ TypeOK /\ HoldsRow /\ CleanAlone /\ Kinded /\ EditSoFar
  /\ ApprovalSoFar /\ SubmissionSoFar /\ CleanSubmission

-----------------------------------------------------------------------------
(* One worker, no faults.                                                  *)

\* get_pending's contract: at most one version is pending.
AtMostOnePending == \A q, r \in Pending : q = r

\* An agent is under review exactly when a version is pending, so a review
\* can always be concluded and a draft can always be submitted.
UnderReview ==
  Quiet /\ ~ agent.deleted => (agent.release = "pending" <=> Pending # {})

\* Editing ends a review and a publication: the pending version of an agent
\* under review, and the published version of a published agent, hold what
\* the working copy holds.
EditInvalidates ==
  Quiet /\ ~ agent.deleted =>
    /\ agent.release = "pending" =>
         \A r \in Pending : Content(r) = <<agent.cfg, bound>>
    /\ agent.release = "published" =>
         \E r \in RowIds : /\ Published = {r}
                           /\ rows[r].no = agent.no
                           /\ Content(r) = <<agent.cfg, bound>>

-----------------------------------------------------------------------------
(* What makes those inductive.                                             *)

OneWorker == \E w \in Workers : Workers = {w}

\* Nothing overlaps and nothing fails.
Serial == OneWorker /\ MaxFaults = 0 /\ "pending" \notin Created

\* No agent skips the review, and no editor overlooks a tool.
Reviewed == Created \subseteq {"draft"} /\ \A view \in Views : Tools \subseteq view

Settled == ~ agent.deleted => (agent.release = "pending" <=> Pending # {})

\* Which version is pending while a handler works.
PendingSoFar(w) ==
  LET kind == loc[w].kind  held == {loc[w].row} IN
  /\ pc[w] \in Freezing \cup {"idle", "decide", "number", "probe"} => Settled
  /\ pc[w] \in Updating /\ kind = "edit" =>
       Settled \/ (pc[w] # "write" /\ Invalidates(w))
  /\ pc[w] \in {"getPending", "invalidate"} => agent.deleted \/ agent.release = "draft"
  /\ pc[w] \in Freezing \cup {"number"} /\ kind = "submit" => Pending = {}
  /\ pc[w] \in {"mark", "archive", "publish", "reject", "invalidate"} => Pending = held
  /\ pc[w] = "approved" \/ (pc[w] = "draft" /\ kind = "reject") => Pending = {}

ReviewSoFar ==
  /\ AtMostOnePending
  /\ \A w \in Workers : (pc[w] # "idle" => w \in clean) /\ PendingSoFar(w)

\* What is pending, or published, holds the working copy, with bindings b.
Matches(b) ==
  ~ agent.deleted =>
    /\ agent.release = "pending" =>
         \A r \in Pending : Content(r) = <<agent.cfg, b>>
    /\ agent.release = "published" =>
         \E r \in RowIds : /\ Published = {r}
                           /\ rows[r].no = agent.no
                           /\ Content(r) = <<agent.cfg, b>>

\* What it holds while a handler works.
ContentSoFar(w) ==
  LET kind == loc[w].kind  row == loc[w].row IN
  /\ pc[w] \in Freezing \cup {"idle", "decide", "number", "probe"} => Matches(bound)
  /\ pc[w] = "decide" => loc[w].differs \/ Overlay(loc[w].cfg, agent.cfg) = agent.cfg
  /\ pc[w] = "write" /\ kind = "edit" =>
       /\ Matches(bound)
       /\ \/ loc[w].differs
          \/ /\ Overlay(loc[w].cfg, agent.cfg) = agent.cfg
             /\ loc[w].rebind => loc[w].bound = bound
  /\ pc[w] \in {"unbind", "bind"} /\ kind = "edit" => Matches(loc[w].bound)
  /\ pc[w] \in Freezing => kind # "backfill"
  /\ pc[w] = "probe" => agent.release = "published" /\ ~ agent.deleted
  /\ pc[w] \in {"archive", "publish", "approved"} =>
       Content(row) = <<agent.cfg, bound>> /\ rows[row].no = loc[w].no

CopySoFar == \A w \in Workers : ContentSoFar(w)
=============================================================================
