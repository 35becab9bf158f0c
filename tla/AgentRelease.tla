---------------------------- MODULE AgentRelease ----------------------------
(***************************************************************************)
(* The release life cycle of one agent: the row of tb_agent (the working   *)
(* copy), its bindings in tb_agent_relation, and its frozen versions in    *)
(* tb_agent_version.  The backend runs several uvicorn worker processes on *)
(* one database.  A handler never awaits between two repository calls, so  *)
(* one worker runs one handler at a time; but every repository call opens  *)
(* and commits a transaction of its own, so the handlers of two workers    *)
(* interleave between those calls.  A handler is therefore a sequence of   *)
(* actions, one per transaction, and pc[w] names the next one.             *)
(***************************************************************************)
EXTENDS Naturals, FiniteSets

CONSTANTS
  Workers,    \* worker processes
  RowIds,     \* primary keys of tb_agent_version
  Configs,    \* values of a column of the working copy that a snapshot holds
  Unset,      \* NULL: a column without a value, or a field a request omits
  Nullable,   \* whether that column may be NULL (agent_config), or not
  Tools,      \* skills and MCP servers an agent can be bound to
  Views,      \* the sets of tools that are visible to the users who edit
  DraftNos,   \* version numbers a client gives to a draft snapshot
  Tries,      \* version numbers next_version_no tries before it gives up
  Created,    \* release statuses an agent is created with
  Ops,        \* the operations the clients of this instance use
  MaxFaults,  \* bound on failed transactions and killed handlers
  NoRow       \* no row of tb_agent_version

Kinds == {"edit", "submit", "snapshot", "backfill", "approve", "reject",
          "rollback", "delete", "toggle"}

ASSUME ReleaseAssumption ==
  /\ DraftNos \subseteq Nat
  /\ Tries \in Nat \ {0}
  /\ MaxFaults \in Nat
  /\ Nullable \in BOOLEAN
  /\ Views \subseteq SUBSET Tools
  /\ Created \subseteq {"draft", "pending", "published"}
  /\ Ops \subseteq Kinds
  /\ NoRow \notin RowIds

VARIABLES
  agent,   \* the row of tb_agent
  bound,   \* the agent's live rows of tb_agent_relation
  rows,    \* tb_agent_version; "free" is a key not yet given out
  pc,      \* the transaction each worker runs next
  loc,     \* the local variables of the handler each worker runs
  clean,   \* history: the worker whose handler has run alone so far, if any
  faults   \* transactions that failed and handlers that were killed

db   == <<agent, bound, rows>>
vars == <<agent, bound, rows, pc, loc, clean, faults>>

Release  == {"draft", "pending", "published"}
Statuses == {"free", "draft", "pending_review", "published", "archived",
             "rejected", "invalidated"}
Values   == Configs \cup {Unset}
Column   == IF Nullable THEN Values ELSE Configs \ {Unset}

Agent   == [deleted : BOOLEAN, enabled : BOOLEAN, release : Release,
            no : Nat, cfg : Values]
Version == [status : Statuses, no : Nat, cfg : Values, bound : SUBSET Tools]
Local   == [kind : Kinds \cup {"none"}, cfg : Values, rebind : BOOLEAN,
            bound : SUBSET Tools, was : Release, differs : BOOLEAN,
            row : RowIds \cup {NoRow}, no : Nat]

Updating == {"write", "unbind", "bind"}
Labels   == {"idle", "decide", "number", "probe", "snapRow", "snapBind", "insert",
             "mark", "archive", "publish", "approved", "reject", "draft",
             "getPending", "invalidate", "unbindAll", "delFlag"} \cup Updating

FreeRow == [status |-> "free", no |-> 0, cfg |-> Unset, bound |-> {}]
NoLocal == [kind |-> "none", cfg |-> Unset, rebind |-> FALSE, bound |-> {},
            was |-> "draft", differs |-> FALSE, row |-> NoRow, no |-> 0]

Used      == {r \in RowIds : rows[r].status # "free"}
\* Mutant: the status filter of get_pending is missing.
PendingOrDraft == {r \in RowIds : rows[r].status \in {"draft", "pending_review"}}

Pending   == {r \in RowIds : rows[r].status = "pending_review"}
Published == {r \in RowIds : rows[r].status = "published"}

Init ==
  /\ \E s \in Created, c \in Column, t \in SUBSET Tools :
       /\ agent = [deleted |-> FALSE, enabled |-> TRUE, release |-> s,
                   no |-> 0, cfg |-> c]
       /\ bound = t
  /\ rows = [r \in RowIds |-> FreeRow]
  /\ pc = [w \in Workers |-> "idle"]
  /\ loc = [w \in Workers |-> NoLocal]
  /\ clean = {}
  /\ faults = 0

-----------------------------------------------------------------------------
(* Handlers.                                                               *)

\* A handler of worker w starts with the local variables l at the label at.
\* It runs alone so far if no other worker is inside a handler.
Start(w, kind, at, l) ==
  /\ pc[w] = "idle"
  /\ kind \in Ops
  /\ pc' = [pc EXCEPT ![w] = at]
  /\ loc' = [loc EXCEPT ![w] = [l EXCEPT !.kind = kind]]
  /\ clean' = IF \A v \in Workers \ {w} : pc[v] = "idle" THEN {w} ELSE {}
  /\ UNCHANGED faults

Return(w) ==
  /\ pc' = [pc EXCEPT ![w] = "idle"]
  /\ loc' = [loc EXCEPT ![w] = NoLocal]
  /\ clean' = clean \ {w}

Goto(w, l, at) ==
  /\ pc' = [pc EXCEPT ![w] = at]
  /\ loc' = [loc EXCEPT ![w] = l]
  /\ UNCHANGED clean

\* Mutant: only the edit of a published agent reverts it to a draft.
RevertsPublished(w) == loc[w].differs /\ loc[w].was = "published"

\* Mutant: the statuses are mixed up, the review is not dropped.
InvalidatesPublished(w) == loc[w].differs /\ loc[w].was = "published"

\* An edit that changes an agent that is published or under review turns it
\* back into a draft; if it was under review its pending version is dropped.
Reverts(w)     == loc[w].differs /\ loc[w].was # "draft"
Invalidates(w) == loc[w].differs /\ loc[w].was = "pending"

\* Where AgentCrudService.update returns to.
Updated(w) ==
  IF loc[w].kind = "rollback" THEN "draft"
  ELSE IF Invalidates(w) THEN "getPending" ELSE "idle"

\* The transaction after a write, whether or not the write took effect: the
\* repositories log a database error and return None, and no caller looks.
After(w) ==
  CASE pc[w] = "write"     -> IF loc[w].rebind THEN "unbind" ELSE Updated(w)
    [] pc[w] = "unbind"    -> "bind"
    [] pc[w] = "bind"      -> Updated(w)
    [] pc[w] = "archive"   -> "publish"
    [] pc[w] = "publish"   -> "approved"
    [] pc[w] = "reject"    -> "draft"
    [] pc[w] = "draft"     -> IF loc[w].kind = "rollback" THEN "getPending"
                              ELSE "idle"
    [] pc[w] = "unbindAll" -> "delFlag"
    [] OTHER               -> "idle"

Proceed(w) ==
  IF After(w) = "idle" THEN Return(w) ELSE Goto(w, loc[w], After(w))

\* AgentRepository.update: a blind write of the given columns, on a live row.
UpdateAgent(new) ==
  /\ agent' = IF agent.deleted THEN agent ELSE new
  /\ UNCHANGED <<bound, rows>>

\* AgentVersionRepository.update: a blind write of the status.
SetStatus(r, s) ==
  /\ rows' = [rows EXCEPT ![r].status = s]
  /\ UNCHANGED <<agent, bound>>

-----------------------------------------------------------------------------
(* PUT /agents/{id}: the working copy is edited.                           *)

\* A field the request omits, and a snapshot's NULL, leave the column alone.
Overlay(new, old) == IF new = Unset THEN old ELSE new

\* update_agent reads the existing row; the request is in the local variables.
EditRead(w) ==
  /\ ~ agent.deleted
  /\ \E c \in Values, rebind \in BOOLEAN : \E t \in SUBSET Tools :
       /\ rebind \/ t = {}
       /\ Start(w, "edit", "decide",
            [NoLocal EXCEPT !.cfg = c, !.rebind = rebind, !.bound = t,
                            !.was = agent.release,
                            !.differs = Overlay(c, agent.cfg) # agent.cfg])
  /\ UNCHANGED db

\* _resolve_skill_ids, _resolve_mcp_ids: of the tools the request names, those
\* the editor cannot see are skipped.
Resolved(w, view) == loc[w].bound \cap view

Rebound(w) == loc[w].rebind /\ loc[w].bound # bound

\* Mutant: only the columns are compared.
EditDecideColumns(w) ==
  /\ pc[w] = "decide"
  /\ \E view \in Views :
       Goto(w, [loc[w] EXCEPT !.bound = Resolved(w, view)], "write")
  /\ UNCHANGED <<db, faults>>

\* ... then its bindings: _has_content_changed compares the request, as it was
\* sent, with both.
EditDecide(w) ==
  /\ pc[w] = "decide"
  /\ \E view \in Views :
       Goto(w, [loc[w] EXCEPT !.differs = @ \/ Rebound(w),
                              !.bound = Resolved(w, view)], "write")
  /\ UNCHANGED <<db, faults>>

\* AgentCrudService.update: the columns, and with them the release status of
\* an edit that reverts the agent to a draft.
WriteAgent(w) ==
  /\ pc[w] = "write"
  /\ \/ /\ agent.deleted
        /\ IF loc[w].kind = "edit" THEN Return(w) ELSE Goto(w, loc[w], "draft")
        /\ UNCHANGED db
     \/ /\ ~ agent.deleted
        /\ UpdateAgent([agent EXCEPT !.cfg = Overlay(loc[w].cfg, @),
                          !.release = IF Reverts(w) THEN "draft" ELSE @])
        /\ Proceed(w)
  /\ UNCHANGED faults

\* update_relations removes the old bindings in one transaction ...
Unbind(w) ==
  /\ pc[w] = "unbind"
  /\ bound' = {}
  /\ Proceed(w)
  /\ UNCHANGED <<agent, rows, faults>>

\* ... and inserts the new ones in the next.
Bind(w) ==
  /\ pc[w] = "bind"
  /\ bound' = bound \cup loc[w].bound
  /\ Proceed(w)
  /\ UNCHANGED <<agent, rows, faults>>

\* Mutant: the pending version is looked for only while the agent is still
\* under review, after the write that made it a draft.
GetPendingUnderReview(w) ==
  /\ pc[w] = "getPending"
  /\ \/ (Pending = {} \/ agent.release # "pending") /\ Return(w)
     \/ /\ agent.release = "pending"
        /\ \E r \in Pending : Goto(w, [loc[w] EXCEPT !.row = r], "invalidate")
  /\ UNCHANGED <<db, faults>>

\* get_pending returns some pending row; there is no ORDER BY.
GetPending(w) ==
  /\ pc[w] = "getPending"
  /\ \/ Pending = {} /\ Return(w)
     \/ \E r \in Pending : Goto(w, [loc[w] EXCEPT !.row = r], "invalidate")
  /\ UNCHANGED <<db, faults>>

Invalidate(w) ==
  /\ pc[w] = "invalidate"
  /\ SetStatus(loc[w].row, "invalidated")
  /\ Proceed(w)
  /\ UNCHANGED faults

-----------------------------------------------------------------------------
(* POST /agents/{id}/submit-review, POST /agents/{id}/versions and the     *)
(* backfill command: the working copy is frozen as a new version.          *)

\* Mutant: the next number, without a look at the versions there are.
NextNoBlind(n) == n + 1

\* The smallest of the next Tries numbers no version has, else the last.
NextNo(n) ==
  LET tried == (n + 1)..(n + Tries)
      fresh == {m \in tried : \A r \in Used : rows[r].no # m}
  IN  IF fresh = {} THEN n + Tries
      ELSE CHOOSE m \in fresh : \A k \in fresh : m <= k

SubmitRead(w) ==
  /\ ~ agent.deleted
  /\ agent.release = "draft"
  /\ Start(w, "submit", "number", [NoLocal EXCEPT !.no = agent.no])
  /\ UNCHANGED db

SubmitNumber(w) ==
  /\ pc[w] = "number"
  /\ Goto(w, [loc[w] EXCEPT !.no = NextNo(loc[w].no)], "snapRow")
  /\ UNCHANGED <<db, faults>>

SnapshotStart(w) ==
  /\ \E n \in DraftNos :
       Start(w, "snapshot", "snapRow", [NoLocal EXCEPT !.no = n])
  /\ UNCHANGED db

\* run_backfill lists the published agents ...
BackfillStart(w) ==
  /\ ~ agent.deleted
  /\ agent.release = "published"
  /\ Start(w, "backfill", "probe", [NoLocal EXCEPT !.no = agent.no])
  /\ UNCHANGED db

\* ... and freezes those without a published version.
BackfillProbe(w) ==
  /\ pc[w] = "probe"
  /\ IF Published = {} THEN Goto(w, loc[w], "snapRow") ELSE Return(w)
  /\ UNCHANGED <<db, faults>>

\* _snapshot_agent reads the row of the agent ...
SnapshotRow(w) ==
  /\ pc[w] = "snapRow"
  /\ IF agent.deleted THEN Return(w)
     ELSE Goto(w, [loc[w] EXCEPT !.cfg = agent.cfg], "snapBind")
  /\ UNCHANGED <<db, faults>>

\* ... then its bindings, in sessions of their own.
SnapshotBind(w) ==
  /\ pc[w] = "snapBind"
  /\ Goto(w, [loc[w] EXCEPT !.bound = bound], "insert")
  /\ UNCHANGED <<db, faults>>

InsertedAs(kind) ==
  CASE kind = "submit"   -> "pending_review"
    [] kind = "backfill" -> "published"
    [] OTHER             -> "draft"

\* create: a new row, or None (no key is left in this instance).
InsertRow(w) ==
  /\ pc[w] = "insert"
  /\ \/ Used = RowIds /\ Return(w) /\ UNCHANGED rows
     \/ \E r \in RowIds \ Used :
          /\ rows' = [rows EXCEPT ![r] =
                        [status |-> InsertedAs(loc[w].kind), no |-> loc[w].no,
                         cfg |-> loc[w].cfg, bound |-> loc[w].bound]]
          /\ IF loc[w].kind = "submit"
             THEN Goto(w, [loc[w] EXCEPT !.row = r], "mark") ELSE Return(w)
  /\ UNCHANGED <<agent, bound, faults>>

\* Mutant: the version's status is written to the agent.
MarkPendingReview(w) ==
  /\ pc[w] = "mark"
  /\ UpdateAgent([agent EXCEPT !.release = "pending_review"])
  /\ Proceed(w)
  /\ UNCHANGED faults

\* The submission's last step puts the agent under review, whatever happened
\* to it since the first read.
MarkPending(w) ==
  /\ pc[w] = "mark"
  /\ UpdateAgent([agent EXCEPT !.release = "pending"])
  /\ Proceed(w)
  /\ UNCHANGED faults

-----------------------------------------------------------------------------
(* POST /agents/{id}/approve: approve is publish_pending, reject is        *)
(* reject_pending.  Neither looks at the agent's release status.           *)

ApproveStart(w) ==
  /\ ~ agent.deleted
  /\ \E r \in Pending :
       Start(w, "approve", "archive", [NoLocal EXCEPT !.row = r,
                                         !.no = rows[r].no])
  /\ UNCHANGED db

\* Mutant: only the version the agent's row names is archived.
ArchiveCurrent(w) ==
  /\ pc[w] = "archive"
  /\ rows' = [r \in RowIds |->
                IF rows[r].status = "published" /\ rows[r].no = agent.no
                THEN [rows[r] EXCEPT !.status = "archived"] ELSE rows[r]]
  /\ Proceed(w)
  /\ UNCHANGED <<agent, bound, faults>>

\* archive_published.
Archive(w) ==
  /\ pc[w] = "archive"
  /\ rows' = [r \in RowIds |-> IF rows[r].status = "published"
                               THEN [rows[r] EXCEPT !.status = "archived"]
                               ELSE rows[r]]
  /\ Proceed(w)
  /\ UNCHANGED <<agent, bound, faults>>

Publish(w) ==
  /\ pc[w] = "publish"
  /\ SetStatus(loc[w].row, "published")
  /\ Proceed(w)
  /\ UNCHANGED faults

MarkPublished(w) ==
  /\ pc[w] = "approved"
  /\ UpdateAgent([agent EXCEPT !.no = loc[w].no, !.release = "published",
                               !.enabled = TRUE])
  /\ Proceed(w)
  /\ UNCHANGED faults

RejectStart(w) ==
  /\ ~ agent.deleted
  /\ \E r \in Pending :
       Start(w, "reject", "reject", [NoLocal EXCEPT !.row = r])
  /\ UNCHANGED db

Reject(w) ==
  /\ pc[w] = "reject"
  /\ SetStatus(loc[w].row, "rejected")
  /\ Proceed(w)
  /\ UNCHANGED faults

\* A rejected or rolled back agent is a draft again.
MarkDraft(w) ==
  /\ pc[w] = "draft"
  /\ UpdateAgent([agent EXCEPT !.release = "draft"])
  /\ Proceed(w)
  /\ UNCHANGED faults

-----------------------------------------------------------------------------
(* Rollback, enable and disable, delete.                                   *)

\* POST /agents/{id}/versions/{v}/rollback: any version, whatever its status;
\* the agent itself is not looked up.
RollbackStart(w) ==
  /\ \E r \in Used :
       Start(w, "rollback", "write",
             [NoLocal EXCEPT !.cfg = rows[r].cfg, !.rebind = TRUE,
                             !.bound = rows[r].bound])
  /\ UNCHANGED db

\* PATCH /agents/{id}/toggle, a read and one write of the status column.
Toggle(w) ==
  /\ "toggle" \in Ops
  /\ pc[w] = "idle"
  /\ ~ agent.deleted
  /\ agent' = [agent EXCEPT !.enabled = ~ @]
  /\ clean' = {}
  /\ UNCHANGED <<bound, rows, pc, loc, faults>>

DeleteStart(w) ==
  /\ ~ agent.deleted
  /\ Start(w, "delete", "unbindAll", NoLocal)
  /\ UNCHANGED db

RemoveRelations(w) ==
  /\ pc[w] = "unbindAll"
  /\ bound' = {}
  /\ Proceed(w)
  /\ UNCHANGED <<agent, rows, faults>>

SetDelFlag(w) ==
  /\ pc[w] = "delFlag"
  /\ agent' = [agent EXCEPT !.deleted = TRUE]
  /\ Proceed(w)
  /\ UNCHANGED <<bound, rows, faults>>

-----------------------------------------------------------------------------
(* Faults.                                                                 *)

Writes == {"write", "unbind", "bind", "mark", "archive", "publish",
           "approved", "reject", "draft", "invalidate", "unbindAll"}

\* A write fails, the repository swallows the error, the handler goes on.
LoseWrite(w) ==
  /\ faults < MaxFaults
  /\ pc[w] \in Writes
  /\ faults' = faults + 1
  /\ pc' = [pc EXCEPT ![w] = After(w)]
  /\ loc' = [loc EXCEPT ![w] = IF After(w) = "idle" THEN NoLocal ELSE @]
  /\ clean' = clean \ {w}
  /\ UNCHANGED db

\* A lookup of a version fails and is taken for "there is none": a number
\* that is taken passes for free, or a published version is overlooked.
LoseRead(w) ==
  /\ faults < MaxFaults
  /\ faults' = faults + 1
  /\ \/ /\ pc[w] = "number"
        /\ \E m \in (loc[w].no + 1)..NextNo(loc[w].no) :
             loc' = [loc EXCEPT ![w].no = m]
     \/ pc[w] = "probe" /\ UNCHANGED loc
  /\ pc' = [pc EXCEPT ![w] = "snapRow"]
  /\ clean' = clean \ {w}
  /\ UNCHANGED db

\* The worker dies, or another read or an insert fails and the handler returns.
Abort(w) ==
  /\ faults < MaxFaults
  /\ pc[w] # "idle"
  /\ faults' = faults + 1
  /\ Return(w)
  /\ UNCHANGED db

EditStep(w)   == EditRead(w) \/ EditDecide(w)
UpdateStep(w) == WriteAgent(w) \/ Unbind(w) \/ Bind(w)
DropStep(w)   == GetPending(w) \/ Invalidate(w)
FreezeStep(w) ==
  \/ SubmitRead(w) \/ SubmitNumber(w) \/ SnapshotStart(w) \/ BackfillStart(w)
  \/ BackfillProbe(w) \/ SnapshotRow(w) \/ SnapshotBind(w) \/ InsertRow(w)
  \/ MarkPending(w)
ReviewStep(w) ==
  \/ ApproveStart(w) \/ Archive(w) \/ Publish(w) \/ MarkPublished(w)
  \/ RejectStart(w) \/ Reject(w) \/ MarkDraft(w)
OtherStep(w)  ==
  RollbackStart(w) \/ Toggle(w) \/ DeleteStart(w) \/ RemoveRelations(w)
  \/ SetDelFlag(w)

FaultStep(w) == LoseWrite(w) \/ LoseRead(w) \/ Abort(w)

Step(w) ==
  \/ EditStep(w) \/ UpdateStep(w) \/ DropStep(w) \/ FreezeStep(w)
  \/ ReviewStep(w) \/ OtherStep(w) \/ FaultStep(w)

Next == \E w \in Workers : Step(w)

Spec == Init /\ [][Next]_vars
=============================================================================
