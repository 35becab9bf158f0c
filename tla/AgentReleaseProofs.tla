------------------------- MODULE AgentReleaseProofs -------------------------
(***************************************************************************)
(* What holds of AgentRelease, proved: for any number of workers, versions *)
(* and faults, then for one worker to whom nothing happens, and last that  *)
(* what is seen of that worker implements ReleaseGate.                     *)
(***************************************************************************)
EXTENDS ReleaseView, FiniteSetTheorems, WellFoundedInduction, TLAPS

-----------------------------------------------------------------------------
(* Numbers: next_version_no.                                               *)

\* Every set of naturals that has a member has a least one.
LEMMA LeastMember ==
  ASSUME NEW S \in SUBSET Nat, S # {}
  PROVE  \E m \in S : \A k \in S : m <= k
<1> DEFINE Below(m) == {k \in 0..m : k \in S}
           Sets == {Below(m) : m \in S}
<1>1. \A m \in S : Below(m) \in FiniteSubsetsOf(Nat)
  <2> SUFFICES ASSUME NEW m \in S PROVE Below(m) \in FiniteSubsetsOf(Nat)
    OBVIOUS
  <2>1. IsFiniteSet(0..m) BY FS_Interval
  <2>2. Below(m) \in SUBSET (0..m) OBVIOUS
  <2>3. IsFiniteSet(Below(m)) BY <2>1, <2>2, FS_Subset
  <2> QED BY <2>3 DEF FiniteSubsetsOf
<1>2. Sets \subseteq FiniteSubsetsOf(Nat) /\ Sets # {} BY <1>1
<1>3. PICK T \in Sets :
        \A U \in Sets : <<U, T>> \notin StrictSubsetOrdering(Nat)
  <2>1. IsWellFoundedOn(StrictSubsetOrdering(Nat), FiniteSubsetsOf(Nat))
    BY FS_StrictSubsetOrderingWellFounded
  <2> HIDE DEF Sets
  <2> QED BY <1>2, <2>1, WFMin
<1>4. PICK m \in S : T = Below(m) OBVIOUS
<1>5. ASSUME NEW k \in S, k < m PROVE FALSE
  <2>1. Below(k) \subseteq Below(m) /\ m \in Below(m) /\ m \notin Below(k)
    BY <1>5
  <2>2. <<Below(k), Below(m)>> \in StrictSubsetOrdering(Nat)
    BY <2>1 DEF StrictSubsetOrdering
  <2> QED BY <1>3, <1>4, <2>2
<1> QED BY <1>5

\* What next_version_no returns: a number that no version has, unless every
\* number it tries is taken.
LEMMA NextNoFresh ==
  ASSUME NEW n \in Nat, TypeOK
  PROVE  /\ NextNo(n) \in Nat
         /\ \/ \A q \in Used : rows[q].no # NextNo(n)
            \/ \A m \in (n + 1)..(n + Tries) : \E q \in Used : rows[q].no = m
<1> DEFINE fresh == {m \in (n + 1)..(n + Tries) : \A r \in Used : rows[r].no # m}
<1>1. Tries \in Nat BY ReleaseAssumption
<1>2. CASE fresh = {}
  <2>1. NextNo(n) = n + Tries BY <1>2 DEF NextNo
  <2>2. \A m \in (n + 1)..(n + Tries) : \E q \in Used : rows[q].no = m BY <1>2
  <2> QED BY <1>1, <2>1, <2>2
<1>3. CASE fresh # {}
  <2>1. NextNo(n) = CHOOSE m \in fresh : \A k \in fresh : m <= k
    BY <1>3 DEF NextNo
  <2>2. fresh \in SUBSET Nat BY <1>1
  <2>3. \E m \in fresh : \A k \in fresh : m <= k
    <3> HIDE DEF fresh
    <3> QED BY <1>3, <2>2, LeastMember
  <2>4. NextNo(n) \in fresh
    <3> HIDE DEF fresh
    <3> QED BY <2>1, <2>3
  <2> QED BY <2>2, <2>4
<1> QED BY <1>2, <1>3

-----------------------------------------------------------------------------
(* Types.                                                                  *)

\* The type of what a handler keeps to itself.
ControlOK ==
  /\ pc \in [Workers -> Labels]
  /\ loc \in [Workers -> Local]
  /\ clean \in SUBSET Workers
  /\ faults \in 0..MaxFaults

\* The type of what the database holds.
DataOK ==
  /\ agent \in Agent
  /\ bound \in SUBSET Tools
  /\ rows \in [RowIds -> Version]

LEMMA TypeParts ==
  /\ TypeOK <=> DataOK /\ ControlOK
  /\ TypeOK' <=> DataOK' /\ ControlOK'
BY DEF TypeOK, DataOK, ControlOK

LEMMA NoLocalType == NoLocal \in Local
BY DEF NoLocal, Local, Values, Release

LEMMA StartType ==
  ASSUME ControlOK, NEW w \in Workers, NEW kind, NEW at \in Labels,
         NEW l \in Local, Start(w, kind, at, l)
  PROVE  ControlOK'
<1>1. kind \in Kinds BY ReleaseAssumption DEF Start
<1>2. [l EXCEPT !.kind = kind] \in Local BY <1>1 DEF Local
<1> QED BY <1>2 DEF Start, ControlOK

LEMMA ReturnType ==
  ASSUME ControlOK, NEW w \in Workers, Return(w), faults' \in 0..MaxFaults
  PROVE  ControlOK'
BY NoLocalType DEF Return, ControlOK, Labels

LEMMA GotoType ==
  ASSUME ControlOK, NEW w \in Workers, NEW l \in Local, NEW at \in Labels,
         Goto(w, l, at), UNCHANGED faults
  PROVE  ControlOK'
BY DEF Goto, ControlOK

LEMMA AfterType ==
  ASSUME ControlOK, NEW w \in Workers
  PROVE  After(w) \in Labels
BY DEF After, Updated, Labels, Updating

LEMMA ProceedType ==
  ASSUME ControlOK, NEW w \in Workers, Proceed(w), UNCHANGED faults
  PROVE  ControlOK'
<1>1. loc[w] \in Local /\ faults' \in 0..MaxFaults BY DEF ControlOK
<1> QED BY <1>1, AfterType, ReturnType, GotoType DEF Proceed

LEMMA UpdateAgentType ==
  ASSUME DataOK, NEW new \in Agent, UpdateAgent(new)
  PROVE  DataOK'
BY DEF UpdateAgent, DataOK

LEMMA SetStatusType ==
  ASSUME DataOK, NEW r, NEW s \in Statuses, SetStatus(r, s)
  PROVE  DataOK'
BY DEF SetStatus, DataOK, Version

LEMMA ColumnType == Column \subseteq Values
BY DEF Column, Values

LEMMA FreeRowType == FreeRow \in Version
BY DEF FreeRow, Version, Statuses, Values

LEMMA InitType == Init => TypeOK
<1> SUFFICES ASSUME Init PROVE TypeOK
  OBVIOUS
<1>1. agent \in Agent /\ bound \in SUBSET Tools
  <2>1. PICK s \in Created, c \in Column, t \in SUBSET Tools :
          /\ agent = [deleted |-> FALSE, enabled |-> TRUE, release |-> s,
                      no |-> 0, cfg |-> c]
          /\ bound = t
    BY DEF Init
  <2>2. s \in Release /\ c \in Values
    BY ReleaseAssumption, ColumnType DEF Release
  <2> QED BY <2>1, <2>2 DEF Agent
<1>2. rows \in [RowIds -> Version] BY FreeRowType DEF Init
<1>3. loc \in [Workers -> Local] BY NoLocalType DEF Init
<1>4. faults \in 0..MaxFaults BY ReleaseAssumption DEF Init
<1> QED BY <1>1, <1>2, <1>3, <1>4 DEF TypeOK, Init, Labels

LEMMA EditType ==
  ASSUME TypeOK, NEW w \in Workers, EditStep(w) \/ UpdateStep(w) \/ DropStep(w)
  PROVE  TypeOK'
<1> USE TypeParts
<1>0. DataOK /\ ControlOK /\ loc[w] \in Local /\ agent \in Agent
  BY DEF DataOK, ControlOK
<1>1. CASE EditRead(w)
  <2>1. \E l \in Local : Start(w, "edit", "decide", l)
    <3>1. PICK c \in Values, rebind \in BOOLEAN, t \in SUBSET Tools :
            Start(w, "edit", "decide",
              [NoLocal EXCEPT !.cfg = c, !.rebind = rebind, !.bound = t,
                              !.was = agent.release,
                              !.differs = Overlay(c, agent.cfg) # agent.cfg])
      BY <1>1 DEF EditRead
    <3> DEFINE l == [NoLocal EXCEPT !.cfg = c, !.rebind = rebind, !.bound = t,
                              !.was = agent.release,
                              !.differs = Overlay(c, agent.cfg) # agent.cfg]
    <3>2. l \in Local BY <1>0, NoLocalType DEF Local, Agent
    <3>3. Start(w, "edit", "decide", l) BY <3>1
    <3> HIDE DEF l
    <3> QED BY <3>2, <3>3
  <2>2. ControlOK' BY <1>0, <2>1, StartType DEF Labels
  <2>3. UNCHANGED db BY <1>1 DEF EditRead
  <2> QED BY <1>0, <2>2, <2>3 DEF DataOK, db
<1>2. CASE EditDecide(w)
  <2>1. PICK view \in Views :
          Goto(w, [loc[w] EXCEPT !.differs = @ \/ Rebound(w),
                                 !.bound = Resolved(w, view)], "write")
    BY <1>2 DEF EditDecide
  <2> DEFINE l == [loc[w] EXCEPT !.differs = @ \/ Rebound(w),
                                 !.bound = Resolved(w, view)]
  <2>2. l \in Local BY <1>0 DEF Local, Resolved
  <2>3. Goto(w, l, "write") /\ UNCHANGED faults /\ UNCHANGED db
    BY <1>2, <2>1 DEF EditDecide
  <2> HIDE DEF l
  <2>4. ControlOK' BY <1>0, <2>2, <2>3, GotoType DEF Labels, Updating
  <2> QED BY <1>0, <2>3, <2>4 DEF DataOK, db
<1>3. CASE WriteAgent(w)
  <2> DEFINE new == [agent EXCEPT !.cfg = Overlay(loc[w].cfg, @),
                          !.release = IF Reverts(w) THEN "draft" ELSE @]
  <2>1. new \in Agent BY <1>0 DEF Agent, Local, Overlay, Release
  <2>2. CASE agent.deleted
    <3>1. ControlOK'
      <4>1. faults' \in 0..MaxFaults BY <1>0, <1>3 DEF WriteAgent, ControlOK
      <4> QED BY <1>0, <1>3, <2>2, <4>1, GotoType, ReturnType
              DEF WriteAgent, Labels
    <3> QED BY <1>0, <1>3, <2>2, <3>1 DEF WriteAgent, DataOK, db
  <2>3. CASE ~ agent.deleted
    <3>1. UpdateAgent(new) /\ Proceed(w) /\ UNCHANGED faults
      BY <1>3, <2>3 DEF WriteAgent
    <3> HIDE DEF new
    <3> QED BY <1>0, <2>1, <3>1, UpdateAgentType, ProceedType
  <2> QED BY <2>2, <2>3
<1>4. CASE Unbind(w)
  BY <1>0, <1>4, ProceedType DEF Unbind, DataOK
<1>5. CASE Bind(w)
  <2>1. bound' \in SUBSET Tools BY <1>0, <1>5 DEF Bind, DataOK, Local
  <2> QED BY <1>0, <1>5, <2>1, ProceedType DEF Bind, DataOK
<1>6. CASE GetPending(w)
  <2>1. ControlOK'
    <3>1. CASE Pending = {} /\ Return(w)
      <4>1. faults' \in 0..MaxFaults BY <1>0, <1>6 DEF GetPending, ControlOK
      <4> QED BY <1>0, <3>1, <4>1, ReturnType
    <3>2. CASE \E r \in Pending :
                 Goto(w, [loc[w] EXCEPT !.row = r], "invalidate")
      <4>1. PICK r \in Pending :
              Goto(w, [loc[w] EXCEPT !.row = r], "invalidate")
        BY <3>2
      <4>2. [loc[w] EXCEPT !.row = r] \in Local BY <1>0 DEF Local, Pending
      <4> QED BY <1>0, <1>6, <4>1, <4>2, GotoType DEF GetPending, Labels
    <3> QED BY <1>6, <3>1, <3>2 DEF GetPending
  <2> QED BY <1>0, <1>6, <2>1 DEF GetPending, DataOK, db
<1>7. CASE Invalidate(w)
  BY <1>0, <1>7, SetStatusType, ProceedType DEF Invalidate, Statuses
<1> QED
  BY <1>1, <1>2, <1>3, <1>4, <1>5, <1>6, <1>7
     DEF EditStep, UpdateStep, DropStep

LEMMA FreezeType ==
  ASSUME TypeOK, NEW w \in Workers, FreezeStep(w)
  PROVE  TypeOK'
<1> USE TypeParts
<1>0. DataOK /\ ControlOK /\ loc[w] \in Local /\ agent \in Agent
  BY DEF DataOK, ControlOK
<1>1. CASE SubmitRead(w)
  <2>1. [NoLocal EXCEPT !.no = agent.no] \in Local
    BY <1>0, NoLocalType DEF Local, Agent
  <2>2. ControlOK' BY <1>0, <1>1, <2>1, StartType DEF SubmitRead, Labels
  <2> QED BY <1>0, <1>1, <2>2 DEF SubmitRead, DataOK, db
<1>2. CASE SubmitNumber(w)
  <2>1. [loc[w] EXCEPT !.no = NextNo(loc[w].no)] \in Local
    BY <1>0, NextNoFresh DEF Local
  <2>2. ControlOK' BY <1>0, <1>2, <2>1, GotoType DEF SubmitNumber, Labels
  <2> QED BY <1>0, <1>2, <2>2 DEF SubmitNumber, DataOK, db
<1>3. CASE SnapshotStart(w)
  <2>1. PICK n \in DraftNos :
          Start(w, "snapshot", "snapRow", [NoLocal EXCEPT !.no = n])
    BY <1>3 DEF SnapshotStart
  <2>2. [NoLocal EXCEPT !.no = n] \in Local
    BY ReleaseAssumption, NoLocalType DEF Local
  <2>3. ControlOK' BY <1>0, <2>1, <2>2, StartType DEF Labels
  <2> QED BY <1>0, <1>3, <2>3 DEF SnapshotStart, DataOK, db
<1>4. CASE BackfillStart(w)
  <2>1. [NoLocal EXCEPT !.no = agent.no] \in Local
    BY <1>0, NoLocalType DEF Local, Agent
  <2>2. ControlOK' BY <1>0, <1>4, <2>1, StartType DEF BackfillStart, Labels
  <2> QED BY <1>0, <1>4, <2>2 DEF BackfillStart, DataOK, db
<1>5. CASE SnapshotRow(w)
  <2>1. [loc[w] EXCEPT !.cfg = agent.cfg] \in Local BY <1>0 DEF Local, Agent
  <2>2. faults' \in 0..MaxFaults BY <1>0, <1>5 DEF SnapshotRow, ControlOK
  <2>3. ControlOK'
    BY <1>0, <1>5, <2>1, <2>2, GotoType, ReturnType DEF SnapshotRow, Labels
  <2> QED BY <1>0, <1>5, <2>3 DEF SnapshotRow, DataOK, db
<1>6. CASE SnapshotBind(w)
  <2>1. [loc[w] EXCEPT !.bound = bound] \in Local BY <1>0 DEF Local, DataOK
  <2>2. ControlOK' BY <1>0, <1>6, <2>1, GotoType DEF SnapshotBind, Labels
  <2> QED BY <1>0, <1>6, <2>2 DEF SnapshotBind, DataOK, db
<1>7. CASE InsertRow(w)
  <2>0. faults' \in 0..MaxFaults BY <1>0, <1>7 DEF InsertRow, ControlOK
  <2>1. CASE Return(w) /\ UNCHANGED rows
    BY <1>0, <1>7, <2>0, <2>1, ReturnType DEF InsertRow, DataOK
  <2>2. CASE ~ (Return(w) /\ UNCHANGED rows)
    <3> DEFINE new == [status |-> InsertedAs(loc[w].kind), no |-> loc[w].no,
                       cfg |-> loc[w].cfg, bound |-> loc[w].bound]
    <3>1. PICK r \in RowIds \ Used :
            /\ rows' = [rows EXCEPT ![r] = new]
            /\ IF loc[w].kind = "submit"
               THEN Goto(w, [loc[w] EXCEPT !.row = r], "mark") ELSE Return(w)
      BY <1>7, <2>2 DEF InsertRow
    <3>2. new \in Version BY <1>0 DEF Version, Local, InsertedAs, Statuses
    <3>3. [loc[w] EXCEPT !.row = r] \in Local BY <1>0 DEF Local
    <3>4. ControlOK'
      BY <1>0, <1>7, <2>0, <3>1, <3>3, GotoType, ReturnType
         DEF InsertRow, Labels
    <3> HIDE DEF new
    <3> QED BY <1>0, <1>7, <3>1, <3>2, <3>4 DEF InsertRow, DataOK
  <2> QED BY <2>1, <2>2
<1>8. CASE MarkPending(w)
  <2>1. [agent EXCEPT !.release = "pending"] \in Agent
    BY <1>0 DEF Agent, Release
  <2> QED BY <1>0, <1>8, <2>1, UpdateAgentType, ProceedType DEF MarkPending
<1>9. CASE BackfillProbe(w)
  <2>1. faults' \in 0..MaxFaults BY <1>0, <1>9 DEF BackfillProbe, ControlOK
  <2>2. ControlOK'
    BY <1>0, <1>9, <2>1, GotoType, ReturnType DEF BackfillProbe, Labels
  <2> QED BY <1>0, <1>9, <2>2 DEF BackfillProbe, DataOK, db
<1> QED
  BY <1>1, <1>2, <1>3, <1>4, <1>5, <1>6, <1>7, <1>8, <1>9 DEF FreezeStep

LEMMA ReviewType ==
  ASSUME TypeOK, NEW w \in Workers, ReviewStep(w)
  PROVE  TypeOK'
<1> USE TypeParts
<1>0. DataOK /\ ControlOK /\ loc[w] \in Local /\ agent \in Agent
  BY DEF DataOK, ControlOK
<1>1. CASE ApproveStart(w)
  <2>1. PICK r \in Pending :
          Start(w, "approve", "archive", [NoLocal EXCEPT !.row = r,
                                                         !.no = rows[r].no])
    BY <1>1 DEF ApproveStart
  <2>2. [NoLocal EXCEPT !.row = r, !.no = rows[r].no] \in Local
    BY <1>0, NoLocalType DEF Local, Pending, DataOK, Version
  <2>3. ControlOK' BY <1>0, <2>1, <2>2, StartType DEF Labels
  <2> QED BY <1>0, <1>1, <2>3 DEF ApproveStart, DataOK, db
<1>2. CASE Archive(w)
  <2>1. rows' \in [RowIds -> Version]
    BY <1>0, <1>2 DEF Archive, DataOK, Version, Statuses
  <2> QED BY <1>0, <1>2, <2>1, ProceedType DEF Archive, DataOK
<1>3. CASE Publish(w)
  BY <1>0, <1>3, SetStatusType, ProceedType DEF Publish, Statuses
<1>4. CASE MarkPublished(w)
  <2>1. [agent EXCEPT !.no = loc[w].no, !.release = "published",
                      !.enabled = TRUE] \in Agent
    BY <1>0 DEF Agent, Release, Local
  <2> QED BY <1>0, <1>4, <2>1, UpdateAgentType, ProceedType DEF MarkPublished
<1>5. CASE RejectStart(w)
  <2>1. PICK r \in Pending :
          Start(w, "reject", "reject", [NoLocal EXCEPT !.row = r])
    BY <1>5 DEF RejectStart
  <2>2. [NoLocal EXCEPT !.row = r] \in Local
    BY NoLocalType DEF Local, Pending
  <2>3. ControlOK' BY <1>0, <2>1, <2>2, StartType DEF Labels
  <2> QED BY <1>0, <1>5, <2>3 DEF RejectStart, DataOK, db
<1>6. CASE Reject(w)
  BY <1>0, <1>6, SetStatusType, ProceedType DEF Reject, Statuses
<1>7. CASE MarkDraft(w)
  <2>1. [agent EXCEPT !.release = "draft"] \in Agent BY <1>0 DEF Agent, Release
  <2> QED BY <1>0, <1>7, <2>1, UpdateAgentType, ProceedType DEF MarkDraft
<1> QED
  BY <1>1, <1>2, <1>3, <1>4, <1>5, <1>6, <1>7 DEF ReviewStep

LEMMA OtherType ==
  ASSUME TypeOK, NEW w \in Workers, OtherStep(w) \/ FaultStep(w)
  PROVE  TypeOK'
<1> USE TypeParts
<1>0. DataOK /\ ControlOK /\ loc[w] \in Local /\ agent \in Agent
  BY DEF DataOK, ControlOK
<1>1. CASE RollbackStart(w)
  <2>1. PICK r \in Used :
          Start(w, "rollback", "write",
                [NoLocal EXCEPT !.cfg = rows[r].cfg, !.rebind = TRUE,
                                !.bound = rows[r].bound])
    BY <1>1 DEF RollbackStart
  <2>2. [NoLocal EXCEPT !.cfg = rows[r].cfg, !.rebind = TRUE,
                        !.bound = rows[r].bound] \in Local
    BY <1>0, NoLocalType DEF Local, Used, DataOK, Version
  <2>3. ControlOK' BY <1>0, <2>1, <2>2, StartType DEF Labels, Updating
  <2> QED BY <1>0, <1>1, <2>3 DEF RollbackStart, DataOK, db
<1>2. CASE Toggle(w)
  <2>1. agent' \in Agent BY <1>0, <1>2 DEF Toggle, Agent
  <2> QED BY <1>0, <1>2, <2>1 DEF Toggle, DataOK, ControlOK
<1>3. CASE DeleteStart(w)
  <2>1. ControlOK' BY <1>0, <1>3, NoLocalType, StartType DEF DeleteStart, Labels
  <2> QED BY <1>0, <1>3, <2>1 DEF DeleteStart, DataOK, db
<1>4. CASE RemoveRelations(w)
  BY <1>0, <1>4, ProceedType DEF RemoveRelations, DataOK
<1>5. CASE SetDelFlag(w)
  <2>1. agent' \in Agent BY <1>0, <1>5 DEF SetDelFlag, Agent
  <2> QED BY <1>0, <1>5, <2>1, ProceedType DEF SetDelFlag, DataOK
<1>6. CASE LoseWrite(w)
  <2>1. faults' \in 0..MaxFaults
    BY <1>0, <1>6, ReleaseAssumption DEF LoseWrite, ControlOK
  <2>2. pc' \in [Workers -> Labels]
    BY <1>0, <1>6, AfterType DEF LoseWrite, ControlOK
  <2>3. loc' \in [Workers -> Local]
    BY <1>0, <1>6, NoLocalType DEF LoseWrite, ControlOK
  <2>4. clean' \in SUBSET Workers BY <1>0, <1>6 DEF LoseWrite, ControlOK
  <2> QED
    BY <1>0, <1>6, <2>1, <2>2, <2>3, <2>4 DEF LoseWrite, DataOK, ControlOK, db
<1>7. CASE LoseRead(w)
  <2>1. faults' \in 0..MaxFaults
    BY <1>0, <1>7, ReleaseAssumption DEF LoseRead, ControlOK
  <2>2. pc' \in [Workers -> Labels] BY <1>0, <1>7 DEF LoseRead, ControlOK, Labels
  <2>3. loc' \in [Workers -> Local]
    <3>1. CASE pc[w] = "number"
      <4>1. PICK m \in (loc[w].no + 1)..NextNo(loc[w].no) :
              loc' = [loc EXCEPT ![w].no = m]
        BY <1>7, <3>1 DEF LoseRead
      <4>2. m \in Nat BY <1>0, NextNoFresh DEF Local
      <4> QED BY <1>0, <4>1, <4>2 DEF ControlOK, Local
    <3>2. CASE UNCHANGED loc BY <1>0, <3>2 DEF ControlOK
    <3> QED BY <1>7, <3>1, <3>2 DEF LoseRead
  <2>4. clean' \in SUBSET Workers BY <1>0, <1>7 DEF LoseRead, ControlOK
  <2> QED
    BY <1>0, <1>7, <2>1, <2>2, <2>3, <2>4 DEF LoseRead, DataOK, ControlOK, db
<1>8. CASE Abort(w)
  <2>1. faults' \in 0..MaxFaults
    BY <1>0, <1>8, ReleaseAssumption DEF Abort, ControlOK
  <2> QED BY <1>0, <1>8, <2>1, ReturnType DEF Abort, DataOK, db
<1> QED
  BY <1>1, <1>2, <1>3, <1>4, <1>5, <1>6, <1>7, <1>8 DEF OtherStep, FaultStep

LEMMA NextType == TypeOK /\ [Next]_vars => TypeOK'
<1> SUFFICES ASSUME TypeOK, [Next]_vars PROVE TypeOK'
  OBVIOUS
<1>1. CASE Next
  BY <1>1, EditType, FreezeType, ReviewType, OtherType DEF Next, Step
<1>2. CASE UNCHANGED vars
  BY <1>2 DEF vars, TypeOK
<1> QED BY <1>1, <1>2

\* TypeOK is an invariant: the type of the agent, of its versions and of what
\* every handler holds, however the handlers of any number of workers
\* interleave and fail.
THEOREM TypeCorrect == Spec => []TypeOK
BY InitType, NextType, PTL DEF Spec

-----------------------------------------------------------------------------
(* What a step of one worker leaves alone.                                 *)

\* Where a step of w leads: the labels that matter below have one way in.
LEMMA StepTo ==
  ASSUME TypeOK, NEW w \in Workers, Step(w)
  PROVE  /\ \A v \in Workers \ {w} : pc'[v] = pc[v] /\ loc'[v] = loc[v]
         /\ pc'[w] = "archive" => ApproveStart(w)
         /\ pc'[w] = "reject" => RejectStart(w)
         /\ pc'[w] = "invalidate" => GetPending(w)
         /\ pc'[w] = "publish" => Archive(w) \/ LoseWrite(w)
         /\ pc'[w] = "approved" => Publish(w) \/ LoseWrite(w)
         /\ pc'[w] = "number" => SubmitRead(w)
         /\ pc'[w] = "probe" => BackfillStart(w)
         /\ pc'[w] = "snapRow" =>
              \/ SubmitNumber(w) \/ SnapshotStart(w) \/ BackfillProbe(w)
              \/ LoseRead(w)
         /\ pc'[w] = "snapBind" => SnapshotRow(w)
         /\ pc'[w] = "insert" => SnapshotBind(w)
         /\ pc'[w] = "mark" => InsertRow(w)
<1>0. pc \in [Workers -> Labels] /\ loc \in [Workers -> Local] BY DEF TypeOK
<1>1. CASE EditStep(w)
  BY <1>0, <1>1 DEF EditStep, EditRead, EditDecide, Start, Goto
<1>2. CASE UpdateStep(w)
  BY <1>0, <1>2
     DEF UpdateStep, WriteAgent, Unbind, Bind, Proceed, After, Updated, Return, Goto
<1>3. CASE DropStep(w)
  BY <1>0, <1>3
     DEF DropStep, GetPending, Invalidate, Proceed, After, Return, Goto
<1>4. CASE FreezeStep(w)
  <2>1. CASE SubmitRead(w) \/ SnapshotStart(w) \/ BackfillStart(w)
    BY <1>0, <2>1 DEF SubmitRead, SnapshotStart, BackfillStart, Start
  <2>2. CASE \/ SubmitNumber(w) \/ BackfillProbe(w) \/ SnapshotRow(w)
             \/ SnapshotBind(w)
    BY <1>0, <2>2
       DEF SubmitNumber, BackfillProbe, SnapshotRow, SnapshotBind, Goto, Return
  <2>3. CASE InsertRow(w) \/ MarkPending(w)
    BY <1>0, <2>3 DEF InsertRow, MarkPending, Goto, Return, Proceed, After
  <2> QED BY <1>4, <2>1, <2>2, <2>3 DEF FreezeStep
<1>5. CASE ReviewStep(w)
  <2>1. CASE ApproveStart(w) \/ RejectStart(w)
    BY <1>0, <2>1 DEF ApproveStart, RejectStart, Start
  <2>2. CASE Archive(w) \/ Publish(w) \/ MarkPublished(w) \/ Reject(w)
             \/ MarkDraft(w)
    BY <1>0, <2>2
       DEF Archive, Publish, MarkPublished, Reject, MarkDraft, Proceed, After,
           Goto, Return
  <2> QED BY <1>5, <2>1, <2>2 DEF ReviewStep
<1>6. CASE OtherStep(w)
  BY <1>0, <1>6
     DEF OtherStep, RollbackStart, Toggle, DeleteStart, RemoveRelations,
         SetDelFlag, Start, Proceed, After, Goto, Return
<1>7. CASE LoseWrite(w)
  BY <1>0, <1>7 DEF LoseWrite, After, Updated, Writes
<1>8. CASE LoseRead(w)
  BY <1>0, <1>8 DEF LoseRead
<1>9. CASE Abort(w)
  BY <1>0, <1>9 DEF Abort, Return
<1> QED
  BY <1>1, <1>2, <1>3, <1>4, <1>5, <1>6, <1>7, <1>8, <1>9 DEF Step, FaultStep

\* What a step does to the versions: nothing; a new one; a new status for the
\* one held, which is none of those a version that was not submitted has; or
\* the published ones archived.
LEMMA RowsStep ==
  ASSUME TypeOK, HoldsRow, NEW w \in Workers, Step(w)
  PROVE  \/ rows' = rows
         \/ /\ InsertRow(w)
            /\ \E r \in RowIds, new \in Version :
                 r \notin Used /\ rows' = [rows EXCEPT ![r] = new]
         \/ /\ Publish(w) \/ Reject(w) \/ Invalidate(w)
            /\ \E r \in RowIds, s \in Statuses \ {"free", "draft"} :
                 /\ rows[r].status \notin {"free", "draft"}
                 /\ rows' = [rows EXCEPT ![r].status = s]
         \/ Archive(w)
<1>0. pc \in [Workers -> Labels] /\ loc \in [Workers -> Local] BY DEF TypeOK
<1>1. CASE InsertRow(w)
  <2>1. CASE rows' = rows BY <2>1
  <2>2. CASE rows' # rows
    <3> DEFINE new == [status |-> InsertedAs(loc[w].kind), no |-> loc[w].no,
                       cfg |-> loc[w].cfg, bound |-> loc[w].bound]
    <3>1. new \in Version BY <1>0 DEF Version, Local, InsertedAs, Statuses
    <3>2. \E r \in RowIds \ Used : rows' = [rows EXCEPT ![r] = new]
      BY <1>1, <2>2 DEF InsertRow
    <3> HIDE DEF new
    <3> QED BY <1>1, <3>1, <3>2
  <2> QED BY <2>1, <2>2
<1>2. CASE Publish(w) \/ Reject(w) \/ Invalidate(w)
  <2>1. loc[w].row \in RowIds /\ rows[loc[w].row].status \notin {"free", "draft"}
    BY <1>2 DEF Publish, Reject, Invalidate, HoldsRow, Holding
  <2>2. \E s \in Statuses \ {"free", "draft"} :
          rows' = [rows EXCEPT ![loc[w].row].status = s]
    <3>1. SetStatus(loc[w].row, "published") \/ SetStatus(loc[w].row, "rejected")
            \/ SetStatus(loc[w].row, "invalidated")
      BY <1>2 DEF Publish, Reject, Invalidate
    <3>2. {"published", "rejected", "invalidated"} \subseteq
            Statuses \ {"free", "draft"}
      BY DEF Statuses
    <3> QED BY <3>1, <3>2 DEF SetStatus
  <2> QED BY <1>2, <2>1, <2>2
<1>3. CASE Archive(w) BY <1>3
<1>4. CASE ~ (InsertRow(w) \/ Publish(w) \/ Reject(w) \/ Invalidate(w) \/ Archive(w))
  <2>1. CASE EditStep(w) \/ UpdateStep(w) \/ DropStep(w)
    BY <1>4, <2>1
       DEF EditStep, EditRead, EditDecide, UpdateStep, WriteAgent, Unbind, Bind,
           DropStep, GetPending, UpdateAgent, db
  <2>2. CASE FreezeStep(w)
    BY <1>4, <2>2
       DEF FreezeStep, SubmitRead, SubmitNumber, SnapshotStart, BackfillStart,
           BackfillProbe, SnapshotRow, SnapshotBind, MarkPending, UpdateAgent, db
  <2>3. CASE ReviewStep(w)
    BY <1>4, <2>3
       DEF ReviewStep, ApproveStart, RejectStart, MarkPublished, MarkDraft,
           UpdateAgent, db
  <2>4. CASE OtherStep(w) \/ FaultStep(w)
    BY <2>4
       DEF OtherStep, RollbackStart, Toggle, DeleteStart, RemoveRelations,
           SetDelFlag, FaultStep, LoseWrite, LoseRead, Abort, db
  <2> QED BY <2>1, <2>2, <2>3, <2>4 DEF Step
<1> QED BY <1>1, <1>2, <1>3, <1>4

\* Once submitted, or inserted as published, a version is never again free or
\* a draft; and a draft stays a draft.
LEMMA RowsKeep ==
  ASSUME TypeOK, HoldsRow, NEW w \in Workers, Step(w), NEW r \in RowIds
  PROVE  /\ rows[r].status \notin {"free", "draft"} =>
              rows'[r].status \notin {"free", "draft"}
         /\ rows[r].status = "draft" => rows'[r].status = "draft"
<1>0. rows \in [RowIds -> Version] BY DEF TypeOK
<1>1. CASE rows' = rows BY <1>1
<1>2. CASE \E q \in RowIds, new \in Version :
             q \notin Used /\ rows' = [rows EXCEPT ![q] = new]
  BY <1>0, <1>2 DEF Used, Version
<1>3. CASE \E q \in RowIds, s \in Statuses \ {"free", "draft"} :
             /\ rows[q].status \notin {"free", "draft"}
             /\ rows' = [rows EXCEPT ![q].status = s]
  BY <1>0, <1>3 DEF Version
<1>4. CASE Archive(w) BY <1>0, <1>4 DEF Archive, Version
<1> QED BY <1>1, <1>2, <1>3, <1>4, RowsStep

-----------------------------------------------------------------------------
(* The versions handlers hold, and the drafts.                             *)

LEMMA HoldsRowNext ==
  ASSUME TypeOK, HoldsRow, NEW w \in Workers, Step(w)
  PROVE  HoldsRow'
<1> SUFFICES ASSUME NEW v \in Workers, pc'[v] \in Holding
             PROVE  /\ loc'[v].row \in RowIds
                    /\ rows'[loc'[v].row].status \notin {"free", "draft"}
  BY DEF HoldsRow
<1>0. pc \in [Workers -> Labels] /\ loc \in [Workers -> Local]
      /\ rows \in [RowIds -> Version]
  BY DEF TypeOK
<1>1. CASE pc[v] \in Holding /\ loc'[v] = loc[v]
  BY <1>1, RowsKeep DEF HoldsRow
<1>2. CASE v = w /\ ~ (pc[v] \in Holding /\ loc'[v] = loc[v])
  <2>1. CASE ApproveStart(w)
    BY <1>0, <1>2, <2>1
       DEF ApproveStart, Start, Pending, NoLocal, db
  <2>2. CASE RejectStart(w)
    BY <1>0, <1>2, <2>2
       DEF RejectStart, Start, Pending, NoLocal, db
  <2>3. CASE GetPending(w)
    BY <1>0, <1>2, <2>3
       DEF GetPending, Return, Goto, Pending, Holding, db, Local
  <2>4. CASE InsertRow(w)
    BY <1>0, <1>2, <2>4
       DEF InsertRow, Return, Goto, Holding, Used, InsertedAs, Local
  <2>5. CASE Archive(w) \/ Publish(w)
    BY <1>0, <1>2, <2>5
       DEF Archive, Publish, Proceed, After, Goto, Holding
  <2>6. CASE LoseWrite(w)
    BY <1>0, <1>2, <2>6 DEF LoseWrite, After, Updated, Holding
  <2> QED BY <1>2, <2>1, <2>2, <2>3, <2>4, <2>5, <2>6, StepTo DEF Holding
<1> QED BY <1>1, <1>2, StepTo

LEMMA HoldsRowInit == Init => HoldsRow
BY DEF Init, HoldsRow, Holding

LEMMA HoldsRowInvariant == Spec => [](TypeOK /\ HoldsRow)
<1>1. TypeOK /\ HoldsRow /\ [Next]_vars => (TypeOK /\ HoldsRow)'
  <2> SUFFICES ASSUME TypeOK, HoldsRow, [Next]_vars PROVE TypeOK' /\ HoldsRow'
    OBVIOUS
  <2>1. CASE Next BY <2>1, NextType, HoldsRowNext DEF Next
  <2>2. CASE UNCHANGED vars
    BY <2>2, NextType DEF HoldsRow, vars
  <2> QED BY <2>1, <2>2
<1> QED BY <1>1, InitType, HoldsRowInit, PTL DEF Spec

\* DraftsStayDrafts: no stale key, no race and no lost write ever publishes a
\* snapshot nobody submitted.
THEOREM DraftsNeverPublished == Spec => DraftsStayDrafts
<1>1. TypeOK /\ HoldsRow /\ [Next]_vars =>
        [\A r \in RowIds : rows[r].status = "draft" => rows'[r].status = "draft"]_rows
  <2> SUFFICES ASSUME TypeOK, HoldsRow, Next, NEW r \in RowIds,
                      rows[r].status = "draft"
               PROVE  rows'[r].status = "draft"
    BY DEF vars
  <2> QED BY RowsKeep DEF Next
<1> QED BY <1>1, HoldsRowInvariant, PTL DEF Spec, DraftsStayDrafts

-----------------------------------------------------------------------------
(* Handlers that nothing overlaps.                                         *)

\* Only the worker that steps can be clean afterwards if it was idle, and it
\* is clean only inside a handler that was clean, or that starts alone.
LEMMA CleanStep ==
  ASSUME TypeOK, NEW w \in Workers, Step(w)
  PROVE  /\ clean' \subseteq clean \cup {w}
         /\ pc[w] = "idle" => clean' \subseteq {w}
         /\ w \in clean' => /\ pc'[w] # "idle"
                            /\ \/ w \in clean
                               \/ /\ pc[w] = "idle"
                                  /\ \A v \in Workers \ {w} : pc[v] = "idle"
<1>0. pc \in [Workers -> Labels] BY DEF TypeOK
<1>1. CASE EditStep(w)
  BY <1>0, <1>1 DEF EditStep, EditRead, EditDecide, Start, Goto
<1>2. CASE UpdateStep(w)
  BY <1>0, <1>2
     DEF UpdateStep, WriteAgent, Unbind, Bind, Proceed, After, Return, Goto
<1>3. CASE DropStep(w)
  BY <1>0, <1>3
     DEF DropStep, GetPending, Invalidate, Proceed, After, Return, Goto
<1>4. CASE FreezeStep(w)
  <2>1. CASE SubmitRead(w) \/ SnapshotStart(w) \/ BackfillStart(w)
    BY <1>0, <2>1 DEF SubmitRead, SnapshotStart, BackfillStart, Start
  <2>2. CASE \/ SubmitNumber(w) \/ BackfillProbe(w) \/ SnapshotRow(w)
             \/ SnapshotBind(w)
    BY <1>0, <2>2
       DEF SubmitNumber, BackfillProbe, SnapshotRow, SnapshotBind, Goto, Return
  <2>3. CASE InsertRow(w) \/ MarkPending(w)
    BY <1>0, <2>3 DEF InsertRow, MarkPending, Goto, Return, Proceed, After
  <2> QED BY <1>4, <2>1, <2>2, <2>3 DEF FreezeStep
<1>5. CASE ReviewStep(w)
  BY <1>0, <1>5
     DEF ReviewStep, ApproveStart, RejectStart, Start, Archive, Publish,
         MarkPublished, Reject, MarkDraft, Proceed, After, Goto, Return
<1>6. CASE OtherStep(w)
  BY <1>0, <1>6
     DEF OtherStep, RollbackStart, Toggle, DeleteStart, RemoveRelations,
         SetDelFlag, Start, Proceed, After, Goto, Return
<1>7. CASE LoseWrite(w)
  BY <1>7 DEF LoseWrite, Writes
<1>8. CASE LoseRead(w) \/ Abort(w)
  BY <1>8 DEF LoseRead, Abort, Return
<1> QED BY <1>1, <1>2, <1>3, <1>4, <1>5, <1>6, <1>7, <1>8 DEF Step, FaultStep

\* After a step, the worker that made it is the only one that can be clean.
LEMMA CleanOwner ==
  ASSUME TypeOK, CleanAlone, NEW w \in Workers, Step(w)
  PROVE  clean' \subseteq {w}
<1> SUFFICES ASSUME NEW u \in clean', u # w PROVE FALSE
  OBVIOUS
<1>1. u \in clean BY CleanStep
<1>2. pc[w] = "idle" BY <1>1 DEF CleanAlone, TypeOK
<1> QED BY <1>2, CleanStep

LEMMA CleanAloneNext ==
  ASSUME TypeOK, CleanAlone, NEW w \in Workers, Step(w)
  PROVE  CleanAlone'
<1>1. \A v \in Workers \ {w} : pc'[v] = pc[v] BY StepTo
<1>2. w \in clean' => /\ pc'[w] # "idle"
                     /\ \A v \in Workers \ {w} : pc[v] = "idle"
  BY CleanStep DEF CleanAlone
<1> QED BY <1>1, <1>2, CleanOwner DEF CleanAlone

LEMMA ApprovalNext ==
  ASSUME TypeOK, HoldsRow, CleanAlone, ApprovalSoFar,
         NEW w \in Workers, Step(w)
  PROVE  ApprovalSoFar'
<1> SUFFICES ASSUME w \in clean'
             PROVE  /\ pc'[w] = "publish" => Published' = {}
                    /\ pc'[w] = "approved" => Published' = {loc'[w].row}
  BY CleanOwner DEF ApprovalSoFar
<1>0. rows \in [RowIds -> Version] /\ pc \in [Workers -> Labels]
      /\ loc \in [Workers -> Local]
  BY DEF TypeOK
<1>1. ~ LoseWrite(w) BY DEF LoseWrite
<1>2. ASSUME pc'[w] = "publish" PROVE Published' = {}
  BY <1>0, <1>1, <1>2, StepTo DEF Archive, Published, Version
<1>3. ASSUME pc'[w] = "approved" PROVE Published' = {loc'[w].row}
  <2>1. Publish(w) BY <1>1, <1>3, StepTo
  <2>2. Published = {} /\ loc[w].row \in RowIds /\ w \in clean
    BY <2>1, CleanStep DEF Publish, ApprovalSoFar, HoldsRow, Holding
  <2>3. loc' = loc BY <1>0, <1>3, <2>1 DEF Publish, Proceed, After, Return, Goto
  <2> QED BY <1>0, <2>1, <2>2, <2>3 DEF Publish, SetStatus, Published, Version
<1> QED BY <1>2, <1>3

LEMMA SubmissionNext ==
  ASSUME TypeOK, CleanAlone, SubmissionSoFar, NEW w \in Workers, Step(w)
  PROVE  SubmissionSoFar'
<1> DEFINE Fresh == Exhausted \/ \A q \in Used : rows[q].no # loc[w].no
<1> SUFFICES
      ASSUME w \in clean'
      PROVE  /\ pc'[w] = "number" => loc'[w].no = agent'.no
             /\ pc'[w] = "probe" => loc'[w].kind = "backfill"
             /\ pc'[w] \in {"snapRow", "snapBind", "insert"}
                  /\ loc'[w].kind = "submit" => Fresh'
             /\ pc'[w] \in {"snapBind", "insert"} => loc'[w].cfg = agent'.cfg
             /\ pc'[w] = "insert" => loc'[w].bound = bound'
  BY CleanOwner DEF SubmissionSoFar
<1>0. pc \in [Workers -> Labels] /\ loc \in [Workers -> Local] /\ agent \in Agent
  BY DEF TypeOK
<1>1. ASSUME pc'[w] = "number" PROVE loc'[w].no = agent'.no
  <2>1. SubmitRead(w) BY <1>1, StepTo
  <2>2. loc'[w] = [[NoLocal EXCEPT !.no = agent.no] EXCEPT !.kind = "submit"]
    BY <1>0, <2>1 DEF SubmitRead, Start
  <2>3. loc'[w].no = agent.no BY <2>2 DEF NoLocal
  <2> QED BY <2>1, <2>3 DEF SubmitRead, db
<1>2. ASSUME pc'[w] = "snapRow", loc'[w].kind = "submit" PROVE Fresh'
  <2>1. CASE SnapshotStart(w)
    BY <1>0, <1>2, <2>1 DEF SnapshotStart, Start, NoLocal
  <2>2. CASE SubmitNumber(w)
    <3>1. w \in clean /\ UNCHANGED db
      BY <2>2, CleanStep DEF SubmitNumber
    <3>2. loc[w].no = agent.no /\ agent.no \in Nat
      BY <1>0, <2>2, <3>1 DEF SubmitNumber, SubmissionSoFar, Agent
    <3>3. loc'[w].no = NextNo(agent.no)
      BY <1>0, <2>2, <3>2 DEF SubmitNumber, Goto, Local
    <3>4. Exhausted \/ \A q \in Used : rows[q].no # NextNo(agent.no)
      BY <3>2, NextNoFresh DEF Exhausted
    <3> QED BY <3>1, <3>3, <3>4 DEF Exhausted, Used, db
  <2>3. CASE BackfillProbe(w)
    <3>1. w \in clean /\ loc[w].kind = "submit" /\ pc[w] = "probe"
      BY <1>0, <1>2, <2>3, CleanStep DEF BackfillProbe, Goto, Return
    <3> QED BY <3>1 DEF SubmissionSoFar
  <2>4. CASE LoseRead(w) BY <2>4 DEF LoseRead
  <2> QED BY <1>2, <2>1, <2>2, <2>3, <2>4, StepTo
<1>3. ASSUME pc'[w] = "snapBind"
      PROVE  /\ loc'[w].cfg = agent'.cfg
             /\ loc'[w].kind = "submit" => Fresh'
  <2>1. SnapshotRow(w) BY <1>3, StepTo
  <2>2. Goto(w, [loc[w] EXCEPT !.cfg = agent.cfg], "snapBind") /\ UNCHANGED db
    BY <1>0, <1>3, <2>1 DEF SnapshotRow, Return
  <2>3. /\ loc'[w].cfg = agent.cfg /\ loc'[w].no = loc[w].no
        /\ loc'[w].kind = loc[w].kind
    BY <1>0, <2>2 DEF Goto, Local
  <2>4. loc[w].kind = "submit" => Fresh
    BY <2>1, CleanStep DEF SnapshotRow, SubmissionSoFar
  <2> QED BY <2>2, <2>3, <2>4 DEF Exhausted, Used, db
<1>4. ASSUME pc'[w] = "insert"
      PROVE  /\ loc'[w].cfg = agent'.cfg
             /\ loc'[w].bound = bound'
             /\ loc'[w].kind = "submit" => Fresh'
  <2>1. SnapshotBind(w) BY <1>4, StepTo
  <2>2. Goto(w, [loc[w] EXCEPT !.bound = bound], "insert") /\ UNCHANGED db
    BY <2>1 DEF SnapshotBind
  <2>3. /\ loc'[w].cfg = loc[w].cfg /\ loc'[w].no = loc[w].no
        /\ loc'[w].kind = loc[w].kind /\ loc'[w].bound = bound
    BY <1>0, <2>2 DEF Goto, Local
  <2>4. /\ loc[w].cfg = agent.cfg
        /\ loc[w].kind = "submit" => Fresh
    BY <2>1, CleanStep DEF SnapshotBind, SubmissionSoFar
  <2> QED BY <2>2, <2>3, <2>4 DEF Exhausted, Used, db
<1>5. ASSUME pc'[w] = "probe" PROVE loc'[w].kind = "backfill"
  <2>1. BackfillStart(w) BY <1>5, StepTo
  <2>2. loc'[w] = [[NoLocal EXCEPT !.no = agent.no] EXCEPT !.kind = "backfill"]
    BY <1>0, <2>1 DEF BackfillStart, Start
  <2> QED BY <2>2 DEF NoLocal
<1> HIDE DEF Fresh
<1> QED BY <1>1, <1>2, <1>3, <1>4, <1>5

LEMMA CleanSubmissionNext ==
  ASSUME TypeOK, CleanAlone, SubmissionSoFar, NEW w \in Workers, Step(w)
  PROVE  CleanSubmission'
<1> SUFFICES
      ASSUME w \in clean', pc'[w] = "mark", NEW r, r = loc'[w].row
      PROVE  /\ rows'[r].status = "pending_review"
             /\ Content(r)' = <<agent'.cfg, bound'>>
             /\ Exhausted' \/ \A q \in Used' \ {r} : rows'[q].no # rows'[r].no
  BY CleanOwner DEF CleanSubmission, Content
<1>0. pc \in [Workers -> Labels] /\ loc \in [Workers -> Local]
      /\ rows \in [RowIds -> Version]
  BY DEF TypeOK
<1>1. InsertRow(w) /\ w \in clean BY StepTo, CleanStep DEF InsertRow
<1>2. /\ loc[w].cfg = agent.cfg /\ loc[w].bound = bound
      /\ loc[w].kind = "submit" =>
           Exhausted \/ \A q \in Used : rows[q].no # loc[w].no
  BY <1>1 DEF InsertRow, SubmissionSoFar
<1> DEFINE new == [status |-> InsertedAs(loc[w].kind), no |-> loc[w].no,
                   cfg |-> loc[w].cfg, bound |-> loc[w].bound]
<1>3. PICK q \in RowIds \ Used :
        /\ rows' = [rows EXCEPT ![q] = new]
        /\ loc[w].kind = "submit"
        /\ Goto(w, [loc[w] EXCEPT !.row = q], "mark")
  BY <1>0, <1>1 DEF InsertRow, Return
<1>4. r = q BY <1>0, <1>3 DEF Goto, Local
<1>5. rows'[r] = new /\ new.status = "pending_review"
  BY <1>0, <1>3, <1>4 DEF InsertedAs
<1>6. \A p \in RowIds \ {r} : rows'[p] = rows[p] BY <1>0, <1>3, <1>4
<1>7. Used' \ {r} = Used /\ Used \subseteq Used'
  BY <1>3, <1>4, <1>5, <1>6 DEF Used
<1>8. UNCHANGED <<agent, bound>> BY <1>1 DEF InsertRow
<1>9. Exhausted => Exhausted'
  <2> SUFFICES ASSUME Exhausted, NEW m \in (agent.no + 1)..(agent.no + Tries)
               PROVE  \E p \in Used' : rows'[p].no = m
    BY <1>8 DEF Exhausted
  <2>1. PICK p \in Used : rows[p].no = m BY DEF Exhausted
  <2> QED BY <1>3, <1>4, <1>6, <1>7, <2>1 DEF Used
<1>10. (\A p \in Used : rows[p].no # loc[w].no) =>
         \A p \in Used' \ {r} : rows'[p].no # rows'[r].no
  BY <1>5, <1>6, <1>7 DEF Used
<1> QED BY <1>2, <1>3, <1>5, <1>8, <1>9, <1>10 DEF Content

-----------------------------------------------------------------------------
(* Edits that nothing overlaps.                                            *)

LEMMA KindedInit == Init => Kinded
BY DEF Init, Kinded, NoLocal, Updating, Freezing

LEMMA KindedNext ==
  ASSUME TypeOK, Kinded, NEW w \in Workers, Step(w)
  PROVE  Kinded'
<1> DEFINE OK(at, kind) ==
      /\ at = "decide" => kind = "edit"
      /\ at \in Updating \cup {"getPending", "invalidate"} => kind \in {"edit", "rollback"}
      /\ at = "draft" => kind \in {"reject", "rollback"}
      /\ at = "reject" => kind = "reject"
      /\ at \in {"number", "mark"} => kind = "submit"
      /\ at = "probe" => kind = "backfill"
      /\ at \in Freezing => kind \in {"submit", "snapshot", "backfill"}
      /\ kind = "edit" => at \in Updating \cup {"decide", "getPending", "invalidate"}
<1>0. /\ pc \in [Workers -> Labels] /\ loc \in [Workers -> Local]
      /\ \A v \in Workers \ {w} : pc'[v] = pc[v] /\ loc'[v] = loc[v]
  BY StepTo DEF TypeOK
<1>1. OK(pc[w], loc[w].kind)
  BY DEF Kinded
<1>2. OK("idle", NoLocal.kind)
  BY DEF NoLocal, Updating, Freezing
<1>3. OK(pc'[w], loc'[w].kind)
  <2>1. CASE EditRead(w)
    BY <1>0, <2>1 DEF EditRead, Start, NoLocal, Updating, Freezing
  <2>2. CASE EditDecide(w)
    BY <1>0, <1>1, <2>2 DEF EditDecide, Goto, Local, Updating, Freezing
  <2>3. CASE UpdateStep(w)
    BY <1>0, <1>1, <1>2, <2>3
       DEF UpdateStep, WriteAgent, Unbind, Bind, Proceed, After, Updated, Return, Goto, Updating, Freezing
  <2>4. CASE DropStep(w)
    BY <1>0, <1>1, <1>2, <2>4
       DEF DropStep, GetPending, Invalidate, Proceed, After, Return, Goto, Local, Updating, Freezing
  <2>5. CASE SubmitRead(w) \/ SnapshotStart(w) \/ BackfillStart(w)
    BY <1>0, <2>5 DEF SubmitRead, SnapshotStart, BackfillStart, Start, NoLocal, Updating, Freezing
  <2>6. CASE SubmitNumber(w) \/ BackfillProbe(w) \/ SnapshotRow(w) \/ SnapshotBind(w)
    BY <1>0, <1>1, <1>2, <2>6
       DEF SubmitNumber, BackfillProbe, SnapshotRow, SnapshotBind, Goto, Return, Local, Updating, Freezing
  <2>7. CASE InsertRow(w) \/ MarkPending(w)
    BY <1>0, <1>1, <1>2, <2>7
       DEF InsertRow, MarkPending, Goto, Return, Proceed, After, Local, Updating, Freezing
  <2>8. CASE ApproveStart(w) \/ RejectStart(w)
    BY <1>0, <2>8 DEF ApproveStart, RejectStart, Start, NoLocal, Updating, Freezing
  <2>9. CASE Archive(w) \/ Publish(w) \/ Reject(w)
    BY <1>0, <1>1, <2>9
       DEF Archive, Publish, Reject, Proceed, After, Goto, Updating, Freezing
  <2>13. CASE MarkPublished(w) \/ MarkDraft(w)
    BY <1>0, <1>1, <1>2, <2>13
       DEF MarkPublished, MarkDraft, Proceed, After, Goto, Return, Updating, Freezing
  <2>10. CASE RollbackStart(w) \/ Toggle(w) \/ DeleteStart(w)
    BY <1>0, <1>1, <2>10
       DEF RollbackStart, Toggle, DeleteStart, Start, NoLocal, Updating, Freezing
  <2>14. CASE RemoveRelations(w) \/ SetDelFlag(w)
    BY <1>0, <1>1, <1>2, <2>14
       DEF RemoveRelations, SetDelFlag, Proceed, After, Goto, Return, Updating, Freezing
  <2>11. CASE LoseWrite(w)
    <3>1. OK(After(w), loc[w].kind) \/ After(w) = "idle"
      BY <1>1, <2>11 DEF LoseWrite, After, Updated, Writes, Updating, Freezing
    <3>2. pc'[w] = After(w) /\ loc'[w] = IF After(w) = "idle" THEN NoLocal ELSE loc[w]
      BY <1>0, <2>11 DEF LoseWrite
    <3> HIDE DEF OK
    <3> QED BY <1>2, <3>1, <3>2
  <2>12. CASE LoseRead(w) \/ Abort(w)
    BY <1>0, <1>1, <1>2, <2>12 DEF LoseRead, Abort, Return, Local, Updating, Freezing
  <2> QED BY <2>1, <2>2, <2>3, <2>4, <2>5, <2>6, <2>7, <2>8, <2>9, <2>10, <2>11, <2>12, <2>13, <2>14
       DEF Step, OtherStep, EditStep, FreezeStep, ReviewStep, FaultStep
<1> HIDE DEF OK
<1>4. \A v \in Workers : OK(pc'[v], loc'[v].kind)
  BY <1>0, <1>3 DEF OK, Kinded
<1> QED BY <1>4 DEF OK, Kinded

\* A clean worker's step that is not its first.
LEMMA CleanGoesOn ==
  ASSUME TypeOK, CleanAlone, NEW w \in Workers, Step(w), w \in clean', pc[w] # "idle"
  PROVE  w \in clean /\ ~ LoseWrite(w) /\ ~ LoseRead(w) /\ ~ Abort(w)
<1>1. w \in clean
  BY CleanStep
<1>2. ~ LoseWrite(w) /\ ~ LoseRead(w) /\ ~ Abort(w)
  BY DEF LoseWrite, LoseRead, Abort, Return
<1> QED BY <1>1, <1>2

\* What an edit does to the row: its columns, and the release status.
LEMMA WriteIs ==
  ASSUME TypeOK, NEW w \in Workers, WriteAgent(w), ~ agent.deleted
  PROVE  /\ agent'.cfg = Overlay(loc[w].cfg, agent.cfg)
         /\ agent'.release = IF Reverts(w) THEN "draft" ELSE agent.release
         /\ agent'.deleted = FALSE /\ agent'.no = agent.no /\ agent'.enabled = agent.enabled
         /\ UNCHANGED <<bound, rows, faults>>
         /\ Proceed(w)
BY DEF WriteAgent, UpdateAgent, TypeOK, Agent

\* Where an update goes next.
LEMMA UpdateGoesTo ==
  ASSUME TypeOK, NEW w \in Workers, pc[w] \in Updating, Proceed(w)
  PROVE  /\ pc'[w] = After(w)
         /\ After(w) # "idle" => loc' = loc
         /\ pc[w] = "write" => After(w) = IF loc[w].rebind THEN "unbind" ELSE Updated(w)
         /\ pc[w] = "unbind" => After(w) = "bind"
         /\ pc[w] = "bind" => After(w) = Updated(w)
<1>1. pc'[w] = After(w) /\ (After(w) # "idle" => loc' = loc)
  BY DEF Proceed, Return, Goto, TypeOK
<1>2. /\ pc[w] = "write" => After(w) = IF loc[w].rebind THEN "unbind" ELSE Updated(w)
      /\ pc[w] = "unbind" => After(w) = "bind"
      /\ pc[w] = "bind" => After(w) = Updated(w)
  BY DEF After
<1> QED BY <1>1, <1>2

LEMMA EditSoFarInit == Init => EditSoFar
BY DEF Init, EditSoFar

LEMMA EditSoFarNext ==
  ASSUME TypeOK, CleanAlone, Kinded, EditSoFar, NEW w \in Workers, Step(w)
  PROVE  EditSoFar'
<1> DEFINE Far(at, l) ==
      /\ at \in {"decide", "write"} => ~ agent.deleted /\ agent.release = l.was
      /\ at \in {"unbind", "bind", "getPending", "invalidate"} =>
           /\ agent.cfg = Overlay(l.cfg, agent.cfg)
           /\ agent.release = IF l.differs THEN "draft" ELSE l.was
      /\ at = "bind" => bound = {}
      /\ at \in {"unbind", "bind"} => l.rebind
      /\ at \in {"getPending", "invalidate"} => (l.rebind => bound = l.bound)
<1> SUFFICES ASSUME w \in clean', loc'[w].kind = "edit" PROVE Far(pc[w], loc[w])'
  BY CleanOwner DEF EditSoFar
<1>0. /\ pc \in [Workers -> Labels] /\ loc \in [Workers -> Local] /\ agent \in Agent
      /\ pc'[w] \in Updating \cup {"decide", "getPending", "invalidate"}
  BY KindedNext DEF TypeOK, Kinded
<1>1. CASE EditRead(w)
  <2>1. loc'[w].was = agent.release /\ pc'[w] = "decide"
    BY <1>0, <1>1 DEF EditRead, Start, NoLocal
  <2> QED BY <1>1, <2>1 DEF EditRead, db
<1>2. CASE EditDecide(w)
  <2>1. Far(pc[w], loc[w]) /\ pc[w] = "decide" /\ pc'[w] = "write"
    <3>1. pc[w] = "decide" /\ loc[w].kind = "edit"
      BY <1>2 DEF EditDecide, Kinded
    <3>2. w \in clean
      BY <3>1, CleanGoesOn
    <3> QED BY <1>0, <1>2, <3>1, <3>2 DEF EditSoFar, EditDecide, Goto
  <2>2. loc'[w].was = loc[w].was /\ UNCHANGED db
    BY <1>0, <1>2 DEF EditDecide, Goto, Local
  <2> QED BY <2>1, <2>2 DEF db
<1>3. CASE UpdateStep(w)
  <2>1. pc[w] \in Updating
    BY <1>3 DEF UpdateStep, WriteAgent, Unbind, Bind, Updating
  <2>2. pc'[w] # "idle"
    BY <1>0 DEF Updating
  <2>3. CASE WriteAgent(w)
    <3>1. w \in clean /\ pc[w] = "write"
      BY <2>1, <2>3, CleanGoesOn DEF Updating, WriteAgent
    <3>2. CASE agent.deleted
      BY <1>0, <2>3, <3>1, <3>2, <2>2 DEF WriteAgent, EditSoFar, Goto, Return, Updating
    <3>3. CASE ~ agent.deleted
      <4>1. loc' = loc /\ pc'[w] = After(w)
        BY <2>1, <2>2, <2>3, <3>3, WriteIs, UpdateGoesTo
      <4>2. agent.release = loc[w].was /\ loc[w].kind = "edit"
        BY <3>1, <4>1 DEF EditSoFar
      <4>3. agent'.release = IF loc[w].differs THEN "draft" ELSE loc[w].was
        BY <2>3, <3>3, <4>2, WriteIs DEF Reverts
      <4>4. agent'.cfg = Overlay(loc[w].cfg, agent'.cfg)
        BY <2>3, <3>3, WriteIs DEF Overlay
      <4>5. pc'[w] = IF loc[w].rebind THEN "unbind" ELSE IF Invalidates(w) THEN "getPending" ELSE "idle"
        BY <2>1, <2>3, <3>1, <3>3, <4>1, <4>2, WriteIs, UpdateGoesTo DEF Updated
      <4> QED BY <2>2, <4>1, <4>3, <4>4, <4>5
    <3> QED BY <3>2, <3>3
  <2>4. CASE Unbind(w)
    <3>1. w \in clean /\ pc[w] = "unbind"
      BY <2>1, <2>4, CleanGoesOn DEF Updating, Unbind
    <3>2. loc' = loc /\ pc'[w] = "bind" /\ bound' = {} /\ UNCHANGED agent
      BY <2>1, <2>4, <3>1, UpdateGoesTo DEF Unbind
    <3> QED BY <3>1, <3>2 DEF EditSoFar
  <2>5. CASE Bind(w)
    <3>1. w \in clean /\ pc[w] = "bind"
      BY <2>1, <2>5, CleanGoesOn DEF Updating, Bind
    <3>2. loc' = loc /\ pc'[w] = Updated(w) /\ bound' = bound \cup loc[w].bound /\ UNCHANGED agent
      BY <2>1, <2>2, <2>5, <3>1, UpdateGoesTo DEF Bind
    <3>3. Far(pc[w], loc[w]) /\ loc[w].kind = "edit"
      BY <3>1, <3>2 DEF EditSoFar
    <3>4. pc'[w] = "getPending"
      BY <2>2, <3>2, <3>3 DEF Updated
    <3> QED BY <3>1, <3>2, <3>3, <3>4
  <2> QED BY <1>3, <2>3, <2>4, <2>5 DEF UpdateStep
<1>4. CASE DropStep(w)
  <2>1. GetPending(w) /\ pc'[w] = "invalidate"
    BY <1>0, <1>4 DEF DropStep, GetPending, Invalidate, Proceed, After, Return, Goto, Updating
  <2>2. pc[w] = "getPending" /\ w \in clean /\ UNCHANGED db
    BY <2>1, CleanGoesOn DEF GetPending
  <2>3. PICK r \in Pending : loc'[w] = [loc[w] EXCEPT !.row = r]
    BY <1>0, <2>1 DEF GetPending, Return, Goto
  <2>4. /\ loc'[w].kind = loc[w].kind /\ loc'[w].cfg = loc[w].cfg /\ loc'[w].was = loc[w].was
        /\ loc'[w].differs = loc[w].differs /\ loc'[w].rebind = loc[w].rebind
        /\ loc'[w].bound = loc[w].bound
    BY <1>0, <2>3 DEF Local
  <2>5. Far(pc[w], loc[w])
    BY <2>2, <2>4 DEF EditSoFar
  <2> QED BY <2>1, <2>2, <2>4, <2>5 DEF db
<1>5. CASE FreezeStep(w) \/ ReviewStep(w) \/ OtherStep(w)
  <2>1. pc[w] # "idle" /\ loc'[w].kind = loc[w].kind
    <3>1. CASE FreezeStep(w)
      <4>1. ~ SubmitRead(w) /\ ~ SnapshotStart(w) /\ ~ BackfillStart(w)
        BY <1>0 DEF SubmitRead, SnapshotStart, BackfillStart, Start, NoLocal
      <4>2. ASSUME SubmitNumber(w) \/ BackfillProbe(w) \/ SnapshotRow(w) \/ SnapshotBind(w)
            PROVE  pc[w] # "idle" /\ loc'[w].kind = loc[w].kind
        BY <1>0, <4>2
           DEF SubmitNumber, BackfillProbe, SnapshotRow, SnapshotBind, Goto, Return, NoLocal, Local
      <4>3. ASSUME InsertRow(w) \/ MarkPending(w)
            PROVE  pc[w] # "idle" /\ loc'[w].kind = loc[w].kind
        BY <1>0, <4>3 DEF InsertRow, MarkPending, Goto, Return, Proceed, NoLocal, Local
      <4> QED BY <3>1, <4>1, <4>2, <4>3 DEF FreezeStep
    <3>2. CASE ReviewStep(w)
      BY <1>0, <3>2
         DEF ReviewStep, ApproveStart, RejectStart, Start, Archive, Publish, MarkPublished,
             Reject, MarkDraft, NoLocal, Goto, Return, Proceed
    <3>3. CASE OtherStep(w)
      BY <1>0, <3>3
         DEF OtherStep, RollbackStart, Toggle, DeleteStart, Start, RemoveRelations, SetDelFlag,
             NoLocal, Goto, Return, Proceed, Updating
    <3> QED BY <1>5, <3>1, <3>2, <3>3
  <2>2. pc[w] \in Updating \cup {"decide", "getPending", "invalidate"}
    BY <2>1 DEF Kinded
  <2> QED BY <1>5, <2>1, <2>2
      DEF FreezeStep, SubmitRead, SnapshotStart, BackfillStart, Start, SubmitNumber,
          BackfillProbe, SnapshotRow, SnapshotBind, InsertRow, MarkPending,
          ReviewStep, ApproveStart, RejectStart, Archive, Publish, MarkPublished, Reject, MarkDraft,
          OtherStep, RollbackStart, Toggle, DeleteStart, RemoveRelations, SetDelFlag, Updating
<1>6. CASE FaultStep(w)
  BY <1>6 DEF FaultStep, LoseWrite, LoseRead, Abort, Return
<1> QED BY <1>1, <1>2, <1>3, <1>4, <1>5, <1>6 DEF Step, EditStep

LEMMA InvalidatedIs ==
  ASSUME TypeOK, HoldsRow, NEW w \in Workers, Invalidate(w)
  PROVE  /\ loc[w].row \in RowIds
         /\ rows' = [rows EXCEPT ![loc[w].row].status = "invalidated"]
         /\ rows'[loc[w].row].status = "invalidated"
         /\ \A r \in RowIds \ {loc[w].row} : rows'[r] = rows[r]
         /\ UNCHANGED <<agent, bound>>
         /\ pc'[w] = "idle"
<1>1. loc[w].row \in RowIds
  BY DEF HoldsRow, Holding, Invalidate
<1> QED BY <1>1 DEF Invalidate, SetStatus, Proceed, After, Return, TypeOK, Version

LEMMA EditEnds ==
  ASSUME TypeOK, HoldsRow, CleanAlone, Kinded, EditSoFar,
         NEW v \in Workers, Step(v), NEW w \in clean,
         loc[w].kind = "edit", pc'[w] = "idle", faults' = faults
  PROVE  /\ agent'.cfg = Overlay(loc[w].cfg, agent'.cfg)
         /\ loc[w].rebind => bound' = loc[w].bound
         /\ agent'.release = IF loc[w].differs THEN "draft" ELSE loc[w].was
         /\ Invalidates(w) =>
              Pending' = {} \/ rows'[loc[w].row].status = "invalidated"
<1>0. /\ pc \in [Workers -> Labels] /\ loc \in [Workers -> Local] /\ agent \in Agent
      /\ w \in Workers /\ pc[w] # "idle" /\ faults \in Nat
  BY DEF TypeOK, CleanAlone
<1>1. v = w
  BY <1>0, StepTo
<1>2. Step(w)
  BY <1>1
<1>3. pc[w] \in Updating \cup {"decide", "getPending", "invalidate"}
  BY <1>0 DEF Kinded
<1>4. CASE WriteAgent(w)
  <2>1. pc[w] = "write" /\ ~ agent.deleted /\ agent.release = loc[w].was
    BY <1>4 DEF WriteAgent, EditSoFar
  <2>2. pc'[w] = IF loc[w].rebind THEN "unbind" ELSE Updated(w)
    BY <1>0, <1>4, <2>1, WriteIs, UpdateGoesTo DEF Updating
  <2>3. ~ loc[w].rebind /\ ~ Invalidates(w)
    BY <1>0, <2>2 DEF Updated
  <2>4. agent'.cfg = Overlay(loc[w].cfg, agent'.cfg)
    BY <1>0, <1>4, <2>1, WriteIs DEF Overlay
  <2>5. agent'.release = IF loc[w].differs THEN "draft" ELSE loc[w].was
    BY <1>0, <1>4, <2>1, WriteIs DEF Reverts
  <2> QED BY <2>3, <2>4, <2>5
<1>5. CASE Unbind(w)
  BY <1>0, <1>3, <1>5, UpdateGoesTo DEF Unbind, Updating
<1>6. CASE Bind(w)
  <2>1. pc[w] = "bind" /\ pc'[w] = Updated(w) /\ bound' = bound \cup loc[w].bound /\ UNCHANGED agent
    BY <1>0, <1>3, <1>6, UpdateGoesTo DEF Bind, Updating
  <2>2. /\ agent.cfg = Overlay(loc[w].cfg, agent.cfg) /\ bound = {}
        /\ agent.release = IF loc[w].differs THEN "draft" ELSE loc[w].was
    BY <2>1 DEF EditSoFar
  <2>3. ~ Invalidates(w)
    BY <1>0, <2>1 DEF Updated
  <2> QED BY <2>1, <2>2, <2>3
<1>7. CASE DropStep(w)
  <2>1. /\ agent.cfg = Overlay(loc[w].cfg, agent.cfg)
        /\ agent.release = IF loc[w].differs THEN "draft" ELSE loc[w].was
        /\ loc[w].rebind => bound = loc[w].bound
    BY <1>7 DEF DropStep, GetPending, Invalidate, EditSoFar
  <2>2. UNCHANGED <<agent, bound>>
    BY <1>0, <1>7, InvalidatedIs DEF DropStep, GetPending, db
  <2>3. Pending' = {} \/ rows'[loc[w].row].status = "invalidated"
    <3>1. CASE GetPending(w)
      BY <1>0, <3>1 DEF GetPending, Goto, Pending, db
    <3>2. CASE Invalidate(w)
      BY <1>0, <3>2, InvalidatedIs
    <3> QED BY <1>7, <3>1, <3>2 DEF DropStep
  <2> QED BY <2>1, <2>2, <2>3
<1>8. CASE EditStep(w)
  BY <1>0, <1>8 DEF EditStep, EditRead, EditDecide, Start, Goto
<1>9. CASE FreezeStep(w) \/ ReviewStep(w) \/ OtherStep(w)
  BY <1>0, <1>3, <1>9
      DEF FreezeStep, SubmitRead, SnapshotStart, BackfillStart, Start, SubmitNumber,
          BackfillProbe, SnapshotRow, SnapshotBind, InsertRow, MarkPending,
          ReviewStep, ApproveStart, RejectStart, Archive, Publish, MarkPublished, Reject, MarkDraft,
          OtherStep, RollbackStart, Toggle, DeleteStart, RemoveRelations, SetDelFlag, Updating
<1>10. CASE FaultStep(w)
  BY <1>0, <1>10 DEF FaultStep, LoseWrite, LoseRead, Abort
<1> QED BY <1>2, <1>4, <1>5, <1>6, <1>7, <1>8, <1>9, <1>10 DEF Step, UpdateStep

-----------------------------------------------------------------------------
LEMMA InductiveInit == Init => Inductive
BY InitType, HoldsRowInit, KindedInit, EditSoFarInit
   DEF Init, Inductive, CleanAlone, ApprovalSoFar, SubmissionSoFar, CleanSubmission

LEMMA InductiveNext == Inductive /\ [Next]_vars => Inductive'
<1> SUFFICES ASSUME Inductive, [Next]_vars PROVE Inductive'
  OBVIOUS
<1>1. CASE Next
  BY <1>1, NextType, HoldsRowNext, CleanAloneNext, KindedNext, EditSoFarNext,
     ApprovalNext, SubmissionNext, CleanSubmissionNext
     DEF Next, Inductive
<1>2. CASE UNCHANGED vars
  BY <1>2, NextType
     DEF vars, Inductive, HoldsRow, CleanAlone, Kinded, EditSoFar, ApprovalSoFar, SubmissionSoFar,
         CleanSubmission, Exhausted, Published, Used, Content
<1> QED BY <1>1, <1>2

LEMMA InductiveInvariant == Spec => []Inductive
BY InductiveInit, InductiveNext, PTL DEF Spec

\* CleanApproval: an approval that nothing overlaps leaves exactly one version
\* published, however many races and failures came before it.
THEOREM ApprovalPublishesOne == Spec => []CleanApproval
<1>1. Inductive => CleanApproval
  BY DEF Inductive, ApprovalSoFar, CleanApproval
<1> QED BY <1>1, InductiveInvariant, PTL

\* CleanSubmission: what a submission that nothing overlaps has frozen is the
\* working copy, and its number is its own.
THEOREM SubmissionFreezesCopy == Spec => []CleanSubmission
<1>1. Inductive => CleanSubmission
  BY DEF Inductive
<1> QED BY <1>1, InductiveInvariant, PTL

\* CleanEdit: an edit that nothing overlaps leaves the working copy it was
\* asked for and, if that is a change, a draft whose pending version is gone.
THEOREM EditsTakeEffect == Spec => CleanEdit
<1>1. Inductive /\ [Next]_vars =>
        [\A w \in clean :
           loc[w].kind = "edit" /\ pc'[w] = "idle" /\ faults' = faults =>
             /\ agent'.cfg = Overlay(loc[w].cfg, agent'.cfg)
             /\ loc[w].rebind => bound' = loc[w].bound
             /\ agent'.release = IF loc[w].differs THEN "draft" ELSE loc[w].was
             /\ Invalidates(w) =>
                  Pending' = {} \/ rows'[loc[w].row].status = "invalidated"]_vars
  BY EditEnds DEF Inductive, Next
<1> QED BY <1>1, InductiveInvariant, PTL DEF Spec, CleanEdit

-----------------------------------------------------------------------------
(* One worker, to whom nothing happens.                                    *)

\* A handler that starts is clean, and one that goes on stays so.
LEMMA StaysClean ==
  ASSUME Serial, TypeOK, CleanAlone, NEW w \in Workers, Step(w),
         pc[w] # "idle" => w \in clean
  PROVE  pc'[w] # "idle" => w \in clean'
<1>0. /\ pc \in [Workers -> Labels] /\ loc \in [Workers -> Local]
      /\ \A v \in Workers : v = w
  BY DEF TypeOK, Serial, OneWorker
<1> SUFFICES ASSUME pc'[w] # "idle" PROVE w \in clean'
  OBVIOUS
<1>1. CASE \E kind, at, l : Start(w, kind, at, l)
  BY <1>0, <1>1 DEF Start
<1>2. CASE \E l, at : pc[w] # "idle" /\ Goto(w, l, at)
  BY <1>2 DEF Goto
<1>3. CASE Return(w)
  BY <1>0, <1>3 DEF Return
<1>4. CASE Proceed(w) /\ pc[w] # "idle"
  BY <1>0, <1>2, <1>3, <1>4 DEF Proceed
<1>5. CASE Toggle(w)
  BY <1>5 DEF Toggle
<1>6. ~ FaultStep(w)
  BY DEF Serial, FaultStep, LoseWrite, LoseRead, Abort, TypeOK
<1>7. CASE EditStep(w)
  <2>1. CASE EditRead(w)
    BY <1>1, <2>1 DEF EditRead
  <2>2. CASE EditDecide(w)
    BY <1>2, <2>2 DEF EditDecide
  <2> QED BY <1>7, <2>1, <2>2 DEF EditStep
<1>8. CASE UpdateStep(w) \/ DropStep(w)
  BY <1>2, <1>3, <1>4, <1>8
     DEF UpdateStep, DropStep, WriteAgent, Unbind, Bind, GetPending, Invalidate
<1>9. CASE FreezeStep(w)
  <2>1. CASE SubmitRead(w) \/ SnapshotStart(w) \/ BackfillStart(w)
    BY <1>1, <2>1 DEF SubmitRead, SnapshotStart, BackfillStart
  <2>2. CASE SubmitNumber(w) \/ BackfillProbe(w) \/ SnapshotRow(w) \/ SnapshotBind(w)
    BY <1>2, <1>3, <2>2 DEF SubmitNumber, BackfillProbe, SnapshotRow, SnapshotBind
  <2>3. CASE InsertRow(w) \/ MarkPending(w)
    BY <1>2, <1>3, <1>4, <2>3 DEF InsertRow, MarkPending
  <2> QED BY <1>9, <2>1, <2>2, <2>3 DEF FreezeStep
<1>10. CASE ReviewStep(w)
  <2>1. CASE ApproveStart(w) \/ RejectStart(w)
    BY <1>1, <2>1 DEF ApproveStart, RejectStart
  <2>2. CASE ~ (ApproveStart(w) \/ RejectStart(w))
    BY <1>4, <1>10, <2>2 DEF ReviewStep, Archive, Publish, MarkPublished, Reject, MarkDraft
  <2> QED BY <2>1, <2>2
<1>11. CASE OtherStep(w)
  <2>1. CASE RollbackStart(w) \/ DeleteStart(w)
    BY <1>1, <2>1 DEF RollbackStart, DeleteStart
  <2>2. CASE RemoveRelations(w) \/ SetDelFlag(w)
    BY <1>4, <2>2 DEF RemoveRelations, SetDelFlag
  <2> QED BY <1>5, <1>11, <2>1, <2>2 DEF OtherStep
<1> QED BY <1>6, <1>7, <1>8, <1>9, <1>10, <1>11 DEF Step

-----------------------------------------------------------------------------
(* What steps do to the versions that are pending and published.           *)

LEMMA RowsSame ==
  ASSUME UNCHANGED rows
  PROVE  /\ Pending' = Pending /\ Published' = Published /\ Used' = Used
         /\ \A r \in RowIds : Content(r)' = Content(r) /\ rows'[r].no = rows[r].no
BY DEF Pending, Published, Used, Content

LEMMA StatusIs ==
  ASSUME rows \in [RowIds -> Version], NEW r \in RowIds, NEW s, SetStatus(r, s),
         s \in {"published", "rejected", "invalidated"}
  PROVE  /\ Pending' = Pending \ {r}
         /\ Published' = IF s = "published" THEN Published \cup {r} ELSE Published \ {r}
         /\ \A q \in RowIds : Content(q)' = Content(q) /\ rows'[q].no = rows[q].no
         /\ UNCHANGED <<agent, bound>>
<1>1. /\ rows'[r].status = s /\ rows'[r].no = rows[r].no /\ rows'[r].cfg = rows[r].cfg
      /\ rows'[r].bound = rows[r].bound
      /\ \A q \in RowIds \ {r} : rows'[q] = rows[q]
  BY DEF SetStatus, Version
<1>2. \A q \in RowIds : Content(q)' = Content(q) /\ rows'[q].no = rows[q].no
  BY <1>1 DEF Content
<1>3. Pending' = Pending \ {r}
  BY <1>1 DEF Pending
<1>4. Published' = IF s = "published" THEN Published \cup {r} ELSE Published \ {r}
  BY <1>1 DEF Published
<1> QED BY <1>2, <1>3, <1>4 DEF SetStatus

LEMMA ArchiveIs ==
  ASSUME rows \in [RowIds -> Version], NEW w, Archive(w)
  PROVE  /\ Pending' = Pending /\ Published' = {}
         /\ \A q \in RowIds : Content(q)' = Content(q) /\ rows'[q].no = rows[q].no
         /\ UNCHANGED <<agent, bound>>
<1>1. \A q \in RowIds : /\ rows'[q].status = IF rows[q].status = "published" THEN "archived"
                                             ELSE rows[q].status
                        /\ rows'[q].no = rows[q].no /\ rows'[q].cfg = rows[q].cfg
                        /\ rows'[q].bound = rows[q].bound
  BY DEF Archive, Version
<1> QED BY <1>1 DEF Archive, Pending, Published, Content

\* create inserts no row, or one that was free.
LEMMA InsertIs ==
  ASSUME TypeOK, NEW w \in Workers, InsertRow(w)
  PROVE  /\ UNCHANGED <<agent, bound>>
         /\ \/ Return(w) /\ UNCHANGED rows
            \/ \E q \in RowIds :
                 /\ q \notin Pending \cup Published
                 /\ Content(q)' = <<loc[w].cfg, loc[w].bound>> /\ rows'[q].no = loc[w].no
                 /\ \A r \in RowIds \ {q} : Content(r)' = Content(r) /\ rows'[r].no = rows[r].no
                 /\ Pending' = IF loc[w].kind = "submit" THEN Pending \cup {q} ELSE Pending
                 /\ Published' = IF loc[w].kind = "backfill" THEN Published \cup {q} ELSE Published
                 /\ IF loc[w].kind = "submit"
                    THEN Goto(w, [loc[w] EXCEPT !.row = q], "mark") ELSE Return(w)
<1> SUFFICES ASSUME ~ (Return(w) /\ UNCHANGED rows)
             PROVE  \E q \in RowIds :
                 /\ q \notin Pending \cup Published
                 /\ Content(q)' = <<loc[w].cfg, loc[w].bound>> /\ rows'[q].no = loc[w].no
                 /\ \A r \in RowIds \ {q} : Content(r)' = Content(r) /\ rows'[r].no = rows[r].no
                 /\ Pending' = IF loc[w].kind = "submit" THEN Pending \cup {q} ELSE Pending
                 /\ Published' = IF loc[w].kind = "backfill" THEN Published \cup {q} ELSE Published
                 /\ IF loc[w].kind = "submit"
                    THEN Goto(w, [loc[w] EXCEPT !.row = q], "mark") ELSE Return(w)
  BY DEF InsertRow
<1>0. rows \in [RowIds -> Version]
  BY DEF TypeOK
<1> DEFINE new == [status |-> InsertedAs(loc[w].kind), no |-> loc[w].no,
                   cfg |-> loc[w].cfg, bound |-> loc[w].bound]
<1>1. PICK q \in RowIds \ Used :
        /\ rows' = [rows EXCEPT ![q] = new]
        /\ IF loc[w].kind = "submit"
           THEN Goto(w, [loc[w] EXCEPT !.row = q], "mark") ELSE Return(w)
  BY DEF InsertRow
<1>2. rows'[q] = new /\ \A r \in RowIds \ {q} : rows'[r] = rows[r]
  BY <1>0, <1>1
<1>3. rows[q].status = "free"
  BY <1>1 DEF Used
<1>4. /\ new.status = IF loc[w].kind = "submit" THEN "pending_review"
                      ELSE IF loc[w].kind = "backfill" THEN "published" ELSE "draft"
      /\ new.no = loc[w].no /\ new.cfg = loc[w].cfg /\ new.bound = loc[w].bound
  BY DEF InsertedAs
<1> HIDE DEF new
<1>5. Pending' = IF loc[w].kind = "submit" THEN Pending \cup {q} ELSE Pending
  BY <1>2, <1>3, <1>4 DEF Pending
<1>6. Published' = IF loc[w].kind = "backfill" THEN Published \cup {q} ELSE Published
  BY <1>2, <1>3, <1>4 DEF Published
<1> QED BY <1>1, <1>2, <1>3, <1>4, <1>5, <1>6 DEF Content, Pending, Published

-----------------------------------------------------------------------------
(* One worker: what is pending.                                            *)

\* What the invariants say of the one worker there is.
LEMMA Alone ==
  ASSUME Serial, Inductive, ReviewSoFar, NEW w \in Workers, Step(w)
  PROVE  /\ pc \in [Workers -> Labels] /\ loc \in [Workers -> Local]
         /\ agent \in Agent /\ rows \in [RowIds -> Version]
         /\ ~ FaultStep(w)
         /\ AtMostOnePending /\ PendingSoFar(w)
         /\ pc[w] # "idle" => w \in clean
BY DEF Serial, Inductive, TypeOK, ReviewSoFar, FaultStep, LoseWrite, LoseRead, Abort

LEMMA ReviewEdit ==
  ASSUME Serial, Inductive, ReviewSoFar, NEW w \in Workers, Step(w), EditStep(w) \/ DropStep(w)
  PROVE  AtMostOnePending' /\ PendingSoFar(w)'
<1>0. /\ pc \in [Workers -> Labels] /\ loc \in [Workers -> Local]
      /\ rows \in [RowIds -> Version] /\ AtMostOnePending /\ PendingSoFar(w)
  BY Alone
<1>1. CASE EditRead(w)
  <2>1. pc[w] = "idle" /\ pc'[w] = "decide" /\ UNCHANGED db
    BY <1>0, <1>1 DEF EditRead, Start
  <2> QED BY <1>0, <2>1 DEF PendingSoFar, AtMostOnePending, Settled, Pending, db, Updating, Freezing
<1>2. CASE EditDecide(w)
  <2>1. pc[w] = "decide" /\ pc'[w] = "write" /\ UNCHANGED db
    BY <1>0, <1>2 DEF EditDecide, Goto
  <2> QED BY <1>0, <2>1 DEF PendingSoFar, AtMostOnePending, Settled, Pending, db, Updating, Freezing
<1>3. CASE GetPending(w)
  <2>1. pc[w] = "getPending" /\ UNCHANGED db /\ (agent.deleted \/ agent.release = "draft")
    BY <1>0, <1>3 DEF GetPending, PendingSoFar
  <2>2. CASE Pending = {} /\ Return(w)
    <3>1. pc'[w] = "idle"
      BY <1>0, <2>2 DEF Return
    <3> QED BY <1>0, <2>1, <2>2, <3>1
        DEF PendingSoFar, AtMostOnePending, Settled, Pending, db, Updating, Freezing
  <2>3. CASE \E r \in Pending : Goto(w, [loc[w] EXCEPT !.row = r], "invalidate")
    <3>1. PICK r \in Pending : Goto(w, [loc[w] EXCEPT !.row = r], "invalidate")
      BY <2>3
    <3>2. pc'[w] = "invalidate" /\ loc'[w].row = r
      BY <1>0, <3>1 DEF Goto, Local
    <3>3. Pending' = Pending /\ Pending = {r}
      BY <1>0, <2>1 DEF AtMostOnePending, Pending, db
    <3> QED BY <1>0, <2>1, <3>2, <3>3 DEF PendingSoFar, AtMostOnePending, db, Updating, Freezing
  <2> QED BY <1>3, <2>2, <2>3 DEF GetPending
<1>4. CASE Invalidate(w)
  <2>1. pc[w] = "invalidate" /\ (agent.deleted \/ agent.release = "draft") /\ Pending = {loc[w].row}
    BY <1>0, <1>4 DEF Invalidate, PendingSoFar
  <2>2. loc[w].row \in RowIds /\ pc'[w] = "idle"
    BY <1>4, InvalidatedIs DEF Inductive
  <2>3. Pending' = {} /\ UNCHANGED agent
    BY <1>0, <1>4, <2>1, <2>2, StatusIs DEF Invalidate
  <2> QED BY <2>1, <2>2, <2>3 DEF PendingSoFar, AtMostOnePending, Settled, Updating, Freezing
<1> QED BY <1>1, <1>2, <1>3, <1>4 DEF EditStep, DropStep

LEMMA ReviewUpdate ==
  ASSUME Serial, Inductive, ReviewSoFar, NEW w \in Workers, Step(w), UpdateStep(w)
  PROVE  AtMostOnePending' /\ PendingSoFar(w)'
<1>0. /\ pc \in [Workers -> Labels] /\ loc \in [Workers -> Local] /\ agent \in Agent
      /\ rows \in [RowIds -> Version] /\ AtMostOnePending /\ PendingSoFar(w)
      /\ pc[w] # "idle" => w \in clean
  BY Alone
<1>1. pc[w] \in Updating /\ UNCHANGED rows
  BY <1>0 DEF UpdateStep, WriteAgent, UpdateAgent, Unbind, Bind, Updating, db
<1>2. w \in clean /\ loc[w].kind \in {"edit", "rollback"} /\ TypeOK
  BY <1>0, <1>1 DEF Updating, Inductive, Kinded
<1>3. AtMostOnePending' /\ Pending' = Pending
  BY <1>0, <1>1 DEF AtMostOnePending, Pending
<1>4. CASE loc[w].kind = "edit"
  <2>1. Settled \/ (pc[w] # "write" /\ Invalidates(w))
    BY <1>0, <1>1, <1>4 DEF PendingSoFar
  <2>2. CASE WriteAgent(w)
    <3>1. pc[w] = "write" /\ ~ agent.deleted /\ agent.release = loc[w].was /\ Settled
      BY <1>2, <1>4, <2>1, <2>2 DEF Inductive, EditSoFar, WriteAgent
    <3>2. /\ agent'.release = IF Reverts(w) THEN "draft" ELSE agent.release
          /\ agent'.deleted = FALSE /\ Proceed(w)
      BY <1>2, <2>2, <3>1, WriteIs
    <3>3. /\ pc'[w] = IF loc[w].rebind THEN "unbind" ELSE Updated(w)
          /\ pc'[w] # "idle" => loc' = loc
      BY <1>1, <1>2, <3>1, <3>2, UpdateGoesTo
    <3>4. CASE Invalidates(w)
      <4>1. agent'.release = "draft" /\ (pc'[w] = "unbind" \/ pc'[w] = "getPending")
        BY <1>4, <3>2, <3>3, <3>4 DEF Updated, Invalidates, Reverts
      <4>2. Invalidates(w)' /\ loc' = loc
        BY <3>3, <3>4, <4>1 DEF Invalidates
      <4> QED BY <1>3, <1>4, <4>1, <4>2 DEF PendingSoFar, Updating, Freezing
    <3>5. CASE ~ Invalidates(w)
      <4>1. pc'[w] = "unbind" \/ pc'[w] = "idle"
        BY <1>4, <3>3, <3>5 DEF Updated
      <4>2. Settled'
        BY <1>3, <3>1, <3>2, <3>5 DEF Settled, Invalidates, Reverts
      <4> QED BY <1>3, <4>1, <4>2 DEF PendingSoFar, Updating, Freezing
    <3> QED BY <3>4, <3>5
  <2>3. CASE Unbind(w)
    <3>1. pc'[w] = "bind" /\ loc' = loc /\ UNCHANGED agent
      BY <1>1, <1>2, <2>3, UpdateGoesTo DEF Unbind
    <3> QED BY <1>3, <2>1, <3>1 DEF PendingSoFar, Settled, Invalidates, Updating, Freezing
  <2>4. CASE Bind(w)
    <3>1. pc[w] = "bind" /\ pc'[w] = Updated(w) /\ UNCHANGED agent
      BY <1>1, <1>2, <2>4, UpdateGoesTo DEF Bind
    <3>2. CASE Invalidates(w)
      <4>1. agent.release = "draft" /\ pc'[w] = "getPending"
        BY <1>2, <1>4, <3>1, <3>2 DEF Inductive, EditSoFar, Updated, Invalidates
      <4> QED BY <1>3, <3>1, <4>1 DEF PendingSoFar, Updating, Freezing
    <3>3. CASE ~ Invalidates(w)
      <4>1. pc'[w] = "idle" /\ Settled'
        BY <1>3, <1>4, <2>1, <3>1, <3>3 DEF Updated, Settled
      <4> QED BY <1>3, <4>1 DEF PendingSoFar, Updating, Freezing
    <3> QED BY <3>2, <3>3
  <2> QED BY <2>2, <2>3, <2>4 DEF UpdateStep
<1>5. CASE loc[w].kind = "rollback"
  <2>1. CASE agent.deleted /\ WriteAgent(w)
    <3>1. pc'[w] = "draft" /\ loc'[w] = loc[w]
      BY <1>0, <1>5, <2>1 DEF WriteAgent, Goto
    <3> QED BY <1>3, <1>5, <3>1 DEF PendingSoFar, Updating, Freezing
  <2>2. CASE ~ (agent.deleted /\ WriteAgent(w))
    <3>1. Proceed(w)
      BY <2>2 DEF UpdateStep, WriteAgent, Unbind, Bind
    <3>2. pc'[w] \in {"unbind", "bind", "draft"} /\ loc' = loc
      BY <1>1, <1>2, <1>5, <3>1, UpdateGoesTo DEF Updated, Updating
    <3> QED BY <1>3, <1>5, <3>2 DEF PendingSoFar, Updating, Freezing
  <2> QED BY <2>1, <2>2
<1> QED BY <1>2, <1>4, <1>5

LEMMA ReviewFreeze ==
  ASSUME Serial, Inductive, ReviewSoFar, NEW w \in Workers, Step(w), FreezeStep(w)
  PROVE  AtMostOnePending' /\ PendingSoFar(w)'
<1>0. /\ pc \in [Workers -> Labels] /\ loc \in [Workers -> Local] /\ agent \in Agent
      /\ rows \in [RowIds -> Version] /\ AtMostOnePending /\ PendingSoFar(w)
  BY Alone
<1>1. CASE SubmitRead(w) \/ SnapshotStart(w) \/ BackfillStart(w)
  <2>1. pc[w] = "idle" /\ Settled /\ UNCHANGED db
    BY <1>0, <1>1 DEF SubmitRead, SnapshotStart, BackfillStart, Start, PendingSoFar
  <2>4. \/ pc'[w] = "number" /\ loc'[w].kind = "submit" /\ agent.release = "draft" /\ ~ agent.deleted
        \/ pc'[w] = "snapRow" /\ loc'[w].kind = "snapshot"
        \/ pc'[w] = "probe"
    <3>1. CASE SubmitRead(w)
      BY <1>0, <3>1 DEF SubmitRead, Start, NoLocal
    <3>2. CASE SnapshotStart(w)
      BY <1>0, <3>2 DEF SnapshotStart, Start, NoLocal
    <3>3. CASE BackfillStart(w)
      BY <1>0, <3>3 DEF BackfillStart, Start, NoLocal
    <3> QED BY <1>1, <3>1, <3>2, <3>3
  <2>2. Pending' = Pending /\ (agent.release = "draft" /\ ~ agent.deleted => Pending = {})
    BY <2>1 DEF Pending, db, Settled
  <2>3. AtMostOnePending' /\ Settled'
    BY <1>0, <2>1, <2>2 DEF AtMostOnePending, Settled, db
  <2> QED BY <2>1, <2>2, <2>3, <2>4 DEF PendingSoFar, Updating, Freezing
<1>2. CASE SubmitNumber(w) \/ BackfillProbe(w) \/ SnapshotRow(w) \/ SnapshotBind(w)
  <2>1. /\ pc[w] \in Freezing \cup {"number", "probe"} /\ UNCHANGED db
        /\ \/ pc'[w] \in Freezing /\ loc'[w].kind = loc[w].kind
           \/ pc'[w] = "idle" /\ (pc[w] = "probe" \/ agent.deleted)
    BY <1>0, <1>2
       DEF SubmitNumber, BackfillProbe, SnapshotRow, SnapshotBind, Goto, Return, Local, Freezing
  <2>2. loc[w].kind = "submit" => pc[w] # "probe"
    BY DEF Inductive, Kinded
  <2>3. loc[w].kind # "submit" => pc[w] # "number"
    BY DEF Inductive, Kinded
  <2>4. Pending' = Pending /\ AtMostOnePending' /\ Settled' = Settled /\ (agent.deleted => Settled)
    BY <1>0, <2>1 DEF AtMostOnePending, Settled, Pending, db
  <2> QED BY <1>0, <2>1, <2>2, <2>3, <2>4 DEF PendingSoFar, Updating, Freezing
<1>3. CASE InsertRow(w)
  <2>1. pc[w] = "insert" /\ loc[w].kind \in {"submit", "snapshot", "backfill"}
    BY <1>3 DEF InsertRow, Inductive, Kinded, Freezing
  <2>2. Settled /\ (loc[w].kind = "submit" => Pending = {})
    BY <1>0, <2>1 DEF PendingSoFar, Freezing
  <2>3. CASE loc[w].kind # "submit"
    <3>1. Pending' = Pending /\ pc'[w] = "idle" /\ UNCHANGED agent
      BY <1>0, <1>3, <2>3, InsertIs, RowsSame DEF Return, Inductive
    <3> QED BY <1>0, <2>2, <2>3, <3>1 DEF PendingSoFar, AtMostOnePending, Settled, Updating, Freezing
  <2>4. CASE loc[w].kind = "submit"
    <3>1. Settled
      BY <1>0, <2>1 DEF PendingSoFar, Freezing
    <3>2. CASE Return(w) /\ UNCHANGED rows
      <4>1. Pending' = {} /\ pc'[w] = "idle" /\ UNCHANGED agent
        BY <1>0, <1>3, <2>2, <2>4, <3>2, RowsSame DEF Return, InsertRow
      <4> QED BY <2>2, <2>4, <3>1, <4>1 DEF PendingSoFar, AtMostOnePending, Settled, Updating, Freezing
    <3>3. CASE ~ (Return(w) /\ UNCHANGED rows)
      <4>1. PICK q \in RowIds : Pending' = {q} /\ Goto(w, [loc[w] EXCEPT !.row = q], "mark")
        BY <1>3, <2>2, <2>4, <3>3, InsertIs DEF Inductive
      <4>2. pc'[w] = "mark" /\ loc'[w].row = q
        BY <1>0, <4>1 DEF Goto, Local
      <4> QED BY <4>1, <4>2 DEF PendingSoFar, AtMostOnePending, Updating, Freezing
    <3> QED BY <3>2, <3>3
  <2> QED BY <2>3, <2>4
<1>4. CASE MarkPending(w)
  <2>1. pc[w] = "mark" /\ Pending = {loc[w].row}
    BY <1>0, <1>4 DEF MarkPending, PendingSoFar
  <2>2. /\ pc'[w] = "idle" /\ UNCHANGED rows
        /\ (agent.deleted /\ UNCHANGED agent) \/ agent'.release = "pending"
    BY <1>0, <1>4, <2>1 DEF MarkPending, Proceed, After, Return, UpdateAgent, Agent
  <2>3. Pending' = Pending
    BY <2>2, RowsSame
  <2> QED BY <1>0, <2>1, <2>2, <2>3 DEF PendingSoFar, AtMostOnePending, Settled, Updating, Freezing
<1> QED BY <1>1, <1>2, <1>3, <1>4 DEF FreezeStep

LEMMA ReviewReview ==
  ASSUME Serial, Inductive, ReviewSoFar, NEW w \in Workers, Step(w), ReviewStep(w)
  PROVE  AtMostOnePending' /\ PendingSoFar(w)'
<1>0. /\ pc \in [Workers -> Labels] /\ loc \in [Workers -> Local] /\ agent \in Agent
      /\ rows \in [RowIds -> Version] /\ AtMostOnePending /\ PendingSoFar(w)
  BY Alone
<1>1. CASE ApproveStart(w) \/ RejectStart(w)
  <2>1. /\ pc'[w] \in {"archive", "reject"} /\ loc'[w].row \in Pending /\ UNCHANGED db
    BY <1>0, <1>1 DEF ApproveStart, RejectStart, Start, NoLocal
  <2>2. Pending' = Pending /\ Pending = {loc'[w].row}
    BY <1>0, <2>1 DEF AtMostOnePending, Pending, db
  <2> QED BY <2>1, <2>2 DEF PendingSoFar, AtMostOnePending, Updating, Freezing
<1>2. ASSUME pc[w] \in {"archive", "publish", "reject"}
      PROVE  Pending = {loc[w].row} /\ loc[w].row \in RowIds
  BY <1>0, <1>2 DEF PendingSoFar, Inductive, HoldsRow, Holding
<1>3. CASE Archive(w)
  <2>1. pc[w] = "archive" /\ pc'[w] = "publish" /\ loc' = loc
    BY <1>0, <1>3 DEF Archive, Proceed, After, Goto
  <2>2. Pending' = Pending
    BY <1>0, <1>3, ArchiveIs
  <2> QED BY <1>2, <2>1, <2>2 DEF PendingSoFar, AtMostOnePending, Updating, Freezing
<1>4. CASE Publish(w)
  <2>1. pc[w] = "publish" /\ pc'[w] = "approved"
    BY <1>0, <1>4 DEF Publish, Proceed, After, Goto
  <2>2. Pending' = {}
    BY <1>0, <1>2, <1>4, <2>1, StatusIs DEF Publish
  <2> QED BY <2>1, <2>2 DEF PendingSoFar, AtMostOnePending, Updating, Freezing
<1>5. CASE Reject(w)
  <2>1. pc[w] = "reject" /\ pc'[w] = "draft"
    BY <1>0, <1>5 DEF Reject, Proceed, After, Goto
  <2>2. Pending' = {}
    BY <1>0, <1>2, <1>5, <2>1, StatusIs DEF Reject
  <2> QED BY <2>1, <2>2 DEF PendingSoFar, AtMostOnePending, Updating, Freezing
<1>6. CASE MarkPublished(w)
  <2>1. pc[w] = "approved" /\ Pending = {}
    BY <1>0, <1>6 DEF MarkPublished, PendingSoFar
  <2>2. /\ pc'[w] = "idle" /\ UNCHANGED rows
        /\ (agent.deleted /\ UNCHANGED agent) \/ agent'.release = "published"
    BY <1>0, <1>6, <2>1 DEF MarkPublished, Proceed, After, Return, UpdateAgent, Agent
  <2>3. Pending' = {}
    BY <2>1, <2>2, RowsSame
  <2> QED BY <2>2, <2>3 DEF PendingSoFar, AtMostOnePending, Settled, Updating, Freezing
<1>7. CASE MarkDraft(w)
  <2>1. /\ pc[w] = "draft" /\ loc[w].kind \in {"reject", "rollback"}
        /\ loc[w].kind = "reject" => Pending = {}
    BY <1>0, <1>7 DEF MarkDraft, PendingSoFar, Inductive, Kinded
  <2>2. UNCHANGED rows /\ (agent'.deleted \/ agent'.release = "draft")
    BY <1>0, <1>7 DEF MarkDraft, UpdateAgent, Agent
  <2>3. pc'[w] = IF loc[w].kind = "rollback" THEN "getPending" ELSE "idle"
    BY <1>0, <1>7, <2>1 DEF MarkDraft, Proceed, After, Goto, Return
  <2>4. Pending' = Pending /\ AtMostOnePending'
    BY <1>0, <2>2, RowsSame DEF AtMostOnePending
  <2> QED BY <2>1, <2>2, <2>3, <2>4 DEF PendingSoFar, Settled, Updating, Freezing
<1> QED BY <1>1, <1>3, <1>4, <1>5, <1>6, <1>7 DEF ReviewStep

LEMMA ReviewOther ==
  ASSUME Serial, Inductive, ReviewSoFar, NEW w \in Workers, Step(w), OtherStep(w)
  PROVE  AtMostOnePending' /\ PendingSoFar(w)'
<1>0. /\ pc \in [Workers -> Labels] /\ loc \in [Workers -> Local] /\ agent \in Agent
      /\ rows \in [RowIds -> Version] /\ AtMostOnePending /\ PendingSoFar(w)
  BY Alone
<1>1. UNCHANGED rows
  BY DEF OtherStep, RollbackStart, Toggle, DeleteStart, RemoveRelations, SetDelFlag, db
<1>2. Pending' = Pending /\ AtMostOnePending'
  BY <1>0, <1>1, RowsSame DEF AtMostOnePending
<1>3. CASE RollbackStart(w) \/ DeleteStart(w)
  <2>1. \/ pc'[w] = "write" /\ loc'[w].kind = "rollback"
        \/ pc'[w] = "unbindAll"
    BY <1>0, <1>3 DEF RollbackStart, DeleteStart, Start, NoLocal
  <2> QED BY <1>2, <2>1 DEF PendingSoFar, Updating, Freezing
<1>4. CASE Toggle(w)
  <2>1. pc' = pc /\ pc[w] = "idle" /\ agent'.deleted = agent.deleted /\ agent'.release = agent.release
    BY <1>0, <1>4 DEF Toggle, Agent
  <2> QED BY <1>0, <1>2, <2>1 DEF PendingSoFar, Settled, Updating, Freezing
<1>5. CASE RemoveRelations(w)
  <2>1. pc'[w] = "delFlag"
    BY <1>0, <1>5 DEF RemoveRelations, Proceed, After, Goto
  <2> QED BY <1>2, <2>1 DEF PendingSoFar, Updating, Freezing
<1>6. CASE SetDelFlag(w)
  <2>1. pc'[w] = "idle" /\ agent'.deleted
    BY <1>0, <1>6 DEF SetDelFlag, Proceed, After, Return, Agent
  <2> QED BY <1>2, <2>1 DEF PendingSoFar, Settled, Updating, Freezing
<1> QED BY <1>3, <1>4, <1>5, <1>6 DEF OtherStep

LEMMA ReviewSoFarInit == Serial /\ Init => ReviewSoFar
<1> SUFFICES ASSUME Serial, Init PROVE ReviewSoFar
  OBVIOUS
<1>1. Pending = {}
  BY DEF Init, Pending, FreeRow
<1>2. agent.release # "pending" /\ \A w \in Workers : pc[w] = "idle"
  BY DEF Init, Serial
<1> QED BY <1>1, <1>2 DEF ReviewSoFar, AtMostOnePending, PendingSoFar, Settled, Updating, Freezing

LEMMA ReviewSoFarNext ==
  ASSUME Serial, Inductive, ReviewSoFar, NEW w \in Workers, Step(w)
  PROVE  ReviewSoFar'
<1>1. AtMostOnePending' /\ PendingSoFar(w)'
  BY Alone, ReviewEdit, ReviewUpdate, ReviewFreeze, ReviewReview, ReviewOther DEF Step
<1>2. pc'[w] # "idle" => w \in clean'
  BY Alone, StaysClean DEF Inductive
<1>3. \A v \in Workers : v = w
  BY DEF Serial, OneWorker
<1> QED BY <1>1, <1>2, <1>3 DEF ReviewSoFar

LEMMA ReviewInvariant == Serial => (Spec => [](Inductive /\ ReviewSoFar))
<1> SUFFICES ASSUME Serial PROVE Spec => [](Inductive /\ ReviewSoFar)
  OBVIOUS
<1>1. Init => ReviewSoFar
  BY ReviewSoFarInit
<1>2. Inductive /\ ReviewSoFar /\ [Next]_vars => ReviewSoFar'
  <2> SUFFICES ASSUME Inductive, ReviewSoFar, [Next]_vars PROVE ReviewSoFar'
    OBVIOUS
  <2>1. CASE Next
    BY <2>1, ReviewSoFarNext DEF Next
  <2>2. CASE UNCHANGED vars
    BY <2>2 DEF vars, ReviewSoFar, AtMostOnePending, PendingSoFar, Settled, Pending, Invalidates
  <2> QED BY <2>1, <2>2
<1> QED BY <1>1, <1>2, InductiveInit, InductiveNext, PTL DEF Spec

\* AtMostOnePending: get_pending may take any pending version for the one there
\* is, as long as one worker runs the handlers and nothing fails.
THEOREM OneWorkerOnePending == Serial => (Spec => []AtMostOnePending)
<1> SUFFICES ASSUME Serial PROVE Spec => []AtMostOnePending
  OBVIOUS
<1>1. ReviewSoFar => AtMostOnePending
  BY DEF ReviewSoFar
<1> QED BY <1>1, ReviewInvariant, PTL

\* UnderReview: between two handlers an agent is under review exactly when one
\* of its versions is pending, whatever the order of edits, submissions,
\* reviews, rollbacks and deletions.
THEOREM OneWorkerUnderReview == Serial => (Spec => []UnderReview)
<1> SUFFICES ASSUME Serial PROVE Spec => []UnderReview
  OBVIOUS
<1>1. ReviewSoFar => UnderReview
  BY DEF Serial, OneWorker, ReviewSoFar, PendingSoFar, Settled, UnderReview, Quiet
<1> QED BY <1>1, ReviewInvariant, PTL

-----------------------------------------------------------------------------
(* One worker: what is pending, or published, is the working copy.         *)

LEMMA MatchesKept ==
  ASSUME Matches(bound), UNCHANGED bound,
         agent'.deleted = agent.deleted, agent'.release = agent.release,
         agent'.no = agent.no, agent'.cfg = agent.cfg,
         Pending' = Pending, Published' = Published,
         \A r \in Pending \cup Published : Content(r)' = Content(r) /\ rows'[r].no = rows[r].no
  PROVE  Matches(bound)'
BY DEF Matches

LEMMA AloneCopy ==
  ASSUME Reviewed, CopySoFar, NEW w \in Workers
  PROVE  ContentSoFar(w)
BY DEF CopySoFar

LEMMA CopyEdit ==
  ASSUME Serial, Reviewed, Inductive, ReviewSoFar, CopySoFar,
         NEW w \in Workers, Step(w), EditStep(w) \/ DropStep(w)
  PROVE  ContentSoFar(w)'
<1>0. /\ pc \in [Workers -> Labels] /\ loc \in [Workers -> Local]
      /\ PendingSoFar(w) /\ ContentSoFar(w)
      /\ pc[w] # "idle" => w \in clean
  BY Alone, AloneCopy
<1>1. CASE EditRead(w)
  <2>1. pc[w] = "idle" /\ pc'[w] = "decide" /\ UNCHANGED db
    BY <1>0, <1>1 DEF EditRead, Start
  <2>2. loc'[w].differs \/ Overlay(loc'[w].cfg, agent.cfg) = agent.cfg
    BY <1>0, <1>1 DEF EditRead, Start, NoLocal
  <2>3. Matches(bound)'
    BY <1>0, <2>1 DEF ContentSoFar, db, Matches, Content, Pending, Published
  <2> QED BY <2>1, <2>2, <2>3 DEF ContentSoFar, Freezing, db
<1>2. CASE EditDecide(w)
  <2>1. pc[w] = "decide" /\ pc'[w] = "write" /\ UNCHANGED db /\ loc[w].kind = "edit"
    BY <1>0, <1>2 DEF EditDecide, Goto, Inductive, Kinded
  <2>2. PICK view \in Views :
          loc'[w] = [loc[w] EXCEPT !.differs = @ \/ Rebound(w), !.bound = Resolved(w, view)]
    BY <1>0, <1>2 DEF EditDecide, Goto
  <2>3. Resolved(w, view) = loc[w].bound
    BY <1>0 DEF Resolved, Reviewed, Local
  <2>4. /\ loc'[w].cfg = loc[w].cfg /\ loc'[w].rebind = loc[w].rebind
        /\ loc'[w].bound = loc[w].bound
        /\ loc'[w].differs = (loc[w].differs \/ Rebound(w))
    BY <1>0, <2>2, <2>3 DEF Local
  <2>5. \/ loc'[w].differs
        \/ /\ Overlay(loc[w].cfg, agent.cfg) = agent.cfg
           /\ loc[w].rebind => loc[w].bound = bound
    BY <1>0, <2>1, <2>4 DEF ContentSoFar, Rebound
  <2>6. Matches(bound)'
    BY <1>0, <2>1 DEF ContentSoFar, db, Matches, Content, Pending, Published
  <2> QED BY <2>1, <2>4, <2>5, <2>6 DEF ContentSoFar, Freezing, db
<1>3. CASE DropStep(w)
  <2>1. /\ pc[w] \in {"getPending", "invalidate"} /\ (agent.deleted \/ agent.release = "draft")
        /\ UNCHANGED <<agent, bound>>
    BY <1>0, <1>3 DEF DropStep, GetPending, Invalidate, SetStatus, PendingSoFar, db
  <2>2. pc'[w] \in {"idle", "invalidate"}
    BY <1>0, <1>3 DEF DropStep, GetPending, Invalidate, Proceed, After, Return, Goto
  <2> QED BY <2>1, <2>2 DEF ContentSoFar, Matches, Freezing
<1> QED BY <1>1, <1>2, <1>3 DEF EditStep

LEMMA CopyUpdate ==
  ASSUME Serial, Reviewed, Inductive, ReviewSoFar, CopySoFar,
         NEW w \in Workers, Step(w), UpdateStep(w)
  PROVE  ContentSoFar(w)'
<1>0. /\ pc \in [Workers -> Labels] /\ loc \in [Workers -> Local] /\ agent \in Agent
      /\ PendingSoFar(w) /\ ContentSoFar(w)
      /\ pc[w] # "idle" => w \in clean
  BY Alone, AloneCopy
<1>1. pc[w] \in Updating /\ UNCHANGED rows
  BY <1>0 DEF UpdateStep, WriteAgent, UpdateAgent, Unbind, Bind, Updating, db
<1>2. w \in clean /\ loc[w].kind \in {"edit", "rollback"} /\ TypeOK
  BY <1>0, <1>1 DEF Updating, Inductive, Kinded
<1>3. CASE loc[w].kind = "edit"
  <2>1. CASE WriteAgent(w)
    <3>1. pc[w] = "write" /\ ~ agent.deleted /\ agent.release = loc[w].was
      BY <1>2, <1>3, <2>1 DEF Inductive, EditSoFar, WriteAgent
    <3>2. /\ agent'.release = IF Reverts(w) THEN "draft" ELSE agent.release
          /\ agent'.cfg = Overlay(loc[w].cfg, agent.cfg) /\ agent'.no = agent.no
          /\ agent'.deleted = FALSE /\ UNCHANGED bound /\ Proceed(w)
      BY <1>2, <2>1, <3>1, WriteIs
    <3>3. /\ pc'[w] = IF loc[w].rebind THEN "unbind" ELSE Updated(w)
          /\ pc'[w] # "idle" => loc' = loc
      BY <1>1, <1>2, <3>1, <3>2, UpdateGoesTo
    <3>4. pc'[w] \in {"unbind", "getPending", "idle"}
      BY <1>3, <3>3 DEF Updated
    <3>5. CASE loc[w].differs
      <4>1. agent'.release = "draft"
        BY <3>1, <3>2, <3>5 DEF Reverts
      <4> QED BY <3>4, <4>1 DEF ContentSoFar, Matches, Freezing
    <3>6. CASE ~ loc[w].differs
      <4>1. /\ Matches(bound) /\ agent'.cfg = agent.cfg /\ agent'.release = agent.release
            /\ loc[w].rebind => loc[w].bound = bound
        BY <1>0, <1>3, <3>1, <3>2, <3>6 DEF ContentSoFar, Reverts
      <4>2. Matches(bound)'
        <5>1. agent'.deleted = agent.deleted
          BY <1>0, <3>1, <3>2 DEF Agent
        <5> QED BY <1>1, <3>2, <4>1, <5>1, MatchesKept, RowsSame DEF Pending, Published
      <4>3. pc'[w] = "unbind" => loc'[w].bound = bound
        BY <1>3, <3>3, <4>1 DEF Updated
      <4> QED BY <3>2, <3>4, <4>2, <4>3 DEF ContentSoFar, Matches, Freezing
    <3> QED BY <3>5, <3>6
  <2>2. CASE Unbind(w)
    <3>1. pc[w] = "unbind" /\ pc'[w] = "bind" /\ loc' = loc /\ UNCHANGED <<agent, rows>>
      BY <1>1, <1>2, <2>2, UpdateGoesTo DEF Unbind
    <3> QED BY <1>0, <1>3, <3>1 DEF ContentSoFar, Matches, Content, Pending, Published, Freezing
  <2>3. CASE Bind(w)
    <3>1. /\ pc[w] = "bind" /\ pc'[w] = Updated(w) /\ UNCHANGED <<agent, rows>>
          /\ bound' = bound \cup loc[w].bound
      BY <1>1, <1>2, <2>3, UpdateGoesTo DEF Bind
    <3>2. bound' = loc[w].bound
      BY <1>2, <1>3, <3>1 DEF Inductive, EditSoFar
    <3>3. pc'[w] \in {"getPending", "idle"}
      BY <1>3, <3>1 DEF Updated
    <3> QED BY <1>0, <1>3, <3>1, <3>2, <3>3
        DEF ContentSoFar, Matches, Content, Pending, Published, Freezing
  <2> QED BY <2>1, <2>2, <2>3 DEF UpdateStep
<1>4. CASE loc[w].kind = "rollback"
  <2>1. CASE agent.deleted /\ WriteAgent(w)
    <3>1. pc'[w] = "draft"
      BY <1>0, <1>4, <2>1 DEF WriteAgent, Goto
    <3> QED BY <3>1 DEF ContentSoFar, Freezing
  <2>2. CASE ~ (agent.deleted /\ WriteAgent(w))
    <3>1. Proceed(w)
      BY <2>2 DEF UpdateStep, WriteAgent, Unbind, Bind
    <3>2. pc'[w] \in {"unbind", "bind", "draft"} /\ loc' = loc
      BY <1>1, <1>2, <1>4, <3>1, UpdateGoesTo DEF Updated, Updating
    <3> QED BY <1>4, <3>2 DEF ContentSoFar, Freezing
  <2> QED BY <2>1, <2>2
<1> QED BY <1>2, <1>3, <1>4

LEMMA CopyFreeze ==
  ASSUME Serial, Reviewed, Inductive, ReviewSoFar, CopySoFar,
         NEW w \in Workers, Step(w), FreezeStep(w)
  PROVE  ContentSoFar(w)'
<1>0. /\ pc \in [Workers -> Labels] /\ loc \in [Workers -> Local] /\ agent \in Agent
      /\ PendingSoFar(w) /\ ContentSoFar(w)
      /\ pc[w] # "idle" => w \in clean
  BY Alone, AloneCopy
<1>1. UNCHANGED db /\ Matches(bound) => Matches(bound)'
  BY MatchesKept, RowsSame DEF db, Pending, Published
<1>2. CASE SubmitRead(w) \/ SnapshotStart(w) \/ BackfillStart(w)
  <2>1. pc[w] = "idle" /\ UNCHANGED db
    BY <1>2 DEF SubmitRead, SnapshotStart, BackfillStart, Start
  <2>2. Matches(bound)'
    BY <1>0, <1>1, <2>1 DEF ContentSoFar
  <2>3. \/ pc'[w] = "number"
        \/ pc'[w] = "snapRow" /\ loc'[w].kind = "snapshot"
        \/ pc'[w] = "probe" /\ agent.release = "published" /\ ~ agent.deleted
    <3>1. CASE SubmitRead(w)
      BY <1>0, <3>1 DEF SubmitRead, Start
    <3>2. CASE SnapshotStart(w)
      BY <1>0, <3>2 DEF SnapshotStart, Start, NoLocal
    <3>3. CASE BackfillStart(w)
      BY <1>0, <3>3 DEF BackfillStart, Start
    <3> QED BY <1>2, <3>1, <3>2, <3>3
  <2> QED BY <2>1, <2>2, <2>3 DEF ContentSoFar, Freezing, db
<1>3. CASE SubmitNumber(w) \/ SnapshotRow(w) \/ SnapshotBind(w)
  <2>1. /\ pc[w] \in Freezing \cup {"number"} /\ UNCHANGED db
        /\ \/ pc'[w] \in Freezing /\ loc'[w].kind = loc[w].kind
           \/ pc'[w] = "idle"
    BY <1>0, <1>3 DEF SubmitNumber, SnapshotRow, SnapshotBind, Goto, Return, Local, Freezing
  <2>2. loc[w].kind # "backfill"
    BY <1>0, <2>1 DEF ContentSoFar, Inductive, Kinded
  <2>3. Matches(bound)'
    BY <1>0, <1>1, <2>1 DEF ContentSoFar
  <2> QED BY <2>1, <2>2, <2>3 DEF ContentSoFar, Freezing
<1>4. CASE BackfillProbe(w)
  <2>1. pc[w] = "probe" /\ Matches(bound) /\ agent.release = "published" /\ ~ agent.deleted
    BY <1>0, <1>4 DEF BackfillProbe, ContentSoFar
  <2>2. Published # {}
    BY <2>1 DEF Matches
  <2>3. pc'[w] = "idle" /\ UNCHANGED db
    BY <1>0, <1>4, <2>2 DEF BackfillProbe, Return
  <2> QED BY <1>1, <2>1, <2>3 DEF ContentSoFar, Freezing
<1>5. CASE InsertRow(w)
  <2>1. pc[w] = "insert" /\ Matches(bound) /\ loc[w].kind \in {"submit", "snapshot"}
    BY <1>0, <1>5 DEF InsertRow, ContentSoFar, Inductive, Kinded, Freezing
  <2>2. CASE Return(w) /\ UNCHANGED rows
    <3>1. pc'[w] = "idle" /\ UNCHANGED db
      BY <1>0, <1>5, <2>2 DEF InsertRow, Return, db
    <3> QED BY <1>1, <2>1, <3>1 DEF ContentSoFar, Freezing
  <2>3. CASE ~ (Return(w) /\ UNCHANGED rows)
    <3>1. PICK q \in RowIds :
            /\ q \notin Pending \cup Published
            /\ \A r \in RowIds \ {q} : Content(r)' = Content(r) /\ rows'[r].no = rows[r].no
            /\ Pending' = IF loc[w].kind = "submit" THEN Pending \cup {q} ELSE Pending
            /\ Published' = IF loc[w].kind = "backfill" THEN Published \cup {q} ELSE Published
            /\ IF loc[w].kind = "submit"
               THEN Goto(w, [loc[w] EXCEPT !.row = q], "mark") ELSE Return(w)
      BY <1>5, <2>3, InsertIs DEF Inductive
    <3>2. CASE loc[w].kind = "submit"
      <4>1. pc'[w] = "mark"
        BY <1>0, <3>1, <3>2 DEF Goto
      <4> QED BY <4>1 DEF ContentSoFar, Freezing
    <3>3. CASE loc[w].kind = "snapshot"
      <4>1. pc'[w] = "idle" /\ UNCHANGED <<agent, bound>>
        BY <1>0, <1>5, <3>1, <3>3 DEF Return, InsertRow
      <4>2. \A r \in Pending \cup Published : Content(r)' = Content(r) /\ rows'[r].no = rows[r].no
        BY <3>1 DEF Pending, Published
      <4>3. Matches(bound)'
        BY <2>1, <3>1, <3>3, <4>1, <4>2, MatchesKept
      <4> QED BY <4>1, <4>3 DEF ContentSoFar, Freezing
    <3> QED BY <2>1, <3>2, <3>3
  <2> QED BY <2>2, <2>3
<1>6. CASE MarkPending(w)
  <2>1. pc[w] = "mark" /\ w \in clean
    BY <1>0, <1>6 DEF MarkPending
  <2>2. Pending = {loc[w].row} /\ Content(loc[w].row) = <<agent.cfg, bound>>
    BY <1>0, <2>1 DEF PendingSoFar, Inductive, CleanSubmission
  <2>3. /\ pc'[w] = "idle" /\ UNCHANGED <<bound, rows>>
        /\ \/ agent.deleted /\ UNCHANGED agent
           \/ agent'.release = "pending" /\ agent'.cfg = agent.cfg
    BY <1>0, <1>6, <2>1 DEF MarkPending, Proceed, After, Return, UpdateAgent, Agent
  <2>4. Matches(bound)'
    BY <2>2, <2>3, RowsSame DEF Matches, Content
  <2> QED BY <2>3, <2>4 DEF ContentSoFar, Freezing
<1> QED BY <1>2, <1>3, <1>4, <1>5, <1>6 DEF FreezeStep

LEMMA CopyReview ==
  ASSUME Serial, Reviewed, Inductive, ReviewSoFar, CopySoFar,
         NEW w \in Workers, Step(w), ReviewStep(w)
  PROVE  ContentSoFar(w)'
<1>0. /\ pc \in [Workers -> Labels] /\ loc \in [Workers -> Local] /\ agent \in Agent
      /\ rows \in [RowIds -> Version] /\ PendingSoFar(w) /\ ContentSoFar(w)
      /\ pc[w] # "idle" => w \in clean
  BY Alone, AloneCopy
<1>1. CASE ApproveStart(w)
  <2>1. PICK r \in Pending :
          Start(w, "approve", "archive", [NoLocal EXCEPT !.row = r, !.no = rows[r].no])
    BY <1>1 DEF ApproveStart
  <2>2. /\ pc[w] = "idle" /\ pc'[w] = "archive" /\ UNCHANGED db
        /\ loc'[w].row = r /\ loc'[w].no = rows[r].no
    BY <1>0, <1>1, <2>1 DEF ApproveStart, Start, NoLocal
  <2>3. ~ agent.deleted /\ agent.release = "pending" /\ Matches(bound)
    BY <1>0, <1>1, <2>1, <2>2 DEF ApproveStart, PendingSoFar, Settled, ContentSoFar
  <2>4. Content(r) = <<agent.cfg, bound>>
    BY <2>1, <2>3 DEF Matches
  <2> QED BY <2>2, <2>4 DEF ContentSoFar, Content, Freezing, db
<1>2. CASE Archive(w)
  <2>1. pc[w] = "archive" /\ pc'[w] = "publish" /\ loc' = loc
    BY <1>0, <1>2 DEF Archive, Proceed, After, Goto
  <2>2. loc[w].row \in RowIds
    BY <2>1 DEF Inductive, HoldsRow, Holding
  <2>3. Content(loc[w].row)' = <<agent.cfg, bound>> /\ rows'[loc[w].row].no = loc[w].no
    BY <1>0, <1>2, <2>1, <2>2, ArchiveIs DEF ContentSoFar, Content
  <2>4. UNCHANGED <<agent, bound>>
    BY <1>2 DEF Archive
  <2> QED BY <2>1, <2>3, <2>4 DEF ContentSoFar, Freezing
<1>3. CASE Publish(w)
  <2>1. pc[w] = "publish" /\ pc'[w] = "approved" /\ loc' = loc
    BY <1>0, <1>3 DEF Publish, Proceed, After, Goto
  <2>2. loc[w].row \in RowIds
    BY <2>1 DEF Inductive, HoldsRow, Holding
  <2>3. Content(loc[w].row)' = <<agent.cfg, bound>> /\ rows'[loc[w].row].no = loc[w].no
    BY <1>0, <1>3, <2>1, <2>2, StatusIs DEF ContentSoFar, Content, Publish
  <2>4. UNCHANGED <<agent, bound>>
    BY <1>3 DEF Publish, SetStatus
  <2> QED BY <2>1, <2>3, <2>4 DEF ContentSoFar, Freezing
<1>4. CASE MarkPublished(w)
  <2>1. pc[w] = "approved" /\ w \in clean /\ loc[w].row \in RowIds
    BY <1>0, <1>4 DEF MarkPublished, Inductive, HoldsRow, Holding
  <2>2. /\ Published = {loc[w].row} /\ Content(loc[w].row) = <<agent.cfg, bound>>
        /\ rows[loc[w].row].no = loc[w].no
    BY <1>0, <2>1 DEF Inductive, ApprovalSoFar, ContentSoFar
  <2>3. /\ pc'[w] = "idle" /\ UNCHANGED <<bound, rows>>
        /\ \/ agent.deleted /\ UNCHANGED agent
           \/ agent'.release = "published" /\ agent'.cfg = agent.cfg /\ agent'.no = loc[w].no
    <3>1. pc'[w] = "idle" /\ UNCHANGED <<bound, rows>>
      BY <1>0, <1>4, <2>1 DEF MarkPublished, Proceed, After, Return, UpdateAgent
    <3>2. agent' = IF agent.deleted THEN agent
                   ELSE [agent EXCEPT !.no = loc[w].no, !.release = "published", !.enabled = TRUE]
      BY <1>4 DEF MarkPublished, UpdateAgent
    <3>3. \/ agent.deleted /\ UNCHANGED agent
          \/ agent'.release = "published" /\ agent'.cfg = agent.cfg /\ agent'.no = loc[w].no
      BY <1>0, <3>2 DEF Agent
    <3> QED BY <3>1, <3>3
  <2>4. Matches(bound)'
    BY <2>1, <2>2, <2>3, RowsSame DEF Matches, Content
  <2> QED BY <2>3, <2>4 DEF ContentSoFar, Freezing
<1>5. CASE RejectStart(w) \/ Reject(w)
  <2>1. pc'[w] \in {"reject", "draft"}
    BY <1>0, <1>5 DEF RejectStart, Start, Reject, Proceed, After, Goto
  <2> QED BY <2>1 DEF ContentSoFar, Freezing
<1>6. CASE MarkDraft(w)
  <2>1. pc'[w] \in {"getPending", "idle"}
    BY <1>0, <1>6 DEF MarkDraft, Proceed, After, Goto, Return
  <2>2. agent'.deleted \/ agent'.release = "draft"
    BY <1>0, <1>6 DEF MarkDraft, UpdateAgent, Agent
  <2> QED BY <2>1, <2>2 DEF ContentSoFar, Matches, Freezing
<1> QED BY <1>1, <1>2, <1>3, <1>4, <1>5, <1>6 DEF ReviewStep

LEMMA CopyOther ==
  ASSUME Serial, Reviewed, Inductive, ReviewSoFar, CopySoFar,
         NEW w \in Workers, Step(w), OtherStep(w)
  PROVE  ContentSoFar(w)'
<1>0. /\ pc \in [Workers -> Labels] /\ loc \in [Workers -> Local] /\ agent \in Agent
      /\ ContentSoFar(w)
  BY Alone, AloneCopy
<1>1. CASE RollbackStart(w) \/ DeleteStart(w)
  <2>1. \/ pc'[w] = "write" /\ loc'[w].kind = "rollback"
        \/ pc'[w] = "unbindAll"
    BY <1>0, <1>1 DEF RollbackStart, DeleteStart, Start, NoLocal
  <2> QED BY <2>1 DEF ContentSoFar, Freezing
<1>2. CASE Toggle(w)
  <2>1. /\ pc' = pc /\ pc[w] = "idle" /\ UNCHANGED <<bound, rows>>
        /\ agent'.deleted = agent.deleted /\ agent'.release = agent.release
        /\ agent'.no = agent.no /\ agent'.cfg = agent.cfg
    BY <1>0, <1>2 DEF Toggle, Agent
  <2>2. Matches(bound)'
    BY <1>0, <2>1, MatchesKept, RowsSame DEF ContentSoFar, Pending, Published
  <2> QED BY <2>1, <2>2 DEF ContentSoFar, Freezing
<1>3. CASE RemoveRelations(w)
  <2>1. pc'[w] = "delFlag"
    BY <1>0, <1>3 DEF RemoveRelations, Proceed, After, Goto
  <2> QED BY <2>1 DEF ContentSoFar, Freezing
<1>4. CASE SetDelFlag(w)
  <2>1. pc'[w] = "idle" /\ agent'.deleted
    BY <1>0, <1>4 DEF SetDelFlag, Proceed, After, Return, Agent
  <2> QED BY <2>1 DEF ContentSoFar, Matches, Freezing
<1> QED BY <1>1, <1>2, <1>3, <1>4 DEF OtherStep

LEMMA CopySoFarInit == Reviewed /\ Init => CopySoFar
<1> SUFFICES ASSUME Reviewed, Init, NEW w \in Workers PROVE ContentSoFar(w)
  BY DEF CopySoFar
<1>1. pc[w] = "idle" /\ agent.release = "draft"
  BY DEF Init, Reviewed
<1> QED BY <1>1 DEF ContentSoFar, Matches, Freezing

LEMMA CopySoFarNext ==
  ASSUME Serial, Reviewed, Inductive, ReviewSoFar, CopySoFar, NEW w \in Workers, Step(w)
  PROVE  CopySoFar'
<1>1. ContentSoFar(w)'
  BY Alone, CopyEdit, CopyUpdate, CopyFreeze, CopyReview, CopyOther DEF Step
<1>2. \A v \in Workers : v = w
  BY DEF Serial, OneWorker
<1> QED BY <1>1, <1>2 DEF CopySoFar

LEMMA CopyInvariant ==
  Serial /\ Reviewed => (Spec => [](Inductive /\ ReviewSoFar /\ CopySoFar))
<1> SUFFICES ASSUME Serial, Reviewed
             PROVE  Spec => [](Inductive /\ ReviewSoFar /\ CopySoFar)
  OBVIOUS
<1>1. Spec => [](Inductive /\ ReviewSoFar)
  BY ReviewInvariant
<1>2. Init => CopySoFar
  BY CopySoFarInit
<1>3. Inductive /\ ReviewSoFar /\ CopySoFar /\ [Next]_vars => CopySoFar'
  <2> SUFFICES ASSUME Inductive, ReviewSoFar, CopySoFar, [Next]_vars PROVE CopySoFar'
    OBVIOUS
  <2>1. CASE Next
    BY <2>1, CopySoFarNext DEF Next
  <2>2. CASE UNCHANGED vars
    BY <2>2 DEF vars, CopySoFar, ContentSoFar, Matches, Content, Pending, Published
  <2> QED BY <2>1, <2>2
<1> QED BY <1>1, <1>2, <1>3, PTL DEF Spec

\* EditInvalidates: between two handlers the version under review, and the one
\* that is published, hold the working copy, so no edit goes live unreviewed.
THEOREM OneWorkerEdits == Serial /\ Reviewed => (Spec => []EditInvalidates)
<1> SUFFICES ASSUME Serial, Reviewed PROVE Spec => []EditInvalidates
  OBVIOUS
<1>1. CopySoFar => EditInvalidates
  BY DEF Serial, OneWorker, CopySoFar, ContentSoFar, Matches, EditInvalidates, Quiet
<1> QED BY <1>1, CopyInvariant, PTL

-----------------------------------------------------------------------------
(* What is seen of the agent between handlers.                             *)

LEMMA AgentCfg ==
  ASSUME TypeOK, NEW w \in Workers, Step(w)
  PROVE  agent'.cfg = agent.cfg \/ agent'.cfg = Overlay(loc[w].cfg, agent.cfg)
<1>0. agent \in Agent
  BY DEF TypeOK
<1>1. CASE WriteAgent(w)
  BY <1>0, <1>1, WriteIs DEF WriteAgent, db
<1>2. CASE ~ WriteAgent(w)
  <2>1. CASE EditStep(w) \/ UpdateStep(w) \/ DropStep(w)
    BY <1>2, <2>1
       DEF EditStep, EditRead, EditDecide, UpdateStep, Unbind, Bind,
           DropStep, GetPending, Invalidate, SetStatus, db
  <2>2. CASE FreezeStep(w)
    BY <1>0, <2>2
       DEF FreezeStep, SubmitRead, SubmitNumber, SnapshotStart, BackfillStart,
           BackfillProbe, SnapshotRow, SnapshotBind, InsertRow, MarkPending, UpdateAgent,
           Agent, db
  <2>3. CASE ReviewStep(w)
    BY <1>0, <2>3
       DEF ReviewStep, ApproveStart, RejectStart, Archive, Publish, Reject, SetStatus,
           MarkPublished, MarkDraft, UpdateAgent, Agent, db
  <2>4. CASE OtherStep(w) \/ FaultStep(w)
    BY <1>0, <2>4
       DEF OtherStep, RollbackStart, Toggle, DeleteStart, RemoveRelations,
           SetDelFlag, FaultStep, LoseWrite, LoseRead, Abort, Agent, db
  <2> QED BY <2>1, <2>2, <2>3, <2>4 DEF Step
<1> QED BY <1>1, <1>2

LEMMA ColumnsInit == Init => Columns
BY DEF Init, Columns, Used, FreeRow

LEMMA ColumnsNext ==
  ASSUME TypeOK, HoldsRow, Columns, NEW w \in Workers, Step(w)
  PROVE  Columns'
<1>0. /\ pc \in [Workers -> Labels] /\ loc \in [Workers -> Local]
      /\ rows \in [RowIds -> Version]
  BY DEF TypeOK
<1>1. agent'.cfg \in Column
  BY <1>0, AgentCfg DEF Columns, Overlay, Column, Local, Values
<1>2. ASSUME NEW r \in Used' PROVE rows'[r].cfg \in Column
  <2>1. CASE rows' = rows
    BY <1>2, <2>1 DEF Used, Columns
  <2>2. CASE InsertRow(w) /\ rows' # rows
    <3>1. PICK q \in RowIds \ Used :
            rows' = [rows EXCEPT ![q] =
                       [status |-> InsertedAs(loc[w].kind), no |-> loc[w].no,
                        cfg |-> loc[w].cfg, bound |-> loc[w].bound]]
      BY <2>2 DEF InsertRow
    <3>2. rows'[q].cfg = loc[w].cfg /\ \A p \in RowIds \ {q} : rows'[p] = rows[p]
      BY <1>0, <3>1
    <3>3. loc[w].cfg \in Column
      BY <2>2 DEF InsertRow, Columns
    <3> QED BY <1>2, <3>2, <3>3 DEF Used, Columns
  <2>3. CASE \E q \in RowIds, s \in Statuses \ {"free", "draft"} :
               /\ rows[q].status \notin {"free", "draft"}
               /\ rows' = [rows EXCEPT ![q].status = s]
    <3>1. PICK q \in RowIds, s \in Statuses \ {"free", "draft"} :
               /\ rows[q].status \notin {"free", "draft"}
               /\ rows' = [rows EXCEPT ![q].status = s]
      BY <2>3
    <3>2. rows'[q].cfg = rows[q].cfg /\ \A p \in RowIds \ {q} : rows'[p] = rows[p]
      BY <1>0, <3>1 DEF Version
    <3> QED BY <1>2, <3>1, <3>2 DEF Used, Columns
  <2>4. CASE Archive(w)
    <3>1. \A q \in RowIds : /\ rows'[q].cfg = rows[q].cfg
                            /\ rows'[q].status # "free" => rows[q].status # "free"
      BY <1>0, <2>4 DEF Archive, Version
    <3> QED BY <1>2, <3>1 DEF Used, Columns
  <2> QED BY <2>1, <2>2, <2>3, <2>4, RowsStep
<1>3. ASSUME pc'[w] \in {"snapBind", "insert"} PROVE loc'[w].cfg \in Column
  <2>1. CASE SnapshotRow(w)
    BY <1>0, <1>3, <2>1 DEF SnapshotRow, Goto, Return, Local, Columns
  <2>2. CASE SnapshotBind(w)
    BY <1>0, <1>3, <2>2 DEF SnapshotBind, Goto, Local, Columns
  <2> QED BY <1>3, <2>1, <2>2, StepTo
<1> QED BY <1>1, <1>2, <1>3, StepTo DEF Columns

LEMMA HeldColumn ==
  ASSUME Columns, NEW S \in SUBSET Used, Held(S) # NoVersion
  PROVE  Held(S).cfg \in Column
<1>1. \A r \in S : rows[r].cfg \in Column
  BY DEF Columns
<1> QED BY <1>1 DEF Held

LEMMA SeenTypeInit == ViewInit => SeenType
<1> SUFFICES ASSUME ViewInit PROVE SeenType
  OBVIOUS
<1>1. Published = {} /\ agent.release \in Release
  BY ReleaseAssumption DEF ViewInit, Init, Published, FreeRow, Release
<1> QED BY <1>1 DEF ViewInit, View, Stage, Held, SeenType

LEMMA SeenTypeNext ==
  ASSUME TypeOK', Columns', SeenType, [ViewNext]_<<vars, seen>>
  PROVE  SeenType'
<1>1. CASE seen' = View'
  <2>1. (Held(Published) # NoVersion => Held(Published).cfg \in Column)'
    <3>1. (Published \subseteq Used)'
      BY DEF Published, Used
    <3>2. (\A r \in Used : rows[r].cfg \in Column)'
      BY DEF Columns
    <3> QED BY <3>1, <3>2 DEF Held
  <2>2. Stage' \in Release \cup {"deleted"}
    BY DEF Stage, TypeOK, Agent
  <2> QED BY <1>1, <2>1, <2>2 DEF View, SeenType
<1>2. CASE seen' = seen
  BY <1>2 DEF SeenType
<1> QED BY <1>1, <1>2 DEF ViewNext

LEMMA ViewInvariant == ViewSpec => [](Inductive /\ Columns /\ SeenType)
<1>1. ViewInit => Inductive /\ Columns /\ SeenType
  BY InductiveInit, ColumnsInit, SeenTypeInit DEF ViewInit
<1>2. Inductive /\ Columns /\ SeenType /\ [ViewNext]_<<vars, seen>>
        => (Inductive /\ Columns /\ SeenType)'
  <2> SUFFICES ASSUME Inductive, Columns, SeenType, [ViewNext]_<<vars, seen>>
               PROVE  Inductive' /\ Columns' /\ SeenType'
    OBVIOUS
  <2>1. [Next]_vars
    BY DEF ViewNext
  <2>2. Inductive'
    BY <2>1, InductiveNext
  <2>3. Columns'
    <3>1. CASE Next
      BY <3>1, ColumnsNext DEF Next, Inductive
    <3>2. CASE UNCHANGED vars
      BY <3>2 DEF vars, Columns, Used
    <3> QED BY <2>1, <3>1, <3>2
  <2>4. SeenType'
    BY <2>2, <2>3, SeenTypeNext DEF Inductive
  <2> QED BY <2>2, <2>3, <2>4
<1> QED BY <1>1, <1>2, PTL DEF ViewSpec

-----------------------------------------------------------------------------
(* One worker: what is seen are the steps of ReleaseGate.                  *)

LEMMA HeldOne ==
  ASSUME NEW r
  PROVE  Held({r}) = [cfg |-> rows[r].cfg, bound |-> rows[r].bound]
BY DEF Held

LEMMA PendingSeen ==
  ASSUME Pending' = Pending, \A r \in Pending : Content(r)' = Content(r)
  PROVE  Held(Pending)' = Held(Pending)
<1>1. \A r \in Pending : rows'[r].cfg = rows[r].cfg /\ rows'[r].bound = rows[r].bound
  BY DEF Content
<1>2. CASE Pending = {}
  BY <1>2 DEF Held
<1>3. CASE Pending # {}
  <2>1. (CHOOSE r \in Pending : TRUE) \in Pending
    BY <1>3
  <2> QED BY <1>1, <1>3, <2>1 DEF Held
<1> QED BY <1>2, <1>3

LEMMA PublishedSeen ==
  ASSUME Published' = Published, \A r \in Published : Content(r)' = Content(r)
  PROVE  Held(Published)' = Held(Published)
<1>1. \A r \in Published : rows'[r].cfg = rows[r].cfg /\ rows'[r].bound = rows[r].bound
  BY DEF Content
<1>2. CASE Published = {}
  BY <1>2 DEF Held
<1>3. CASE Published # {}
  <2>1. (CHOOSE r \in Published : TRUE) \in Published
    BY <1>3
  <2> QED BY <1>1, <1>3, <2>1 DEF Held
<1> QED BY <1>2, <1>3

LEMMA VersionsSeen ==
  ASSUME UNCHANGED rows
  PROVE  Held(Pending)' = Held(Pending) /\ Held(Published)' = Held(Published)
BY RowsSame, PendingSeen, PublishedSeen DEF Pending, Published

LEMMA ViewSame ==
  ASSUME UNCHANGED db
  PROVE  View' = View
<1>1. Held(Pending)' = Held(Pending) /\ Held(Published)' = Held(Published)
  BY VersionsSeen DEF db
<1> QED BY <1>1 DEF View, Stage, Work, db

-----------------------------------------------------------------------------
(* A handler at work: nothing is seen.                                     *)

LEMMA SeenKept ==
  ASSUME NEW w \in Workers, SeenSoFar(w), seen = View, UNCHANGED <<db, seen>>,
         pc'[w] \in Freezing \cup {"decide", "number", "probe", "write", "archive",
                                   "reject", "unbindAll"},
         pc'[w] \in Freezing \cup {"number"} /\ loc'[w].kind = "submit" =>
           agent.release = "draft" /\ ~ agent.deleted,
         pc'[w] \in {"archive", "reject"} => seen.stage = "pending"
  PROVE  SeenSoFar(w)'
<1>1. UNCHANGED agent /\ View' = View
  BY ViewSame DEF db
<1>2. seen'.live = Held(Published)' /\ seen'.candidate = Held(Pending)'
  BY <1>1 DEF View
<1> QED BY <1>1, <1>2 DEF SeenSoFar, Freezing, Updating

\* What a worker's invariants say of its handler.
LEMMA AloneSeen ==
  ASSUME Serial, Inductive, ReviewSoFar, CopySoFar, NEW w \in Workers, Step(w)
  PROVE  /\ pc \in [Workers -> Labels] /\ loc \in [Workers -> Local] /\ agent \in Agent
         /\ rows \in [RowIds -> Version] /\ bound \in SUBSET Tools
         /\ PendingSoFar(w) /\ ContentSoFar(w) /\ TypeOK
         /\ pc[w] # "idle" => w \in clean
BY Alone DEF CopySoFar, Inductive, TypeOK

LEMMA SeenEdit ==
  ASSUME Serial, Inductive, ReviewSoFar, CopySoFar, NEW w \in Workers, SeenSoFar(w),
         Step(w), EditStep(w) \/ DropStep(w), pc'[w] # "idle", seen' = seen
  PROVE  SeenSoFar(w)'
<1>0. pc \in [Workers -> Labels] /\ loc \in [Workers -> Local]
  BY AloneSeen
<1>1. CASE EditStep(w)
  <2>1. pc[w] \in {"idle", "decide"} /\ pc'[w] \in {"decide", "write"} /\ UNCHANGED db
    BY <1>0, <1>1 DEF EditStep, EditRead, EditDecide, Start, Goto
  <2>2. seen = View
    BY <2>1 DEF SeenSoFar
  <2> QED BY <2>1, <2>2, SeenKept DEF Freezing
<1>2. CASE DropStep(w)
  <2>1. pc[w] = "getPending" /\ pc'[w] = "invalidate" /\ UNCHANGED db
    BY <1>0, <1>2 DEF DropStep, GetPending, Invalidate, Proceed, After, Return, Goto
  <2>2. Held(Published)' = Held(Published)
    BY <2>1, VersionsSeen DEF db
  <2> QED BY <2>1, <2>2 DEF SeenSoFar, Freezing, Updating, db
<1> QED BY <1>1, <1>2

LEMMA SeenUpdate ==
  ASSUME Serial, Inductive, ReviewSoFar, CopySoFar, NEW w \in Workers, SeenSoFar(w),
         Step(w), UpdateStep(w), pc'[w] # "idle", seen' = seen
  PROVE  SeenSoFar(w)'
<1>0. /\ pc \in [Workers -> Labels] /\ loc \in [Workers -> Local] /\ agent \in Agent
      /\ ContentSoFar(w) /\ TypeOK /\ (pc[w] # "idle" => w \in clean)
  BY AloneSeen
<1>1. pc[w] \in Updating /\ UNCHANGED rows
  BY <1>0 DEF UpdateStep, WriteAgent, UpdateAgent, Unbind, Bind, Updating, db
<1>2. w \in clean /\ loc[w].kind \in {"edit", "rollback"}
  BY <1>0, <1>1 DEF Updating, Inductive, Kinded
<1>3. Held(Pending)' = Held(Pending) /\ Held(Published)' = Held(Published)
  BY <1>1, VersionsSeen
<1>4. seen.live = Held(Published) /\ seen.candidate = Held(Pending)
  BY <1>1 DEF SeenSoFar, Updating
<1>5. agent'.deleted = agent.deleted
  <2>1. CASE WriteAgent(w) /\ ~ agent.deleted
    BY <1>0, <2>1, WriteIs DEF Agent
  <2> QED BY <2>1 DEF UpdateStep, WriteAgent, Unbind, Bind, db
<1>6. pc'[w] \in {"unbind", "bind", "draft", "getPending"} /\ loc' = loc
  <2>1. CASE agent.deleted /\ WriteAgent(w)
    BY <1>0, <2>1 DEF WriteAgent, Goto, Return
  <2>2. CASE ~ (agent.deleted /\ WriteAgent(w))
    <3>1. Proceed(w)
      BY <2>2 DEF UpdateStep, WriteAgent, Unbind, Bind
    <3> QED BY <1>0, <1>1, <1>2, <3>1, UpdateGoesTo DEF Updated, Updating
  <2> QED BY <2>1, <2>2
<1>7. ASSUME pc'[w] \in {"unbind", "bind"}, loc[w].kind = "edit", ~ loc[w].differs
      PROVE  /\ seen.stage = agent'.release
             /\ seen.work = [cfg |-> agent'.cfg, bound |-> loc[w].bound]
  <2>1. CASE WriteAgent(w)
    <3>1. pc[w] = "write" /\ ~ agent.deleted /\ seen = View
      BY <1>2, <1>7, <2>1 DEF WriteAgent, Inductive, EditSoFar, SeenSoFar
    <3>2. pc'[w] = "unbind" /\ loc[w].rebind
      BY <1>0, <1>1, <1>7, <2>1, <3>1, WriteIs, UpdateGoesTo DEF Updated
    <3>3. agent'.release = agent.release /\ agent'.cfg = agent.cfg /\ loc[w].bound = bound
      BY <1>0, <1>7, <2>1, <3>1, <3>2, WriteIs DEF Reverts, ContentSoFar
    <3> QED BY <3>1, <3>3 DEF View, Stage, Work
  <2>2. CASE Unbind(w) \/ Bind(w)
    BY <1>7, <2>2 DEF Unbind, Bind, SeenSoFar
  <2> QED BY <2>1, <2>2 DEF UpdateStep
<1>8. loc'[w].kind # "reject"
  BY <1>2, <1>6
<1>9. pc'[w] \in {"unbind", "bind"} /\ loc[w].kind = "edit" => ~ agent.deleted
  BY <1>2 DEF UpdateStep, WriteAgent, Unbind, Bind, Inductive, EditSoFar, SeenSoFar
<1> QED BY <1>3, <1>4, <1>5, <1>6, <1>7, <1>8, <1>9 DEF SeenSoFar, Freezing, Updating

LEMMA SeenFreeze ==
  ASSUME Serial, Inductive, ReviewSoFar, CopySoFar, NEW w \in Workers, SeenSoFar(w),
         Step(w), FreezeStep(w), pc'[w] # "idle", seen' = seen
  PROVE  SeenSoFar(w)'
<1>0. /\ pc \in [Workers -> Labels] /\ loc \in [Workers -> Local]
      /\ ContentSoFar(w) /\ TypeOK
  BY AloneSeen
<1>1. CASE InsertRow(w)
  <2>1. pc[w] = "insert" /\ loc[w].kind = "submit" /\ pc'[w] = "mark"
    BY <1>0, <1>1 DEF InsertRow, Return, Goto
  <2>2. /\ agent.release = "draft" /\ ~ agent.deleted /\ seen = View
        /\ UNCHANGED <<agent, bound>>
    BY <1>1, <2>1 DEF SeenSoFar, Freezing, InsertRow
  <2>3. /\ Published' = Published
        /\ \A r \in Published : Content(r)' = Content(r)
    BY <1>0, <1>1, <2>1, InsertIs, RowsSame DEF Published
  <2>4. Held(Published)' = Held(Published)
    BY <2>3, PublishedSeen
  <2> QED BY <2>1, <2>2, <2>4 DEF SeenSoFar, View, Stage, Work, Freezing, Updating
<1>2. CASE ~ InsertRow(w)
  <2>1. ~ MarkPending(w)
    BY <1>0 DEF MarkPending, Proceed, After, Return
  <2>2. UNCHANGED db /\ pc[w] \in Freezing \cup {"idle", "number", "probe"}
    BY <1>2, <2>1
       DEF FreezeStep, SubmitRead, SubmitNumber, SnapshotStart, BackfillStart, Start,
           BackfillProbe, SnapshotRow, SnapshotBind, Freezing
  <2>3. seen = View
    BY <2>2 DEF SeenSoFar
  <2>4. /\ pc'[w] \in Freezing \cup {"number", "probe"}
        /\ pc'[w] \in Freezing \cup {"number"} /\ loc'[w].kind = "submit" =>
             agent.release = "draft" /\ ~ agent.deleted
    <3>1. CASE SubmitRead(w)
      BY <1>0, <3>1 DEF SubmitRead, Start
    <3>2. CASE SnapshotStart(w)
      BY <1>0, <3>2 DEF SnapshotStart, Start, NoLocal, Freezing
    <3>3. CASE BackfillStart(w)
      BY <1>0, <3>3 DEF BackfillStart, Start, Freezing
    <3>4. CASE SubmitNumber(w) \/ SnapshotRow(w) \/ SnapshotBind(w) \/ BackfillProbe(w)
      <4>1. pc[w] \in Freezing \cup {"number", "probe"} /\ pc'[w] \in Freezing
        BY <1>0, <3>4
           DEF SubmitNumber, SnapshotRow, SnapshotBind, BackfillProbe, Goto, Return, Freezing
      <4>2. loc'[w].kind = loc[w].kind
        BY <1>0, <3>4
           DEF SubmitNumber, SnapshotRow, SnapshotBind, BackfillProbe, Goto, Return, Local
      <4>3. pc[w] = "probe" => loc[w].kind = "backfill"
        BY DEF Inductive, Kinded
      <4> QED BY <4>1, <4>2, <4>3 DEF SeenSoFar
    <3> QED BY <1>2, <2>1, <3>1, <3>2, <3>3, <3>4 DEF FreezeStep
  <2>5. pc'[w] \notin {"archive", "reject"}
    BY <2>4 DEF Freezing
  <2> QED BY <2>2, <2>3, <2>4, <2>5, SeenKept
<1> QED BY <1>1, <1>2

LEMMA SeenReview ==
  ASSUME Serial, Inductive, ReviewSoFar, CopySoFar, NEW w \in Workers, SeenSoFar(w),
         Step(w), ReviewStep(w), pc'[w] # "idle", seen' = seen
  PROVE  SeenSoFar(w)'
<1>0. /\ pc \in [Workers -> Labels] /\ loc \in [Workers -> Local] /\ agent \in Agent
      /\ rows \in [RowIds -> Version] /\ PendingSoFar(w) /\ ContentSoFar(w) /\ TypeOK
  BY AloneSeen
<1>1. CASE ApproveStart(w) \/ RejectStart(w)
  <2>1. /\ pc[w] = "idle" /\ pc'[w] \in {"archive", "reject"} /\ UNCHANGED db
        /\ ~ agent.deleted /\ Pending # {}
    BY <1>0, <1>1 DEF ApproveStart, RejectStart, Start
  <2>2. seen = View /\ seen.stage = "pending"
    BY <1>0, <2>1 DEF SeenSoFar, PendingSoFar, Settled, View, Stage
  <2> QED BY <2>1, <2>2, SeenKept DEF Freezing
<1>2. ASSUME pc[w] \in {"archive", "publish", "reject"}
      PROVE  Pending = {loc[w].row} /\ loc[w].row \in RowIds
  BY <1>0, <1>2 DEF PendingSoFar, Inductive, HoldsRow, Holding
<1>3. CASE Archive(w)
  <2>1. pc[w] = "archive" /\ pc'[w] = "publish" /\ loc' = loc /\ UNCHANGED <<agent, bound>>
    BY <1>0, <1>3 DEF Archive, Proceed, After, Goto
  <2>2. seen = View /\ seen.stage = "pending"
    BY <2>1 DEF SeenSoFar
  <2>3. Held(Pending) = Work
    <3>1. Content(loc[w].row) = <<agent.cfg, bound>> /\ Pending = {loc[w].row}
      BY <1>0, <1>2, <2>1 DEF ContentSoFar
    <3> QED BY <3>1, HeldOne DEF Content, Work
  <2>4. seen.work = Work' /\ seen.candidate = Work'
    BY <2>1, <2>2, <2>3 DEF View, Work
  <2> QED BY <2>1, <2>2, <2>4 DEF SeenSoFar, Freezing, Updating
<1>4. CASE Publish(w)
  <2>1. /\ pc[w] = "publish" /\ pc'[w] = "approved" /\ loc' = loc
        /\ UNCHANGED <<agent, bound>>
    BY <1>0, <1>4 DEF Publish, Proceed, After, Goto, SetStatus
  <2> QED BY <2>1 DEF SeenSoFar, Work, Freezing, Updating
<1>5. CASE Reject(w)
  <2>1. /\ pc[w] = "reject" /\ pc'[w] = "draft" /\ loc' = loc
        /\ UNCHANGED <<agent, bound>>
    BY <1>0, <1>5 DEF Reject, Proceed, After, Goto, SetStatus
  <2>2. /\ Published' = Published
        /\ \A r \in Published : Content(r)' = Content(r)
    <3>1. loc[w].row \notin Published
      BY <1>2, <2>1 DEF Pending, Published
    <3> QED BY <1>0, <1>2, <1>5, <2>1, <3>1, StatusIs DEF Reject, Published
  <2>3. Held(Published)' = Held(Published)
    BY <2>2, PublishedSeen
  <2> QED BY <2>1, <2>3 DEF SeenSoFar, Freezing, Updating
<1>6. CASE MarkPublished(w)
  BY <1>0, <1>6 DEF MarkPublished, Proceed, After, Return
<1>7. CASE MarkDraft(w)
  <2>1. pc[w] = "draft" /\ pc'[w] = "getPending" /\ UNCHANGED rows
    BY <1>0, <1>7 DEF MarkDraft, Proceed, After, Goto, Return, UpdateAgent
  <2>2. agent'.deleted = agent.deleted
    BY <1>0, <1>7 DEF MarkDraft, UpdateAgent, Agent
  <2>3. Held(Published)' = Held(Published)
    BY <2>1, VersionsSeen
  <2> QED BY <2>1, <2>2, <2>3 DEF SeenSoFar, Freezing, Updating
<1> QED BY <1>1, <1>3, <1>4, <1>5, <1>6, <1>7 DEF ReviewStep

LEMMA SeenOther ==
  ASSUME Serial, Inductive, ReviewSoFar, CopySoFar, NEW w \in Workers, SeenSoFar(w),
         Step(w), OtherStep(w), pc'[w] # "idle", seen' = seen
  PROVE  SeenSoFar(w)'
<1>0. /\ pc \in [Workers -> Labels] /\ loc \in [Workers -> Local] /\ agent \in Agent
  BY AloneSeen
<1>1. CASE RollbackStart(w) \/ DeleteStart(w)
  <2>1. pc[w] = "idle" /\ pc'[w] \in {"write", "unbindAll"} /\ UNCHANGED db
    BY <1>0, <1>1 DEF RollbackStart, DeleteStart, Start
  <2>2. seen = View
    BY <2>1 DEF SeenSoFar
  <2> QED BY <2>1, <2>2, SeenKept DEF Freezing
<1>2. CASE RemoveRelations(w)
  <2>1. pc[w] = "unbindAll" /\ pc'[w] = "delFlag" /\ UNCHANGED <<agent, rows>>
    BY <1>0, <1>2 DEF RemoveRelations, Proceed, After, Goto
  <2>2. /\ Held(Pending)' = Held(Pending) /\ Held(Published)' = Held(Published)
        /\ seen = View
    BY <2>1, VersionsSeen DEF SeenSoFar
  <2>3. seen.live = Held(Published)' /\ seen.candidate = Held(Pending)'
    BY <2>2 DEF View
  <2> QED BY <2>1, <2>3 DEF SeenSoFar, Freezing, Updating
<1>3. CASE Toggle(w) \/ SetDelFlag(w)
  BY <1>0, <1>3 DEF Toggle, SetDelFlag, Proceed, After, Return
<1> QED BY <1>1, <1>2, <1>3 DEF OtherStep

-----------------------------------------------------------------------------
(* A handler returns: what is then seen is a step of ReleaseGate.          *)

\* Between handlers.
LEMMA SeenAtRest ==
  ASSUME TypeOK', ReviewSoFar', NEW w \in Workers, pc'[w] = "idle", seen' = View'
  PROVE  SeenSoFar(w)'
<1>1. Settled'
  BY DEF ReviewSoFar, PendingSoFar
<1>2. seen'.stage = "draft" => seen'.candidate = NoVersion
  BY <1>1 DEF View, Stage, Held, Settled
<1>3. /\ (seen.stage = "deleted" <=> agent.deleted)'
      /\ (seen.live = Held(Published))'
  BY DEF View, Stage, TypeOK, Agent, Release
<1> QED BY <1>2, <1>3 DEF SeenSoFar, Freezing, Updating

\* What a step of the release cycle is seen as.
GateStep == [Gate!Next]_<<seen.stage, seen.work, seen.candidate, seen.live>>

Copies == [cfg : Column, bound : SUBSET Tools]

LEMMA NothingSeen ==
  ASSUME seen' = seen
  PROVE  GateStep
BY DEF GateStep

\* A draft again, changed or not.
LEMMA DraftSeen ==
  ASSUME seen.stage \in Release, seen.stage = "draft" => seen.candidate = NoVersion,
         seen'.stage = "draft", seen'.candidate = NoVersion, seen'.work \in Copies,
         seen'.live = seen.live
  PROVE  GateStep
<1>1. CASE seen'.work # seen.work
  <2>1. Gate!Edit
    BY <1>1 DEF Gate!Edit, Copies, Release
  <2> QED BY <2>1 DEF GateStep, Gate!Next
<1>2. CASE seen'.work = seen.work /\ seen.stage # "draft"
  <2>1. Gate!Withdraw
    BY <1>2 DEF Gate!Withdraw, Release
  <2> QED BY <2>1 DEF GateStep, Gate!Next
<1>3. CASE seen'.work = seen.work /\ seen.stage = "draft"
  BY <1>3 DEF GateStep
<1> QED BY <1>1, <1>2, <1>3

LEMMA DeletedSeen ==
  ASSUME seen'.stage = "deleted", seen'.candidate \in {seen.candidate, NoVersion},
         seen'.work \in Copies, seen'.live = seen.live
  PROVE  GateStep
<1>1. Gate!Delete
  BY DEF Gate!Delete, Copies
<1> QED BY <1>1 DEF GateStep, Gate!Next

\* What every return has in common.
LEMMA Returned ==
  ASSUME Serial, Inductive, ReviewSoFar, CopySoFar, SeenType,
         Inductive', ReviewSoFar', CopySoFar', Columns',
         NEW w \in Workers, SeenSoFar(w), Step(w), pc'[w] = "idle", seen' = View'
  PROVE  /\ seen'.stage = IF agent'.deleted THEN "deleted" ELSE agent'.release
         /\ seen'.work = Work' /\ Work' \in Copies
         /\ seen'.candidate = Held(Pending)' /\ seen'.live = Held(Published)'
         /\ Settled'
         /\ seen.stage = "deleted" <=> agent.deleted
         /\ seen.stage \in Release \/ seen.stage = "deleted"
         /\ seen.stage = "draft" => seen.candidate = NoVersion
<1>1. (agent.cfg \in Column /\ bound \in SUBSET Tools)'
  BY DEF Columns, Inductive, TypeOK
<1>2. Settled'
  BY DEF ReviewSoFar, PendingSoFar
<1> QED BY <1>1, <1>2 DEF View, Stage, Work, Copies, SeenSoFar, SeenType

LEMMA UpdateSeen ==
  ASSUME Serial, Reviewed, Inductive, ReviewSoFar, CopySoFar, SeenType,
         Inductive', ReviewSoFar', CopySoFar', Columns',
         NEW w \in Workers, SeenSoFar(w), Step(w), pc'[w] = "idle", seen' = View',
         UpdateStep(w)
  PROVE  GateStep
<1>0. /\ pc \in [Workers -> Labels] /\ loc \in [Workers -> Local] /\ agent \in Agent
      /\ ContentSoFar(w) /\ TypeOK /\ (pc[w] # "idle" => w \in clean)
  BY AloneSeen
<1>1. pc[w] \in Updating /\ UNCHANGED rows
  BY <1>0 DEF UpdateStep, WriteAgent, UpdateAgent, Unbind, Bind, Updating, db
<1>2. w \in clean /\ loc[w].kind \in {"edit", "rollback"}
  BY <1>0, <1>1 DEF Updating, Inductive, Kinded
<1>3. /\ Held(Pending)' = seen.candidate /\ Held(Published)' = seen.live
  BY <1>1, VersionsSeen DEF SeenSoFar, Updating
<1>4. WriteAgent(w) => ~ agent.deleted /\ loc[w].kind = "edit"
  <2>1. ASSUME WriteAgent(w), loc[w].kind = "rollback" PROVE FALSE
    <3>1. CASE agent.deleted
      BY <1>0, <2>1, <3>1 DEF WriteAgent, Goto
    <3>2. CASE ~ agent.deleted
      <4>1. Proceed(w)
        BY <1>0, <2>1, <3>2, WriteIs
      <4> QED BY <1>0, <1>1, <2>1, <4>1, UpdateGoesTo DEF WriteAgent, Updated
    <3> QED BY <3>1, <3>2
  <2>2. ASSUME WriteAgent(w), loc[w].kind = "edit" PROVE ~ agent.deleted
    BY <1>2, <2>2 DEF Inductive, EditSoFar, WriteAgent
  <2> QED BY <1>2, <2>1, <2>2
<1>5. Proceed(w)
  BY <1>4 DEF UpdateStep, WriteAgent, Unbind, Bind
<1>6. loc[w].kind = "edit" /\ pc[w] \in {"write", "bind"}
  BY <1>0, <1>1, <1>2, <1>5, UpdateGoesTo DEF Updated, Updating
<1>7. agent.deleted = agent'.deleted /\ seen.stage \in Release
  <2>1. CASE WriteAgent(w)
    <3>1. ~ agent.deleted /\ agent'.deleted = FALSE
      BY <1>0, <1>4, <2>1, WriteIs
    <3> QED BY <1>0, <3>1, Returned DEF Agent
  <2>2. CASE Bind(w)
    <3>1. ~ agent.deleted
      BY <2>2, <1>2, <1>6 DEF Bind, Inductive, EditSoFar, SeenSoFar
    <3> QED BY <2>2, <3>1, Returned DEF Bind
  <2> QED BY <1>6, <2>1, <2>2 DEF UpdateStep, Unbind
<1>8. CASE loc[w].differs
  <2>1. agent'.release = "draft"
    <3>1. CASE WriteAgent(w)
      <4>1. agent.release = loc[w].was /\ ~ agent.deleted
        BY <1>2, <1>4, <3>1 DEF WriteAgent, Inductive, EditSoFar
      <4> QED BY <1>0, <1>8, <3>1, <4>1, WriteIs DEF Reverts
    <3>2. CASE Bind(w)
      BY <1>2, <1>6, <1>8, <3>2 DEF Bind, Inductive, EditSoFar
    <3> QED BY <1>6, <3>1, <3>2 DEF UpdateStep, Unbind
  <2>2. seen'.stage = "draft" /\ Pending' = {}
    BY <1>7, <2>1, Returned DEF Release, Settled
  <2>3. seen'.candidate = NoVersion
    BY <2>2, Returned DEF Held
  <2> QED BY <1>3, <1>7, <2>2, <2>3, Returned, DraftSeen
<1>9. CASE ~ loc[w].differs
  <2>1. /\ seen.stage = agent'.release
        /\ seen.work = [cfg |-> agent'.cfg, bound |-> bound']
    <3>1. CASE WriteAgent(w)
      <4>1. pc[w] = "write" /\ ~ agent.deleted /\ seen = View
        BY <1>4, <3>1 DEF WriteAgent, SeenSoFar
      <4>2. ~ loc[w].rebind
        BY <1>0, <1>1, <1>5, <4>1, UpdateGoesTo
      <4>3. agent'.release = agent.release /\ agent'.cfg = agent.cfg /\ bound' = bound
        BY <1>0, <1>6, <1>9, <3>1, <4>1, WriteIs DEF Reverts, ContentSoFar
      <4> QED BY <4>1, <4>3 DEF View, Stage, Work
    <3>2. CASE Bind(w)
      <4>1. /\ pc[w] = "bind" /\ UNCHANGED agent /\ bound = {}
            /\ bound' = bound \cup loc[w].bound
        BY <1>2, <1>6, <3>2 DEF Bind, Inductive, EditSoFar
      <4>2. /\ seen.stage = agent.release
            /\ seen.work = [cfg |-> agent.cfg, bound |-> loc[w].bound]
        BY <1>6, <1>9, <4>1 DEF SeenSoFar
      <4> QED BY <4>1, <4>2
    <3> QED BY <1>6, <3>1, <3>2 DEF UpdateStep, Unbind
  <2>2. seen'.stage = seen.stage
    <3>1. ~ agent'.deleted
      BY <1>7, Returned DEF Release
    <3> QED BY <2>1, <3>1, Returned
  <2> QED BY <1>3, <2>1, <2>2, Returned DEF GateStep, Work
<1> QED BY <1>8, <1>9

LEMMA DropSeen ==
  ASSUME Serial, Inductive, ReviewSoFar, CopySoFar, SeenType,
         Inductive', ReviewSoFar', CopySoFar', Columns',
         NEW w \in Workers, SeenSoFar(w), Step(w), pc'[w] = "idle", seen' = View',
         DropStep(w)
  PROVE  GateStep
<1>0. /\ pc \in [Workers -> Labels] /\ loc \in [Workers -> Local]
      /\ rows \in [RowIds -> Version] /\ PendingSoFar(w) /\ TypeOK
  BY AloneSeen
<1>1. /\ pc[w] \in {"getPending", "invalidate"} /\ (agent.deleted \/ agent.release = "draft")
      /\ UNCHANGED <<agent, bound>>
  BY <1>0 DEF DropStep, GetPending, Invalidate, SetStatus, PendingSoFar, db
<1>2. /\ Pending' = {} /\ Published' = Published
      /\ \A r \in Published : Content(r)' = Content(r)
  <2>1. CASE GetPending(w)
    <3>1. UNCHANGED rows /\ Pending = {}
      BY <1>0, <2>1 DEF GetPending, Goto, db
    <3> QED BY <3>1, RowsSame DEF Published
  <2>2. CASE Invalidate(w)
    <3>1. Pending = {loc[w].row} /\ loc[w].row \in RowIds /\ loc[w].row \notin Published
      BY <1>0, <2>2
         DEF Invalidate, PendingSoFar, Inductive, HoldsRow, Holding, Pending, Published
    <3> QED BY <1>0, <2>2, <3>1, StatusIs DEF Invalidate, Published
  <2> QED BY <2>1, <2>2 DEF DropStep
<1>3. seen'.candidate = NoVersion /\ seen'.live = seen.live
  <2>1. Held(Published)' = Held(Published)
    BY <1>2, PublishedSeen
  <2>2. Held(Pending)' = NoVersion
    BY <1>2 DEF Held
  <2> QED BY <1>1, <2>1, <2>2, Returned DEF SeenSoFar
<1>4. CASE agent.deleted
  <2>1. seen'.stage = "deleted"
    BY <1>1, <1>4, Returned
  <2> QED BY <1>3, <2>1, Returned, DeletedSeen
<1>5. CASE ~ agent.deleted
  <2>1. seen'.stage = "draft" /\ seen.stage \in Release
    BY <1>1, <1>5, Returned
  <2> QED BY <1>3, <2>1, Returned, DraftSeen
<1> QED BY <1>4, <1>5

LEMMA FreezeSeen ==
  ASSUME Serial, Inductive, ReviewSoFar, CopySoFar, SeenType,
         Inductive', ReviewSoFar', CopySoFar', Columns',
         NEW w \in Workers, SeenSoFar(w), Step(w), pc'[w] = "idle", seen' = View',
         FreezeStep(w)
  PROVE  GateStep
<1>0. /\ pc \in [Workers -> Labels] /\ loc \in [Workers -> Local] /\ agent \in Agent
      /\ PendingSoFar(w) /\ ContentSoFar(w) /\ TypeOK /\ (pc[w] # "idle" => w \in clean)
  BY AloneSeen
<1>1. CASE MarkPending(w)
  <2>1. /\ pc[w] = "mark" /\ w \in clean /\ UNCHANGED <<bound, rows>>
        /\ loc[w].kind = "submit"
    BY <1>0, <1>1 DEF MarkPending, UpdateAgent, Inductive, Kinded
  <2>2. /\ seen.stage = "draft" /\ seen.work = Work /\ ~ agent.deleted
        /\ seen.live = Held(Published)
    BY <2>1 DEF SeenSoFar
  <2>3. agent'.deleted = FALSE /\ agent'.release = "pending" /\ agent'.cfg = agent.cfg
    BY <1>0, <1>1, <2>2 DEF MarkPending, UpdateAgent, Agent
  <2>4. Pending = {loc[w].row} /\ Content(loc[w].row) = <<agent.cfg, bound>>
    BY <1>0, <2>1 DEF PendingSoFar, Inductive, CleanSubmission
  <2>5. Held(Pending) = Work
    BY <2>4, HeldOne DEF Content, Work
  <2>6. Held(Pending)' = Held(Pending) /\ Held(Published)' = Held(Published)
    BY <2>1, VersionsSeen
  <2>7. Work' = Work
    BY <2>1, <2>3 DEF Work
  <2>8. Gate!Submit
    BY <2>2, <2>3, <2>5, <2>6, <2>7, Returned DEF Gate!Submit
  <2> QED BY <2>8 DEF GateStep, Gate!Next
<1>2. CASE InsertRow(w)
  <2>1. pc[w] = "insert" /\ UNCHANGED <<agent, bound>> /\ loc[w].kind # "backfill"
    BY <1>0, <1>2 DEF InsertRow, ContentSoFar, Freezing
  <2>2. \/ UNCHANGED rows
        \/ /\ Pending' = Pending /\ Published' = Published
           /\ \A r \in Pending \cup Published : Content(r)' = Content(r)
    <3>1. loc[w].kind = "submit" => UNCHANGED rows
      BY <1>0, <1>2 DEF InsertRow, Goto
    <3> QED BY <1>0, <1>2, <2>1, <3>1, InsertIs DEF Pending, Published
  <2>3. Held(Pending)' = Held(Pending) /\ Held(Published)' = Held(Published)
    BY <2>2, VersionsSeen, PendingSeen, PublishedSeen
  <2>4. View' = View /\ seen = View
    BY <2>1, <2>3 DEF View, Stage, Work, SeenSoFar, Freezing
  <2> QED BY <2>4, NothingSeen
<1>3. CASE ~ MarkPending(w) /\ ~ InsertRow(w)
  <2>1. UNCHANGED db /\ pc[w] \in Freezing \cup {"idle", "number", "probe"}
    BY <1>3
       DEF FreezeStep, SubmitRead, SubmitNumber, SnapshotStart, BackfillStart, Start,
           BackfillProbe, SnapshotRow, SnapshotBind, Freezing
  <2>2. seen = View /\ View' = View
    BY <2>1, ViewSame DEF SeenSoFar
  <2> QED BY <2>2, NothingSeen
<1> QED BY <1>1, <1>2, <1>3

LEMMA ReviewSeen ==
  ASSUME Serial, Inductive, ReviewSoFar, CopySoFar, SeenType,
         Inductive', ReviewSoFar', CopySoFar', Columns',
         NEW w \in Workers, SeenSoFar(w), Step(w), pc'[w] = "idle", seen' = View',
         ReviewStep(w)
  PROVE  GateStep
<1>0. /\ pc \in [Workers -> Labels] /\ loc \in [Workers -> Local] /\ agent \in Agent
      /\ PendingSoFar(w) /\ ContentSoFar(w) /\ TypeOK /\ (pc[w] # "idle" => w \in clean)
  BY AloneSeen
<1>1. MarkPublished(w) \/ MarkDraft(w)
  BY <1>0 DEF ReviewStep, ApproveStart, RejectStart, Start, Archive, Publish, Reject,
              Proceed, After, Goto
<1>2. UNCHANGED <<bound, rows>>
  BY <1>1 DEF MarkPublished, MarkDraft, UpdateAgent
<1>3. Held(Pending)' = Held(Pending) /\ Held(Published)' = Held(Published)
  BY <1>2, VersionsSeen
<1>4. CASE MarkPublished(w)
  <2>1. pc[w] = "approved" /\ w \in clean
    BY <1>0, <1>4 DEF MarkPublished
  <2>2. seen.stage = "pending" /\ seen.work = Work /\ seen.candidate = Work /\ ~ agent.deleted
    BY <2>1 DEF SeenSoFar
  <2>3. agent'.deleted = FALSE /\ agent'.release = "published" /\ agent'.cfg = agent.cfg
    <3>1. agent' = [agent EXCEPT !.no = loc[w].no, !.release = "published", !.enabled = TRUE]
      BY <1>4, <2>2 DEF MarkPublished, UpdateAgent
    <3> QED BY <1>0, <2>2, <3>1 DEF Agent
  <2>4. Pending = {} /\ Published = {loc[w].row} /\ Content(loc[w].row) = <<agent.cfg, bound>>
    BY <1>0, <2>1 DEF PendingSoFar, Inductive, ApprovalSoFar, ContentSoFar
  <2>5. Held(Pending) = NoVersion /\ Held(Published) = Work
    BY <2>4, HeldOne DEF Content, Work, Held
  <2>6. Work' = Work
    BY <1>2, <2>3 DEF Work
  <2>7. Gate!Approve
    BY <1>3, <2>2, <2>3, <2>5, <2>6, Returned DEF Gate!Approve
  <2> QED BY <2>7 DEF GateStep, Gate!Next
<1>5. CASE MarkDraft(w)
  <2>1. pc[w] = "draft" /\ loc[w].kind = "reject"
    BY <1>0, <1>5 DEF MarkDraft, Proceed, After, Goto, Inductive, Kinded
  <2>2. seen.stage = "pending" /\ ~ agent.deleted /\ seen.live = Held(Published)
    BY <2>1 DEF SeenSoFar
  <2>3. agent'.deleted = FALSE /\ agent'.release = "draft" /\ Pending = {}
    BY <1>0, <1>5, <2>1, <2>2 DEF MarkDraft, UpdateAgent, Agent, PendingSoFar
  <2>4. Held(Pending) = NoVersion
    BY <2>3 DEF Held
  <2> QED BY <1>3, <2>2, <2>3, <2>4, Returned, DraftSeen DEF Release
<1> QED BY <1>1, <1>4, <1>5

LEMMA OtherSeen ==
  ASSUME Serial, Inductive, ReviewSoFar, CopySoFar, SeenType,
         Inductive', ReviewSoFar', CopySoFar', Columns',
         NEW w \in Workers, SeenSoFar(w), Step(w), pc'[w] = "idle", seen' = View',
         OtherStep(w)
  PROVE  GateStep
<1>0. pc \in [Workers -> Labels] /\ loc \in [Workers -> Local] /\ agent \in Agent
  BY AloneSeen
<1>1. Toggle(w) \/ SetDelFlag(w)
  BY <1>0 DEF OtherStep, RollbackStart, DeleteStart, Start, RemoveRelations, Proceed, After, Goto
<1>2. UNCHANGED <<bound, rows>>
  BY <1>1 DEF Toggle, SetDelFlag
<1>3. Held(Pending)' = Held(Pending) /\ Held(Published)' = Held(Published)
  BY <1>2, VersionsSeen
<1>4. CASE Toggle(w)
  <2>1. /\ pc[w] = "idle" /\ agent'.deleted = agent.deleted
        /\ agent'.release = agent.release /\ agent'.cfg = agent.cfg
    BY <1>0, <1>4 DEF Toggle, Agent
  <2>2. View' = View /\ seen = View
    BY <1>2, <1>3, <2>1 DEF View, Stage, Work, SeenSoFar
  <2> QED BY <2>2, NothingSeen
<1>5. CASE SetDelFlag(w)
  <2>1. pc[w] = "delFlag" /\ agent'.deleted
    BY <1>0, <1>5 DEF SetDelFlag, Agent
  <2>2. seen.candidate = Held(Pending) /\ seen.live = Held(Published)
    BY <2>1 DEF SeenSoFar
  <2> QED BY <1>3, <2>1, <2>2, Returned, DeletedSeen
<1> QED BY <1>1, <1>4, <1>5

\* One step of the one worker.
LEMMA SeenNext ==
  ASSUME Serial, Reviewed, Inductive, ReviewSoFar, CopySoFar, SeenType,
         Inductive', ReviewSoFar', CopySoFar', Columns',
         NEW w \in Workers, SeenSoFar(w), Step(w),
         seen' = IF pc'[w] = "idle" THEN View' ELSE seen
  PROVE  SeenSoFar(w)' /\ GateStep
<1>1. ~ FaultStep(w)
  BY Alone
<1>2. CASE pc'[w] = "idle"
  <2>1. ~ EditStep(w)
    BY <1>2, AloneSeen DEF EditStep, EditRead, EditDecide, Start, Goto
  <2>2. SeenSoFar(w)'
    BY <1>2, SeenAtRest DEF Inductive
  <2>3. GateStep
    BY <1>1, <1>2, <2>1, UpdateSeen, DropSeen, FreezeSeen, ReviewSeen, OtherSeen DEF Step
  <2> QED BY <2>2, <2>3
<1>3. CASE pc'[w] # "idle"
  <2>1. seen' = seen
    BY <1>3
  <2>2. SeenSoFar(w)'
    BY <1>1, <1>3, <2>1, SeenEdit, SeenUpdate, SeenFreeze, SeenReview, SeenOther DEF Step
  <2> QED BY <2>1, <2>2, NothingSeen
<1> QED BY <1>2, <1>3

\* ImplementsGate: with one worker, no faults, agents created as drafts and
\* editors who see every tool, the handlers implement ReleaseGate: only an
\* approval publishes, and what it publishes is what was submitted.
THEOREM OneWorkerImplementsGate == Serial /\ Reviewed => (ViewSpec => ImplementsGate)
<1> SUFFICES ASSUME Serial, Reviewed PROVE ViewSpec => ImplementsGate
  OBVIOUS
<1> DEFINE Inv == Inductive /\ ReviewSoFar /\ CopySoFar /\ Columns /\ SeenType /\ SeenRight
           Step1 == [ViewNext]_<<vars, seen>>
<1>0. PICK w \in Workers : Workers = {w}
  BY DEF Serial, OneWorker
<1>1. ViewSpec => [](Inductive /\ ReviewSoFar /\ CopySoFar)
  <2>1. ViewInit => Init
    BY DEF ViewInit
  <2>2. Step1 => [Next]_vars
    BY DEF ViewNext
  <2>3. Spec => [](Inductive /\ ReviewSoFar /\ CopySoFar)
    BY CopyInvariant
  <2> QED BY <2>1, <2>2, <2>3, PTL DEF ViewSpec, Spec
<1>2. ViewInit => SeenRight
  <2> SUFFICES ASSUME ViewInit PROVE SeenSoFar(w)
    BY <1>0 DEF SeenRight
  <2>1. /\ pc[w] = "idle" /\ Pending = {} /\ agent.deleted = FALSE
        /\ agent.release = "draft"
    BY DEF ViewInit, Init, Pending, FreeRow, Reviewed
  <2>2. seen = View /\ seen.stage = "draft" /\ seen.candidate = NoVersion
    BY <2>1 DEF ViewInit, View, Stage, Held
  <2> QED BY <2>1, <2>2 DEF SeenSoFar, View, Freezing, Updating
<1>3. Inv /\ Step1 /\ Inductive' /\ ReviewSoFar' /\ CopySoFar' /\ Columns'
        => SeenRight' /\ GateStep
  <2> SUFFICES ASSUME Inv, Step1, Inductive', ReviewSoFar', CopySoFar', Columns'
               PROVE  SeenRight' /\ GateStep
    OBVIOUS
  <2>1. CASE ViewNext
    <3>1. Step(w) /\ seen' = IF pc'[w] = "idle" THEN View' ELSE seen
      BY <1>0, <2>1 DEF ViewNext, Next, Quiet
    <3>2. SeenSoFar(w)' /\ GateStep
      BY <3>1, SeenNext DEF SeenRight
    <3> QED BY <1>0, <3>2 DEF SeenRight
  <2>2. CASE UNCHANGED <<vars, seen>>
    <3>1. View' = View
      BY <2>2, ViewSame DEF vars, db
    <3>2. SeenSoFar(w)'
      BY <2>2, <3>1 DEF vars, SeenRight, SeenSoFar, View, Work
    <3> QED BY <1>0, <2>2, <3>2, NothingSeen DEF SeenRight
  <2> QED BY <2>1, <2>2
<1>4. ViewInit => Gate!Init
  <2> SUFFICES ASSUME ViewInit PROVE Gate!Init
    OBVIOUS
  <2>1. /\ agent.deleted = FALSE /\ agent.release = "draft" /\ agent.cfg \in Column
        /\ bound \in SUBSET Tools /\ Pending = {} /\ Published = {}
    BY DEF ViewInit, Init, Pending, Published, FreeRow, Reviewed
  <2> QED BY <2>1 DEF ViewInit, Gate!Init, View, Stage, Work, Held
<1>5. ViewSpec => [](Inductive /\ Columns /\ SeenType)
  BY ViewInvariant
<1>6. GateStep => [Gate!Next]_Gate!gate
  BY DEF GateStep, Gate!gate
<1> QED BY <1>1, <1>2, <1>3, <1>4, <1>5, <1>6, PTL DEF ViewSpec, ImplementsGate, Gate!Spec
=============================================================================
