SPECIFICATION Spec
CONSTANTS
  Workers = {w1, w2}
  RowIds = {r1, r2}
  Configs = {a}
  Unset = unset
  Nullable = FALSE
  Tools = {t}
  Views = {{t}}
  DraftNos = {1}
  Tries = 3
  Created = {"draft", "published"}
  Ops = {"submit", "snapshot", "backfill", "approve", "reject", "rollback"}
  MaxFaults = 1
  NoRow = noRow
INVARIANTS
  CleanApproval
  CleanSubmission
PROPERTIES
  DraftsStayDrafts
SYMMETRY Symmetry
