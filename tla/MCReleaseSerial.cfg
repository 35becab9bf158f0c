SPECIFICATION ViewSpec
CONSTANTS
  Workers = {w1}
  RowIds = {r1, r2, r3}
  Configs = {a, b}
  Unset = unset
  Nullable = FALSE
  Tools = {t}
  Views = {{t}}
  DraftNos = {1}
  Tries = 3
  Created = {"draft"}
  Ops = {"edit", "submit", "snapshot", "backfill", "approve", "reject", "rollback", "delete", "toggle"}
  MaxFaults = 0
  NoRow = noRow
  NoVersion = noVersion
INVARIANTS
  TypeOK
  AtMostOnePending
  UnderReview
  EditInvalidates
PROPERTIES
  ImplementsGate
SYMMETRY RowSymmetry
