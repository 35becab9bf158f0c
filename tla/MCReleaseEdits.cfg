SPECIFICATION Spec
CONSTANTS
  Workers = {w1, w2}
  RowIds = {r1}
  Configs = {a, b}
  Unset = unset
  Nullable = FALSE
  Tools = {t}
  Views = {{t}}
  DraftNos = {1}
  Tries = 3
  Created = {"draft", "published"}
  Ops = {"edit", "submit", "snapshot", "delete", "toggle"}
  MaxFaults = 1
  NoRow = noRow
PROPERTIES
  CleanEdit
SYMMETRY Symmetry
