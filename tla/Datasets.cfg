SPECIFICATION Spec
CONSTANTS
  Handlers = {h1, h2}
  MaxUploads = 4
CHECK_DEADLOCK FALSE
SYMMETRY Symmetry
INVARIANTS
  RowsUsable
  FilesAccountedFor
