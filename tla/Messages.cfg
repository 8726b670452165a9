SPECIFICATION MsgSpec
CONSTANTS
  Procs = {p1, p2, p3, p4}
  NULL = NULL
  ANY = ANY
  Lens = {1}
INVARIANTS SendersQueued MeantForReader
SYMMETRY Symmetry
CHECK_DEADLOCK FALSE
