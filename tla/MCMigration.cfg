SPECIFICATION MCSpec
CONSTANTS
  Rows = {r1, r2}
  Writers = {w1}
  Zone = 20
  Offsets = {20}
  CleanupAnyTime = FALSE
  MaxClock = 6
  MaxManifests = 3
  Procs = {p1, p2}
  None = None
  Server = Server
SYMMETRY Sym
INVARIANTS
  MigrationSafe
PROPERTIES
  ReadyStaysReady
  ImplementsLedger
CHECK_DEADLOCK FALSE
