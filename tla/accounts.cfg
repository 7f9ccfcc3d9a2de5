SPECIFICATION Spec
CONSTANTS
  Threads = {t1, t2}
  Names = {ann, bob}
  Boats = {x, y}
  Legacy = {x}
  Tokens = {k}
  MaxId = 2
  Mishaps = 1
  None = None
INVARIANTS SomeAdmin NothingLeftBehind
PROPERTIES DoneOnce
CHECK_DEADLOCK FALSE
SYMMETRY Alike
