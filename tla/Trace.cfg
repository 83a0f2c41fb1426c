SPECIFICATION Spec
CONSTANTS
  t1 = t1
  t2 = t2
  h1 = h1
  h2 = h2
  Recorder = {t1, t2}
  Handler = {h1, h2}
  r1 = r1
  r2 = r2
  None = None
  Run = {r1, r2}
  Config <- MCConfig
  Event <- MCEvent
  Records = 2
  Calls = 3
ACTION_CONSTRAINT InScope
CHECK_DEADLOCK FALSE
INVARIANTS NothingLost FlushedIsWhole
PROPERTY StoppedStaysStopped
