CONSTANTS
    Events = {e1, e2, e3}
    Workers = {w1, w2}
    BufferSize = 2
    None = None
SPECIFICATION Spec
INVARIANT BufferedEventsSurviveCancel
CHECK_DEADLOCK FALSE
