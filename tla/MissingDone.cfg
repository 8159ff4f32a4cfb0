\* The gate raises: the stream ends without its terminal event.
SPECIFICATION Spec
CONSTANT
    NDeltas = 3
CHECK_DEADLOCK FALSE
INVARIANT
    DoneAlwaysSent
