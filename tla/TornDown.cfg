\* The response's task is cancelled: the model's stream runs on.
SPECIFICATION Spec
CONSTANT
    NDeltas = 3
CHECK_DEADLOCK FALSE
INVARIANT
    UpstreamTornDown
