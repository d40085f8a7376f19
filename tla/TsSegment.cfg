\* One chain of buffers: the tables, the damages and the pictures one at a time
\* with every cutting of the stream into buffers.
CONSTANTS
    Streams <- MCStreams
    Chunks = {3, 8, 10}
    Garbled <- MCGarbled
SPECIFICATION Spec
INVARIANTS
    NothingElseLost
    FrameBuffers
    PtsContinuous
    LittleHeldBack
\* The stream ends.
CHECK_DEADLOCK FALSE
