\* Two flows in sequence or at once over two connections and a pool of one;
\* four echo requests that look the same, with one flow and a queue of two.
SPECIFICATION SumSpec
CONSTANTS
    Flows = {f1, f2}
    Streams = {s1, s2}
    NoFlow = NoFlow
    NoStream = NoStream
    SerialSpace = 3
    MaxPool = 1
    MaxFrames = 2
    EchoKeys = {k1, k2}
    Payloads = {"same"}
    MaxFlows = 1
    QueueDepth = 2
    MaxRequests = 4
SYMMETRY Symmetry
INVARIANTS OwnReplies OneUser OwnReply OneWorker
CHECK_DEADLOCK FALSE
