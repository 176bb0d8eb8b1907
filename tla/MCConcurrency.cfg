\* Calls of up to five items in chunks of two: none, one chunk, short last chunk.
\* Three tasks, of the body or of one another; failures, timeouts, a rebound g.
\* Two producers and two loops over a channel of two slots, with a None.
SPECIFICATION ConcurrencySpec
CONSTANTS
    MaxTotal = 5
    EnvChunk = 2
    t1 = t1
    t2 = t2
    t3 = t3
    Tasks = {t1, t2, t3}
    MayThrow = TRUE
    MayRebind = TRUE
    s1 = s1
    s2 = s2
    r1 = r1
    r2 = r2
    c1 = c1
    Senders = {s1, s2}
    Receivers = {r1, r2}
    Closers = {c1}
    Capacity = 2
    MaxSends = 2
    NoneMessages <- MCNone
CHECK_DEADLOCK FALSE
INVARIANTS NothingLeftRunning EachItemOnce ErrorsSurface ReduceInOrder NormalExitJoinsBody
    DrainedAtEnd AllConsumed
PROPERTIES NoLateStart WaitsEnd
