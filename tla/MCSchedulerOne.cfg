\* A batch with a single worker.
SPECIFICATION RuntimeSpec
CONSTANTS
    Parts = {"tasks"}
    s1 = s1
    s2 = s2
    r1 = r1
    c1 = c1
    Senders = {s1, s2}
    Receivers = {r1}
    Closers = {}
    Capacity = 2
    MaxSends = 2
    AllowTimeout = FALSE
    NoTask = NoTask
    main = main
    ta = ta
    tb = tb
    tc = tc
    td = td
    Tasks = {ta, tb, tc}
    Main = main
    Setups <- OneWorkerSetup
CHECK_DEADLOCK FALSE
PROPERTY ScriptEnds
