\* Two senders and a receiver over two slots, with and without timeouts.
\* Nested awaits with one worker and two, a batch with two, one within a task.
SPECIFICATION RuntimeSpec
CONSTANTS
    Parts = {"channel", "tasks"}
    s1 = s1
    s2 = s2
    r1 = r1
    c1 = c1
    Senders = {s1, s2}
    Receivers = {r1}
    Closers = {c1}
    Capacity = 2
    MaxSends = 2
    AllowTimeout = TRUE
    NoTask = NoTask
    main = main
    ta = ta
    tb = tb
    tc = tc
    td = td
    Tasks = {ta, tb, tc}
    Main = main
    Setups <- MCSetups
CHECK_DEADLOCK FALSE
INVARIANTS FifoDelivery EndIsFinal CloseReleasesAll NoLostWakeup RunOnce PendingSettles NoSleepingOnWork
PROPERTIES ImplementsFifo Delivery SendReturns ImplementsForkJoin RunEnds
