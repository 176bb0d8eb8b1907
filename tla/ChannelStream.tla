--------------------------- MODULE ChannelStream ---------------------------
(***************************************************************************)
(* A program over one channel: producers send their messages, somebody     *)
(* joins them and closes the channel, and every receiver runs              *)
(*     async for v in stream(ch): ...                                      *)
(* (the channel branch of execute_case_for, stmt_for.cpp).  stream(ch) is  *)
(* the channel itself, so the loop is a recv() without timeout per turn.   *)
(* What the body does is left open: it goes on, breaks or throws.          *)
(***************************************************************************)
EXTENDS Channel

CONSTANT NoneMessages    \* the messages whose payload is the value None

\* What the constants must be.
StreamParameters == NoneMessages \subseteq Messages /\ ~AllowTimeout

VARIABLES
    loop,      \* whether each receiver's loop runs, has come to the end of the
               \* stream, or was left by a break or an exception of its body
    consumed   \* history: the messages each loop's body has seen, in order

streamVars == <<vars, loop, consumed>>

StreamTypeOK ==
    /\ TypeOK
    /\ loop \in [Receivers -> {"running", "ended", "left"}]
    /\ consumed \in [Receivers -> Seq(Messages)]

StreamInit ==
    /\ Init
    /\ loop = [r \in Receivers |-> "running"]
    /\ consumed = [r \in Receivers |-> <<>>]

\* A loop that takes an empty queue for the end of the stream.
BadGotNone(r) == ret[r] = "nil" \/ queue = <<>>
\* The value recv() returned to the loop is None.
GotNone(r) == ret[r] = "nil" \/ (ret[r] = "message" /\ item[r] \in NoneMessages)

\* Runs the body without looking at what recv() returned.
BadBody(r) == consumed' = [consumed EXCEPT ![r] = Append(@, item[r])]
\* The loop has its item: the loop variable is bound and the body runs.
Body(r) ==
    IF ret[r] = "message"
    THEN consumed' = [consumed EXCEPT ![r] = Append(@, item[r])]
    ELSE UNCHANGED consumed

LoopTurn(r) ==
    /\ loop[r] = "running"
    /\ ~GotNone(r)
    /\ CallRecv(r)
    /\ Body(r)
    /\ UNCHANGED loop

\* The body saw its item and breaks or throws.
LoopLeave(r) ==
    /\ loop[r] = "running"
    /\ pc[r] = "idle"
    /\ ret[r] = "message" /\ ~GotNone(r)
    /\ Body(r)
    /\ loop' = [loop EXCEPT ![r] = "left"]
    /\ UNCHANGED vars

LoopEnd(r) ==
    /\ loop[r] = "running"
    /\ pc[r] = "idle"
    /\ GotNone(r)
    /\ loop' = [loop EXCEPT ![r] = "ended"]
    /\ UNCHANGED <<vars, consumed>>

\* close(ch) after join()ing the producers.
CloseAfterProducers(c) ==
    /\ \A s \in Senders : pc[s] = "idle" /\ calls[s] = MaxSends
    /\ ret[c] = "none"
    /\ CloseSet(c)
    /\ UNCHANGED <<loop, consumed>>

Turn(r) == LoopTurn(r) \/ LoopLeave(r) \/ LoopEnd(r)
Runtime(r) == RecvStep(r) /\ UNCHANGED <<loop, consumed>>
Produce(s) == (CallSend(s) \/ SendStep(s)) /\ UNCHANGED <<loop, consumed>>
Close(c) == CloseAfterProducers(c) \/ (CloseStep(c) /\ UNCHANGED <<loop, consumed>>)
Spurious == /\ \/ \E s \in Senders : SendSpurious(s)
               \/ \E r \in Receivers : RecvSpurious(r)
            /\ UNCHANGED <<loop, consumed>>

StreamNext ==
    \/ \E s \in Senders : Produce(s)
    \/ \E r \in Receivers : Turn(r) \/ Runtime(r)
    \/ \E c \in Closers : Close(c)
    \/ Spurious

StreamSpec == StreamInit /\ [][StreamNext]_streamVars

\* Producers, the closer and the loops are ordinary running threads.
StreamFairSpec ==
    /\ StreamSpec
    /\ \A s \in Senders : WF_streamVars(Produce(s))
    /\ \A r \in Receivers : WF_streamVars(Turn(r) \/ Runtime(r))
    /\ \A c \in Closers : WF_streamVars(Close(c))

-----------------------------------------------------------------------------
\* "until drained (None)": a loop that has come to the end of the stream has left
\* nothing behind in a channel that is still going to deliver, unless what it
\* received was a None that a producer sent.
DrainedAtEnd ==
    \A r \in Receivers : loop[r] = "ended" =>
        (closed /\ queue = <<>>) \/ item[r] \in NoneMessages

\* As long as one loop runs that no None ends and no body leaves, each other
\* message is seen by the body of exactly one loop: when all loops are over, the
\* bodies have together seen every message the producers sent, also by those
\* that were left in the middle of the stream.
AllConsumed ==
    /\ \A r \in Receivers : loop[r] # "running"
    /\ \E r \in Receivers : loop[r] = "ended" /\ item[r] \notin NoneMessages
    => \A i \in DOMAIN sent : sent[i] \notin NoneMessages =>
            Cardinality({turn \in Receivers \X (1..Len(sent)) :
                /\ turn[2] <= Len(consumed[turn[1]])
                /\ consumed[turn[1]][turn[2]] = sent[i]}) = 1

\* Some thread of the program sleeps although what it waits for has come.
SomebodyOversleeps ==
    \/ \E s \in Senders : Overslept(s)
    \/ \E r \in Receivers : OversleptRecv(r)

\* Every loop is over, or a lost wakeup keeps its program from going on: a
\* producer, whom the closer then waits for, or a receiver, behind which the
\* queue fills up, sleeps for good.
LoopsOver == \A r \in Receivers : loop[r] # "running"
=============================================================================
