--------------------------- MODULE ChannelProofs ---------------------------
(***************************************************************************)
(* Safety of Channel, which implements a bounded queue, and of the loops   *)
(* over one (ChannelStream), for every set of threads and every capacity.  *)
(***************************************************************************)
EXTENDS ChannelStream, SequenceTheorems, FiniteSetTheorems, TLAPS

\* The message a sender is about to push has been numbered by CallSend.
CallNumbered == \A s \in Senders : pc[s] # "idle" => calls[s] \in 1..MaxSends

TypeInv == TypeOK /\ CallNumbered

-----------------------------------------------------------------------------
(* Lemmas about sequences *)

\* Moving the head of a queue to the end of a history keeps their
\* concatenation: the arithmetic of RecvPop, AfterPop, Rest.
LEMMA PopConcat ==
  ASSUME NEW S, NEW q \in Seq(S), NEW h \in Seq(S), q # <<>>
  PROVE  Append(h, Head(q)) \o Tail(q) = h \o q
<1> DEFINE l == Append(h, Head(q)) \o Tail(q)
           k == h \o q
<1>1. Head(q) \in S /\ Tail(q) \in Seq(S) /\ Len(Tail(q)) = Len(q) - 1
  BY HeadTailProperties
<1>2. \A i \in 1..Len(Tail(q)) : Tail(q)[i] = q[i + 1]
  BY HeadTailProperties
<1>3. /\ Append(h, Head(q)) \in Seq(S)
      /\ Len(Append(h, Head(q))) = Len(h) + 1
      /\ Append(h, Head(q))[Len(h) + 1] = Head(q)
      /\ \A i \in 1..Len(h) : Append(h, Head(q))[i] = h[i]
  BY <1>1, AppendProperties
<1>4. Len(q) \in Nat \ {0} /\ Len(h) \in Nat
  BY EmptySeq, LenProperties
<1>5. k \in Seq(S) /\ Len(k) = Len(h) + Len(q)
  BY ConcatProperties
<1>6. l \in Seq(S) /\ Len(l) = Len(h) + 1 + Len(Tail(q))
  BY <1>1, <1>3, ConcatProperties
<1>7. ASSUME NEW i \in 1..Len(l) PROVE l[i] = k[i]
  <2>1. k[i] = IF i <= Len(h) THEN h[i] ELSE q[i - Len(h)]
    BY <1>1, <1>4, <1>5, <1>6, ConcatProperties
  <2>2. l[i] = IF i <= Len(h) + 1 THEN Append(h, Head(q))[i]
               ELSE Tail(q)[i - (Len(h) + 1)]
    BY <1>1, <1>3, <1>4, <1>6, ConcatProperties
  <2>3. CASE i <= Len(h)
    BY <1>3, <1>4, <2>1, <2>2, <2>3
  <2>4. CASE i = Len(h) + 1
    <3>1. Head(q) = q[1]
      BY <1>4
    <3>2. QED
      BY <1>3, <1>4, <2>1, <2>2, <2>4, <3>1
  <2>5. CASE i > Len(h) + 1
    <3>1. i - (Len(h) + 1) \in 1..Len(Tail(q))
      BY <1>1, <1>4, <1>6, <2>5
    <3>2. Tail(q)[i - (Len(h) + 1)] = q[i - Len(h)]
      BY <1>2, <1>4, <3>1
    <3>3. QED
      BY <1>4, <2>1, <2>2, <2>5, <3>2
  <2>6. QED
    BY <1>1, <1>4, <1>6, <2>3, <2>4, <2>5
<1>8. Len(l) = Len(k)
  BY <1>1, <1>4, <1>5, <1>6
<1>9. QED
  BY <1>5, <1>6, <1>7, <1>8, SeqEqual

\* Appending to the queue appends to the whole history.
LEMMA PushConcat ==
  ASSUME NEW S, NEW q \in Seq(S), NEW h \in Seq(S), NEW m \in S
  PROVE  h \o Append(q, m) = Append(h \o q, m)
<1>1. <<m>> \in Seq(S)
  OBVIOUS
<1>2. Append(q, m) = q \o <<m>>
  BY AppendIsConcat
<1>3. h \o q \in Seq(S)
  BY ConcatProperties
<1>4. Append(h \o q, m) = (h \o q) \o <<m>>
  BY <1>3, AppendIsConcat
<1>5. QED
  BY <1>1, <1>2, <1>4, ConcatAssociative

-----------------------------------------------------------------------------
(* Type correctness *)

LEMMA TypeInit == Init => TypeInv
<1> SUFFICES ASSUME Init PROVE TypeInv
  OBVIOUS
<1> USE ChannelAssumption DEF Init, Callers
<1>1. queue \in Seq(Messages) /\ sent \in Seq(Messages) /\ received \in Seq(Messages)
  BY EmptySeq
<1>2. /\ closed \in BOOLEAN /\ sendCount \in Nat /\ recvCount \in Nat
      /\ timed \in [Receivers -> BOOLEAN]
      /\ item \in [Receivers -> Messages \cup {NoMessage}]
  OBVIOUS
<1>5. calls \in [Senders -> 0..MaxSends]
  BY DEF ChannelAssumption
<1>3. /\ pc \in [Callers -> SendPC \cup RecvPC \cup ClosePC]
      /\ ret \in [Callers -> Results]
      /\ \A s \in Senders : pc[s] \in SendPC
      /\ \A r \in Receivers : pc[r] \in RecvPC
      /\ \A c \in Closers : pc[c] \in ClosePC
      /\ CallNumbered
  BY DEF SendPC, RecvPC, ClosePC, Results, CallNumbered
<1>4. QED
  BY <1>1, <1>2, <1>3, <1>5 DEF TypeInv, TypeOK

LEMMA TypeStep == TypeInv /\ [Next]_vars => TypeInv'
<1> SUFFICES ASSUME TypeInv, [Next]_vars PROVE TypeInv'
  OBVIOUS
<1> USE ChannelAssumption DEF TypeInv, TypeOK, CallNumbered, Callers, SendPC, RecvPC,
        ClosePC, Results, Messages
<1>1. ASSUME NEW s \in Senders, CallSend(s) PROVE TypeInv'
  BY <1>1 DEF CallSend, Goto
<1>2. ASSUME NEW s \in Senders, SendWait(s) PROVE TypeInv'
  BY <1>2 DEF SendWait, Goto
<1>3. ASSUME NEW s \in Senders, SendClosed(s) PROVE TypeInv'
  BY <1>3 DEF SendClosed, Return
<1>4. ASSUME NEW s \in Senders, SendPush(s) PROVE TypeInv'
  BY <1>4 DEF SendPush, Admits, AfterPush, Goto
<1>5. ASSUME NEW s \in Senders, SendNotify(s) PROVE TypeInv'
  BY <1>5 DEF SendNotify, NotifyOne, RecvWaiters, Goto
<1>6. ASSUME NEW s \in Senders, SendSpurious(s) PROVE TypeInv'
  BY <1>6 DEF SendSpurious, Goto
<1>7. ASSUME NEW r \in Receivers, CallRecv(r) PROVE TypeInv'
  <2>1. PICK b \in {FALSE, AllowTimeout} : timed' = [timed EXCEPT ![r] = b]
    BY <1>7 DEF CallRecv
  <2>2. b \in BOOLEAN
    BY <2>1
  <2>3. timed' \in [Receivers -> BOOLEAN]
    BY <2>1, <2>2
  <2>4. QED
    BY <1>7, <2>3 DEF CallRecv, Goto
<1>8. ASSUME NEW r \in Receivers, RecvWait(r) PROVE TypeInv'
  BY <1>8 DEF RecvWait, Goto
<1>9. ASSUME NEW r \in Receivers, RecvNil(r) PROVE TypeInv'
  BY <1>9 DEF RecvNil, Return
<1>10. ASSUME NEW r \in Receivers, RecvPop(r) PROVE TypeInv'
  <2>1. Head(queue) \in Messages /\ Tail(queue) \in Seq(Messages)
    BY <1>10, HeadTailProperties DEF RecvPop, AfterPop, Rest
  <2>2. queue' \in Seq(Messages) /\ received' \in Seq(Messages)
    BY <1>10, <2>1, AppendProperties DEF RecvPop, AfterPop, Rest
  <2>3. item' \in [Receivers -> Messages \cup {NoMessage}]
    BY <1>10, <2>1 DEF RecvPop, AfterPop, Rest
  <2>4. /\ ret' = [ret EXCEPT ![r] = "message"]
        /\ recvCount' = recvCount + 1
        /\ UNCHANGED <<closed, sendCount, calls, timed, sent>>
    BY <1>10 DEF RecvPop, AfterPop, Rest
  <2> DEFINE label == IF Full THEN "recvNotify" ELSE "idle"
  <2>5. pc' = [pc EXCEPT ![r] = label] /\ label \in RecvPC
    BY <1>10 DEF RecvPop, AfterPop, Rest, Goto
  <2> HIDE DEF label
  <2>6. /\ pc' \in [Callers -> SendPC \cup RecvPC \cup ClosePC]
        /\ \A s \in Senders : pc'[s] = pc[s]
        /\ \A u \in Receivers : pc'[u] \in RecvPC
        /\ \A c \in Closers : pc'[c] = pc[c]
    BY <2>5
  <2>7. /\ ret' \in [Callers -> Results]
        /\ recvCount' \in Nat
        /\ CallNumbered'
    BY <2>4, <2>6
  <2>8. TypeOK'
    BY <2>2, <2>3, <2>4, <2>6, <2>7
  <2>9. QED
    BY <2>7, <2>8
<1>11. ASSUME NEW r \in Receivers, RecvNotify(r) PROVE TypeInv'
  <2>1. CASE Goto(r, "idle")
    BY <1>11, <2>1 DEF RecvNotify, Goto
  <2>2. CASE \E w \in SendWaiters : pc' = [pc EXCEPT ![r] = "idle", ![w] = "send"]
    <3>1. PICK w \in SendWaiters : pc' = [pc EXCEPT ![r] = "idle", ![w] = "send"]
      BY <2>2
    <3>2. w \in Senders /\ pc[w] = "sendWait"
      BY DEF SendWaiters
    <3>3. /\ pc' \in [Callers -> SendPC \cup RecvPC \cup ClosePC]
          /\ \A s \in Senders : pc'[s] \in SendPC /\ (pc'[s] # "idle" => pc[s] # "idle")
          /\ \A u \in Receivers : pc'[u] \in RecvPC
          /\ \A c \in Closers : pc'[c] \in ClosePC
      BY <3>1, <3>2
    <3>4. QED
      BY <1>11, <3>3 DEF RecvNotify
  <2>3. QED
    BY <1>11, <2>1, <2>2 DEF RecvNotify, NotifyOne
<1>12. ASSUME NEW r \in Receivers, RecvResume(r) PROVE TypeInv'
  BY <1>12 DEF RecvResume, Goto
<1>13. ASSUME NEW r \in Receivers, RecvTimeout(r) PROVE TypeInv'
  BY <1>13 DEF RecvTimeout, Return
<1>14. ASSUME NEW r \in Receivers, RecvSpurious(r) PROVE TypeInv'
  BY <1>14 DEF RecvSpurious, Goto
<1>15. ASSUME NEW r \in Receivers, HasNext(r) PROVE TypeInv'
  BY <1>15 DEF HasNext
<1>16. ASSUME NEW c \in Closers, CloseSet(c) PROVE TypeInv'
  BY <1>16 DEF CloseSet, Goto
<1>17. ASSUME NEW c \in Closers, CloseNotifyRecv(c) PROVE TypeInv'
  BY <1>17 DEF CloseNotifyRecv, NotifyAll, RecvWaiters
<1>18. ASSUME NEW c \in Closers, CloseNotifySend(c) PROVE TypeInv'
  BY <1>18 DEF CloseNotifySend, NotifyAll, SendWaiters
<1>19. CASE UNCHANGED vars
  BY <1>19 DEF vars
<1>20. QED
  BY <1>1, <1>2, <1>3, <1>4, <1>5, <1>6, <1>7, <1>8, <1>9, <1>10, <1>11, <1>12, <1>13, <1>14, <1>15, <1>16, <1>17, <1>18, <1>19
     DEF Next, SendStep, RecvStep, CloseStep

\* The type invariant and the numbering of the calls hold in every reachable
\* state, for any threads, capacity and number of calls.
THEOREM TypeCorrect == Spec => []TypeOK
<1>1. TypeInv /\ [Next]_vars => TypeInv'
  BY TypeStep
<1>2. Spec => []TypeInv
  BY TypeInit, <1>1, PTL DEF Spec
<1>3. TypeInv => TypeOK
  BY DEF TypeInv
<1>4. QED
  BY <1>2, <1>3, PTL

-----------------------------------------------------------------------------
(* Order, capacity and counters *)

DataUnchanged == UNCHANGED <<queue, sent, received, sendCount, recvCount>>

\* Only the push and the pop touch the queue, its history and its counters.
LEMMA DataFrame ==
  ASSUME [Next]_vars
  PROVE  \/ \E s \in Senders : SendPush(s)
         \/ \E r \in Receivers : RecvPop(r)
         \/ DataUnchanged
<1>1. CASE UNCHANGED vars
  BY <1>1 DEF vars, DataUnchanged
<1>2. ASSUME NEW s \in Senders, CallSend(s) \/ SendStep(s) \/ SendSpurious(s)
      PROVE  SendPush(s) \/ DataUnchanged
  BY <1>2 DEF CallSend, SendStep, SendWait, SendClosed, SendNotify, SendSpurious,
              DataUnchanged
<1>3. ASSUME NEW r \in Receivers,
             CallRecv(r) \/ RecvStep(r) \/ RecvTimeout(r) \/ RecvSpurious(r) \/ HasNext(r)
      PROVE  RecvPop(r) \/ DataUnchanged
  BY <1>3 DEF CallRecv, RecvStep, RecvWait, RecvNil, RecvNotify, RecvResume,
              RecvTimeout, RecvSpurious, HasNext, DataUnchanged
<1>4. ASSUME NEW c \in Closers, CloseSet(c) \/ CloseStep(c)
      PROVE  DataUnchanged
  BY <1>4 DEF CloseSet, CloseStep, CloseNotifyRecv, CloseNotifySend, DataUnchanged
<1>5. QED
  BY <1>1, <1>2, <1>3, <1>4 DEF Next

DataInv == FifoDelivery /\ CapacityBound /\ StatsConsistent

LEMMA DataInit == Init => DataInv
<1> SUFFICES ASSUME Init PROVE DataInv
  OBVIOUS
<1>1. sent = received \o queue
  BY EmptySeq, ConcatEmptySeq DEF Init
<1>2. Len(queue) = 0
  BY EmptySeq DEF Init
<1>3. QED
  BY <1>1, <1>2, ChannelAssumption
     DEF Init, DataInv, FifoDelivery, CapacityBound, StatsConsistent

LEMMA DataStep == TypeInv /\ DataInv /\ [Next]_vars => DataInv'
<1> SUFFICES ASSUME TypeInv, DataInv, [Next]_vars PROVE DataInv'
  OBVIOUS
<1> USE DEF DataInv, FifoDelivery, CapacityBound, StatsConsistent
<1>1. /\ queue \in Seq(Messages) /\ received \in Seq(Messages)
      /\ sendCount \in Nat /\ recvCount \in Nat
  BY DEF TypeInv, TypeOK
<1>2. Len(queue) \in Nat
  BY <1>1, LenProperties
<1>3. ASSUME NEW s \in Senders, SendPush(s) PROVE DataInv'
  <2> DEFINE m == <<s, calls[s]>>
  <2>1. m \in Messages
    BY <1>3 DEF SendPush, Admits, AfterPush, TypeInv, CallNumbered, Messages
  <2>2. /\ ~Full /\ queue' = Append(queue, m) /\ sent' = Append(sent, m)
        /\ sendCount' = sendCount + 1 /\ UNCHANGED <<recvCount, received>>
    BY <1>3 DEF SendPush, Admits, AfterPush
  <2> HIDE DEF m
  <2>3. Len(queue') = Len(queue) + 1
    BY <1>1, <2>1, <2>2, AppendProperties
  <2>4. FifoDelivery'
    BY <1>1, <2>1, <2>2, PushConcat
  <2>5. CapacityBound' /\ StatsConsistent'
    BY <1>1, <1>2, <2>2, <2>3, ChannelAssumption DEF Full
  <2>6. QED
    BY <2>4, <2>5
<1>4. ASSUME NEW r \in Receivers, RecvPop(r) PROVE DataInv'
  <2>1. /\ queue # <<>> /\ queue' = Tail(queue)
        /\ received' = Append(received, Head(queue))
        /\ recvCount' = recvCount + 1 /\ UNCHANGED <<sendCount, sent>>
    BY <1>4 DEF RecvPop, AfterPop, Rest
  <2>2. Len(queue') = Len(queue) - 1
    BY <1>1, <2>1, HeadTailProperties
  <2>3. FifoDelivery'
    BY <1>1, <2>1, PopConcat
  <2>4. CapacityBound' /\ StatsConsistent'
    BY <1>1, <1>2, <2>1, <2>2, ChannelAssumption
  <2>5. QED
    BY <2>3, <2>4
<1>5. CASE DataUnchanged
  BY <1>5 DEF DataUnchanged
<1>6. QED
  BY <1>3, <1>4, <1>5, DataFrame

LEMMA DataCorrect == Spec => []DataInv
<1>1. Init => TypeInv /\ DataInv
  BY TypeInit, DataInit
<1>2. (TypeInv /\ DataInv) /\ [Next]_vars => (TypeInv /\ DataInv)'
  BY TypeStep, DataStep
<1>3. QED
  BY <1>1, <1>2, PTL DEF Spec

\* No message is lost, duplicated or overtaken, whatever the number of
\* senders and receivers and the order of their steps.
THEOREM FifoCorrect == Spec => []FifoDelivery
<1>1. DataInv => FifoDelivery
  BY DEF DataInv
<1>2. QED
  BY <1>1, DataCorrect, PTL

\* A bounded channel never holds more messages than its capacity.
THEOREM CapacityCorrect == Spec => []CapacityBound
<1>1. DataInv => CapacityBound
  BY DEF DataInv
<1>2. QED
  BY <1>1, DataCorrect, PTL

\* The counters stats() reports agree with the queue size it reports.
THEOREM StatsCorrect == Spec => []StatsConsistent
<1>1. DataInv => StatsConsistent
  BY DEF DataInv
<1>2. QED
  BY <1>1, DataCorrect, PTL

-----------------------------------------------------------------------------
(* The end of a channel *)

\* A closed channel stays closed and takes no message.
LEMMA ClosedStep == TypeInv /\ [Next]_vars => (closed => closed' /\ sent' = sent)
<1> SUFFICES ASSUME TypeInv, [Next]_vars, closed PROVE closed' /\ sent' = sent
  OBVIOUS
<1>1. ASSUME NEW s \in Senders, CallSend(s) \/ SendStep(s) \/ SendSpurious(s)
      PROVE  closed' /\ sent' = sent
  BY <1>1 DEF CallSend, SendStep, SendWait, SendClosed, SendPush, Admits, AfterPush, SendNotify, SendSpurious
<1>2. ASSUME NEW r \in Receivers,
             CallRecv(r) \/ RecvStep(r) \/ RecvTimeout(r) \/ RecvSpurious(r) \/ HasNext(r)
      PROVE  closed' /\ sent' = sent
  BY <1>2 DEF CallRecv, RecvStep, RecvWait, RecvNil, RecvPop, AfterPop, Rest, RecvNotify, RecvResume,
              RecvTimeout, RecvSpurious, HasNext
<1>3. ASSUME NEW c \in Closers, CloseSet(c) \/ CloseStep(c)
      PROVE  closed' /\ sent' = sent
  BY <1>3 DEF CloseSet, CloseStep, CloseNotifyRecv, CloseNotifySend
<1>4. CASE UNCHANGED vars
  BY <1>4 DEF vars
<1>5. QED
  BY <1>1, <1>2, <1>3, <1>4 DEF Next

\* close() is for good: the action property of the runs.
THEOREM ClosedForGoodCorrect == Spec => ClosedForGood
<1>1. TypeInv /\ [Next]_vars => [closed => closed' /\ sent' = sent]_vars
  BY ClosedStep
<1>2. QED
  BY TypeInit, TypeStep, <1>1, PTL DEF Spec, ClosedForGood

\* Once closed and empty, always closed and empty.
LEMMA DrainedStep ==
  ASSUME TypeInv, [Next]_vars, closed, queue = <<>>
  PROVE  closed' /\ queue' = <<>>
<1>1. closed'
  BY ClosedStep
<1>2. ASSUME NEW s \in Senders PROVE ~SendPush(s)
  BY DEF SendPush, Admits, AfterPush
<1>3. ASSUME NEW r \in Receivers PROVE ~RecvPop(r)
  BY DEF RecvPop, AfterPop, Rest
<1>4. queue' = queue
  BY <1>2, <1>3, DataFrame DEF DataUnchanged
<1>5. QED
  BY <1>1, <1>4

LEMMA EndStep == TypeInv /\ EndIsFinal /\ [Next]_vars => EndIsFinal'
<1> SUFFICES ASSUME TypeInv, EndIsFinal, [Next]_vars,
                    NEW r \in Receivers, ret'[r] \in {"nil", "noNext"}
             PROVE  closed' /\ queue' = <<>>
  BY DEF EndIsFinal
<1>1. ret \in [Callers -> Results] /\ r \in Callers
  BY DEF TypeInv, TypeOK, Callers
<1>2. CASE ret[r] \in {"nil", "noNext"}
  BY <1>2, DrainedStep DEF EndIsFinal
<1>3. CASE ret[r] \notin {"nil", "noNext"}
  <2>1. ret'[r] # ret[r]
    BY <1>3
  <2>2. ASSUME NEW s \in Senders, CallSend(s) \/ SendStep(s) \/ SendSpurious(s) PROVE FALSE
    BY <1>1, <2>1, <2>2, ChannelAssumption
       DEF CallSend, SendStep, SendWait, SendClosed, SendPush, Admits, AfterPush, SendNotify, SendSpurious, Return
  <2>3. ASSUME NEW c \in Closers, CloseSet(c) \/ CloseStep(c) PROVE FALSE
    BY <1>1, <2>1, <2>3, ChannelAssumption
       DEF CloseSet, CloseStep, CloseNotifyRecv, CloseNotifySend
  <2>4. ASSUME NEW u \in Receivers,
               CallRecv(u) \/ RecvWait(u) \/ RecvPop(u) \/ RecvNotify(u) \/ RecvResume(u)
                 \/ RecvTimeout(u) \/ RecvSpurious(u)
        PROVE  FALSE
    BY <1>1, <2>1, <2>4
       DEF CallRecv, RecvWait, RecvPop, AfterPop, Rest, RecvNotify, RecvResume, RecvTimeout, RecvSpurious, Return
  <2>5. ASSUME NEW u \in Receivers, RecvNil(u) \/ HasNext(u) PROVE closed' /\ queue' = <<>>
    <3>1. CASE u = r
      BY <1>1, <2>5, <3>1 DEF RecvNil, HasNext, TypeInv, TypeOK
    <3>2. CASE u # r
      BY <1>1, <2>1, <2>5, <3>2 DEF RecvNil, HasNext, Return
    <3>3. QED
      BY <3>1, <3>2
  <2>6. CASE UNCHANGED vars
    BY <2>1, <2>6 DEF vars
  <2>7. QED
    BY <2>2, <2>3, <2>4, <2>5, <2>6 DEF Next, RecvStep
<1>4. QED
  BY <1>2, <1>3

\* nil from recv() and false from has_next() are final.
THEOREM EndIsFinalCorrect == Spec => []EndIsFinal
<1>1. Init => EndIsFinal
  BY DEF Init, EndIsFinal, Callers
<1>2. QED
  BY TypeInit, TypeStep, <1>1, EndStep, PTL DEF Spec

-----------------------------------------------------------------------------
(* Wakeups *)

LEMMA PcType ==
  ASSUME TypeInv
  PROVE  /\ pc \in [Callers -> SendPC \cup RecvPC \cup ClosePC]
         /\ \A u \in Senders : u \in Callers /\ pc[u] \in SendPC
         /\ \A u \in Receivers : u \in Callers /\ pc[u] \in RecvPC
         /\ \A u \in Closers : u \in Callers /\ pc[u] \in ClosePC
         /\ \A u \in Callers : u \in Senders \/ u \in Receivers \/ u \in Closers
BY DEF TypeInv, TypeOK, Callers

\* A receiver blocked on a closed channel is still going to be notified.
LEMMA ReleaseRecvStep ==
  ASSUME TypeInv, CloseReleasesAll, [Next]_vars,
         NEW w \in Receivers, closed', pc'[w] = "recvWait"
  PROVE  \E c \in Closers : pc'[c] = "closeRecv"
<1> DEFINE Goal == \E c \in Closers : pc'[c] = "closeRecv"
<1> USE PcType, ChannelAssumption DEF SendPC, RecvPC, ClosePC, CloseReleasesAll, RecvWaiters
<1>1. ASSUME NEW s \in Senders, CallSend(s) PROVE Goal
  BY <1>1 DEF CallSend, Goto
<1>2. ASSUME NEW s \in Senders, SendWait(s) PROVE Goal
  BY <1>2 DEF SendWait, Goto
<1>3. ASSUME NEW s \in Senders, SendClosed(s) PROVE Goal
  BY <1>3 DEF SendClosed, Return
<1>4. ASSUME NEW s \in Senders, SendPush(s) PROVE Goal
  BY <1>4 DEF SendPush, Admits, AfterPush, Goto
<1>5. ASSUME NEW s \in Senders, SendNotify(s) PROVE Goal
  BY <1>5 DEF SendNotify, NotifyOne, RecvWaiters, Goto
<1>6. ASSUME NEW s \in Senders, SendSpurious(s) PROVE Goal
  BY <1>6 DEF SendSpurious, Goto
<1>7. ASSUME NEW r \in Receivers, CallRecv(r) PROVE Goal
  BY <1>7 DEF CallRecv, Goto
<1>8. ASSUME NEW r \in Receivers, RecvWait(r) PROVE Goal
  BY <1>8 DEF RecvWait, Goto
<1>9. ASSUME NEW r \in Receivers, RecvNil(r) PROVE Goal
  BY <1>9 DEF RecvNil, Return
<1>10. ASSUME NEW r \in Receivers, RecvPop(r) PROVE Goal
  BY <1>10 DEF RecvPop, AfterPop, Rest, Goto
<1>11. ASSUME NEW r \in Receivers, RecvNotify(r) PROVE Goal
  BY <1>11 DEF RecvNotify, NotifyOne, SendWaiters, Goto
<1>12. ASSUME NEW r \in Receivers, RecvResume(r) PROVE Goal
  BY <1>12 DEF RecvResume, Goto
<1>13. ASSUME NEW r \in Receivers, RecvTimeout(r) PROVE Goal
  BY <1>13 DEF RecvTimeout, Return
<1>14. ASSUME NEW r \in Receivers, RecvSpurious(r) PROVE Goal
  BY <1>14 DEF RecvSpurious, Goto
<1>15. ASSUME NEW r \in Receivers, HasNext(r) PROVE Goal
  BY <1>15 DEF HasNext
<1>16. ASSUME NEW c \in Closers, CloseSet(c) PROVE Goal
  BY <1>16 DEF CloseSet, Goto
<1>17. ASSUME NEW c \in Closers, CloseNotifyRecv(c) PROVE Goal
  BY <1>17 DEF CloseNotifyRecv, NotifyAll, RecvWaiters
<1>18. ASSUME NEW c \in Closers, CloseNotifySend(c) PROVE Goal
  BY <1>18 DEF CloseNotifySend, NotifyAll, SendWaiters
<1>19. CASE UNCHANGED vars
  BY <1>19 DEF vars
<1>20. QED
  BY <1>1, <1>2, <1>3, <1>4, <1>5, <1>6, <1>7, <1>8, <1>9, <1>10, <1>11, <1>12, <1>13, <1>14, <1>15, <1>16, <1>17, <1>18, <1>19
     DEF Next, SendStep, RecvStep, CloseStep

\* The same for a sender, whose notification comes second.
LEMMA ReleaseSendStep ==
  ASSUME TypeInv, CloseReleasesAll, [Next]_vars,
         NEW w \in Senders, closed', pc'[w] = "sendWait"
  PROVE  \E c \in Closers : pc'[c] \in {"closeRecv", "closeSend"}
<1> DEFINE Goal == \E c \in Closers : pc'[c] \in {"closeRecv", "closeSend"}
<1> USE PcType, ChannelAssumption DEF SendPC, RecvPC, ClosePC, CloseReleasesAll, SendWaiters
<1>1. ASSUME NEW s \in Senders, CallSend(s) PROVE Goal
  BY <1>1 DEF CallSend, Goto
<1>2. ASSUME NEW s \in Senders, SendWait(s) PROVE Goal
  BY <1>2 DEF SendWait, Goto
<1>3. ASSUME NEW s \in Senders, SendClosed(s) PROVE Goal
  BY <1>3 DEF SendClosed, Return
<1>4. ASSUME NEW s \in Senders, SendPush(s) PROVE Goal
  BY <1>4 DEF SendPush, Admits, AfterPush, Goto
<1>5. ASSUME NEW s \in Senders, SendNotify(s) PROVE Goal
  BY <1>5 DEF SendNotify, NotifyOne, RecvWaiters, Goto
<1>6. ASSUME NEW s \in Senders, SendSpurious(s) PROVE Goal
  BY <1>6 DEF SendSpurious, Goto
<1>7. ASSUME NEW r \in Receivers, CallRecv(r) PROVE Goal
  BY <1>7 DEF CallRecv, Goto
<1>8. ASSUME NEW r \in Receivers, RecvWait(r) PROVE Goal
  BY <1>8 DEF RecvWait, Goto
<1>9. ASSUME NEW r \in Receivers, RecvNil(r) PROVE Goal
  BY <1>9 DEF RecvNil, Return
<1>10. ASSUME NEW r \in Receivers, RecvPop(r) PROVE Goal
  BY <1>10 DEF RecvPop, AfterPop, Rest, Goto
<1>11. ASSUME NEW r \in Receivers, RecvNotify(r) PROVE Goal
  BY <1>11 DEF RecvNotify, NotifyOne, SendWaiters, Goto
<1>12. ASSUME NEW r \in Receivers, RecvResume(r) PROVE Goal
  BY <1>12 DEF RecvResume, Goto
<1>13. ASSUME NEW r \in Receivers, RecvTimeout(r) PROVE Goal
  BY <1>13 DEF RecvTimeout, Return
<1>14. ASSUME NEW r \in Receivers, RecvSpurious(r) PROVE Goal
  BY <1>14 DEF RecvSpurious, Goto
<1>15. ASSUME NEW r \in Receivers, HasNext(r) PROVE Goal
  BY <1>15 DEF HasNext
<1>16. ASSUME NEW c \in Closers, CloseSet(c) PROVE Goal
  BY <1>16 DEF CloseSet, Goto
<1>17. ASSUME NEW c \in Closers, CloseNotifyRecv(c) PROVE Goal
  BY <1>17 DEF CloseNotifyRecv, NotifyAll, RecvWaiters
<1>18. ASSUME NEW c \in Closers, CloseNotifySend(c) PROVE Goal
  BY <1>18 DEF CloseNotifySend, NotifyAll, SendWaiters
<1>19. CASE UNCHANGED vars
  BY <1>19 DEF vars
<1>20. QED
  BY <1>1, <1>2, <1>3, <1>4, <1>5, <1>6, <1>7, <1>8, <1>9, <1>10, <1>11, <1>12, <1>13, <1>14, <1>15, <1>16, <1>17, <1>18, <1>19
     DEF Next, SendStep, RecvStep, CloseStep

\* close() releases every thread that was blocked when it was called.
THEOREM CloseReleasesAllCorrect == Spec => []CloseReleasesAll
<1>1. Init => CloseReleasesAll
  BY DEF Init, CloseReleasesAll
<1>2. TypeInv /\ CloseReleasesAll /\ [Next]_vars => CloseReleasesAll'
  BY ReleaseRecvStep, ReleaseSendStep DEF CloseReleasesAll, RecvWaiters, SendWaiters
<1>3. QED
  BY TypeInit, TypeStep, <1>1, <1>2, PTL DEF Spec

\* The two halves of NoLostWakeup.  A queue that has just become non-empty is
\* owed a notification by the sender that pushed; the receiver it wakes does not
\* go back to sleep before the queue is empty again, so that while messages lie
\* in it not all receivers sleep.  The same of the senders and the free slots.
RecvOwed ==
    Receivers # {} /\ (\A r \in Receivers : OversleptRecv(r)) =>
        \E t \in Callers : pc[t] \in {"sendNotify", "closeRecv"}
SendOwed ==
    Senders # {} /\ (\A s \in Senders : Overslept(s)) =>
        \E t \in Callers : pc[t] \in {"recvNotify", "closeRecv", "closeSend"}

LEMMA RecvOwedStep ==
  ASSUME TypeInv, RecvOwed, [Next]_vars,
         NEW w \in Receivers, \A r \in Receivers : pc'[r] = "recvWait", queue' # <<>>
  PROVE  \E t \in Callers : pc'[t] \in {"sendNotify", "closeRecv"}
<1> DEFINE Goal == \E t \in Callers : pc'[t] \in {"sendNotify", "closeRecv"}
<1> USE PcType, ChannelAssumption DEF SendPC, RecvPC, ClosePC, RecvOwed, OversleptRecv, RecvWaiters
<1>1. ASSUME NEW s \in Senders, CallSend(s) PROVE Goal
  BY <1>1 DEF CallSend, Goto
<1>2. ASSUME NEW s \in Senders, SendWait(s) PROVE Goal
  BY <1>2 DEF SendWait, Goto
<1>3. ASSUME NEW s \in Senders, SendClosed(s) PROVE Goal
  BY <1>3 DEF SendClosed, Return
<1>4. ASSUME NEW s \in Senders, SendPush(s) PROVE Goal
  BY <1>4 DEF SendPush, Admits, AfterPush, Goto
<1>5. ASSUME NEW s \in Senders, SendNotify(s) PROVE Goal
  BY <1>5 DEF SendNotify, NotifyOne, RecvWaiters, Goto
<1>6. ASSUME NEW s \in Senders, SendSpurious(s) PROVE Goal
  BY <1>6 DEF SendSpurious, Goto
<1>7. ASSUME NEW r \in Receivers, CallRecv(r) PROVE Goal
  BY <1>7 DEF CallRecv, Goto
<1>8. ASSUME NEW r \in Receivers, RecvWait(r) PROVE Goal
  BY <1>8 DEF RecvWait, Goto
<1>9. ASSUME NEW r \in Receivers, RecvNil(r) PROVE Goal
  BY <1>9 DEF RecvNil, Return
<1>10. ASSUME NEW r \in Receivers, RecvPop(r) PROVE Goal
  BY <1>10 DEF RecvPop, AfterPop, Rest, Goto
<1>11. ASSUME NEW r \in Receivers, RecvNotify(r) PROVE Goal
  BY <1>11 DEF RecvNotify, NotifyOne, SendWaiters, Goto
<1>12. ASSUME NEW r \in Receivers, RecvResume(r) PROVE Goal
  BY <1>12 DEF RecvResume, Goto
<1>13. ASSUME NEW r \in Receivers, RecvTimeout(r) PROVE Goal
  BY <1>13 DEF RecvTimeout, Return
<1>14. ASSUME NEW r \in Receivers, RecvSpurious(r) PROVE Goal
  BY <1>14 DEF RecvSpurious, Goto
<1>15. ASSUME NEW r \in Receivers, HasNext(r) PROVE Goal
  BY <1>15 DEF HasNext
<1>16. ASSUME NEW c \in Closers, CloseSet(c) PROVE Goal
  BY <1>16 DEF CloseSet, Goto
<1>17. ASSUME NEW c \in Closers, CloseNotifyRecv(c) PROVE Goal
  BY <1>17 DEF CloseNotifyRecv, NotifyAll, RecvWaiters
<1>18. ASSUME NEW c \in Closers, CloseNotifySend(c) PROVE Goal
  BY <1>18 DEF CloseNotifySend, NotifyAll, SendWaiters
<1>19. CASE UNCHANGED vars
  BY <1>19 DEF vars
<1>20. QED
  BY <1>1, <1>2, <1>3, <1>4, <1>5, <1>6, <1>7, <1>8, <1>9, <1>10, <1>11, <1>12, <1>13, <1>14, <1>15, <1>16, <1>17, <1>18, <1>19
     DEF Next, SendStep, RecvStep, CloseStep

LEMMA SendOwedStep ==
  ASSUME TypeInv, SendOwed, [Next]_vars,
         NEW w \in Senders, \A s \in Senders : pc'[s] = "sendWait", ~Full'
  PROVE  \E t \in Callers : pc'[t] \in {"recvNotify", "closeRecv", "closeSend"}
<1> DEFINE Goal == \E t \in Callers : pc'[t] \in {"recvNotify", "closeRecv", "closeSend"}
<1> USE PcType, ChannelAssumption DEF SendPC, RecvPC, ClosePC, SendOwed, Overslept, SendWaiters, Full
<1>1. ASSUME NEW s \in Senders, CallSend(s) PROVE Goal
  BY <1>1 DEF CallSend, Goto
<1>2. ASSUME NEW s \in Senders, SendWait(s) PROVE Goal
  BY <1>2 DEF SendWait, Goto
<1>3. ASSUME NEW s \in Senders, SendClosed(s) PROVE Goal
  BY <1>3 DEF SendClosed, Return
<1>4. ASSUME NEW s \in Senders, SendPush(s) PROVE Goal
  BY <1>4 DEF SendPush, Admits, AfterPush, Goto
<1>5. ASSUME NEW s \in Senders, SendNotify(s) PROVE Goal
  BY <1>5 DEF SendNotify, NotifyOne, RecvWaiters, Goto
<1>6. ASSUME NEW s \in Senders, SendSpurious(s) PROVE Goal
  BY <1>6 DEF SendSpurious, Goto
<1>7. ASSUME NEW r \in Receivers, CallRecv(r) PROVE Goal
  BY <1>7 DEF CallRecv, Goto
<1>8. ASSUME NEW r \in Receivers, RecvWait(r) PROVE Goal
  BY <1>8 DEF RecvWait, Goto
<1>9. ASSUME NEW r \in Receivers, RecvNil(r) PROVE Goal
  BY <1>9 DEF RecvNil, Return
<1>10. ASSUME NEW r \in Receivers, RecvPop(r) PROVE Goal
  BY <1>10 DEF RecvPop, AfterPop, Rest, Goto
<1>11. ASSUME NEW r \in Receivers, RecvNotify(r) PROVE Goal
  BY <1>11 DEF RecvNotify, NotifyOne, SendWaiters, Goto
<1>12. ASSUME NEW r \in Receivers, RecvResume(r) PROVE Goal
  BY <1>12 DEF RecvResume, Goto
<1>13. ASSUME NEW r \in Receivers, RecvTimeout(r) PROVE Goal
  BY <1>13 DEF RecvTimeout, Return
<1>14. ASSUME NEW r \in Receivers, RecvSpurious(r) PROVE Goal
  BY <1>14 DEF RecvSpurious, Goto
<1>15. ASSUME NEW r \in Receivers, HasNext(r) PROVE Goal
  BY <1>15 DEF HasNext
<1>16. ASSUME NEW c \in Closers, CloseSet(c) PROVE Goal
  BY <1>16 DEF CloseSet, Goto
<1>17. ASSUME NEW c \in Closers, CloseNotifyRecv(c) PROVE Goal
  BY <1>17 DEF CloseNotifyRecv, NotifyAll, RecvWaiters
<1>18. ASSUME NEW c \in Closers, CloseNotifySend(c) PROVE Goal
  BY <1>18 DEF CloseNotifySend, NotifyAll, SendWaiters
<1>19. CASE UNCHANGED vars
  BY <1>19 DEF vars
<1>20. QED
  BY <1>1, <1>2, <1>3, <1>4, <1>5, <1>6, <1>7, <1>8, <1>9, <1>10, <1>11, <1>12, <1>13, <1>14, <1>15, <1>16, <1>17, <1>18, <1>19
     DEF Next, SendStep, RecvStep, CloseStep

\* The receivers do not all sleep on messages, nor the senders on free slots,
\* for every capacity, any number of threads, with or without timeouts.
THEOREM NoLostWakeupCorrect == Spec => []NoLostWakeup
<1>1. Init => RecvOwed /\ SendOwed
  BY DEF Init, RecvOwed, SendOwed, Overslept, OversleptRecv, Callers
<1>2. TypeInv /\ (RecvOwed /\ SendOwed) /\ [Next]_vars => (RecvOwed /\ SendOwed)'
  <2>1. TypeInv /\ RecvOwed /\ [Next]_vars => RecvOwed'
    BY RecvOwedStep DEF RecvOwed, OversleptRecv
  <2>2. TypeInv /\ SendOwed /\ [Next]_vars => SendOwed'
    BY SendOwedStep DEF SendOwed, Overslept
  <2>3. QED
    BY <2>1, <2>2
<1>3. RecvOwed /\ SendOwed => NoLostWakeup
  BY DEF RecvOwed, SendOwed, NoLostWakeup
<1>4. QED
  BY TypeInit, TypeStep, <1>1, <1>2, <1>3, PTL DEF Spec

-----------------------------------------------------------------------------
(* Refinement *)

LEMMA HeadIsNext ==
  ASSUME TypeInv, DataInv, queue # <<>>
  PROVE  /\ Len(received) < Len(sent)
         /\ sent[Len(received) + 1] = Head(queue)
<1>1. queue \in Seq(Messages) /\ received \in Seq(Messages)
  BY DEF TypeInv, TypeOK
<1>2. Len(queue) \in Nat \ {0} /\ Len(received) \in Nat
  BY <1>1, EmptySeq, LenProperties
<1>3. sent = received \o queue
  BY DEF DataInv, FifoDelivery
<1>4. Len(sent) = Len(received) + Len(queue)
  BY <1>1, <1>3, ConcatProperties
<1>5. sent[Len(received) + 1] = queue[1]
  BY <1>1, <1>2, <1>3, ConcatProperties
<1>6. QED
  BY <1>2, <1>4, <1>5

LEMMA RefineStep == TypeInv /\ DataInv /\ [Next]_vars => [Fifo!FifoNext]_(Fifo!fifoVars)
<1> SUFFICES ASSUME TypeInv, DataInv, [Next]_vars
             PROVE  [Fifo!FifoNext]_(Fifo!fifoVars)
  OBVIOUS
<1> USE DEF Fifo!fifoVars
<1>1. ASSUME NEW s \in Senders, SendPush(s) PROVE Fifo!Put
  <2>1. queue \in Seq(Messages) /\ received \in Seq(Messages)
    BY DEF TypeInv, TypeOK
  <2>2. Len(queue) \in Nat /\ Len(received) \in Nat
    BY <2>1, LenProperties
  <2>3. Len(sent) = Len(received) + Len(queue)
    BY <2>1, ConcatProperties DEF DataInv, FifoDelivery
  <2>4. <<s, calls[s]>> \in Messages
    BY <1>1 DEF SendPush, Admits, AfterPush, TypeInv, CallNumbered, Messages
  <2>5. Capacity > 0 => Len(sent) - Len(received) < Capacity
    BY <1>1, <2>2, <2>3, ChannelAssumption DEF SendPush, Admits, AfterPush, Full
  <2>6. QED
    BY <1>1, <2>4, <2>5 DEF SendPush, Admits, AfterPush, Fifo!Put
<1>2. ASSUME NEW r \in Receivers, RecvPop(r) PROVE Fifo!Take
  BY <1>2, HeadIsNext DEF RecvPop, AfterPop, Rest, Fifo!Take
<1>3. ASSUME NEW s \in Senders, CallSend(s) \/ SendStep(s) \/ SendSpurious(s), ~SendPush(s)
      PROVE  UNCHANGED <<sent, received, closed>>
  BY <1>3 DEF CallSend, SendStep, SendWait, SendClosed, SendNotify, SendSpurious
<1>4. ASSUME NEW r \in Receivers, ~RecvPop(r),
             CallRecv(r) \/ RecvStep(r) \/ RecvTimeout(r) \/ RecvSpurious(r) \/ HasNext(r)
      PROVE  UNCHANGED <<sent, received, closed>>
  BY <1>4 DEF CallRecv, RecvStep, RecvWait, RecvNil, RecvNotify, RecvResume,
              RecvTimeout, RecvSpurious, HasNext
<1>5. ASSUME NEW c \in Closers, CloseSet(c) PROVE Fifo!Shut
  BY <1>5 DEF CloseSet, Fifo!Shut
<1>6. ASSUME NEW c \in Closers, CloseStep(c) PROVE UNCHANGED <<sent, received, closed>>
  BY <1>6 DEF CloseStep, CloseNotifyRecv, CloseNotifySend
<1>7. CASE UNCHANGED vars
  BY <1>7 DEF vars
<1>8. QED
  BY <1>1, <1>2, <1>3, <1>4, <1>5, <1>6, <1>7 DEF Next, Fifo!FifoNext

\* The channel implements the bounded FIFO, for every capacity.
THEOREM ImplementsFifoCorrect == Spec => ImplementsFifo
<1>1. Init => Fifo!FifoInit
  BY DEF Init, Fifo!FifoInit
<1>2. QED
  BY TypeInit, TypeStep, DataInit, DataStep, <1>1, RefineStep, PTL
     DEF Spec, ImplementsFifo, Fifo!FifoSpec

-----------------------------------------------------------------------------
(* The loops over a channel: one that ends has left nothing behind, and    *)
(* together they see each message once.  A step of the loops is a step of  *)
(* Channel, whose invariants carry over.                                   *)

Receiving == {"recv", "recvWait", "recvWoken"}
Sending == {"send", "sendWait"}

\* A loop that is over is out of recv(), which has returned None to it if it has
\* ended; a recv() under way has returned nothing yet.
LoopInv ==
    \A r \in Receivers :
        /\ loop[r] # "running" => pc[r] = "idle"
        /\ loop[r] = "ended" => GotNone(r)
        /\ pc[r] \in Receiving => ret[r] = "none"

\* No message is pushed twice: what a sender is about to push has a number it
\* has not used.
SentInv ==
    /\ \A i \in 1..Len(sent) :
          /\ sent[i][2] <= calls[sent[i][1]]
          /\ pc[sent[i][1]] \in Sending => sent[i][2] < calls[sent[i][1]]
    /\ \A i, j \in 1..Len(sent) : sent[i] = sent[j] => i = j

\* The messages that were popped, and the loops that have one at hand, which a
\* loop that was left has not: its body has seen it.
Received == {received[i] : i \in 1..Len(received)}
Holding(r) == ret[r] = "message" /\ loop[r] # "left"
Turns(r) == 1..Len(consumed[r])

\* A message that was popped is at hand in one loop or was seen by one body, in
\* one turn.
SeenInv ==
    /\ \A r \in Receivers : Holding(r) => item[r] \in Received
    /\ \A r, u \in Receivers : Holding(r) /\ Holding(u) /\ item[r] = item[u] => r = u
    /\ \A r, u \in Receivers : \A j \in Turns(u) : Holding(r) => consumed[u][j] # item[r]
    /\ \A u \in Receivers : \A j \in Turns(u) : consumed[u][j] \in Received
    /\ \A r, u \in Receivers : \A j \in Turns(r), k \in Turns(u) :
          consumed[r][j] = consumed[u][k] => r = u /\ j = k
    /\ \A m \in Received : \/ \E r \in Receivers : Holding(r) /\ item[r] = m
                           \/ \E u \in Receivers : \E j \in Turns(u) : consumed[u][j] = m

\* A body has not seen more messages than were popped.
LengthInv ==
    \A r \in Receivers : /\ Len(consumed[r]) <= Len(received)
                         /\ Holding(r) => Len(consumed[r]) < Len(received)

StreamTypeInv == TypeInv /\ StreamTypeOK
ChannelInv == DataInv /\ EndIsFinal /\ SentInv
StreamInv == StreamTypeInv /\ ChannelInv /\ LoopInv /\ SeenInv /\ LengthInv
-----------------------------------------------------------------------------
(* The channel under the loops *)

\* Whatever the program does to its channel, the channel could do by itself.
LEMMA StreamStep ==
  ASSUME [StreamNext]_streamVars
  PROVE  [Next]_vars
<1>1. ASSUME NEW r \in Receivers, Turn(r) \/ Runtime(r) PROVE [Next]_vars
  BY <1>1 DEF Turn, LoopTurn, LoopLeave, LoopEnd, Runtime, Next, RecvStep
<1>2. ASSUME NEW s \in Senders, Produce(s) PROVE [Next]_vars
  BY <1>2 DEF Produce, Next
<1>3. ASSUME NEW c \in Closers, Close(c) PROVE [Next]_vars
  BY <1>3 DEF Close, CloseAfterProducers, Next
<1>4. CASE Spurious
  BY <1>4 DEF Spurious, Next
<1>5. CASE UNCHANGED streamVars
  BY <1>5 DEF streamVars
<1>6. QED
  BY <1>1, <1>2, <1>3, <1>4, <1>5 DEF StreamNext

\* Apart from a call and a push, no sender comes closer to pushing.
LEMMA SendersFrame ==
  ASSUME TypeInv, [Next]_vars
  PROVE  \/ \E s \in Senders : CallSend(s) \/ SendPush(s)
         \/ /\ UNCHANGED <<calls, sent>>
            /\ \A s \in Senders : pc'[s] \in Sending => pc[s] \in Sending
<1> DEFINE Goal == /\ UNCHANGED <<calls, sent>>
                   /\ \A s \in Senders : pc'[s] \in Sending => pc[s] \in Sending
<1> USE PcType, ChannelAssumption DEF SendPC, RecvPC, ClosePC, Sending
<1>1. ASSUME NEW s \in Senders, SendWait(s) \/ SendClosed(s) \/ SendSpurious(s) PROVE Goal
  BY <1>1 DEF SendWait, SendClosed, SendSpurious, Goto, Return
<1>2. ASSUME NEW s \in Senders, SendNotify(s) PROVE Goal
  BY <1>2 DEF SendNotify, NotifyOne, RecvWaiters, Goto
<1>3. ASSUME NEW r \in Receivers,
             CallRecv(r) \/ RecvWait(r) \/ RecvNil(r) \/ RecvResume(r) \/ RecvTimeout(r)
               \/ RecvSpurious(r) \/ HasNext(r)
      PROVE  Goal
  BY <1>3 DEF CallRecv, RecvWait, RecvNil, RecvResume, RecvTimeout, RecvSpurious, HasNext,
              Goto, Return
<1>4. ASSUME NEW r \in Receivers, RecvPop(r) PROVE Goal
  BY <1>4 DEF RecvPop, AfterPop, Rest, Goto
<1>5. ASSUME NEW r \in Receivers, RecvNotify(r) PROVE Goal
  BY <1>5 DEF RecvNotify, NotifyOne, SendWaiters, Goto
<1>6. ASSUME NEW c \in Closers, CloseSet(c) PROVE Goal
  BY <1>6 DEF CloseSet, Goto
<1>7. ASSUME NEW c \in Closers, CloseNotifyRecv(c) \/ CloseNotifySend(c) PROVE Goal
  BY <1>7 DEF CloseNotifyRecv, CloseNotifySend, NotifyAll, RecvWaiters, SendWaiters
<1>8. CASE UNCHANGED vars
  BY <1>8 DEF vars
<1>9. QED
  BY <1>1, <1>2, <1>3, <1>4, <1>5, <1>6, <1>7, <1>8 DEF Next, SendStep, RecvStep, CloseStep

\* A message is a sender and a number.
LEMMA SentTyped ==
  ASSUME TypeInv
  PROVE  /\ sent \in Seq(Messages) /\ Len(sent) \in Nat
         /\ \A i \in 1..Len(sent) : /\ sent[i][1] \in Senders /\ sent[i][2] \in Nat
                                    /\ sent[i] = <<sent[i][1], sent[i][2]>>
         /\ \A s \in Senders : calls[s] \in Nat /\ s \in Callers
<1>1. sent \in Seq(Messages)
  BY DEF TypeInv, TypeOK
<1>2. \A i \in 1..Len(sent) : sent[i] \in Messages
  BY <1>1, ElementOfSeq
<1>3. \A s \in Senders : calls[s] \in Nat /\ s \in Callers
  BY ChannelAssumption DEF TypeInv, TypeOK, Callers
<1>4. QED
  BY <1>1, <1>2, <1>3, LenProperties DEF Messages

\* No step pushes a message for the second time.
LEMMA SentStep == TypeInv /\ SentInv /\ [Next]_vars => SentInv'
<1> SUFFICES ASSUME TypeInv, SentInv, [Next]_vars PROVE SentInv'
  OBVIOUS
<1>0. SentInv
  OBVIOUS
<1> USE SentTyped DEF SentInv
<1>1. ASSUME NEW s \in Senders, CallSend(s) PROVE SentInv'
  <2>1. /\ sent' = sent /\ pc[s] = "idle"
        /\ calls'[s] = calls[s] + 1 /\ \A v \in Senders \ {s} : calls'[v] = calls[v]
        /\ \A v \in Senders \ {s} : pc'[v] = pc[v]
    BY <1>1 DEF CallSend, Goto, TypeInv, TypeOK
  <2>2. ASSUME NEW i \in 1..Len(sent)
        PROVE  /\ sent[i][2] <= calls'[sent[i][1]]
               /\ pc'[sent[i][1]] \in Sending => sent[i][2] < calls'[sent[i][1]]
    <3> DEFINE v == sent[i][1]
               k == sent[i][2]
    <3>1. v \in Senders /\ k \in Nat /\ calls[v] \in Nat
      OBVIOUS
    <3>2. k <= calls[v] /\ (pc[v] \in Sending => k < calls[v])
      OBVIOUS
    <3> HIDE DEF v, k
    <3>3. k <= calls'[v] /\ (pc'[v] \in Sending => k < calls'[v])
      BY <2>1, <3>1, <3>2
    <3>4. QED
      BY <3>3 DEF v, k
  <2>3. QED
    BY <2>1, <2>2
<1>2. ASSUME NEW s \in Senders, SendPush(s) PROVE SentInv'
  <2> DEFINE m == <<s, calls[s]>>
             n == Len(sent)
  <2>1. /\ sent' = Append(sent, m) /\ calls' = calls /\ pc[s] = "send"
        /\ pc'[s] \notin Sending /\ \A v \in Senders \ {s} : pc'[v] = pc[v]
    BY <1>2 DEF SendPush, Admits, AfterPush, Goto, TypeInv, TypeOK, Sending
  <2>2. m \in Messages
    BY <1>2 DEF SendPush, Admits, AfterPush, TypeInv, CallNumbered, Messages
  <2>3. /\ Len(sent') = n + 1 /\ sent'[n + 1] = m
        /\ \A i \in 1..n : sent'[i] = sent[i]
    BY <2>1, <2>2, AppendProperties
  <2>4. \A i \in 1..n : sent[i] # m
    BY <2>1 DEF Sending
  <2>5. m[1] = s /\ m[2] = calls[s] /\ n \in Nat
    OBVIOUS
  <2> HIDE DEF m, n, SentInv
  <2>6. \A i \in 1..Len(sent') : i = n + 1 \/ i \in 1..n
    BY <2>3, <2>5
  <2>7. ASSUME NEW i \in 1..Len(sent')
        PROVE  /\ sent'[i][2] <= calls'[sent'[i][1]]
               /\ pc'[sent'[i][1]] \in Sending => sent'[i][2] < calls'[sent'[i][1]]
    <3>1. CASE i = n + 1
      BY <2>1, <2>3, <2>5, <3>1
    <3>2. CASE i \in 1..n
      <4>1. /\ sent[i][2] <= calls[sent[i][1]]
            /\ pc[sent[i][1]] \in Sending => sent[i][2] < calls[sent[i][1]]
            /\ sent[i][1] \in Senders
        BY <1>0, <3>2 DEF SentInv, n
      <4>2. QED
        BY <2>1, <2>3, <3>2, <4>1
    <3>3. QED
      BY <2>6, <3>1, <3>2
  <2>8. ASSUME NEW i \in 1..Len(sent'), NEW j \in 1..Len(sent'), sent'[i] = sent'[j]
        PROVE  i = j
    <3>1. i \in 1..n /\ j \in 1..n => i = j
      BY <1>0, <2>3, <2>8 DEF SentInv, n
    <3>2. QED
      BY <2>3, <2>4, <2>6, <2>8, <3>1
  <2>9. QED
    BY <2>7, <2>8 DEF SentInv
<1>3. CASE /\ UNCHANGED <<calls, sent>>
           /\ \A s \in Senders : pc'[s] \in Sending => pc[s] \in Sending
  BY <1>3
<1>4. QED
  BY <1>1, <1>2, <1>3, SendersFrame

-----------------------------------------------------------------------------
(* The loops *)

\* A body is handed the item: the loop goes on or is left.
Hand(r) == LoopTurn(r) \/ LoopLeave(r)

\* What a step does to the loops when it takes no message out of the channel
\* and hands none to a body.
Quiet ==
    /\ UNCHANGED <<loop, consumed, received, item>>
    /\ \A r \in Receivers : /\ ret'[r] = ret[r]
                            /\ pc[r] = "idle" => pc'[r] = "idle"
                            /\ pc'[r] \in Receiving => pc[r] \in Receiving

\* A pop, a nil, a turn and an end are all that matters to a loop.
LEMMA LoopFrame ==
  ASSUME TypeInv, [StreamNext]_streamVars
  PROVE  \/ \E r \in Receivers : /\ RecvPop(r) \/ RecvNil(r)
                                 /\ UNCHANGED <<loop, consumed>>
         \/ \E r \in Receivers : Hand(r) \/ LoopEnd(r)
         \/ Quiet
<1> USE PcType, ChannelAssumption DEF SendPC, RecvPC, ClosePC, Receiving, Quiet
<1>1. ASSUME NEW s \in Senders, Produce(s) PROVE Quiet
  <2>1. CASE CallSend(s)
    BY <1>1, <2>1 DEF Produce, CallSend, Goto
  <2>2. CASE SendWait(s) \/ SendClosed(s)
    BY <1>1, <2>2 DEF Produce, SendWait, SendClosed, Goto, Return, TypeInv, TypeOK
  <2>3. CASE SendPush(s)
    BY <1>1, <2>3 DEF Produce, SendPush, Admits, AfterPush, Goto, TypeInv, TypeOK
  <2>4. CASE SendNotify(s)
    BY <1>1, <2>4 DEF Produce, SendNotify, NotifyOne, RecvWaiters, Goto
  <2>5. QED
    BY <1>1, <2>1, <2>2, <2>3, <2>4 DEF Produce, SendStep
<1>2. ASSUME NEW r \in Receivers, Runtime(r), ~RecvPop(r), ~RecvNil(r) PROVE Quiet
  <2>1. CASE RecvWait(r) \/ RecvResume(r)
    BY <1>2, <2>1 DEF Runtime, RecvWait, RecvResume, Goto
  <2>2. CASE RecvNotify(r)
    BY <1>2, <2>2 DEF Runtime, RecvNotify, NotifyOne, SendWaiters, Goto
  <2>3. QED
    BY <1>2, <2>1, <2>2 DEF Runtime, RecvStep
<1>3. ASSUME NEW c \in Closers, Close(c) PROVE Quiet
  <2>1. CASE CloseAfterProducers(c)
    BY <2>1 DEF CloseAfterProducers, CloseSet, Goto, TypeInv, TypeOK
  <2>2. CASE CloseNotifyRecv(c) /\ UNCHANGED <<loop, consumed>>
    BY <2>2 DEF CloseNotifyRecv, NotifyAll, RecvWaiters
  <2>3. CASE CloseNotifySend(c) /\ UNCHANGED <<loop, consumed>>
    BY <2>3 DEF CloseNotifySend, NotifyAll, SendWaiters, TypeInv, TypeOK
  <2>4. QED
    BY <1>3, <2>1, <2>2, <2>3 DEF Close, CloseStep
<1>4. CASE Spurious
  BY <1>4 DEF Spurious, SendSpurious, RecvSpurious, Goto
<1>5. CASE UNCHANGED streamVars
  BY <1>5 DEF streamVars, vars
<1>6. ASSUME NEW r \in Receivers, Runtime(r) PROVE UNCHANGED <<loop, consumed>>
  BY <1>6 DEF Runtime
<1>7. QED
  BY <1>1, <1>2, <1>3, <1>4, <1>5, <1>6 DEF StreamNext, Turn, Hand

\* What the steps of a loop do to it; the other loops are left alone.
LEMMA LoopSteps ==
  ASSUME StreamTypeInv, NEW r \in Receivers
  PROVE  /\ RecvPop(r) =>
              /\ pc[r] = "recv" /\ pc'[r] \notin Receiving
              /\ queue # <<>> /\ received' = Append(received, Head(queue))
              /\ ret'[r] = "message" /\ item'[r] = Head(queue)
         /\ RecvNil(r) =>
              /\ pc[r] = "recv" /\ pc'[r] = "idle" /\ ret'[r] = "nil"
              /\ received' = received /\ item' = item
         /\ Hand(r) =>
              /\ pc[r] = "idle" /\ loop[r] = "running" /\ received' = received
              /\ \/ loop'[r] = "running" /\ ret'[r] = "none"
                 \/ loop'[r] = "left" /\ pc'[r] = "idle"
              /\ consumed' = [consumed EXCEPT ![r] =
                                IF Holding(r) THEN Append(@, item[r]) ELSE @]
              /\ \A u \in Receivers \ {r} : loop'[u] = loop[u]
         /\ RecvPop(r) \/ RecvNil(r) \/ Hand(r) =>
              \A u \in Receivers \ {r} : pc'[u] = pc[u] /\ ret'[u] = ret[u] /\ item'[u] = item[u]
<1> USE DEF StreamTypeInv, StreamTypeOK, TypeInv, TypeOK, Callers
<1>1. ASSUME RecvPop(r)
      PROVE  /\ pc[r] = "recv" /\ pc'[r] \notin Receiving
             /\ queue # <<>> /\ received' = Append(received, Head(queue))
             /\ ret'[r] = "message" /\ item'[r] = Head(queue)
             /\ \A u \in Receivers \ {r} : pc'[u] = pc[u] /\ ret'[u] = ret[u] /\ item'[u] = item[u]
  BY <1>1 DEF RecvPop, AfterPop, Rest, Goto, Receiving
<1>2. ASSUME RecvNil(r)
      PROVE  /\ pc[r] = "recv" /\ pc'[r] = "idle" /\ ret'[r] = "nil"
             /\ received' = received /\ item' = item
             /\ \A u \in Receivers \ {r} : pc'[u] = pc[u] /\ ret'[u] = ret[u]
  BY <1>2 DEF RecvNil, Return
<1>3. ASSUME LoopTurn(r)
      PROVE  /\ pc[r] = "idle" /\ loop[r] = "running" /\ received' = received
             /\ loop' = loop /\ ret'[r] = "none"
             /\ \A u \in Receivers \ {r} : pc'[u] = pc[u] /\ ret'[u] = ret[u] /\ item'[u] = item[u]
  BY <1>3 DEF LoopTurn, CallRecv, Goto
<1>4. ASSUME LoopLeave(r)
      PROVE  /\ pc[r] = "idle" /\ loop[r] = "running" /\ loop' = [loop EXCEPT ![r] = "left"]
             /\ UNCHANGED <<pc, ret, item, received>>
  BY <1>4 DEF LoopLeave, vars
<1>5. ASSUME Hand(r)
      PROVE  consumed' = [consumed EXCEPT ![r] = IF Holding(r) THEN Append(@, item[r]) ELSE @]
  BY <1>5 DEF Hand, LoopTurn, LoopLeave, Body, Holding
<1>6. QED
  BY <1>1, <1>2, <1>3, <1>4, <1>5 DEF Hand

\* The bodies see messages: what a loop has at hand is one.
LEMMA HeldTyped ==
  ASSUME StreamTypeInv, SeenInv
  PROVE  /\ received \in Seq(Messages) /\ Len(received) \in Nat /\ Received \subseteq Messages
         /\ \A r \in Receivers : Holding(r) => item[r] \in Messages
         /\ \A r \in Receivers : consumed[r] \in Seq(Messages) /\ Len(consumed[r]) \in Nat
<1>1. received \in Seq(Messages) /\ \A r \in Receivers : consumed[r] \in Seq(Messages)
  BY DEF StreamTypeInv, StreamTypeOK, TypeInv, TypeOK
<1>2. Received \subseteq Messages
  BY <1>1, ElementOfSeq DEF Received
<1>3. QED
  BY <1>1, <1>2, LenProperties DEF SeenInv

\* Every step keeps the types of the loops.
LEMMA StreamTypeStep == StreamTypeInv /\ SeenInv /\ [StreamNext]_streamVars => StreamTypeInv'
<1> SUFFICES ASSUME StreamTypeInv, SeenInv, [StreamNext]_streamVars PROVE StreamTypeInv'
  OBVIOUS
<1>1. TypeInv'
  BY StreamStep, TypeStep DEF StreamTypeInv
<1>2. /\ loop' \in [Receivers -> {"running", "ended", "left"}]
      /\ consumed' \in [Receivers -> Seq(Messages)]
  <2> USE DEF StreamTypeInv, StreamTypeOK
  <2>1. ASSUME NEW r \in Receivers, Hand(r)
        PROVE  /\ loop' \in [Receivers -> {"running", "ended", "left"}]
               /\ consumed' \in [Receivers -> Seq(Messages)]
    <3> DEFINE l == IF Holding(r) THEN Append(consumed[r], item[r]) ELSE consumed[r]
    <3>1. l \in Seq(Messages)
      BY HeldTyped, AppendProperties
    <3>2. consumed' = [consumed EXCEPT ![r] = l]
      BY <2>1, LoopSteps
    <3>3. loop' = loop \/ loop' = [loop EXCEPT ![r] = "left"]
      BY <2>1 DEF Hand, LoopTurn, LoopLeave
    <3> HIDE DEF l
    <3>4. QED
      BY <3>1, <3>2, <3>3
  <2>2. ASSUME NEW r \in Receivers, LoopEnd(r)
        PROVE  loop' \in [Receivers -> {"running", "ended", "left"}] /\ consumed' = consumed
    BY <2>2 DEF LoopEnd
  <2>3. QED
    BY <2>1, <2>2, LoopFrame DEF Quiet
<1>3. QED
  BY <1>1, <1>2 DEF StreamTypeInv, StreamTypeOK, TypeInv

\* A loop that is over stays out of recv().
LEMMA LoopStep == StreamTypeInv /\ LoopInv /\ [StreamNext]_streamVars => LoopInv'
<1> SUFFICES ASSUME StreamTypeInv, LoopInv, [StreamNext]_streamVars PROVE LoopInv'
  OBVIOUS
<1> USE DEF LoopInv, GotNone, Receiving
<1>1. ASSUME NEW r \in Receivers, RecvPop(r) \/ RecvNil(r), UNCHANGED loop PROVE LoopInv'
  <2>1. loop[r] = "running" /\ pc'[r] \notin Receiving
    BY <1>1, LoopSteps
  <2>2. \A u \in Receivers \ {r} : pc'[u] = pc[u] /\ ret'[u] = ret[u] /\ item'[u] = item[u]
    BY <1>1, LoopSteps
  <2>3. QED
    BY <1>1, <2>1, <2>2
<1>2. ASSUME NEW r \in Receivers, Hand(r) PROVE LoopInv'
  <2>1. \A u \in Receivers \ {r} : /\ loop'[u] = loop[u] /\ pc'[u] = pc[u]
                                   /\ ret'[u] = ret[u] /\ item'[u] = item[u]
    BY <1>2, LoopSteps
  <2>2. \/ loop'[r] = "running" /\ ret'[r] = "none"
        \/ loop'[r] = "left" /\ pc'[r] = "idle"
    BY <1>2, LoopSteps
  <2>3. QED
    BY <2>1, <2>2
<1>3. ASSUME NEW r \in Receivers, LoopEnd(r) PROVE LoopInv'
  BY <1>3 DEF LoopEnd, vars, StreamTypeInv, StreamTypeOK
<1>4. CASE Quiet
  BY <1>4 DEF Quiet
<1>5. QED
  BY <1>1, <1>2, <1>3, <1>4, LoopFrame DEF StreamTypeInv

-----------------------------------------------------------------------------
(* What the bodies see *)

\* What is next in the queue has not been popped before.
LEMMA HeadFresh ==
  ASSUME TypeInv, DataInv, SentInv, queue # <<>>
  PROVE  Head(queue) \notin Received /\ Head(queue) \in Messages
<1>1. queue \in Seq(Messages) /\ received \in Seq(Messages)
  BY DEF TypeInv, TypeOK
<1>2. Len(received) < Len(sent) /\ sent[Len(received) + 1] = Head(queue)
  BY HeadIsNext
<1>3. \A i \in 1..Len(received) : sent[i] = received[i]
  BY <1>1, ConcatProperties DEF DataInv, FifoDelivery
<1>4. Len(received) \in Nat /\ Len(sent) \in Nat
  BY <1>1, SentTyped, LenProperties
<1>5. ASSUME NEW i \in 1..Len(received) PROVE received[i] # Head(queue)
  BY <1>2, <1>3, <1>4 DEF SentInv
<1>6. Head(queue) \in Messages
  BY <1>1, HeadTailProperties
<1>7. QED
  BY <1>5, <1>6 DEF Received

\* A pop adds a message to those that were popped.
LEMMA ReceivedGrows ==
  ASSUME TypeInv, NEW m \in Messages, received' = Append(received, m)
  PROVE  Received' = Received \cup {m} /\ Len(received') = Len(received) + 1
<1> DEFINE n == Len(received)
<1>1. /\ n \in Nat /\ Len(received') = n + 1 /\ received'[n + 1] = m
      /\ \A i \in 1..n : received'[i] = received[i]
  BY AppendProperties, LenProperties DEF TypeInv, TypeOK
<1> HIDE DEF n
<1>2. 1..(n + 1) = 1..n \cup {n + 1}
  BY <1>1
<1>3. Received' = {received'[i] : i \in 1..n} \cup {received'[n + 1]}
  BY <1>1, <1>2 DEF Received
<1>4. {received'[i] : i \in 1..n} = Received
  BY <1>1 DEF Received, n
<1>5. QED
  BY <1>1, <1>3, <1>4 DEF n

\* A loop that pops has a message at hand which nobody has seen.
LEMMA PopSeen ==
  ASSUME StreamTypeInv, ChannelInv, LoopInv, SeenInv, NEW r \in Receivers, RecvPop(r),
         UNCHANGED <<loop, consumed>>
  PROVE  SeenInv'
<1> DEFINE m == Head(queue)
<1>1. m \notin Received /\ m \in Messages /\ Received' = Received \cup {m}
  BY HeadFresh, ReceivedGrows, LoopSteps DEF StreamTypeInv, ChannelInv
<1>2. Holding(r)' /\ item'[r] = m /\ ~Holding(r)
  BY LoopSteps DEF Holding, LoopInv, Receiving
<1>3. \A u \in Receivers \ {r} : Holding(u)' = Holding(u) /\ item'[u] = item[u]
  BY LoopSteps DEF Holding
<1>4. \A u \in Receivers : Turns(u)' = Turns(u) /\ consumed'[u] = consumed[u]
  BY DEF Turns
<1> HIDE DEF m
<1>5. \A u \in Receivers : Holding(u) => item[u] # m
  BY <1>1 DEF SeenInv
<1>6. \A u \in Receivers : \A j \in Turns(u) : consumed[u][j] # m
  BY <1>1 DEF SeenInv
<1>7. \A u \in Receivers : Holding(u)' => item'[u] \in Received'
  BY <1>1, <1>2, <1>3 DEF SeenInv
<1>8. \A v, u \in Receivers : Holding(v)' /\ Holding(u)' /\ item'[v] = item'[u] => v = u
  BY <1>2, <1>3, <1>5 DEF SeenInv
<1>9. \A v, u \in Receivers : \A j \in Turns(u)' : Holding(v)' => consumed'[u][j] # item'[v]
  BY <1>2, <1>3, <1>4, <1>6 DEF SeenInv
<1>10. \A x \in Received' : \/ \E v \in Receivers : Holding(v)' /\ item'[v] = x
                            \/ \E u \in Receivers : \E j \in Turns(u)' : consumed'[u][j] = x
  <2>1. \A x \in Received : \/ \E v \in Receivers \ {r} : Holding(v) /\ item[v] = x
                            \/ \E u \in Receivers : \E j \in Turns(u) : consumed[u][j] = x
    BY <1>2 DEF SeenInv
  <2>2. QED
    BY <1>1, <1>2, <1>3, <1>4, <2>1
<1>11. QED
  BY <1>1, <1>4, <1>7, <1>8, <1>9, <1>10 DEF SeenInv

\* What a turn does to the messages the body has seen.
LEMMA TurnSteps ==
  ASSUME StreamTypeInv, SeenInv, NEW r \in Receivers, Hand(r)
  PROVE  /\ \A u \in Receivers \ {r} : consumed'[u] = consumed[u]
         /\ ~Holding(r) => consumed' = consumed
         /\ Holding(r) => /\ Len(consumed'[r]) = Len(consumed[r]) + 1
                          /\ consumed'[r][Len(consumed[r]) + 1] = item[r]
                          /\ \A j \in Turns(r) : consumed'[r][j] = consumed[r][j]
<1> DEFINE l == IF Holding(r) THEN Append(consumed[r], item[r]) ELSE consumed[r]
<1>1. consumed' = [consumed EXCEPT ![r] = l]
  BY LoopSteps
<1>2. Holding(r) => /\ Len(l) = Len(consumed[r]) + 1
                    /\ l[Len(consumed[r]) + 1] = item[r]
                    /\ \A j \in Turns(r) : l[j] = consumed[r][j]
  BY HeldTyped, AppendProperties DEF Turns
<1>3. ~Holding(r) => l = consumed[r]
  OBVIOUS
<1>4. consumed \in [Receivers -> Seq(Messages)]
  BY DEF StreamTypeInv, StreamTypeOK
<1> HIDE DEF l
<1>5. ~Holding(r) => consumed' = consumed
  BY <1>1, <1>3, <1>4
<1>6. QED
  BY <1>1, <1>2, <1>4, <1>5

\* A turn hands what is at hand to the body.
LEMMA TurnSeen ==
  ASSUME StreamTypeInv, SeenInv, NEW r \in Receivers, Hand(r)
  PROVE  SeenInv'
<1> DEFINE m == item[r]
           n == Len(consumed[r])
<1>1. Received' = Received /\ ~Holding(r)'
  BY LoopSteps DEF Received, Holding
<1>2. \A u \in Receivers \ {r} : /\ Holding(u)' = Holding(u) /\ item'[u] = item[u]
                                 /\ consumed'[u] = consumed[u] /\ Turns(u)' = Turns(u)
  BY LoopSteps, TurnSteps DEF Holding, Turns
<1>3. CASE ~Holding(r)
  <2>1. \A u \in Receivers : consumed'[u] = consumed[u] /\ Turns(u)' = Turns(u)
    BY <1>3, TurnSteps DEF Turns
  <2>2. \A u \in Receivers : /\ Holding(u)' = Holding(u)
                             /\ Holding(u) => item'[u] = item[u]
    BY <1>1, <1>2, <1>3 DEF Holding
  <2>3. QED
    BY <1>1, <2>1, <2>2 DEF SeenInv
<1>4. CASE Holding(r)
  <2>1. /\ n \in Nat /\ Turns(r) = 1..n /\ Turns(r)' = 1..(n + 1)
        /\ consumed'[r][n + 1] = m
        /\ \A j \in 1..n : consumed'[r][j] = consumed[r][j]
    BY <1>4, TurnSteps, HeldTyped DEF Turns
  <2>2. m \in Received
    BY <1>4 DEF SeenInv
  <2>3. \A u \in Receivers \ {r} : Holding(u) => item[u] # m
    BY <1>4 DEF SeenInv
  <2>4. \A u \in Receivers : \A j \in Turns(u) : consumed[u][j] # m
    BY <1>4 DEF SeenInv
  <2> HIDE DEF m, n
  <2>5. \A j \in Turns(r)' : j \in Turns(r) \/ j = n + 1
    BY <2>1
  <2>6. \A j \in Turns(r) : j \in Turns(r)' /\ j # n + 1
    BY <2>1
  <2>7. n + 1 \in Turns(r)'
    BY <2>1
  \* The turns, old and new, and what the body sees in them.
  <2>8. \A u \in Receivers : \A j \in Turns(u)' :
           \/ j \in Turns(u) /\ consumed'[u][j] = consumed[u][j]
           \/ u = r /\ j = n + 1 /\ consumed'[u][j] = m
    BY <1>2, <2>1, <2>5
  <2>9. \A v \in Receivers : Holding(v)' => v # r /\ Holding(v) /\ item'[v] = item[v]
    BY <1>1, <1>2
  <2>10. \A u \in Receivers : Holding(u)' => item'[u] \in Received'
    BY <1>1, <2>9 DEF SeenInv
  <2>11. \A v, u \in Receivers : Holding(v)' /\ Holding(u)' /\ item'[v] = item'[u] => v = u
    BY <2>9 DEF SeenInv
  <2>12. \A v, u \in Receivers : \A j \in Turns(u)' : Holding(v)' => consumed'[u][j] # item'[v]
    BY <2>3, <2>8, <2>9 DEF SeenInv
  <2>13. \A u \in Receivers : \A j \in Turns(u)' : consumed'[u][j] \in Received'
    BY <1>1, <2>2, <2>8 DEF SeenInv
  <2>14. \A v, u \in Receivers : \A j \in Turns(v)', k \in Turns(u)' :
            consumed'[v][j] = consumed'[u][k] => v = u /\ j = k
    BY <2>4, <2>8 DEF SeenInv
  <2>15. ASSUME NEW x \in Received'
         PROVE  \/ \E v \in Receivers : Holding(v)' /\ item'[v] = x
                \/ \E u \in Receivers : \E j \in Turns(u)' : consumed'[u][j] = x
    <3>1. CASE x = m
      BY <2>1, <2>7, <3>1
    <3>2. CASE \E v \in Receivers \ {r} : Holding(v) /\ item[v] = x
      BY <1>2, <3>2
    <3>3. CASE \E u \in Receivers : \E j \in Turns(u) : consumed[u][j] = x
      <4>1. PICK u \in Receivers : \E j \in Turns(u) : consumed[u][j] = x
        BY <3>3
      <4>2. PICK j \in Turns(u) : consumed[u][j] = x
        BY <4>1
      <4>3. j \in Turns(u)' /\ consumed'[u][j] = x
        BY <1>2, <2>1, <2>6, <4>2
      <4>4. QED
        BY <4>3
    <3>4. QED
      BY <1>1, <3>1, <3>2, <3>3 DEF SeenInv, m
  <2>16. QED
    BY <2>10, <2>11, <2>12, <2>13, <2>14, <2>15 DEF SeenInv
<1>5. QED
  BY <1>3, <1>4

\* Every step keeps each message in one place.
LEMMA SeenStep ==
  /\ StreamTypeInv /\ ChannelInv /\ LoopInv /\ SeenInv /\ [StreamNext]_streamVars
  => SeenInv'
<1> SUFFICES ASSUME StreamTypeInv, ChannelInv, LoopInv, SeenInv, [StreamNext]_streamVars
             PROVE  SeenInv'
  OBVIOUS
<1>1. ASSUME UNCHANGED <<consumed, received, item>>,
             \A u \in Receivers : Holding(u)' = Holding(u)
      PROVE  SeenInv'
  <2>1. Received' = Received /\ \A u \in Receivers : Turns(u)' = Turns(u)
    BY <1>1 DEF Received, Turns
  <2>2. QED
    BY <1>1, <2>1 DEF SeenInv
<1>2. ASSUME NEW r \in Receivers, RecvNil(r), UNCHANGED <<loop, consumed>> PROVE SeenInv'
  BY <1>1, <1>2, LoopSteps DEF Holding, LoopInv, Receiving
<1>3. ASSUME NEW r \in Receivers, LoopEnd(r) PROVE SeenInv'
  BY <1>1, <1>3 DEF LoopEnd, vars, Holding
<1>4. CASE Quiet
  BY <1>1, <1>4 DEF Quiet, Holding
<1>5. QED
  BY <1>2, <1>3, <1>4, PopSeen, TurnSeen, LoopFrame DEF StreamTypeInv

\* Every step keeps the bodies behind the pops.
LEMMA LengthStep ==
  /\ StreamTypeInv /\ LoopInv /\ SeenInv /\ LengthInv /\ [StreamNext]_streamVars
  => LengthInv'
<1> SUFFICES ASSUME StreamTypeInv, LoopInv, SeenInv, LengthInv, [StreamNext]_streamVars
             PROVE  LengthInv'
  OBVIOUS
<1> USE HeldTyped DEF LengthInv
<1>1. ASSUME NEW r \in Receivers, RecvPop(r), UNCHANGED <<loop, consumed>> PROVE LengthInv'
  <2>1. Head(queue) \in Messages
    BY <1>1, LoopSteps, HeadTailProperties DEF StreamTypeInv, TypeInv, TypeOK
  <2>2. Len(received') = Len(received) + 1
    BY <1>1, <2>1, LoopSteps, ReceivedGrows DEF StreamTypeInv
  <2>3. \A u \in Receivers : /\ Len(consumed'[u]) = Len(consumed[u])
                             /\ Len(consumed[u]) <= Len(received)
    BY <1>1
  <2>4. QED
    BY <2>2, <2>3
<1>2. ASSUME NEW r \in Receivers, RecvNil(r), UNCHANGED <<loop, consumed>> PROVE LengthInv'
  BY <1>2, LoopSteps DEF Holding
<1>3. ASSUME NEW r \in Receivers, Hand(r) PROVE LengthInv'
  <2>1. received' = received /\ ~Holding(r)' /\ \A u \in Receivers \ {r} : Holding(u)' = Holding(u)
    BY <1>3, LoopSteps DEF Holding
  <2>2. /\ \A u \in Receivers \ {r} : consumed'[u] = consumed[u]
        /\ ~Holding(r) => consumed' = consumed
        /\ Holding(r) => Len(consumed'[r]) = Len(consumed[r]) + 1
    BY <1>3, TurnSteps
  <2>3. QED
    BY <2>1, <2>2
<1>4. ASSUME NEW r \in Receivers, LoopEnd(r) PROVE LengthInv'
  BY <1>4 DEF LoopEnd, vars, Holding
<1>5. CASE Quiet
  BY <1>5 DEF Quiet, Holding
<1>6. QED
  BY <1>1, <1>2, <1>3, <1>4, <1>5, LoopFrame DEF StreamTypeInv

-----------------------------------------------------------------------------
(* The inductive invariant and what follows from it *)

\* It holds before the loops begin.
LEMMA StreamInitInv == StreamInit => StreamInv
<1> SUFFICES ASSUME StreamInit PROVE StreamInv
  OBVIOUS
<1> USE DEF StreamInit
<1>1. TypeInv /\ DataInv
  BY TypeInit, DataInit
<1>2. EndIsFinal
  BY DEF Init, EndIsFinal, Callers
<1>3. sent = <<>> /\ received = <<>> /\ \A r \in Receivers : consumed[r] = <<>>
  BY DEF Init
<1>4. Len(sent) = 0 /\ Len(received) = 0 /\ \A r \in Receivers : Len(consumed[r]) = 0
  BY <1>3, EmptySeq
<1>5. SentInv
  BY <1>4 DEF SentInv
<1>6. StreamTypeOK
  BY <1>1, EmptySeq DEF StreamTypeOK, TypeInv
<1>7. \A r \in Receivers : /\ loop[r] = "running" /\ pc[r] = "idle"
                           /\ ret[r] = "none" /\ ~Holding(r)
  BY DEF Init, Callers, Holding
<1>8. Received = {} /\ \A r \in Receivers : Turns(r) = {}
  BY <1>4 DEF Received, Turns
<1>9. LoopInv /\ SeenInv /\ LengthInv
  BY <1>4, <1>7, <1>8 DEF LoopInv, SeenInv, LengthInv, Receiving
<1>10. QED
  BY <1>1, <1>2, <1>5, <1>6, <1>9 DEF StreamInv, StreamTypeInv, ChannelInv

\* Every step of the program preserves it.
LEMMA StreamInvStep == StreamInv /\ [StreamNext]_streamVars => StreamInv'
<1> SUFFICES ASSUME StreamInv, [StreamNext]_streamVars PROVE StreamInv'
  OBVIOUS
<1> USE DEF StreamInv
<1>1. ChannelInv'
  BY StreamStep, DataStep, EndStep, SentStep DEF ChannelInv, StreamTypeInv
<1>2. QED
  BY <1>1, StreamTypeStep, LoopStep, SeenStep, LengthStep

\* It holds in every reachable state.
LEMMA StreamInvCorrect == StreamSpec => []StreamInv
BY StreamInitInv, StreamInvStep, PTL DEF StreamSpec

\* The program over the channel is one of the behaviours of the channel.
THEOREM StreamIsChannel == StreamSpec => Spec
<1>1. StreamInit => Init
  BY DEF StreamInit
<1>2. [StreamNext]_streamVars => [Next]_vars
  BY StreamStep
<1>3. QED
  BY <1>1, <1>2, PTL DEF StreamSpec, Spec

\* The state of the loops and of their channel has its type.
THEOREM StreamTypeCorrect == StreamSpec => []StreamTypeOK
<1>1. StreamInv => StreamTypeOK
  BY DEF StreamInv, StreamTypeInv
<1>2. QED
  BY <1>1, StreamInvCorrect, PTL

\* A loop that has ended has left nothing behind in a channel that is going to
\* deliver more, unless it was ended by a None that a producer sent.
THEOREM DrainedCorrect == StreamSpec => []DrainedAtEnd
<1>1. StreamInv => DrainedAtEnd
  BY DEF StreamInv, ChannelInv, LoopInv, GotNone, EndIsFinal, DrainedAtEnd
<1>2. QED
  BY <1>1, StreamInvCorrect, PTL

\* The bodies of the loops see each message once, however many loops share the
\* channel and are left, as long as one was ended by the end of the channel.
THEOREM AllConsumedCorrect == StreamSpec => []AllConsumed
<1>1. ASSUME StreamInv, \A r \in Receivers : loop[r] # "running",
             NEW r \in Receivers, loop[r] = "ended", item[r] \notin NoneMessages,
             NEW i \in DOMAIN sent, sent[i] \notin NoneMessages
      PROVE  Cardinality({turn \in Receivers \X (1..Len(sent)) :
                /\ turn[2] <= Len(consumed[turn[1]])
                /\ consumed[turn[1]][turn[2]] = sent[i]}) = 1
  <2> USE <1>1 DEF StreamInv, StreamTypeInv
  <2> DEFINE Once == {turn \in Receivers \X (1..Len(sent)) :
                /\ turn[2] <= Len(consumed[turn[1]])
                /\ consumed[turn[1]][turn[2]] = sent[i]}
  <2>1. ret[r] = "nil" /\ \A u \in Receivers : Holding(u) => item[u] \in NoneMessages
    BY DEF LoopInv, GotNone, Holding, StreamTypeOK
  <2>2. queue = <<>>
    BY <2>1 DEF ChannelInv, EndIsFinal
  <2>3. sent = received
    BY <2>2, ConcatEmptySeq DEF ChannelInv, DataInv, FifoDelivery, TypeInv, TypeOK
  <2>4. sent[i] \in Received
    BY <2>3, SentTyped DEF Received
  <2>5. PICK u \in Receivers : \E j \in Turns(u) : consumed[u][j] = sent[i]
    BY <2>1, <2>4 DEF SeenInv
  <2>6. PICK j \in Turns(u) : consumed[u][j] = sent[i]
    BY <2>5
  <2>7. /\ j \in 1..Len(sent) /\ j <= Len(consumed[u])
    BY <2>3, HeldTyped DEF Turns, LengthInv
  <2>8. <<u, j>> \in Once
    BY <2>6, <2>7
  <2>9. ASSUME NEW turn \in Once PROVE turn = <<u, j>>
    <3>1. PICK v \in Receivers, k \in 1..Len(sent) : turn = <<v, k>>
      OBVIOUS
    <3>2. k \in Turns(v) /\ consumed[v][k] = sent[i]
      BY <3>1, HeldTyped DEF Turns
    <3>3. QED
      BY <2>6, <3>1, <3>2 DEF SeenInv
  <2>10. Once = {<<u, j>>}
    BY <2>8, <2>9
  <2>11. QED
    BY <2>10, FS_Singleton
<1>2. StreamInv => AllConsumed
  BY <1>1 DEF AllConsumed
<1>3. QED
  BY <1>2, StreamInvCorrect, PTL

=============================================================================
