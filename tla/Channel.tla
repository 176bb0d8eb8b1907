------------------------------ MODULE Channel ------------------------------
(***************************************************************************)
(* One channel of the async runtime (03_channel_runtime.cpp) and the       *)
(* threads that call send, recv, close and has_next on it.                 *)
(*                                                                         *)
(* What the code does under ChannelHandle::mutex is one step.  What it     *)
(* does after unlocking, the calls of notify_one and notify_all, is a step *)
(* of its own.  The two condition variables are the sets of threads whose  *)
(* pc is "sendWait" (cv_send) and "recvWait" (cv_recv).  A wait may end    *)
(* without a notification, as the C++ standard allows.  wait_count is a    *)
(* statistic no branch reads and is left out.                              *)
(***************************************************************************)
EXTENDS Naturals, Sequences, FiniteSets

CONSTANTS
    Senders,      \* threads that call send()
    Receivers,    \* threads that call recv(), anext() and has_next()
    Closers,      \* threads that call close()
    Capacity,     \* ChannelHandle::capacity, 0 means unbounded
    MaxSends,     \* bound: the send() calls of one sender
    AllowTimeout  \* whether recv() may be given a timeout

ASSUME ChannelAssumption ==
    /\ Capacity \in Nat
    /\ MaxSends \in Nat
    /\ AllowTimeout \in BOOLEAN
    /\ Senders \cap Receivers = {}
    /\ Senders \cap Closers = {} /\ Receivers \cap Closers = {}

Callers == Senders \cup Receivers \cup Closers

\* The k-th message of a sender; its payload is never looked at.
Messages == Senders \X (1..MaxSends)

VARIABLES
    queue,      \* ChannelHandle::queue
    closed,     \* ChannelHandle::closed
    sendCount,  \* ChannelHandle::send_count
    recvCount,  \* ChannelHandle::recv_count
    pc,         \* where each thread is in the runtime
    calls,      \* the send() calls each sender has made
    timed,      \* whether the recv() call of a receiver has a timeout
    ret,        \* what the last call of a thread returned or threw
    item,       \* the message the last recv() of a receiver returned
    sent,       \* history: messages in the order they were pushed
    received    \* history: messages in the order they were popped

vars == <<queue, closed, sendCount, recvCount, pc, calls, timed, ret, item,
          sent, received>>

NoMessage == <<"none", 0>>

SendPC == {"idle", "send", "sendWait", "sendNotify"}
RecvPC == {"idle", "recv", "recvWait", "recvWoken", "recvNotify"}
ClosePC == {"idle", "closeRecv", "closeSend"}
Results == {"none", "ok", "closedError", "message", "nil", "timeout",
            "hasNext", "noNext"}

TypeOK ==
    /\ queue \in Seq(Messages)
    /\ closed \in BOOLEAN
    /\ sendCount \in Nat
    /\ recvCount \in Nat
    /\ pc \in [Callers -> SendPC \cup RecvPC \cup ClosePC]
    /\ \A s \in Senders : pc[s] \in SendPC
    /\ \A r \in Receivers : pc[r] \in RecvPC
    /\ \A c \in Closers : pc[c] \in ClosePC
    /\ calls \in [Senders -> 0..MaxSends]
    /\ timed \in [Receivers -> BOOLEAN]
    /\ ret \in [Callers -> Results]
    /\ item \in [Receivers -> Messages \cup {NoMessage}]
    /\ sent \in Seq(Messages)
    /\ received \in Seq(Messages)

Init ==
    /\ queue = <<>>
    /\ closed = FALSE
    /\ sendCount = 0
    /\ recvCount = 0
    /\ pc = [t \in Callers |-> "idle"]
    /\ calls = [s \in Senders |-> 0]
    /\ timed = [r \in Receivers |-> FALSE]
    /\ ret = [t \in Callers |-> "none"]
    /\ item = [r \in Receivers |-> NoMessage]
    /\ sent = <<>>
    /\ received = <<>>

\* Definitions named Bad... are faults a change of the code could introduce.
\* Nothing uses them: each is put in the place of the definition that follows
\* it, to see that the properties notice.
BadFull == Capacity > 0 /\ Len(queue) > Capacity

Full == Capacity > 0 /\ Len(queue) >= Capacity

BadAdmits == ~Full
Admits == ~closed /\ ~Full

\* Where send() and recv() go after the critical section: notify only if the
\* queue was empty, or full, before it (was_empty, was_full).
BadAfterPush == "idle"
AfterPush == IF queue = <<>> THEN "sendNotify" ELSE "idle"
BadAfterPop == "idle"
AfterPop == IF Full THEN "recvNotify" ELSE "idle"

\* What pop_front leaves.
BadRest == queue
WorseRest == <<>>
Rest == Tail(queue)

SendWaiters == {s \in Senders : pc[s] = "sendWait"}
RecvWaiters == {r \in Receivers : pc[r] = "recvWait"}

Goto(t, label) == pc' = [pc EXCEPT ![t] = label]
Return(t, result) ==
    /\ pc' = [pc EXCEPT ![t] = "idle"]
    /\ ret' = [ret EXCEPT ![t] = result]

\* Thread t, done with its call, notifies one member of waiters, if there is
\* one; notify_one on a condition variable nobody waits on is forgotten.
NotifyOne(t, waiters, label) ==
    \/ /\ waiters = {}
       /\ Goto(t, "idle")
    \/ \E w \in waiters : pc' = [pc EXCEPT ![t] = "idle", ![w] = label]

BadNotifyAll(t, waiters, label, next) ==
    \E w \in waiters \cup {t} : pc' = [pc EXCEPT ![w] = label, ![t] = next]
NotifyAll(t, waiters, label, next) ==
    pc' = [u \in Callers |-> IF u = t THEN next
                             ELSE IF u \in waiters THEN label ELSE pc[u]]

-----------------------------------------------------------------------------
(* send() *)

CallSend(s) ==
    /\ pc[s] = "idle"
    /\ calls[s] < MaxSends
    /\ calls' = [calls EXCEPT ![s] = @ + 1]
    /\ ret' = [ret EXCEPT ![s] = "none"]
    /\ Goto(s, "send")
    /\ UNCHANGED <<queue, closed, sendCount, recvCount, timed, item, sent,
                   received>>

SendWait(s) ==
    /\ pc[s] = "send"
    /\ ~closed /\ Full
    /\ Goto(s, "sendWait")
    /\ UNCHANGED <<queue, closed, sendCount, recvCount, calls, timed, ret,
                   item, sent, received>>

SendClosed(s) ==
    /\ pc[s] = "send"
    /\ closed
    /\ Return(s, "closedError")
    /\ UNCHANGED <<queue, closed, sendCount, recvCount, calls, timed, item,
                   sent, received>>

\* The push.  cv_recv is notified, later, only if the queue was empty.
SendPush(s) ==
    /\ pc[s] = "send"
    /\ Admits
    /\ queue' = Append(queue, <<s, calls[s]>>)
    /\ sent' = Append(sent, <<s, calls[s]>>)
    /\ sendCount' = sendCount + 1
    /\ ret' = [ret EXCEPT ![s] = "ok"]
    /\ Goto(s, AfterPush)
    /\ UNCHANGED <<closed, recvCount, calls, timed, item, received>>

SendNotify(s) ==
    /\ pc[s] = "sendNotify"
    /\ NotifyOne(s, RecvWaiters, "recvWoken")
    /\ UNCHANGED <<queue, closed, sendCount, recvCount, calls, timed, ret,
                   item, sent, received>>

SendSpurious(s) ==
    /\ pc[s] = "sendWait"
    /\ Goto(s, "send")
    /\ UNCHANGED <<queue, closed, sendCount, recvCount, calls, timed, ret,
                   item, sent, received>>

-----------------------------------------------------------------------------
(* recv(), anext() *)

CallRecv(r) ==
    /\ pc[r] = "idle"
    /\ \E b \in {FALSE, AllowTimeout} : timed' = [timed EXCEPT ![r] = b]
    /\ ret' = [ret EXCEPT ![r] = "none"]
    /\ item' = [item EXCEPT ![r] = NoMessage]
    /\ Goto(r, "recv")
    /\ UNCHANGED <<queue, closed, sendCount, recvCount, calls, sent, received>>

RecvWait(r) ==
    /\ pc[r] = "recv"
    /\ queue = <<>> /\ ~closed
    /\ Goto(r, "recvWait")
    /\ UNCHANGED <<queue, closed, sendCount, recvCount, calls, timed, ret,
                   item, sent, received>>

RecvNil(r) ==
    /\ pc[r] = "recv"
    /\ queue = <<>> /\ closed
    /\ Return(r, "nil")
    /\ UNCHANGED <<queue, closed, sendCount, recvCount, calls, timed, item,
                   sent, received>>

\* The pop.  cv_send is notified, later, only if the queue was full.
RecvPop(r) ==
    /\ pc[r] = "recv"
    /\ queue # <<>>
    /\ queue' = Rest
    /\ received' = Append(received, Head(queue))
    /\ recvCount' = recvCount + 1
    /\ item' = [item EXCEPT ![r] = Head(queue)]
    /\ ret' = [ret EXCEPT ![r] = "message"]
    /\ Goto(r, AfterPop)
    /\ UNCHANGED <<closed, sendCount, calls, timed, sent>>

RecvNotify(r) ==
    /\ pc[r] = "recvNotify"
    /\ NotifyOne(r, SendWaiters, "send")
    /\ UNCHANGED <<queue, closed, sendCount, recvCount, calls, timed, ret,
                   item, sent, received>>

\* The deadline of wait_for has passed.  wait_for compares the clock when it
\* returns, so a receiver that was notified may still be told "timeout"; the
\* code then throws and does not look at the queue again.
RecvTimeout(r) ==
    /\ pc[r] \in {"recvWait", "recvWoken"}
    /\ timed[r]
    /\ Return(r, "timeout")
    /\ UNCHANGED <<queue, closed, sendCount, recvCount, calls, timed, item,
                   sent, received>>

\* A notified receiver has the mutex again and re-evaluates the condition.
RecvResume(r) ==
    /\ pc[r] = "recvWoken"
    /\ Goto(r, "recv")
    /\ UNCHANGED <<queue, closed, sendCount, recvCount, calls, timed, ret,
                   item, sent, received>>

RecvSpurious(r) ==
    /\ pc[r] = "recvWait"
    /\ Goto(r, "recvWoken")
    /\ UNCHANGED <<queue, closed, sendCount, recvCount, calls, timed, ret,
                   item, sent, received>>

HasNext(r) ==
    /\ pc[r] = "idle"
    /\ ret' = [ret EXCEPT ![r] = IF queue # <<>> \/ ~closed THEN "hasNext"
                                 ELSE "noNext"]
    /\ UNCHANGED <<queue, closed, sendCount, recvCount, pc, calls, timed,
                   item, sent, received>>

-----------------------------------------------------------------------------
(* close() *)

CloseSet(c) ==
    /\ pc[c] = "idle"
    /\ closed' = TRUE
    /\ ret' = [ret EXCEPT ![c] = "none"]
    /\ Goto(c, "closeRecv")
    /\ UNCHANGED <<queue, sendCount, recvCount, calls, timed, item, sent,
                   received>>

CloseNotifyRecv(c) ==
    /\ pc[c] = "closeRecv"
    /\ NotifyAll(c, RecvWaiters, "recvWoken", "closeSend")
    /\ UNCHANGED <<queue, closed, sendCount, recvCount, calls, timed, ret,
                   item, sent, received>>

CloseNotifySend(c) ==
    /\ pc[c] = "closeSend"
    /\ NotifyAll(c, SendWaiters, "send", "idle")
    /\ ret' = [ret EXCEPT ![c] = "ok"]
    /\ UNCHANGED <<queue, closed, sendCount, recvCount, calls, timed, item,
                   sent, received>>

-----------------------------------------------------------------------------
SendStep(s) == SendWait(s) \/ SendClosed(s) \/ SendPush(s) \/ SendNotify(s)
RecvStep(r) == RecvWait(r) \/ RecvNil(r) \/ RecvPop(r) \/ RecvNotify(r)
                 \/ RecvResume(r)
CloseStep(c) == CloseNotifyRecv(c) \/ CloseNotifySend(c)

Next ==
    \/ \E s \in Senders : CallSend(s) \/ SendStep(s) \/ SendSpurious(s)
    \/ \E r \in Receivers :
          CallRecv(r) \/ RecvStep(r) \/ RecvTimeout(r) \/ RecvSpurious(r)
            \/ HasNext(r)
    \/ \E c \in Closers : CloseSet(c) \/ CloseStep(c)

Spec == Init /\ [][Next]_vars

\* Every thread inside the runtime keeps running, and a receiver that is idle
\* asks again, as the loop of `async for` does.  No thread has to call send()
\* or close(), no timeout has to expire and no wait has to end by itself.
Fairness ==
    /\ \A s \in Senders : WF_vars(SendStep(s))
    /\ \A r \in Receivers : WF_vars(RecvStep(r) \/ CallRecv(r))
    /\ \A c \in Closers : WF_vars(CloseStep(c))

FairSpec == Spec /\ Fairness

-----------------------------------------------------------------------------
(* Safety *)

\* Whatever the interleaving of send, recv and the notifications, the popped
\* messages followed by the queued ones are exactly the pushed messages in
\* the order they were pushed: nothing lost, duplicated or overtaken.
FifoDelivery == sent = received \o queue

\* "bounded channels enforce backpressure": no interleaving of senders that
\* were woken together pushes past the capacity.
CapacityBound == Capacity > 0 => Len(queue) <= Capacity

\* A snapshot of stats(), taken under the mutex, is consistent: send_count
\* minus recv_count is the queue size it reports.
StatsConsistent == sendCount = recvCount + Len(queue)

\* A recv() that returned nil, or a has_next() that answered false, is final:
\* the channel is closed and empty and stays so, whatever the senders still
\* blocked in send() do.
EndIsFinal ==
    \A r \in Receivers : ret[r] \in {"nil", "noNext"} => closed /\ queue = <<>>

\* close() releases everybody: once no closer is between setting the flag and
\* its two notify_all, nobody waits on a closed channel.
CloseReleasesAll ==
    /\ closed /\ RecvWaiters # {} => \E c \in Closers : pc[c] = "closeRecv"
    /\ closed /\ SendWaiters # {} =>
          \E c \in Closers : pc[c] \in {"closeRecv", "closeSend"}

\* A thread sleeps although what it waits for has come.
Overslept(s) == pc[s] = "sendWait" /\ ~Full
OversleptRecv(r) == pc[r] = "recvWait" /\ queue # <<>>

\* send() and recv() notify one thread, and only when the queue crosses empty
\* or full, so that a thread may be left asleep.  They are never all left: the
\* receivers do not all sleep on a queue with a message, nor the senders on one
\* with room, unless a notification is on its way between unlock and notify.
NoLostWakeup ==
    /\ Receivers # {} /\ (\A r \in Receivers : OversleptRecv(r)) =>
          \E t \in Callers : pc[t] \in {"sendNotify", "closeRecv"}
    /\ Senders # {} /\ (\A s \in Senders : Overslept(s)) =>
          \E t \in Callers : pc[t] \in {"recvNotify", "closeRecv", "closeSend"}

\* After close() no message enters the queue and the channel never reopens.
ClosedForGood == [][closed => closed' /\ sent' = sent]_vars

-----------------------------------------------------------------------------
(* Refinement *)

Fifo == INSTANCE BoundedFifo
          WITH Message <- Messages, Room <- Capacity,
               put <- sent, taken <- received, open <- ~closed

\* Seen through what was pushed and popped, the channel is a bounded FIFO:
\* each call takes effect at one instant, in its critical section.
ImplementsFifo == Fifo!FifoSpec

-----------------------------------------------------------------------------
(* Liveness *)

\* A sender makes finitely many calls.  What was pushed is then delivered in the
\* end, if the receivers keep asking.
Delivery == <>[](\A i \in DOMAIN sent : \E j \in DOMAIN received : received[j] = sent[i])

\* In the end every send() has returned or thrown, or sleeps for good beside free
\* slots: it was passed over when another sender was notified, and that sender
\* did not fill the queue again.
PassedOver(s) == Overslept(s) /\ ~closed /\ \E other \in Senders : pc[other] # "sendWait"
SendReturns == <>[](\A s \in Senders : pc[s] = "idle" \/ PassedOver(s))

\* Back-pressure is temporary: in the end every send() has returned or thrown.
BackpressureEnds == <>[](\A s \in Senders : pc[s] = "idle")

=============================================================================
