------------------------------ MODULE Channel -------------------------------
(***************************************************************************)
(* BlangChan of runtime/blang_runtime.c: a ring buffer of Cap slots, a     *)
(* mutex and two condition variables, shared by the main thread and by     *)
(* spawned threads.                                                        *)
(*                                                                         *)
(* Every operation runs with ch->mutex held except inside                  *)
(* pthread_cond_wait, so a step is what one thread does between acquiring  *)
(* the mutex and releasing it: either it finishes its call or it goes to   *)
(* sleep on a condition variable.  pc[t] says where t is:                  *)
(*   "idle"               in no channel call                               *)
(*   "send" "recv" "close"  about to acquire the mutex: on entry, or awake *)
(*                        again and about to test its while condition      *)
(*   "not_full" "not_empty"  asleep on that condition variable             *)
(* A signal moves one sleeper back to its call, a broadcast moves them     *)
(* all, and POSIX lets a sleeper wake for no reason.                       *)
(***************************************************************************)
EXTENDS Naturals, Sequences, FiniteSets

CONSTANTS Threads,   \* the threads that hold the channel
          Values,    \* the elements: copied bytes of a value type
          Capacity,  \* what __blang_chan_create is called with
          Drained,   \* recv answered 0: closed and empty
          NoValue    \* no element: an unused slot, no answer yet

ASSUME ChannelAssumption ==
    /\ IsFiniteSet(Threads)
    /\ Capacity \in Nat
    /\ {Drained, NoValue} \cap Values = {}

\* __blang_chan_create: "minimum buffer of 1 for rendezvous".
Cap == IF Capacity = 0 THEN 1 ELSE Capacity

VARIABLES buffer, head, tail, count, closed, pc, arg, ret

chan == <<buffer, head, tail, count, closed>>
vars == <<buffer, head, tail, count, closed, pc, arg, ret>>

Slots == 0 .. Cap - 1

\* Mutation: the fullness test is off by one.
FullOneLate == count > Cap /\ ~closed

\* The while conditions of __blang_chan_send and __blang_chan_recv.
MustWaitToSend == count = Cap /\ ~closed
MustWaitToRecv == count = 0 /\ ~closed

Asleep(c) == {t \in Threads : pc[t] = c}
Ready(op) == {t \in Threads : pc[t] = op}

\* The call a sleeper is in: where it goes on when it wakes.
CallOf(c) == IF c = "not_full" THEN "send" ELSE IF c = "not_empty" THEN "recv" ELSE c

\* Thread t is out of its call, and pthread_cond_signal has put at most one
\* sleeper of condition variable c back at the test of its call.
Signal(t, c) ==
    IF Asleep(c) = {}
    THEN pc' = [pc EXCEPT ![t] = "idle"]
    ELSE \E w \in Asleep(c) : pc' = [pc EXCEPT ![t] = "idle", ![w] = CallOf(c)]

Init ==
    /\ buffer = [i \in Slots |-> NoValue]
    /\ head = 0
    /\ tail = 0
    /\ count = 0
    /\ closed = FALSE
    /\ pc = [t \in Threads |-> "idle"]
    /\ arg = [t \in Threads |-> NoValue]
    /\ ret = [t \in Threads |-> NoValue]

\* A thread calls ch.send(v), ch.recv() or ch.close().
Call(t, op, v) ==
    /\ pc[t] = "idle"
    /\ pc' = [pc EXCEPT ![t] = op]
    /\ arg' = [arg EXCEPT ![t] = v]
    /\ ret' = [ret EXCEPT ![t] = NoValue]
    /\ UNCHANGED chan

SendWait(t) ==
    /\ pc[t] = "send"
    /\ MustWaitToSend
    /\ pc' = [pc EXCEPT ![t] = "not_full"]
    /\ UNCHANGED <<chan, arg, ret>>

\* The early return of __blang_chan_send on a closed channel.
SendClosed(t) ==
    /\ pc[t] = "send"
    /\ closed
    /\ pc' = [pc EXCEPT ![t] = "idle"]
    /\ arg' = [arg EXCEPT ![t] = NoValue]
    /\ UNCHANGED <<chan, ret>>

Put(t) ==
    /\ pc[t] = "send"
    /\ ~MustWaitToSend
    /\ ~closed
    /\ buffer' = [buffer EXCEPT ![tail] = arg[t]]
    /\ tail' = (tail + 1) % Cap
    /\ count' = count + 1
    /\ arg' = [arg EXCEPT ![t] = NoValue]
    /\ Signal(t, "not_empty")
    /\ UNCHANGED <<head, closed, ret>>

RecvWait(t) ==
    /\ pc[t] = "recv"
    /\ MustWaitToRecv
    /\ pc' = [pc EXCEPT ![t] = "not_empty"]
    /\ UNCHANGED <<chan, arg, ret>>

RecvClosed(t) ==
    /\ pc[t] = "recv"
    /\ count = 0
    /\ closed
    /\ pc' = [pc EXCEPT ![t] = "idle"]
    /\ ret' = [ret EXCEPT ![t] = Drained]
    /\ UNCHANGED <<chan, arg>>

\* Mutation: the receiver frees a slot and does not signal not_full.
TakeUnsignalled(t) ==
    /\ pc[t] = "recv"
    /\ count > 0
    /\ ret' = [ret EXCEPT ![t] = buffer[head]]
    /\ head' = (head + 1) % Cap
    /\ count' = count - 1
    /\ pc' = [pc EXCEPT ![t] = "idle"]
    /\ UNCHANGED <<buffer, tail, closed, arg>>

\* Mutation: head is advanced before the element is copied out.
TakeAfterAdvance(t) ==
    /\ pc[t] = "recv"
    /\ count > 0
    /\ ret' = [ret EXCEPT ![t] = buffer[(head + 1) % Cap]]
    /\ head' = (head + 1) % Cap
    /\ count' = count - 1
    /\ Signal(t, "not_full")
    /\ UNCHANGED <<buffer, tail, closed, arg>>

Take(t) ==
    /\ pc[t] = "recv"
    /\ ~MustWaitToRecv
    /\ count > 0
    /\ ret' = [ret EXCEPT ![t] = buffer[head]]
    /\ head' = (head + 1) % Cap
    /\ count' = count - 1
    /\ Signal(t, "not_full")
    /\ UNCHANGED <<buffer, tail, closed, arg>>

\* Mutation: close() wakes the receivers and forgets the senders.
CloseReceiversOnly(t) ==
    /\ pc[t] = "close"
    /\ closed' = TRUE
    /\ pc' = [u \in Threads |->
                IF u = t THEN "idle"
                         ELSE IF pc[u] = "not_empty" THEN "recv" ELSE pc[u]]
    /\ UNCHANGED <<buffer, head, tail, count, arg, ret>>

\* __blang_chan_close broadcasts on both condition variables.
Close(t) ==
    /\ pc[t] = "close"
    /\ closed' = TRUE
    /\ pc' = [u \in Threads |->
                IF u = t THEN "idle" ELSE CallOf(pc[u])]
    /\ UNCHANGED <<buffer, head, tail, count, arg, ret>>

\* A sleeper may return from pthread_cond_wait without a signal.
SpuriousWakeup(t) ==
    /\ pc[t] \in {"not_full", "not_empty"}
    /\ pc' = [pc EXCEPT ![t] = CallOf(pc[t])]
    /\ UNCHANGED <<chan, arg, ret>>

\* The step of a thread that is in a call and awake.
Step(t) == SendWait(t) \/ SendClosed(t) \/ Put(t)
              \/ RecvWait(t) \/ RecvClosed(t) \/ Take(t) \/ Close(t)

Next == \E t \in Threads :
    \/ \E v \in Values : Call(t, "send", v)
    \/ \E op \in {"recv", "close"} : Call(t, op, NoValue)
    \/ Step(t)
    \/ SpuriousWakeup(t)

Spec == Init /\ [][Next]_vars

\* A thread that is awake in a call is scheduled and gets the mutex, which
\* no thread holds while it sleeps.  Nothing makes a thread start a call,
\* and no sleeper has to wake by itself.
FairSpec == Spec /\ \A t \in Threads : WF_vars(Step(t))
-----------------------------------------------------------------------------
Calls == {"idle", "send", "recv", "close", "not_full", "not_empty"}

\* The shape of the state; the ring never holds more than Cap elements.
TypeOK ==
    /\ buffer \in [Slots -> Values \cup {NoValue}]
    /\ head \in Slots
    /\ tail \in Slots
    /\ count \in 0 .. Cap
    /\ closed \in BOOLEAN
    /\ pc \in [Threads -> Calls]
    /\ arg \in [Threads -> Values \cup {NoValue}]
    /\ ret \in [Threads -> Values \cup {Drained, NoValue}]

\* pthread_cond_signal wakes one thread and a thread that arrives in between
\* may take what the woken one was promised, yet no wake-up is ever lost: if
\* a receiver sleeps, every element in the ring has a receiver on its way to
\* it; if a sender sleeps, every free slot has a sender on its way to it; and
\* nobody sleeps on a closed channel.
NoLostWakeup ==
    /\ Asleep("not_empty") # {} => count <= Cardinality(Ready("recv"))
    /\ Asleep("not_full") # {} => Cap - count <= Cardinality(Ready("send"))
    /\ closed => Asleep("not_empty") \cup Asleep("not_full") = {}

\* The n elements of ring b from index h on.
Contents(b, h, n) == [i \in 1 .. n |-> b[(h + i - 1) % Cap]]

\* The elements sent and not yet received, oldest first.
Queue == Contents(buffer, head, count)

\* A sleeper is still in its call.
CallNow == [t \in Threads |-> CallOf(pc[t])]

FIFO == INSTANCE ChanFIFO WITH queue <- Queue, call <- CallNow

\* Through any interleaving of threads the ring buffer behaves as one
\* first-in first-out queue: no element is lost, duplicated or reordered,
\* and recv answers Drained only when the channel is closed and empty.
RefinesFIFO == FIFO!Spec

\* close() releases everyone: a thread that is in a channel call when the
\* channel is closed returns from it, wherever in the call it was.
CloseReleases == \A t \in Threads :
    closed /\ pc[t] # "idle" ~> pc[t] = "idle"
=============================================================================
