--------------------------- MODULE ChannelProofs ----------------------------
(***************************************************************************)
(* Proofs about Channel.tla, for every finite set of threads, every set of *)
(* elements and every capacity:                                            *)
(*   TypeCorrect     the ring never overflows or underflows,               *)
(*   WakeupsKept     no condition-variable signal is lost,                 *)
(*   ImplementsFIFO  the ring buffer implements the queue of ChanFIFO.     *)
(***************************************************************************)
EXTENDS Channel, FiniteSetTheorems, SequenceTheorems, TLAPS

\* The ring has at least one slot: __blang_chan_create's minimum.
LEMMA CapPositive == Cap \in Nat /\ Cap > 0
  BY ChannelAssumption DEF Cap

\* Advancing an index of the ring leaves it an index of the ring.
LEMMA IndexAdvances ==
    ASSUME NEW i \in Slots
    PROVE  /\ (i + 1) % Cap \in Slots
           /\ (i + 1) % Cap = IF i + 1 = Cap THEN 0 ELSE i + 1
  <1>1. /\ i \in Nat
        /\ i < Cap
    BY CapPositive DEF Slots
  <1>2. CASE i + 1 = Cap
    BY <1>1, <1>2, CapPositive DEF Slots
  <1>3. CASE i + 1 < Cap
    BY <1>1, <1>3, CapPositive DEF Slots
  <1>4. QED
    BY <1>1, <1>2, <1>3, CapPositive

-----------------------------------------------------------------------------
\* A channel fresh from __blang_chan_create has the shape TypeOK states.
LEMMA TypeInit == Init => TypeOK
  <1> SUFFICES ASSUME Init PROVE TypeOK
    OBVIOUS
  <1>1. buffer \in [Slots -> Values \cup {NoValue}]
    BY DEF Init
  <1>2. head \in Slots /\ tail \in Slots /\ count \in 0 .. Cap
    BY CapPositive DEF Init, Slots
  <1>3. QED
    BY <1>1, <1>2 DEF Init, TypeOK, Calls

\* Every critical section of a channel call keeps that shape.
LEMMA TypeNext == TypeOK /\ [Next]_vars => TypeOK'
  <1> SUFFICES ASSUME TypeOK, [Next]_vars PROVE TypeOK'
    OBVIOUS
  <1> USE DEF TypeOK, Calls
  <1>1. ASSUME NEW t \in Threads, NEW op \in {"send", "recv", "close"},
               NEW v \in Values \cup {NoValue}, Call(t, op, v)
        PROVE  TypeOK'
    BY <1>1 DEF Call, chan
  <1>2. ASSUME NEW t \in Threads, SendWait(t) PROVE TypeOK'
    BY <1>2 DEF SendWait, chan
  <1>3. ASSUME NEW t \in Threads, SendClosed(t) PROVE TypeOK'
    BY <1>3 DEF SendClosed, chan
  <1>4. ASSUME NEW t \in Threads, Put(t) PROVE TypeOK'
    <2>1. tail' \in Slots /\ count' \in 0 .. Cap
      BY <1>4, IndexAdvances, CapPositive DEF Put, MustWaitToSend
    <2>2. pc' \in [Threads -> Calls]
      BY <1>4 DEF Put, Signal, Asleep, CallOf
    <2>3. QED
      BY <1>4, <2>1, <2>2 DEF Put
  <1>5. ASSUME NEW t \in Threads, RecvWait(t) PROVE TypeOK'
    BY <1>5 DEF RecvWait, chan
  <1>6. ASSUME NEW t \in Threads, RecvClosed(t) PROVE TypeOK'
    BY <1>6 DEF RecvClosed, chan
  <1>7. ASSUME NEW t \in Threads, Take(t) PROVE TypeOK'
    <2>1. head' \in Slots /\ count' \in 0 .. Cap
      BY <1>7, IndexAdvances, CapPositive DEF Take
    <2>2. pc' \in [Threads -> Calls]
      BY <1>7 DEF Take, Signal, Asleep, CallOf
    <2>3. ret' \in [Threads -> Values \cup {Drained, NoValue}]
      BY <1>7 DEF Take
    <2>4. QED
      BY <1>7, <2>1, <2>2, <2>3 DEF Take
  <1>8. ASSUME NEW t \in Threads, Close(t) PROVE TypeOK'
    BY <1>8 DEF Close, CallOf
  <1>9. ASSUME NEW t \in Threads, SpuriousWakeup(t) PROVE TypeOK'
    BY <1>9 DEF SpuriousWakeup, CallOf, chan
  <1>10. CASE UNCHANGED vars
    BY <1>10 DEF vars
  <1>11. QED
    BY <1>1, <1>2, <1>3, <1>4, <1>5, <1>6, <1>7, <1>8, <1>9, <1>10
       DEF Next, Step

\* Through every interleaving of send, recv and close the state keeps its
\* shape: indices stay inside the ring and count inside 0 .. Cap.
THEOREM TypeCorrect == Spec => []TypeOK
  BY TypeInit, TypeNext, PTL DEF Spec

-----------------------------------------------------------------------------
\* Sets of threads are finite, and their cardinalities are ordered with them.
LEMMA ThreadSets ==
    ASSUME NEW S \in SUBSET Threads
    PROVE  /\ IsFiniteSet(S)
           /\ Cardinality(S) \in Nat
           /\ \A T \in SUBSET S : Cardinality(T) \in Nat
                                    /\ Cardinality(T) <= Cardinality(S)
  BY ChannelAssumption, FS_Subset, FS_CardinalityType

\* A thread leaves the threads at op when it finishes or goes to sleep.
LEMMA ReadyLoses ==
    ASSUME NEW S \in SUBSET Threads, NEW T \in SUBSET Threads, NEW t \in S,
           T = S \ {t}
    PROVE  Cardinality(T) = Cardinality(S) - 1
  BY ThreadSets, FS_RemoveElement

\* A woken sleeper joins the threads at op.
LEMMA ReadyGains ==
    ASSUME NEW S \in SUBSET Threads, NEW T \in SUBSET Threads, NEW w \in T \ S,
           T = S \cup {w}
    PROVE  Cardinality(T) = Cardinality(S) + 1
  BY ThreadSets, FS_AddElement

\* What a signal on c by a thread at op does to the sleepers and to the
\* threads on their way: the caller leaves op, and if anyone slept on c one
\* of them is now at its call.
LEMMA SignalEffect ==
    ASSUME TypeOK, NEW t \in Threads,
           NEW c \in {"not_full", "not_empty"}, Signal(t, c),
           pc[t] \in {"send", "recv"}, pc[t] # CallOf(c)
    PROVE  /\ Asleep(c) # {} => Cardinality(Ready(CallOf(c))')
                                   = Cardinality(Ready(CallOf(c))) + 1
           /\ Asleep(c)' \subseteq Asleep(c)
           /\ \A d \in {"not_full", "not_empty"} \ {c} : Asleep(d)' = Asleep(d)
           /\ Cardinality({u \in Threads : pc'[u] = pc[t]})
                 = Cardinality(Ready(pc[t])) - 1
  <1>1. CASE Asleep(c) = {}
    <2>1. pc' = [pc EXCEPT ![t] = "idle"]
      BY <1>1 DEF Signal
    <2>2. {u \in Threads : pc'[u] = pc[t]} = Ready(pc[t]) \ {t}
      BY <2>1 DEF TypeOK, Ready
    <2>3. t \in Ready(pc[t])
      BY DEF Ready
    <2>4. Cardinality({u \in Threads : pc'[u] = pc[t]}) = Cardinality(Ready(pc[t])) - 1
      BY <2>2, <2>3, ReadyLoses DEF Ready
    <2>5. \A d \in {"not_full", "not_empty"} : Asleep(d)' = Asleep(d)
      BY <2>1 DEF TypeOK, Asleep
    <2>6. QED
      BY <1>1, <2>4, <2>5, ThreadSets DEF Ready
  <1>2. CASE Asleep(c) # {}
    <2>1. PICK w \in Asleep(c) : pc' = [pc EXCEPT ![t] = "idle", ![w] = CallOf(c)]
      BY <1>2 DEF Signal
    <2>2. w \in Threads /\ w # t /\ pc[w] = c
      BY <2>1 DEF Asleep
    <2>3. {u \in Threads : pc'[u] = pc[t]} = Ready(pc[t]) \ {t}
      BY <2>1, <2>2 DEF TypeOK, Ready, CallOf
    <2>4. t \in Ready(pc[t])
      BY DEF Ready
    <2>5. Cardinality({u \in Threads : pc'[u] = pc[t]}) = Cardinality(Ready(pc[t])) - 1
      BY <2>3, <2>4, ReadyLoses DEF Ready
    <2>6. Ready(CallOf(c))' = Ready(CallOf(c)) \cup {w} /\ w \notin Ready(CallOf(c))
      BY <2>1, <2>2 DEF TypeOK, Ready, CallOf
    <2>7. Cardinality(Ready(CallOf(c))') = Cardinality(Ready(CallOf(c))) + 1
      BY <2>6, <2>2, ReadyGains DEF Ready
    <2>8. Asleep(c)' \subseteq Asleep(c)
      BY <2>1, <2>2 DEF TypeOK, Asleep, CallOf
    <2>9. \A d \in {"not_full", "not_empty"} \ {c} : Asleep(d)' = Asleep(d)
      BY <2>1, <2>2 DEF TypeOK, Asleep, CallOf
    <2>10. QED
      BY <2>5, <2>7, <2>8, <2>9, ThreadSets DEF Ready
  <1>3. QED
    BY <1>1, <1>2

\* Nobody sleeps on a fresh channel.
LEMMA WakeupInit == Init => NoLostWakeup
  BY DEF Init, NoLostWakeup, Asleep

\* Every critical section keeps the promise of the signals: what a woken thread
\* loses to another one is made good by the step that takes it.
LEMMA WakeupNext == TypeOK /\ NoLostWakeup /\ [Next]_vars => NoLostWakeup'
  <1> SUFFICES ASSUME TypeOK, NoLostWakeup, [Next]_vars PROVE NoLostWakeup'
    OBVIOUS
  <1> DEFINE Receivers == Cardinality(Ready("recv"))
             Senders == Cardinality(Ready("send"))
  <1>a. /\ Receivers \in Nat /\ Receivers' \in Nat
        /\ Senders \in Nat /\ Senders' \in Nat
    BY ThreadSets DEF Ready
  <1>b. count \in Nat /\ Cap \in Nat /\ count <= Cap
    BY CapPositive DEF TypeOK
  <1>1. ASSUME NEW t \in Threads, NEW op \in {"send", "recv", "close"},
               NEW v \in Values \cup {NoValue}, Call(t, op, v)
        PROVE  NoLostWakeup'
    <2>1. /\ Asleep("not_empty")' = Asleep("not_empty")
          /\ Asleep("not_full")' = Asleep("not_full")
          /\ Ready("recv") \subseteq Ready("recv")'
          /\ Ready("send") \subseteq Ready("send")'
      BY <1>1 DEF Call, TypeOK, Asleep, Ready
    <2>2. Receivers <= Receivers' /\ Senders <= Senders'
      BY <2>1, ThreadSets DEF Ready
    <2>3. count' = count /\ closed' = closed
      BY <1>1 DEF Call, chan
    <2>4. QED
      BY <2>1, <2>2, <2>3, <1>a, <1>b DEF NoLostWakeup
  <1>2. ASSUME NEW t \in Threads, SendWait(t) PROVE NoLostWakeup'
    <2>1. /\ Asleep("not_empty")' = Asleep("not_empty")
          /\ Ready("recv")' = Ready("recv")
      BY <1>2 DEF SendWait, TypeOK, Asleep, Ready
    <2>2. count' = Cap /\ count' = count /\ ~closed'
      BY <1>2 DEF SendWait, MustWaitToSend, chan
    <2>3. QED
      BY <2>1, <2>2, <1>a, <1>b DEF NoLostWakeup
  <1>3. ASSUME NEW t \in Threads, SendClosed(t) PROVE NoLostWakeup'
    <2>1. Asleep("not_empty")' = {} /\ Asleep("not_full")' = {}
      BY <1>3 DEF SendClosed, NoLostWakeup, TypeOK, Asleep
    <2>2. QED
      BY <2>1 DEF NoLostWakeup
  <1>4. ASSUME NEW t \in Threads, Put(t) PROVE NoLostWakeup'
    <2>1. pc[t] = "send" /\ Signal(t, "not_empty") /\ ~closed /\ closed' = closed
          /\ count' = count + 1
      BY <1>4 DEF Put
    <2>2. /\ Asleep("not_empty") # {} => Receivers' = Receivers + 1
          /\ Asleep("not_empty")' \subseteq Asleep("not_empty")
          /\ Asleep("not_full")' = Asleep("not_full")
          /\ Senders' = Senders - 1
      BY <2>1, SignalEffect DEF CallOf, Ready
    <2>3. QED
      BY <2>1, <2>2, <1>a, <1>b DEF NoLostWakeup
  <1>5. ASSUME NEW t \in Threads, RecvWait(t) PROVE NoLostWakeup'
    <2>1. /\ Asleep("not_full")' = Asleep("not_full")
          /\ Ready("send")' = Ready("send")
      BY <1>5 DEF RecvWait, TypeOK, Asleep, Ready
    <2>2. count' = 0 /\ count' = count /\ ~closed'
      BY <1>5 DEF RecvWait, MustWaitToRecv, chan
    <2>3. QED
      BY <2>1, <2>2, <1>a, <1>b DEF NoLostWakeup
  <1>6. ASSUME NEW t \in Threads, RecvClosed(t) PROVE NoLostWakeup'
    <2>1. Asleep("not_empty")' = {} /\ Asleep("not_full")' = {}
      BY <1>6 DEF RecvClosed, NoLostWakeup, TypeOK, Asleep
    <2>2. QED
      BY <2>1 DEF NoLostWakeup
  <1>7. ASSUME NEW t \in Threads, Take(t) PROVE NoLostWakeup'
    <2>1. /\ pc[t] = "recv"
          /\ Signal(t, "not_full")
          /\ closed' = closed
          /\ count' = count - 1
      BY <1>7 DEF Take
    <2>2. /\ Asleep("not_full") # {} => Senders' = Senders + 1
          /\ Asleep("not_full")' \subseteq Asleep("not_full")
          /\ Asleep("not_empty")' = Asleep("not_empty")
          /\ Receivers' = Receivers - 1
      BY <2>1, SignalEffect DEF CallOf, Ready
    <2>3. QED
      BY <2>1, <2>2, <1>a, <1>b DEF NoLostWakeup
  <1>8. ASSUME NEW t \in Threads, Close(t) PROVE NoLostWakeup'
    <2>1. Asleep("not_empty")' = {} /\ Asleep("not_full")' = {}
      BY <1>8 DEF Close, CallOf, TypeOK, Calls, Asleep
    <2>2. QED
      BY <2>1 DEF NoLostWakeup
  <1>9. ASSUME NEW t \in Threads, SpuriousWakeup(t) PROVE NoLostWakeup'
    <2>1. /\ Asleep("not_empty")' \subseteq Asleep("not_empty")
          /\ Asleep("not_full")' \subseteq Asleep("not_full")
          /\ Ready("recv") \subseteq Ready("recv")'
          /\ Ready("send") \subseteq Ready("send")'
      BY <1>9 DEF SpuriousWakeup, CallOf, TypeOK, Asleep, Ready
    <2>2. Receivers <= Receivers' /\ Senders <= Senders'
      BY <2>1, ThreadSets DEF Ready
    <2>3. count' = count /\ closed' = closed
      BY <1>9 DEF SpuriousWakeup, chan
    <2>4. QED
      BY <2>1, <2>2, <2>3, <1>a, <1>b DEF NoLostWakeup
  <1>10. CASE UNCHANGED vars
    BY <1>10 DEF vars, NoLostWakeup, Asleep, Ready
  <1>11. QED
    BY <1>1, <1>2, <1>3, <1>4, <1>5, <1>6, <1>7, <1>8, <1>9, <1>10
       DEF Next, Step

\* No wake-up is lost, although __blang_chan_send and __blang_chan_recv signal
\* one thread at a time and the thread that takes the element or the slot need
\* not be the one that was signalled.
THEOREM WakeupsKept == Spec => []NoLostWakeup
  BY TypeInit, TypeNext, WakeupInit, WakeupNext, PTL DEF Spec

-----------------------------------------------------------------------------
\* What the refinement needs beyond TypeOK: tail is where the ring read from
\* head ends, and only a sender carries an element.
RingInv ==
    /\ tail = (head + count) % Cap
    /\ \A t \in Threads : arg[t] # NoValue => CallOf(pc[t]) = "send"

\* Indices of the ring are at most one turn away from it.
LEMMA OneTurn ==
    ASSUME NEW i \in Nat, i < Cap + Cap
    PROVE  /\ i % Cap \in Slots
           /\ i % Cap = IF i < Cap THEN i ELSE i - Cap
  <1>1. CASE i < Cap
    BY <1>1, CapPositive DEF Slots
  <1>2. CASE ~(i < Cap)
    BY <1>2, CapPositive DEF Slots
  <1>3. QED
    BY <1>1, <1>2

\* In a fresh channel head and tail meet.
LEMMA RingInit == Init => RingInv
  <1> SUFFICES ASSUME Init PROVE RingInv
    OBVIOUS
  <1>1. (head + count) % Cap = 0
    BY OneTurn, CapPositive DEF Init
  <1>2. QED
    BY <1>1 DEF Init, RingInv

\* Every critical section keeps tail count elements ahead of head.
LEMMA RingNext == TypeOK /\ RingInv /\ [Next]_vars => RingInv'
  <1> SUFFICES ASSUME TypeOK, RingInv, [Next]_vars PROVE RingInv'
    OBVIOUS
  <1> DEFINE ArgInv == \A t \in Threads : arg[t] # NoValue => CallOf(pc[t]) = "send"
  <1>a. /\ head \in Nat /\ head < Cap /\ tail \in Nat /\ tail < Cap
        /\ count \in Nat /\ count <= Cap /\ Cap \in Nat /\ Cap > 0
    BY CapPositive DEF TypeOK, Slots
  <1>b. tail = IF head + count < Cap THEN head + count ELSE head + count - Cap
    BY <1>a, OneTurn DEF RingInv
  <1>1. ASSUME NEW t \in Threads, NEW op \in {"send", "recv", "close"},
               NEW v \in Values \cup {NoValue}, op # "send" => v = NoValue,
               Call(t, op, v)
        PROVE  RingInv'
    BY <1>1 DEF Call, chan, RingInv, TypeOK, CallOf
  <1>2. ASSUME NEW t \in Threads, SendWait(t) PROVE RingInv'
    BY <1>2 DEF SendWait, chan, RingInv, TypeOK, CallOf
  <1>3. ASSUME NEW t \in Threads, SendClosed(t) PROVE RingInv'
    BY <1>3 DEF SendClosed, chan, RingInv, TypeOK, CallOf
  <1>4. ASSUME NEW t \in Threads, Put(t) PROVE RingInv'
    <2>1. count < Cap /\ count' = count + 1 /\ head' = head /\ tail' = (tail + 1) % Cap
      BY <1>4, <1>a DEF Put, MustWaitToSend
    <2>2. tail' = IF tail + 1 < Cap THEN tail + 1 ELSE tail + 1 - Cap
      BY <2>1, <1>a, OneTurn
    <2>3. (head' + count') % Cap
             = IF head + count + 1 < Cap THEN head + count + 1 ELSE head + count + 1 - Cap
      BY <2>1, <1>a, OneTurn
    <2>4. ArgInv'
      BY <1>4 DEF Put, Signal, Asleep, RingInv, TypeOK, CallOf
    <2>5. QED
      BY <2>1, <2>2, <2>3, <2>4, <1>a, <1>b DEF RingInv
  <1>5. ASSUME NEW t \in Threads, RecvWait(t) PROVE RingInv'
    BY <1>5 DEF RecvWait, chan, RingInv, TypeOK, CallOf
  <1>6. ASSUME NEW t \in Threads, RecvClosed(t) PROVE RingInv'
    BY <1>6 DEF RecvClosed, chan, RingInv, TypeOK, CallOf
  <1>7. ASSUME NEW t \in Threads, Take(t) PROVE RingInv'
    <2>1. count > 0 /\ count' = count - 1 /\ head' = (head + 1) % Cap /\ tail' = tail
      BY <1>7, <1>a DEF Take
    <2>2. head' = IF head + 1 < Cap THEN head + 1 ELSE head + 1 - Cap
      BY <2>1, <1>a, OneTurn
    <2>3. (head' + count') % Cap
             = IF head' + count - 1 < Cap THEN head' + count - 1 ELSE head' + count - 1 - Cap
      BY <2>1, <2>2, <1>a, OneTurn
    <2>4. ArgInv'
      BY <1>7 DEF Take, Signal, Asleep, RingInv, TypeOK, CallOf
    <2>5. QED
      BY <2>1, <2>2, <2>3, <2>4, <1>a, <1>b DEF RingInv
  <1>8. ASSUME NEW t \in Threads, Close(t) PROVE RingInv'
    BY <1>8 DEF Close, RingInv, TypeOK, CallOf
  <1>9. ASSUME NEW t \in Threads, SpuriousWakeup(t) PROVE RingInv'
    BY <1>9 DEF SpuriousWakeup, chan, RingInv, TypeOK, CallOf
  <1>10. CASE UNCHANGED vars
    BY <1>10 DEF vars, RingInv
  <1>11. QED
    BY <1>1, <1>2, <1>3, <1>4, <1>5, <1>6, <1>7, <1>8, <1>9, <1>10
       DEF Next, Step

-----------------------------------------------------------------------------
Elements == Values \cup {NoValue}

\* What a ring holds is a sequence.
LEMMA ContentsType ==
    ASSUME NEW b \in [Slots -> Elements], NEW h \in Slots, NEW n \in 0 .. Cap
    PROVE  /\ Contents(b, h, n) \in Seq(Elements)
           /\ Len(Contents(b, h, n)) = n
           /\ \A i \in 1 .. n : /\ (h + i - 1) % Cap \in Slots
                                /\ Contents(b, h, n)[i] = b[(h + i - 1) % Cap]
  <1>1. n \in Nat
    BY CapPositive
  <1>2. ASSUME NEW i \in 1 .. n
        PROVE  (h + i - 1) % Cap \in Slots /\ b[(h + i - 1) % Cap] \in Elements
    <2>1. h + i - 1 \in Nat /\ h + i - 1 < Cap + Cap
      BY CapPositive DEF Slots
    <2>2. QED
      BY <2>1, OneTurn
  <1>3. QED
    BY <1>1, <1>2 DEF Contents

\* Storing behind the last element appends it: nothing is overwritten.
LEMMA PutAppends ==
    ASSUME NEW b \in [Slots -> Elements], NEW h \in Slots, NEW n \in 0 .. Cap - 1,
           NEW v \in Elements, NEW k \in Slots, k = (h + n) % Cap
    PROVE  Contents([b EXCEPT ![k] = v], h, n + 1) = Append(Contents(b, h, n), v)
  <1> DEFINE c == [b EXCEPT ![k] = v]
  <1>a. /\ h \in Nat /\ h < Cap
        /\ n \in Nat /\ n < Cap /\ Cap \in Nat
    BY CapPositive DEF Slots
  <1>b. c \in [Slots -> Elements] /\ n \in 0 .. Cap /\ n + 1 \in 0 .. Cap
    BY <1>a
  <1> HIDE DEF c
  <1>1. /\ Contents(c, h, n + 1) \in Seq(Elements)
        /\ Len(Contents(c, h, n + 1)) = n + 1
        /\ \A i \in 1 .. n + 1 : Contents(c, h, n + 1)[i] = c[(h + i - 1) % Cap]
    BY <1>b, ContentsType
  <1>2. /\ Contents(b, h, n) \in Seq(Elements)
        /\ Len(Contents(b, h, n)) = n
        /\ \A i \in 1 .. n : /\ (h + i - 1) % Cap \in Slots
                             /\ Contents(b, h, n)[i] = b[(h + i - 1) % Cap]
    BY <1>b, ContentsType
  <1>3. /\ Append(Contents(b, h, n), v) \in Seq(Elements)
        /\ Len(Append(Contents(b, h, n), v)) = n + 1
        /\ \A i \in 1 .. n : Append(Contents(b, h, n), v)[i] = Contents(b, h, n)[i]
        /\ Append(Contents(b, h, n), v)[n + 1] = v
    BY <1>2
  <1>4. ASSUME NEW i \in 1 .. n + 1
        PROVE  Contents(c, h, n + 1)[i] = Append(Contents(b, h, n), v)[i]
    <2>1. CASE i = n + 1
      <3>1. (h + i - 1) % Cap = k
        BY <2>1, <1>a
      <3>2. c[k] = v
        BY DEF c
      <3>3. QED
        BY <2>1, <3>1, <3>2, <1>1, <1>3
    <2>2. CASE i # n + 1
      <3>1. i \in 1 .. n
        BY <2>2, <1>a
      <3>2. /\ h + i - 1 \in Nat /\ h + i - 1 < Cap + Cap
            /\ h + n \in Nat /\ h + n < Cap + Cap
        BY <3>1, <1>a
      <3>3. (h + i - 1) % Cap # k
        BY <3>1, <3>2, <1>a, OneTurn
      <3>4. c[(h + i - 1) % Cap] = b[(h + i - 1) % Cap]
        BY <3>1, <3>3, <1>2 DEF c
      <3>5. QED
        BY <3>1, <3>4, <1>1, <1>2, <1>3
    <2>3. QED
      BY <2>1, <2>2
  <1>5. Contents(c, h, n + 1) = Append(Contents(b, h, n), v)
    BY <1>1, <1>3, <1>4, SeqEqual
  <1>6. QED
    BY <1>5 DEF c

\* Advancing head removes the oldest element, the one that was copied out.
LEMMA TakePops ==
    ASSUME NEW b \in [Slots -> Elements], NEW h \in Slots, NEW n \in 1 .. Cap
    PROVE  /\ Contents(b, h, n) # << >>
           /\ Head(Contents(b, h, n)) = b[h]
           /\ Contents(b, (h + 1) % Cap, n - 1) = Tail(Contents(b, h, n))
  <1> DEFINE g == (h + 1) % Cap
             q == Contents(b, h, n)
             r == Contents(b, g, n - 1)
  <1>a. /\ h \in Nat /\ h < Cap
        /\ n \in Nat /\ n <= Cap /\ n > 0 /\ Cap \in Nat
    BY CapPositive DEF Slots
  <1>b. g \in Slots /\ g = IF h + 1 < Cap THEN h + 1 ELSE h + 1 - Cap
    BY <1>a, OneTurn
  <1>1. /\ q \in Seq(Elements) /\ Len(q) = n
        /\ \A i \in 1 .. n : q[i] = b[(h + i - 1) % Cap]
    BY <1>a, ContentsType
  <1>2. /\ r \in Seq(Elements) /\ Len(r) = n - 1
        /\ \A i \in 1 .. n - 1 : r[i] = b[(g + i - 1) % Cap]
    <2>1. n - 1 \in 0 .. Cap
      BY <1>a
    <2> HIDE DEF g
    <2>2. QED
      BY <2>1, <1>b, ContentsType
  <1> HIDE DEF q, r, g
  <1>3. q # << >> /\ Head(q) = q[1]
    BY <1>1, <1>a
  <1>4. q[1] = b[h]
    <2>1. (h + 1 - 1) % Cap = h
      BY <1>a, OneTurn
    <2>2. 1 \in 1 .. n
      BY <1>a
    <2>3. q[1] = b[(h + 1 - 1) % Cap]
      BY <2>2, <1>1
    <2>4. QED
      BY <2>1, <2>3
  <1>5. /\ Tail(q) \in Seq(Elements)
        /\ Len(Tail(q)) = n - 1
        /\ \A i \in 1 .. n - 1 : Tail(q)[i] = q[i + 1]
    BY <1>1, <1>3, HeadTailProperties
  <1>6. ASSUME NEW i \in 1 .. n - 1
        PROVE  r[i] = Tail(q)[i]
    <2>1. /\ g + i - 1 \in Nat /\ g + i - 1 < Cap + Cap
          /\ h + (i + 1) - 1 \in Nat /\ h + (i + 1) - 1 < Cap + Cap
      BY <1>a, <1>b
    <2>2. (g + i - 1) % Cap = (h + (i + 1) - 1) % Cap
      BY <2>1, <1>a, <1>b, OneTurn
    <2>3. q[i + 1] = b[(h + (i + 1) - 1) % Cap]
      BY <1>1, <1>a
    <2>4. QED
      BY <2>2, <2>3, <1>2, <1>5
  <1>7. r = Tail(q)
    BY <1>2, <1>5, <1>6, SeqEqual
  <1>8. QED
    BY <1>3, <1>4, <1>7 DEF q, r, g

-----------------------------------------------------------------------------
\* A fresh channel is an empty queue.
LEMMA RefinesInit == Init => FIFO!Init
  <1> SUFFICES ASSUME Init PROVE FIFO!Init
    OBVIOUS
  <1>1. Queue = << >>
    <2>1. TypeOK
      BY TypeInit
    <2>2. count = 0
      BY DEF Init
    <2>3. Queue \in Seq(Elements) /\ Len(Queue) = count
      BY <2>1, ContentsType DEF TypeOK, Queue, Elements
    <2>4. QED
      BY <2>2, <2>3, EmptySeq
  <1>2. CallNow = [t \in Threads |-> "idle"]
    BY DEF Init, CallNow, CallOf
  <1>3. QED
    BY <1>1, <1>2 DEF Init, FIFO!Init

\* Every step of a thread is a step of the queue or changes nothing in it.
LEMMA RefinesNext ==
    TypeOK /\ RingInv /\ [Next]_vars => [FIFO!Next]_(FIFO!fifoVars)
  <1> SUFFICES ASSUME TypeOK, RingInv, [Next]_vars
               PROVE  [FIFO!Next]_(FIFO!fifoVars)
    OBVIOUS
  <1>q. /\ Queue \in Seq(Elements) /\ Len(Queue) = count
        /\ count \in Nat /\ Cap \in Nat /\ count <= Cap
    BY CapPositive, ContentsType DEF TypeOK, Queue, Elements
  <1>s. ASSUME UNCHANGED <<chan, arg, ret>>, CallNow' = CallNow
        PROVE  UNCHANGED FIFO!fifoVars
    BY <1>s DEF FIFO!fifoVars, chan, Queue, Contents
  <1>1. ASSUME NEW t \in Threads, NEW op \in {"send", "recv", "close"},
               NEW v, Call(t, op, v)
        PROVE  FIFO!Call(t, op, v)
    <2>1. CallNow[t] = "idle" /\ CallNow' = [CallNow EXCEPT ![t] = op]
      BY <1>1 DEF Call, CallNow, CallOf, TypeOK
    <2>2. QED
      BY <1>1, <2>1 DEF Call, FIFO!Call, chan, Queue, Contents
  <1>2. ASSUME NEW t \in Threads, SendWait(t) PROVE UNCHANGED FIFO!fifoVars
    BY <1>2, <1>s DEF SendWait, CallNow, CallOf, TypeOK
  <1>3. ASSUME NEW t \in Threads, SendClosed(t) PROVE FIFO!Send(t)
    <2>1. CallNow[t] = "send" /\ CallNow' = [CallNow EXCEPT ![t] = "idle"]
      BY <1>3 DEF SendClosed, CallNow, CallOf, TypeOK
    <2>2. QED
      BY <1>3, <2>1 DEF SendClosed, FIFO!Send, FIFO!Return, chan, Queue, Contents
  <1>4. ASSUME NEW t \in Threads, Put(t) PROVE FIFO!Send(t)
    <2>1. CallNow[t] = "send" /\ CallNow' = [CallNow EXCEPT ![t] = "idle"]
      BY <1>4 DEF Put, Signal, Asleep, CallNow, CallOf, TypeOK
    <2>2. count < Cap
      BY <1>4, <1>q DEF Put, MustWaitToSend
    <2>3. Queue' = Append(Queue, arg[t])
      <3>1. /\ buffer \in [Slots -> Elements] /\ head \in Slots /\ tail \in Slots
            /\ count \in 0 .. Cap - 1 /\ arg[t] \in Elements
            /\ tail = (head + count) % Cap
        BY <1>q, <2>2 DEF TypeOK, RingInv, Elements
      <3>2. Contents([buffer EXCEPT ![tail] = arg[t]], head, count + 1)
               = Append(Contents(buffer, head, count), arg[t])
        BY <3>1, PutAppends
      <3>3. QED
        BY <1>4, <3>2 DEF Put, Queue
    <2>4. QED
      BY <1>4, <1>q, <2>1, <2>2, <2>3 DEF Put, FIFO!Send, FIFO!Return
  <1>5. ASSUME NEW t \in Threads, RecvWait(t) PROVE UNCHANGED FIFO!fifoVars
    BY <1>5, <1>s DEF RecvWait, CallNow, CallOf, TypeOK
  <1>6. ASSUME NEW t \in Threads, RecvClosed(t) PROVE FIFO!Recv(t)
    <2>1. CallNow[t] = "recv" /\ CallNow' = [CallNow EXCEPT ![t] = "idle"]
      BY <1>6 DEF RecvClosed, CallNow, CallOf, TypeOK
    <2>2. Queue = << >> /\ Queue' = Queue
      BY <1>6, <1>q DEF RecvClosed, chan, Queue, Contents
    <2>3. arg' = [arg EXCEPT ![t] = NoValue]
      BY <1>6 DEF RecvClosed, RingInv, TypeOK, CallOf
    <2>4. QED
      BY <1>6, <2>1, <2>2, <2>3 DEF RecvClosed, FIFO!Recv, FIFO!Return, chan
  <1>7. ASSUME NEW t \in Threads, Take(t) PROVE FIFO!Recv(t)
    <2>1. CallNow[t] = "recv" /\ CallNow' = [CallNow EXCEPT ![t] = "idle"]
      BY <1>7 DEF Take, Signal, Asleep, CallNow, CallOf, TypeOK
    <2>2. count \in 1 .. Cap
      BY <1>7, <1>q DEF Take
    <2>3. Queue # << >> /\ Head(Queue) = buffer[head] /\ Queue' = Tail(Queue)
      BY <1>7, <2>2, TakePops DEF Take, Queue, TypeOK, Elements
    <2>4. arg' = [arg EXCEPT ![t] = NoValue]
      BY <1>7 DEF Take, RingInv, TypeOK, CallOf
    <2>5. QED
      BY <1>7, <2>1, <2>3, <2>4 DEF Take, FIFO!Recv, FIFO!Return
  <1>8. ASSUME NEW t \in Threads, Close(t) PROVE FIFO!Close(t)
    <2>1. CallNow[t] = "close" /\ CallNow' = [CallNow EXCEPT ![t] = "idle"]
      BY <1>8 DEF Close, CallNow, CallOf, TypeOK
    <2>2. arg' = [arg EXCEPT ![t] = NoValue]
      BY <1>8 DEF Close, RingInv, TypeOK, CallOf
    <2>3. QED
      BY <1>8, <2>1, <2>2 DEF Close, FIFO!Close, FIFO!Return, Queue, Contents
  <1>9. ASSUME NEW t \in Threads, SpuriousWakeup(t) PROVE UNCHANGED FIFO!fifoVars
    BY <1>9, <1>s DEF SpuriousWakeup, CallNow, CallOf, TypeOK
  <1>10. CASE UNCHANGED vars
    BY <1>10, <1>s DEF vars, chan, CallNow
  <1>11. QED
    BY <1>1, <1>2, <1>3, <1>4, <1>5, <1>6, <1>7, <1>8, <1>9, <1>10
       DEF Next, Step, FIFO!Next

\* The ring buffer of BlangChan, with its mutex and its two condition
\* variables, implements the first-in first-out queue that ChanFIFO states.
THEOREM ImplementsFIFO == Spec => RefinesFIFO
  BY TypeInit, TypeNext, RingInit, RingNext, RefinesInit, RefinesNext, PTL
     DEF Spec, RefinesFIFO, FIFO!Spec
=============================================================================
