------------------------------ MODULE ChanFIFO ------------------------------
(***************************************************************************)
(* What chan<T> promises the threads that share it: one bounded first-in   *)
(* first-out queue whose operations take effect atomically between their   *)
(* call and their return.  A send to a closed channel is dropped; a recv   *)
(* on a closed channel drains what is left and then answers Drained.       *)
(* Channel.tla (ring buffer, mutex, condition variables) implements it.    *)
(***************************************************************************)
EXTENDS Naturals, Sequences

CONSTANTS Threads, Values, Cap, Drained, NoValue

VARIABLES queue,   \* the elements sent and not yet received, oldest first
          closed,  \* close() took effect
          call,    \* call[t]: the operation t is in, or "idle"
          arg,     \* arg[t]: the value t is sending
          ret      \* ret[t]: what t's last call, a recv, answered

fifoVars == <<queue, closed, call, arg, ret>>

Init ==
    /\ queue = << >>
    /\ closed = FALSE
    /\ call = [t \in Threads |-> "idle"]
    /\ arg = [t \in Threads |-> NoValue]
    /\ ret = [t \in Threads |-> NoValue]

Call(t, op, v) ==
    /\ call[t] = "idle"
    /\ call' = [call EXCEPT ![t] = op]
    /\ arg' = [arg EXCEPT ![t] = v]
    /\ ret' = [ret EXCEPT ![t] = NoValue]
    /\ UNCHANGED <<queue, closed>>

Return(t) ==
    /\ call' = [call EXCEPT ![t] = "idle"]
    /\ arg' = [arg EXCEPT ![t] = NoValue]

Send(t) ==
    /\ call[t] = "send"
    /\ IF closed
       THEN queue' = queue
       ELSE Len(queue) < Cap /\ queue' = Append(queue, arg[t])
    /\ Return(t)
    /\ UNCHANGED <<closed, ret>>

Recv(t) ==
    /\ call[t] = "recv"
    /\ \/ /\ queue # << >>
          /\ ret' = [ret EXCEPT ![t] = Head(queue)]
          /\ queue' = Tail(queue)
       \/ /\ queue = << >>
          /\ closed
          /\ ret' = [ret EXCEPT ![t] = Drained]
          /\ queue' = queue
    /\ Return(t)
    /\ UNCHANGED closed

Close(t) ==
    /\ call[t] = "close"
    /\ closed' = TRUE
    /\ Return(t)
    /\ UNCHANGED <<queue, ret>>

Next == \E t \in Threads :
    \/ \E v \in Values : Call(t, "send", v)
    \/ \E op \in {"recv", "close"} : Call(t, op, NoValue)
    \/ Send(t)
    \/ Recv(t)
    \/ Close(t)

Spec == Init /\ [][Next]_fifoVars
=============================================================================
