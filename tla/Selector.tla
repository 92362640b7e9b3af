------------------------------ MODULE Selector ------------------------------
(***************************************************************************)
(* BlangSelector of runtime/blang_net.c as stdlib/net.b uses it: a poll    *)
(* loop on its own spawned thread, sockets registered by the main thread   *)
(* and by handlers, shutdown() and join() from the main thread.            *)
(*                                                                         *)
(* The parallel arrays fds and entries are one array here, kept slot by    *)
(* slot with `count`: what lies beyond count, or is shifted under the      *)
(* dispatch loop, matters.  Peers connect, send, close and reset their     *)
(* connections at any time.                                                *)
(*                                                                         *)
(* A connection is known to the runtime by its descriptor only; the field  *)
(* `conn` of an entry names the connection it was registered for, and so   *)
(* the lambda context it holds (0 for the listening socket).               *)
(***************************************************************************)
EXTENDS Integers, FiniteSetsExt

CONSTANTS Conns,     \* the connections of a run, numbered from 1
          MaxFds,    \* SELECTOR_MAX_FDS, the self-pipe included
          Programs   \* the programs considered: records with fields
                     \*   onEof:    what a data handler does when read answers
                     \*             nothing: "remove" and close, or "close"
                     \*   conns:    the connections that peers open
                     \*   resets:   whether peers may reset a connection
                     \*   shutdown: main calls it "anytime", or "signalled"
                     \*             by a handler (over a channel)

ASSUME SelectorAssumption ==
    /\ IsFiniteSet(Conns) /\ Conns \subseteq Nat \ {0}
    /\ MaxFds \in Nat \ {0}
    /\ Programs \subseteq [onEof : {"remove", "close"}, conns : SUBSET Conns,
                           resets : BOOLEAN, shutdown : {"anytime", "signalled"}]

Listener == 0           \* the listening socket: its descriptor and its context
Fds == Conns            \* descriptors of connections: as many as connections
Closed == -1
Contexts == Conns \cup {Listener}
Slots == 0 .. MaxFds - 1

VARIABLES program,
          arr,        \* sel->fds and sel->entries; slot 0 is the self-pipe
          count,      \* sel->count
          held,       \* held[c]: references of the selector on context c
          wake,       \* the self-pipe holds a byte
          shutdown,   \* sel->shutdown
          stopped,    \* sel->stopped
          loop,       \* the loop thread: "start", "test", "poll", "entry", "dead",
                      \* "over"
          idx,        \* the index of its dispatch loop
          sock,       \* sock[f]: the connection open on descriptor f, or Closed
          peer,       \* peer[k]: what there is to read from connection k
          main,       \* the main thread: "setup", "serving", "join", "joined"
          asked,      \* shutdown() was called
          signalled,  \* a handler told main to shut down
          faults

array == <<arr, count, held, wake>>
env == <<program, sock, peer>>
vars == <<program, arr, count, held, wake, shutdown, stopped, loop, idx, sock, peer,
          main, asked, signalled, faults>>

Pipe == [kind |-> "pipe", fd |-> Closed, conn |-> Listener, rev |-> {}]

\* __blang_selector_create: memset, and the self-pipe as first entry.
Init ==
    /\ program \in Programs
    /\ arr = [i \in Slots |-> Pipe]
    /\ count = 1
    /\ held = [c \in Contexts |-> 0]
    /\ wake = FALSE
    /\ shutdown = FALSE
    /\ stopped = FALSE
    /\ loop = "start"
    /\ idx = 0
    /\ sock = [f \in Fds |-> Closed]
    /\ peer = [k \in Conns |-> "none"]
    /\ main = "setup"
    /\ asked = FALSE
    /\ signalled = FALSE
    /\ faults = {}

-----------------------------------------------------------------------------
(* Operations on the array, shared by both threads.                        *)

\* __blang_selector_add_read, __blang_selector_add_accept.  The slot keeps the
\* revents it had.  A full selector ignores the call.
Add(kind, f, k) ==
    IF count < MaxFds
    THEN /\ arr' = [arr EXCEPT ![count] =
                      [kind |-> kind, fd |-> f, conn |-> k, rev |-> arr[count].rev]]
         /\ held' = [held EXCEPT ![k] = @ + 1]
         /\ count' = count + 1
         /\ wake' = TRUE
    ELSE UNCHANGED array

\* The array with slot i taken out: the slots above, up to count, move down.
Shifted(i) == [j \in Slots |-> IF i <= j /\ j < count - 1 THEN arr[j + 1] ELSE arr[j]]

\* __blang_lambda_ctx_release by the selector; one too many is a fault.
Release(c) ==
    /\ held' = [held EXCEPT ![c] = @ - 1]
    /\ faults' = IF held[c] = 0 THEN faults \cup {"context"} ELSE faults

Registered(f) == {i \in 1 .. count - 1 : arr[i].fd = f /\ arr[i].kind = "data"}

\* Mutation: remove takes the entry out and keeps the context.
RemoveLeaks(f) ==
    /\ wake' = TRUE
    /\ UNCHANGED <<held, faults>>
    /\ IF Registered(f) = {}
       THEN UNCHANGED <<arr, count>>
       ELSE arr' = Shifted(Min(Registered(f))) /\ count' = count - 1

\* __blang_selector_remove
Remove(f) ==
    /\ wake' = TRUE
    /\ IF Registered(f) = {}
       THEN UNCHANGED <<arr, count, held, faults>>
       ELSE LET i == Min(Registered(f)) IN
            /\ Release(arr[i].conn)
            /\ arr' = Shifted(i)
            /\ count' = count - 1

-----------------------------------------------------------------------------
(* Peers.                                                                  *)

Connect(k) ==
    /\ k \in program.conns
    /\ peer[k] = "none"
    /\ peer' = [peer EXCEPT ![k] = "queued"]

Send(k) ==
    /\ peer[k] = "idle"
    /\ peer' = [peer EXCEPT ![k] = "data"]

PeerLeaves(k) ==
    /\ peer[k] = "idle"
    /\ peer' \in {[peer EXCEPT ![k] = "eof"]} \cup
                 (IF program.resets THEN {[peer EXCEPT ![k] = "reset"]} ELSE {})

Peers ==
    /\ \E k \in Conns : Connect(k) \/ Send(k) \/ PeerLeaves(k)
    /\ UNCHANGED <<program, array, shutdown, stopped, loop, idx, sock, main, asked,
                   signalled, faults>>

Queued == {k \in Conns : peer[k] = "queued"}

\* What poll reports for an entry: a closed descriptor is POLLNVAL.
Revents(e) ==
    CASE e.kind = "pipe" -> IF wake THEN {"in"} ELSE {}
      [] e.kind = "accept" -> IF Queued # {} THEN {"in"} ELSE {}
      [] e.kind = "data" ->
            IF sock[e.fd] = Closed THEN {"hup"}
            ELSE CASE peer[sock[e.fd]] \in {"data", "eof"} -> {"in"}
                   [] peer[sock[e.fd]] = "reset" -> {"in", "hup"}
                   [] OTHER -> {}

-----------------------------------------------------------------------------
(* __blang_selector_run, on the spawned thread.                            *)

\* The thread starts late: whatever was asked of it before is forgotten.
LoopStart ==
    /\ loop = "start"
    /\ shutdown' = FALSE
    /\ loop' = "test"
    /\ UNCHANGED <<env, array, stopped, idx, main, asked, signalled, faults>>

\* The while condition, and after the loop the stopped flag, under stop_mutex.
LoopTest ==
    /\ loop = "test"
    /\ loop' = IF shutdown THEN "over" ELSE "poll"
    /\ stopped' = shutdown
    /\ UNCHANGED <<env, array, shutdown, idx, main, asked, signalled, faults>>

\* Mutation: the dispatch loop starts at count.
PollFromCount ==
    /\ loop = "poll"
    /\ \E i \in 0 .. count - 1 : Revents(arr[i]) # {}
    /\ arr' = [i \in Slots |->
                 IF i < count THEN [arr[i] EXCEPT !.rev = Revents(arr[i])] ELSE arr[i]]
    /\ wake' = FALSE
    /\ idx' = count
    /\ loop' = "entry"
    /\ UNCHANGED <<env, count, held, shutdown, stopped, main, asked, signalled, faults>>

\* Mutation: the revents of an earlier poll are kept.
PollKeepsRevents ==
    /\ loop = "poll"
    /\ \E i \in 0 .. count - 1 : Revents(arr[i]) # {}
    /\ arr' = [i \in Slots |->
                 IF i < count THEN [arr[i] EXCEPT !.rev = @ \cup Revents(arr[i])] ELSE arr[i]]
    /\ wake' = FALSE
    /\ idx' = count - 1
    /\ loop' = "entry"
    /\ UNCHANGED <<env, count, held, shutdown, stopped, main, asked, signalled, faults>>

\* poll waits until an entry has an event and stores the events in the array.
Poll ==
    /\ loop = "poll"
    /\ \E i \in 0 .. count - 1 : Revents(arr[i]) # {}
    /\ arr' = [i \in Slots |->
                 IF i < count THEN [arr[i] EXCEPT !.rev = Revents(arr[i])] ELSE arr[i]]
    /\ wake' = FALSE
    /\ idx' = count - 1
    /\ loop' = "entry"
    /\ UNCHANGED <<env, count, held, shutdown, stopped, main, asked, signalled, faults>>

NotReadable ==
    /\ loop = "entry"
    /\ idx >= 1
    /\ "in" \notin arr[idx].rev
    /\ loop' = "dead"
    /\ UNCHANGED <<env, array, shutdown, stopped, idx, main, asked, signalled, faults>>

\* Accept, and the handler registers the connection with on_data.
Accept ==
    /\ loop = "entry"
    /\ idx >= 1
    /\ "in" \in arr[idx].rev
    /\ arr[idx].kind = "accept"
    /\ \E k \in Queued :
          LET f == Min({g \in Fds : sock[g] = Closed}) IN
          /\ sock' = [sock EXCEPT ![f] = k]
          /\ peer' = [peer EXCEPT ![k] = "idle"]
          /\ Add("data", f, k)
    /\ loop' = "dead"
    /\ UNCHANGED <<program, shutdown, stopped, idx, main, asked, signalled, faults>>

\* A data handler reads (sockets block) and finds data; it may signal main.
HandleData ==
    /\ loop = "entry"
    /\ idx >= 1
    /\ "in" \in arr[idx].rev
    /\ arr[idx].kind = "data"
    /\ LET k == sock[arr[idx].fd] IN
       /\ k # Closed
       /\ peer[k] = "data"
       /\ peer' = [peer EXCEPT ![k] = "idle"]
    /\ signalled' \in {signalled, TRUE}
    /\ loop' = "dead"
    /\ UNCHANGED <<program, array, shutdown, stopped, idx, sock, main, asked, faults>>

\* A data handler reads and finds nothing: the peer left.
HandleEof ==
    /\ loop = "entry"
    /\ idx >= 1
    /\ "in" \in arr[idx].rev
    /\ arr[idx].kind = "data"
    /\ LET f == arr[idx].fd IN
       /\ sock[f] # Closed => peer[sock[f]] \in {"eof", "reset"}
       /\ IF program.onEof = "remove" THEN Remove(f) ELSE UNCHANGED <<array, faults>>
       /\ sock' = [sock EXCEPT ![f] = Closed]
    /\ loop' = "dead"
    /\ UNCHANGED <<program, peer, shutdown, stopped, idx, main, asked, signalled>>

\* The second half of an iteration: drop the entry now at idx if its revents
\* say it is dead, and go on to the entry below.
DropDead ==
    /\ loop = "dead"
    /\ IF "hup" \in arr[idx].rev
       THEN /\ Release(arr[idx].conn)
            /\ arr' = Shifted(idx)
            /\ count' = count - 1
       ELSE UNCHANGED <<arr, count, held, faults>>
    /\ idx' = idx - 1
    /\ loop' = "entry"
    /\ UNCHANGED <<env, wake, shutdown, stopped, main, asked, signalled>>

PassEnds ==
    /\ loop = "entry"
    /\ idx <= 0
    /\ loop' = "test"
    /\ UNCHANGED <<env, array, shutdown, stopped, idx, main, asked, signalled, faults>>

LoopStep == \/ LoopStart \/ LoopTest \/ Poll \/ NotReadable \/ Accept \/ HandleData
            \/ HandleEof \/ DropDead \/ PassEnds

-----------------------------------------------------------------------------
(* The main thread.                                                        *)

\* sel.on_accept(server, ...), while the loop may be running already.
OnAccept ==
    /\ main = "setup"
    /\ Add("accept", Listener, Listener)
    /\ main' = "serving"
    /\ UNCHANGED <<env, shutdown, stopped, loop, idx, asked, signalled, faults>>

\* Mutation: shutdown() sets the flag and does not wake the loop.
ShutdownUnwoken ==
    /\ main = "serving"
    /\ ~asked
    /\ program.shutdown = "anytime" \/ signalled
    /\ shutdown' = TRUE
    /\ asked' = TRUE
    /\ UNCHANGED <<env, array, stopped, loop, idx, main, signalled, faults>>

\* sel.shutdown(): __blang_selector_shutdown
Shutdown ==
    /\ main = "serving"
    /\ ~asked
    /\ program.shutdown = "anytime" \/ signalled
    /\ shutdown' = TRUE
    /\ wake' = TRUE
    /\ asked' = TRUE
    /\ UNCHANGED <<env, arr, count, held, stopped, loop, idx, main, signalled, faults>>

\* sel.join(): __blang_selector_wait until stopped, then
\* __blang_selector_destroy, which releases every entry's context.
Join ==
    /\ main = "serving"
    /\ asked
    /\ main' = "join"
    /\ UNCHANGED <<env, array, shutdown, stopped, loop, idx, asked, signalled, faults>>

JoinReturn ==
    /\ main = "join"
    /\ stopped
    /\ held' = [c \in Contexts |->
                  held[c] - Cardinality({i \in 1 .. count - 1 : arr[i].conn = c})]
    /\ main' = "joined"
    /\ UNCHANGED <<env, arr, count, wake, shutdown, stopped, loop, idx, asked, signalled,
                   faults>>

\* A server whose peers are done waits in poll: the system may stop there.
Next == Peers \/ LoopStep \/ OnAccept \/ Shutdown \/ Join \/ JoinReturn

Spec == Init /\ [][Next]_vars

\* Both threads are scheduled; peers owe nothing.
FairSpec == Spec /\ WF_vars(LoopStep) /\ WF_vars(JoinReturn)
-----------------------------------------------------------------------------
\* The shape of the state.
TypeOK ==
    /\ program \in Programs
    /\ arr \in [Slots -> [kind : {"pipe", "accept", "data"}, fd : Fds \cup {Listener, Closed},
                          conn : Contexts, rev : SUBSET {"in", "hup"}]]
    /\ count \in 0 .. MaxFds
    /\ held \in [Contexts -> Int]
    /\ wake \in BOOLEAN /\ shutdown \in BOOLEAN /\ stopped \in BOOLEAN
    /\ loop \in {"start", "test", "poll", "entry", "dead", "over"}
    /\ idx \in 0 .. MaxFds - 1
    /\ sock \in [Fds -> Conns \cup {Closed}]
    /\ peer \in [Conns -> {"none", "queued", "idle", "data", "eof", "reset"}]
    /\ main \in {"setup", "serving", "join", "joined"}
    /\ asked \in BOOLEAN /\ signalled \in BOOLEAN
    /\ faults \in SUBSET {"context"}

Entries == 1 .. count - 1

\* While handlers and the loop both remove entries from the array they walk,
\* the self-pipe stays polled, the selector holds exactly one reference on the
\* context of every entry, and destroy gives back the last of them.
ContextsBalanced ==
    /\ count >= 1 /\ arr[0].kind = "pipe"
    /\ faults = {}
    /\ \A c \in Contexts :
          held[c] = IF main = "joined" THEN 0
                    ELSE Cardinality({i \in Entries : arr[i].conn = c})

\* The thread that serves every connection never blocks in a handler's read or
\* accept: an entry it finds readable still is, and is the connection it was
\* registered for.
LoopNeverBlocks ==
    loop = "entry" /\ idx >= 1 /\ "in" \in arr[idx].rev =>
        /\ arr[idx].kind = "accept" => Queued # {}
        /\ arr[idx].kind = "data" => sock[arr[idx].fd] = arr[idx].conn
                                       /\ peer[arr[idx].conn] \in {"data", "eof", "reset"}

\* net.b on join(): "Block the calling thread until the selector is shut down":
\* a join after shutdown() returns.
JoinReturns == main = "join" ~> main = "joined"
=============================================================================
