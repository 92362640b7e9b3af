--------------------------- MODULE SelectorProofs ---------------------------
(***************************************************************************)
(* Proofs about Selector.tla, for every number of connections and every    *)
(* size of the arrays:                                                     *)
(*   Balanced      the selector holds one reference on the context of each *)
(*                 entry and gives every one back,                         *)
(*   NeverBlocks   the loop's thread does not block in a handler.          *)
(* The programs are those in which an entry is taken out of the array by   *)
(* one party only: by the handlers when no peer resets a connection, or by *)
(* the loop when the handlers just close the socket.                       *)
(***************************************************************************)
EXTENDS Selector, FiniteSetTheorems, WellFoundedInduction, TLAPS

\* An entry is removed by the handler or by the loop, never by both.
OneRemover(g) == g.onEof = "close" \/ ~g.resets

\* A descriptor closed by a handler is not reused under an entry that is still in
\* the array: the handler removes the entry too, or there is one connection.
NoReuse(g) == OneRemover(g) /\ (g.onEof = "remove" \/ \E k \in Conns : g.conns \subseteq {k})

-----------------------------------------------------------------------------
\* The inductive invariant.

Data == {i \in Entries : arr[i].kind = "data"}
Unheard == {"none", "queued"}

\* The self-pipe is slot 0, sockets lie between it and count.
Shape ==
    /\ count >= 1 /\ arr[0].kind = "pipe"
    /\ \A i \in Entries : \/ arr[i].kind = "accept" /\ arr[i].conn = Listener
                          \/ arr[i].kind = "data" /\ arr[i].conn \in Conns /\ arr[i].fd \in Fds

\* The dispatch loop walks down inside the array; an entry the handler has
\* removed leaves the index at most one past it.
Walk ==
    /\ loop = "entry" => idx <= count - 1
    /\ loop = "dead" => idx >= 1 /\ idx <= count
    /\ loop = "dead" /\ program.onEof = "close" => idx <= count - 1

\* The loop is over before the selector is destroyed.
Order == (stopped => loop = "over") /\ (main = "joined" => stopped)

\* A connection is accepted once, on one descriptor, and registered once; there is
\* one listening socket.
Accepted ==
    /\ OneRemover(program)
    /\ \A f \in Fds : sock[f] # Closed => peer[sock[f]] \notin Unheard /\ sock[f] \in program.conns
    /\ \A f, g \in Fds : sock[f] = sock[g] /\ sock[f] # Closed => f = g
    /\ \A i \in Data : peer[arr[i].conn] \notin Unheard /\ arr[i].conn \in program.conns
    /\ \A k \in Conns : peer[k] # "none" => k \in program.conns
    /\ \A k \in Conns : peer[k] = "reset" => program.resets

Once ==
    /\ \A i, j \in Data : arr[i].conn = arr[j].conn => i = j
    /\ \A i, j \in Entries : arr[i].kind = "accept" /\ arr[j].kind = "accept" => i = j
    /\ main = "setup" => \A i \in Entries : arr[i].kind # "accept"

\* When handlers remove entries, the loop finds none to drop, and an entry's
\* descriptor is that of its connection.
HandlersRemove ==
    program.onEof = "remove" =>
        /\ \A i \in Slots : "hup" \notin arr[i].rev
        /\ \A i \in Data : sock[arr[i].fd] = arr[i].conn

Inv == TypeOK /\ Shape /\ Walk /\ Order /\ Accepted /\ Once /\ HandlersRemove /\ ContextsBalanced

\* What poll reported of an entry the loop has not reached yet is still so.
Pending == IF loop = "entry" THEN 1 .. idx ELSE IF loop = "dead" THEN 1 .. idx - 1 ELSE {}
StillReady ==
    \A i \in Pending : "in" \in arr[i].rev =>
        /\ arr[i].kind = "accept" => Queued # {}
        /\ arr[i].kind = "data" => /\ sock[arr[i].fd] = arr[i].conn
                                   /\ peer[arr[i].conn] \in {"data", "eof", "reset"}

ReadyInv == Inv /\ NoReuse(program) /\ StillReady

-----------------------------------------------------------------------------
\* A set of natural numbers that is not empty has a least element.
LEMMA LeastNat ==
    ASSUME NEW T \in SUBSET Nat, T # {}
    PROVE  \E x \in T : \A y \in T : x <= y
  <1> DEFINE R == {ss \in Nat \X Nat : ss[1] < ss[2]}
  <1>1. IsWellFoundedOn(R, Nat)
    BY NatLessThanWellFounded, Zenon DEF OpToRel
  <1> HIDE DEF R
  <1>2. PICK x \in T : \A y \in T : ~ (<<y, x>> \in R)
    BY <1>1, WFMin
  <1>3. ASSUME NEW y \in T PROVE x <= y
    <2>1. x \in Nat /\ y \in Nat
      OBVIOUS
    <2>2. <<y, x>> \in R <=> y < x
      BY <2>1 DEF R
    <2>3. QED
      BY <1>2, <2>1, <2>2
  <1>4. QED
    BY <1>3

\* The entries that hold context c.
Holders(c) == {i \in Entries : arr[i].conn = c}

\* The listening socket, the connections and "closed" are told apart by number.
LEMMA Numbers ==
    /\ MaxFds \in Nat /\ MaxFds >= 1
    /\ Closed \notin Conns /\ Listener \notin Conns /\ Closed # Listener
    /\ Contexts = Conns \cup {Listener} /\ Fds = Conns
  BY SelectorAssumption DEF Closed, Listener, Contexts, Fds

\* Sets of entries are finite.
LEMMA HolderSets ==
    ASSUME TypeOK, NEW c
    PROVE  IsFiniteSet(Holders(c)) /\ Cardinality(Holders(c)) \in Nat
  <1>1. count \in Int
    BY Numbers DEF TypeOK
  <1>2. IsFiniteSet(1 .. count - 1)
    BY <1>1, FS_Interval
  <1>3. QED
    BY <1>2, FS_Subset, FS_CardinalityType DEF Holders, Entries

\* The entry of index j after the removal of i had index OldIndex(i, j) before.
OldIndex(i, j) == IF j < i THEN j ELSE j + 1

\* Where entries and slots go when entry i is taken out.
LEMMA ShiftMoves ==
    ASSUME TypeOK, NEW i \in Entries, arr' = Shifted(i), count' = count - 1
    PROVE  /\ \A j \in Entries' : /\ OldIndex(i, j) \in Entries \ {i}
                                  /\ arr'[j] = arr[OldIndex(i, j)]
           /\ \A j \in Slots : \E k \in Slots : arr'[j] = arr[k]
           /\ \A j \in Slots : j < i => arr'[j] = arr[j]
           /\ \A k \in Entries \ {i} : \E j \in Entries' : OldIndex(i, j) = k
           /\ \A j, k \in Entries' : OldIndex(i, j) = OldIndex(i, k) => j = k
  <1>1. /\ count \in Nat /\ count <= MaxFds /\ i \in Nat /\ i >= 1 /\ i < count
        /\ Slots = 0 .. MaxFds - 1 /\ MaxFds \in Nat
    BY Numbers DEF TypeOK, Entries, Slots
  <1>2. \A j \in Slots : arr'[j] = IF i <= j /\ j < count - 1 THEN arr[j + 1] ELSE arr[j]
    BY DEF Shifted
  <1>3. Entries' = 1 .. count - 2
    BY <1>1 DEF Entries
  <1>4. \A j \in Entries' : j \in Slots /\ OldIndex(i, j) \in Entries \ {i}
    BY <1>1, <1>3 DEF OldIndex, Entries
  <1>5. \A j \in Entries' : arr'[j] = arr[OldIndex(i, j)]
    BY <1>1, <1>2, <1>3, <1>4 DEF OldIndex
  <1>6. \A j \in Slots : \E k \in Slots : arr'[j] = arr[k]
    <2> SUFFICES ASSUME NEW j \in Slots PROVE \E k \in Slots : arr'[j] = arr[k]
      OBVIOUS
    <2>1. CASE i <= j /\ j < count - 1
      <3>1. j + 1 \in Slots /\ arr'[j] = arr[j + 1]
        BY <1>1, <1>2, <2>1
      <3>2. QED
        BY <3>1
    <2>2. CASE ~(i <= j /\ j < count - 1)
      BY <1>2, <2>2
    <2>3. QED
      BY <2>1, <2>2
  <1>7. \A j \in Slots : j < i => arr'[j] = arr[j]
    BY <1>1, <1>2
  <1>8. \A k \in Entries \ {i} : \E j \in Entries' : OldIndex(i, j) = k
    <2> SUFFICES ASSUME NEW k \in Entries \ {i} PROVE \E j \in Entries' : OldIndex(i, j) = k
      OBVIOUS
    <2>1. CASE k < i
      <3>1. k \in Entries' /\ OldIndex(i, k) = k
        BY <1>1, <1>3, <2>1 DEF Entries, OldIndex
      <3>2. QED
        BY <3>1
    <2>2. CASE k > i
      <3>1. k - 1 \in Entries' /\ OldIndex(i, k - 1) = k
        BY <1>1, <1>3, <2>2 DEF Entries, OldIndex
      <3>2. QED
        BY <3>1
    <2>3. QED
      BY <1>1, <2>1, <2>2 DEF Entries
  <1>9. \A j, k \in Entries' : OldIndex(i, j) = OldIndex(i, k) => j = k
    BY <1>1, <1>3 DEF OldIndex
  <1>10. QED
    BY <1>4, <1>5, <1>6, <1>7, <1>8, <1>9

\* Taking out entry i takes one holder from its context and none from the others.
LEMMA ShiftCounts ==
    ASSUME TypeOK, NEW i \in Entries, arr' = Shifted(i), count' = count - 1, NEW c \in Contexts
    PROVE  Cardinality(Holders(c)') = Cardinality(Holders(c))
                                        - (IF arr[i].conn = c THEN 1 ELSE 0)
  <1> DEFINE S == Holders(c)'
             T == Holders(c) \ {i}
             g == [j \in S |-> OldIndex(i, j)]
  <1>1. IsFiniteSet(Holders(c)) /\ Cardinality(Holders(c)) \in Nat
    BY HolderSets
  <1>2. Cardinality(T) = Cardinality(Holders(c)) - (IF arr[i].conn = c THEN 1 ELSE 0)
    <2>1. i \in Holders(c) <=> arr[i].conn = c
      BY DEF Holders
    <2>2. Cardinality(Holders(c) \ {i}) = IF i \in Holders(c) THEN Cardinality(Holders(c)) - 1
                                                              ELSE Cardinality(Holders(c))
      BY <1>1, FS_RemoveElement
    <2>3. QED
      BY <1>1, <2>1, <2>2
  <1>3. IsFiniteSet(T)
    BY <1>1, FS_RemoveElement
  <1>4. S = {j \in Entries' : arr'[j].conn = c}
    BY DEF Holders
  <1>5. \A j \in S : j \in Entries' /\ OldIndex(i, j) \in T
    BY <1>4, ShiftMoves DEF Holders
  <1>6. \A k \in T : \E j \in S : OldIndex(i, j) = k
    <2> SUFFICES ASSUME NEW k \in T PROVE \E j \in S : OldIndex(i, j) = k
      OBVIOUS
    <2>1. k \in Entries \ {i} /\ arr[k].conn = c
      BY DEF Holders
    <2>2. PICK j \in Entries' : OldIndex(i, j) = k
      BY <2>1, ShiftMoves
    <2>3. arr'[j] = arr[k]
      BY <2>2, ShiftMoves
    <2>4. QED
      BY <1>4, <2>1, <2>2, <2>3
  <1>7. \A j, k \in S : OldIndex(i, j) = OldIndex(i, k) => j = k
    BY <1>5, ShiftMoves
  <1> HIDE DEF S, T
  <1>8. g \in [S -> T]
    BY <1>5
  <1>9. g \in Injection(S, T)
    BY <1>7, <1>8 DEF Injection, IsInjective
  <1>10. g \in Surjection(S, T)
    BY <1>6, <1>8 DEF Surjection
  <1>11. Cardinality(S) = Cardinality(T)
    BY <1>3, <1>9, <1>10, FS_Injection
  <1>12. QED
    BY <1>2, <1>11 DEF S

\* Registering a socket adds an entry at count and a holder of its context.
LEMMA AddEffect ==
    ASSUME TypeOK, count >= 1, count < MaxFds, NEW kind \in {"accept", "data"},
           NEW f \in Fds \cup {Listener, Closed}, NEW k \in Contexts, Add(kind, f, k)
    PROVE  /\ count' = count + 1 /\ wake' = TRUE
           /\ Entries' = Entries \cup {count} /\ count \notin Entries /\ count \in Slots
           /\ arr'[count] = [kind |-> kind, fd |-> f, conn |-> k, rev |-> arr[count].rev]
           /\ \A i \in Slots : i # count => arr'[i] = arr[i]
           /\ \A i \in Slots : arr'[i].rev = arr[i].rev
           /\ \A c \in Contexts : Cardinality(Holders(c)') =
                 Cardinality(Holders(c)) + (IF c = k THEN 1 ELSE 0)
           /\ \A c \in Contexts : held'[c] = held[c] + (IF c = k THEN 1 ELSE 0)
           /\ arr' \in [Slots -> [kind : {"pipe", "accept", "data"}, fd : Fds \cup {Listener, Closed},
                                  conn : Contexts, rev : SUBSET {"in", "hup"}]]
           /\ held' \in [Contexts -> Int]
  <1>1. /\ arr' = [arr EXCEPT ![count] =
                      [kind |-> kind, fd |-> f, conn |-> k, rev |-> arr[count].rev]]
        /\ held' = [held EXCEPT ![k] = @ + 1]
        /\ count' = count + 1
        /\ wake' = TRUE
    BY DEF Add
  <1>2. count \in Slots /\ count \in Nat /\ count \notin Entries /\ Entries' = Entries \cup {count}
    BY <1>1, Numbers DEF TypeOK, Slots, Entries
  <1>3. arr[count].rev \in SUBSET {"in", "hup"}
    BY <1>2 DEF TypeOK
  <1>4. arr' \in [Slots -> [kind : {"pipe", "accept", "data"}, fd : Fds \cup {Listener, Closed},
                            conn : Contexts, rev : SUBSET {"in", "hup"}]]
    BY <1>1, <1>2, <1>3 DEF TypeOK
  <1>5. /\ arr'[count] = [kind |-> kind, fd |-> f, conn |-> k, rev |-> arr[count].rev]
        /\ \A i \in Slots : i # count => arr'[i] = arr[i]
    BY <1>1, <1>2 DEF TypeOK
  <1>6. \A i \in Slots : arr'[i].rev = arr[i].rev
    BY <1>5
  <1>7. \A c \in Contexts : held'[c] = held[c] + (IF c = k THEN 1 ELSE 0)
    BY <1>1 DEF TypeOK
  <1>8. held' \in [Contexts -> Int]
    BY <1>1 DEF TypeOK
  <1>9. ASSUME NEW c \in Contexts
        PROVE  Cardinality(Holders(c)') = Cardinality(Holders(c)) + (IF c = k THEN 1 ELSE 0)
    <2>1. Entries \subseteq Slots
      BY Numbers DEF TypeOK, Slots, Entries
    <2>2. Holders(c)' = IF c = k THEN Holders(c) \cup {count} ELSE Holders(c)
      <3>1. Holders(c)' = {i \in Entries \cup {count} : arr'[i].conn = c}
        BY <1>2 DEF Holders
      <3>2. arr'[count].conn = k /\ \A i \in Entries : arr'[i] = arr[i]
        BY <1>2, <1>5, <2>1
      <3>3. CASE c = k
        BY <3>1, <3>2, <3>3 DEF Holders
      <3>4. CASE c # k
        BY <3>1, <3>2, <3>4 DEF Holders
      <3>5. QED
        BY <3>3, <3>4
    <2>3. count \notin Holders(c)
      BY <1>2 DEF Holders
    <2>4. /\ IsFiniteSet(Holders(c)) /\ Cardinality(Holders(c)) \in Nat
      BY HolderSets
    <2>5. Cardinality(Holders(c) \cup {count}) = Cardinality(Holders(c)) + 1
      BY <2>3, <2>4, FS_AddElement
    <2>6. QED
      BY <2>2, <2>4, <2>5
  <1>10. QED
    BY <1>1, <1>2, <1>4, <1>5, <1>6, <1>7, <1>8, <1>9

-----------------------------------------------------------------------------
\* A selector fresh from __blang_selector_create.
LEMMA InvInit ==
    ASSUME \A g \in Programs : OneRemover(g)
    PROVE  Init => Inv
  <1> SUFFICES ASSUME Init PROVE Inv
    OBVIOUS
  <1> USE DEF Init
  <1>1. Entries = {} /\ Data = {}
    BY DEF Entries, Data
  <1>2. arr \in [Slots -> [kind : {"pipe", "accept", "data"}, fd : Fds \cup {Listener, Closed},
                           conn : Contexts, rev : SUBSET {"in", "hup"}]]
    BY Numbers DEF Pipe
  <1>3. TypeOK
    <2>1. count \in 0 .. MaxFds /\ idx \in 0 .. MaxFds - 1
      BY Numbers
    <2>2. held \in [Contexts -> Int]
      OBVIOUS
    <2>3. sock \in [Fds -> Conns \cup {Closed}]
      OBVIOUS
    <2>4. QED
      BY <1>2, <2>1, <2>2, <2>3 DEF TypeOK
  <1>4. 0 \in Slots
    BY Numbers DEF Slots
  <1>5. Shape /\ Walk /\ Order /\ Once
    BY <1>1, <1>4 DEF Shape, Walk, Order, Once, Pipe
  <1>6. Accepted
    BY <1>1, Numbers DEF Accepted
  <1>7. HandlersRemove
    BY <1>1 DEF HandlersRemove, Pipe
  <1>8. ContextsBalanced
    <2>1. \A c \in Contexts : {i \in Entries : arr[i].conn = c} = {}
      BY <1>1
    <2>2. arr[0].kind = "pipe" /\ count >= 1
      BY <1>4 DEF Pipe
    <2>3. \A c \in Contexts : held[c] = Cardinality({i \in Entries : arr[i].conn = c})
      BY <2>1, FS_EmptySet
    <2>4. QED
      BY <2>2, <2>3 DEF ContextsBalanced
  <1>9. QED
    BY <1>3, <1>5, <1>6, <1>7, <1>8 DEF Inv

\* There is a descriptor for every connection waiting to be accepted.
LEMMA FreeDescriptor ==
    ASSUME TypeOK, Accepted, NEW k \in Queued
    PROVE  Min({g \in Fds : sock[g] = Closed}) \in {g \in Fds : sock[g] = Closed}
  <1> DEFINE F == {g \in Fds : sock[g] = Closed}
  <1>1. F # {}
    <2> SUFFICES ASSUME F = {} PROVE FALSE
      OBVIOUS
    <2>1. k \in Conns /\ peer[k] = "queued"
      BY DEF Queued
    <2>2. \A f \in Fds : sock[f] \in Conns \ {k}
      BY <2>1 DEF TypeOK, Accepted, Unheard
    <2>3. sock \in [Fds -> Conns \ {k}]
      BY <2>2 DEF TypeOK
    <2>4. /\ IsFiniteSet(Fds) /\ IsFiniteSet(Conns \ {k})
          /\ Cardinality(Conns \ {k}) < Cardinality(Fds)
      <3>1. IsFiniteSet(Conns) /\ Cardinality(Conns) \in Nat
        BY SelectorAssumption, FS_CardinalityType
      <3>2. IsFiniteSet(Conns \ {k}) /\ Cardinality(Conns \ {k}) = Cardinality(Conns) - 1
        BY <2>1, <3>1, FS_RemoveElement
      <3>3. QED
        BY <3>1, <3>2 DEF Fds
    <2>5. \E x, y \in Fds : x # y /\ sock[x] = sock[y]
      BY <2>3, <2>4, FS_PigeonHole
    <2>6. QED
      BY <2>2, <2>5, Numbers DEF Accepted
  <1>2. F \in SUBSET Nat /\ F # {}
    BY <1>1, SelectorAssumption DEF Fds
  <1>3. \E x \in F : \A y \in F : x <= y
    BY <1>2, LeastNat
  <1>4. QED
    BY <1>3 DEF Min

\* A step that changes neither the array nor the sockets.
LEMMA InvQuiet ==
    ASSUME Inv, UNCHANGED <<env, arr, count, held, faults>>, wake' \in BOOLEAN,
           shutdown' \in BOOLEAN, stopped' \in BOOLEAN, asked' \in BOOLEAN, signalled' \in BOOLEAN,
           loop' \in {"start", "test", "poll", "entry", "dead", "over"}, idx' \in 0 .. MaxFds - 1,
           main' \in {"setup", "serving", "join", "joined"},
           main' # main => main # "joined" /\ main' \in {"serving", "join"},
           Walk', Order'
    PROVE  Inv'
  <1> USE DEF Inv, env
  <1>1. TypeOK'
    BY DEF TypeOK
  <1>2. Shape' /\ Accepted' /\ HandlersRemove'
    BY DEF Shape, Accepted, HandlersRemove, Entries, Data
  <1>3. Once'
    BY DEF Once, Entries, Data
  <1>4. main' = "joined" <=> main = "joined"
    BY DEF TypeOK
  <1>5. ContextsBalanced'
    BY <1>4 DEF ContextsBalanced, Entries
  <1>6. QED
    BY <1>1, <1>2, <1>3, <1>5

\* A peer connects, sends, or leaves; or a handler reads what it sent.
LEMMA InvPeers ==
    ASSUME Inv, NEW k \in Conns,
           peer' \in [Conns -> {"none", "queued", "idle", "data", "eof", "reset"}],
           \A l \in Conns \ {k} : peer'[l] = peer[l],
           peer'[k] # "none", peer'[k] \in Unheard => peer[k] \in Unheard,
           k \in program.conns, peer'[k] = "reset" => program.resets,
           UNCHANGED <<program, array, sock, main, faults, idx, shutdown, stopped, asked>>,
           signalled' \in BOOLEAN, loop' \in {"start", "test", "poll", "entry", "dead", "over"},
           Walk', Order'
    PROVE  Inv'
  <1> USE DEF Inv, array
  <1>1. TypeOK'
    BY DEF TypeOK
  <1>2. Shape' /\ HandlersRemove' /\ Once'
    BY DEF Shape, HandlersRemove, Once, Entries, Data
  <1>3. Accepted'
    <2>1. \A l \in Conns : peer[l] \notin Unheard => peer'[l] \notin Unheard
      OBVIOUS
    <2>2. \A f \in Fds : sock[f] # Closed => sock[f] \in Conns
      BY DEF TypeOK
    <2>3. \A i \in Data : arr[i].conn \in Conns
      BY DEF Shape, Data
    <2>4. \A l \in Conns : (peer'[l] # "none" => l \in program.conns)
                             /\ (peer'[l] = "reset" => program.resets)
      BY DEF Accepted
    <2>5. Data' = Data
      BY DEF Data, Entries
    <2>6. QED
      BY <2>1, <2>2, <2>3, <2>4, <2>5 DEF Accepted
  <1>4. ContextsBalanced'
    BY DEF ContextsBalanced, Entries
  <1>5. QED
    BY <1>1, <1>2, <1>3, <1>4

\* poll writes the revents of every entry.
LEMMA InvPoll ==
    ASSUME Inv, Poll
    PROVE  Inv'
  <1> USE DEF Inv
  <1>1. /\ arr' = [i \in Slots |->
                     IF i < count THEN [arr[i] EXCEPT !.rev = Revents(arr[i])] ELSE arr[i]]
        /\ wake' = FALSE /\ idx' = count - 1 /\ loop' = "entry" /\ loop = "poll"
        /\ UNCHANGED <<program, sock, peer, count, held, shutdown, stopped, main, asked,
                       signalled, faults>>
    BY DEF Poll, env
  <1>2. count \in Nat /\ count >= 1 /\ count <= MaxFds /\ MaxFds \in Nat /\ Slots = 0 .. MaxFds - 1
    BY Numbers DEF TypeOK, Shape, Slots
  <1>3. \A i \in Slots : Revents(arr[i]) \in SUBSET {"in", "hup"} \/ i >= count
    <2> SUFFICES ASSUME NEW i \in Slots, i < count PROVE Revents(arr[i]) \in SUBSET {"in", "hup"}
      BY <1>2
    <2>1. arr[i].kind \in {"pipe", "accept", "data"}
      BY DEF TypeOK
    <2>2. CASE arr[i].kind = "data"
      <3>1. CASE sock[arr[i].fd] = Closed
        BY <2>2, <3>1 DEF Revents
      <3>2. CASE sock[arr[i].fd] # Closed /\ peer[sock[arr[i].fd]] \in {"data", "eof"}
        BY <2>2, <3>2 DEF Revents
      <3>3. CASE sock[arr[i].fd] # Closed /\ peer[sock[arr[i].fd]] = "reset"
        BY <2>2, <3>3 DEF Revents
      <3>4. CASE sock[arr[i].fd] # Closed /\ peer[sock[arr[i].fd]] \notin {"data", "eof", "reset"}
        BY <2>2, <3>4 DEF Revents
      <3>5. QED
        BY <3>1, <3>2, <3>3, <3>4
    <2>3. CASE arr[i].kind # "data"
      BY <2>1, <2>3 DEF Revents
    <2>4. QED
      BY <2>2, <2>3
  <1>4. \A i \in Slots : /\ arr'[i].kind = arr[i].kind /\ arr'[i].fd = arr[i].fd
                         /\ arr'[i].conn = arr[i].conn
                         /\ arr'[i].rev = IF i < count THEN Revents(arr[i]) ELSE arr[i].rev
    BY <1>1 DEF TypeOK
  <1>5. arr' \in [Slots -> [kind : {"pipe", "accept", "data"}, fd : Fds \cup {Listener, Closed},
                            conn : Contexts, rev : SUBSET {"in", "hup"}]]
    <2> SUFFICES ASSUME NEW i \in Slots
                 PROVE  (IF i < count THEN [arr[i] EXCEPT !.rev = Revents(arr[i])] ELSE arr[i])
                          \in [kind : {"pipe", "accept", "data"}, fd : Fds \cup {Listener, Closed},
                               conn : Contexts, rev : SUBSET {"in", "hup"}]
      BY <1>1
    <2>1. CASE i < count
      <3>1. Revents(arr[i]) \in SUBSET {"in", "hup"}
        BY <1>2, <1>3, <2>1
      <3>2. QED
        BY <2>1, <3>1 DEF TypeOK
    <2>2. CASE ~(i < count)
      BY <2>2 DEF TypeOK
    <2>3. QED
      BY <2>1, <2>2
  <1>6. TypeOK'
    <2>1. idx' \in 0 .. MaxFds - 1
      BY <1>1, <1>2
    <2>2. wake' \in BOOLEAN
      BY <1>1
    <2>3. QED
      BY <1>1, <1>5, <2>1, <2>2 DEF TypeOK
  <1>7. Entries' = Entries /\ Entries \subseteq Slots
    BY <1>1, <1>2 DEF Entries
  <1>8. Data' = Data
    BY <1>4, <1>7 DEF Data
  <1>9. 0 \in Slots
    BY <1>2
  <1>10. Shape' /\ Walk' /\ Order'
    BY <1>1, <1>2, <1>4, <1>7, <1>9 DEF Shape, Walk, Order
  <1>11. Once' /\ Accepted'
    BY <1>1, <1>4, <1>7, <1>8 DEF Once, Accepted, Data
  <1>12. HandlersRemove'
    <2> SUFFICES ASSUME program.onEof = "remove" PROVE HandlersRemove'
      BY <1>1 DEF HandlersRemove
    <2>1. \A i \in Slots : "hup" \notin arr'[i].rev
      <3> SUFFICES ASSUME NEW i \in Slots PROVE "hup" \notin arr'[i].rev
        OBVIOUS
      <3>1. CASE i >= count
        BY <1>2, <1>4, <3>1 DEF HandlersRemove
      <3>2. CASE i < count /\ arr[i].kind = "data"
        <4>1. i \in Data
          BY <1>2, <3>2 DEF Data, Entries, Shape
        <4>2. sock[arr[i].fd] \in Conns
          BY <4>1 DEF HandlersRemove, Shape, Data
        <4>3. sock[arr[i].fd] # Closed
          BY <4>2, Numbers
        <4>4. peer[sock[arr[i].fd]] # "reset"
          BY <4>2, Numbers DEF Accepted, OneRemover
        <4>5. "hup" \notin Revents(arr[i])
          <5>1. CASE peer[sock[arr[i].fd]] \in {"data", "eof"}
            BY <3>2, <4>3, <5>1 DEF Revents
          <5>2. CASE peer[sock[arr[i].fd]] \notin {"data", "eof"}
            BY <3>2, <4>3, <4>4, <5>2 DEF Revents
          <5>3. QED
            BY <5>1, <5>2
        <4>6. QED
          BY <1>4, <3>2, <4>5
      <3>3. CASE i < count /\ arr[i].kind # "data"
        <4>1. "hup" \notin Revents(arr[i])
          BY <3>3 DEF Revents, TypeOK
        <4>2. QED
          BY <1>4, <3>3, <4>1
      <3>4. QED
        BY <1>2, <3>1, <3>2, <3>3
    <2>2. \A i \in Data' : sock'[arr'[i].fd] = arr'[i].conn
      BY <1>1, <1>4, <1>7, <1>8 DEF HandlersRemove, Data
    <2>3. QED
      BY <2>1, <2>2 DEF HandlersRemove
  <1>13. ContextsBalanced'
    <2>1. \A c \in Contexts : {i \in Entries' : arr'[i].conn = c} = {i \in Entries : arr[i].conn = c}
      BY <1>4, <1>7
    <2>2. QED
      BY <1>1, <1>4, <1>9, <2>1 DEF ContextsBalanced
  <1>14. QED
    BY <1>6, <1>10, <1>11, <1>12, <1>13

\* An entry is taken out and its context released, by a handler or by the loop.
LEMMA RemoveEffect ==
    ASSUME Inv, main # "joined", main' = main, NEW i \in Entries,
           Release(arr[i].conn), arr' = Shifted(i), count' = count - 1
    PROVE  /\ arr' \in [Slots -> [kind : {"pipe", "accept", "data"}, fd : Fds \cup {Listener, Closed},
                                  conn : Contexts, rev : SUBSET {"in", "hup"}]]
           /\ count' \in 0 .. MaxFds /\ held' \in [Contexts -> Int] /\ faults' = faults
           /\ \A j \in Data' : OldIndex(i, j) \in Data \ {i} /\ arr'[j] = arr[OldIndex(i, j)]
           /\ Shape' /\ Once' /\ ContextsBalanced'
  <1> USE DEF Inv
  <1>1. /\ count \in Nat /\ count <= MaxFds /\ i \in Nat /\ i >= 1 /\ i < count
        /\ Slots = 0 .. MaxFds - 1 /\ MaxFds \in Nat
    BY Numbers DEF TypeOK, Entries, Slots
  <1>2. /\ \A j \in Entries' : OldIndex(i, j) \in Entries \ {i} /\ arr'[j] = arr[OldIndex(i, j)]
        /\ \A j \in Slots : \E k \in Slots : arr'[j] = arr[k]
        /\ \A j \in Slots : j < i => arr'[j] = arr[j]
        /\ \A j, k \in Entries' : OldIndex(i, j) = OldIndex(i, k) => j = k
    BY ShiftMoves
  <1>3. arr' \in [Slots -> [kind : {"pipe", "accept", "data"}, fd : Fds \cup {Listener, Closed},
                            conn : Contexts, rev : SUBSET {"in", "hup"}]]
    <2>1. arr' = [j \in Slots |-> arr'[j]]
      BY DEF Shifted
    <2>2. QED
      BY <1>2, <2>1 DEF TypeOK
  <1>4. \A j \in Data' : OldIndex(i, j) \in Data \ {i} /\ arr'[j] = arr[OldIndex(i, j)]
    BY <1>2 DEF Data
  <1>5. Shape'
    <2>1. count' >= 1 /\ arr'[0] = arr[0]
      BY <1>1, <1>2
    <2>2. \A j \in Entries' : \/ arr'[j].kind = "accept" /\ arr'[j].conn = Listener
                              \/ arr'[j].kind = "data" /\ arr'[j].conn \in Conns /\ arr'[j].fd \in Fds
      BY <1>2 DEF Shape
    <2>3. QED
      BY <2>1, <2>2 DEF Shape
  <1>6. Once'
    <2>1. \A j, k \in Data' : arr'[j].conn = arr'[k].conn => j = k
      <3> SUFFICES ASSUME NEW j \in Data', NEW k \in Data', arr'[j].conn = arr'[k].conn PROVE j = k
        OBVIOUS
      <3>1. OldIndex(i, j) = OldIndex(i, k)
        BY <1>4 DEF Once
      <3>2. j \in Entries' /\ k \in Entries'
        BY DEF Data
      <3>3. QED
        BY <1>2, <3>1, <3>2
    <2>2. \A j, k \in Entries' : arr'[j].kind = "accept" /\ arr'[k].kind = "accept" => j = k
      <3> SUFFICES ASSUME NEW j \in Entries', NEW k \in Entries',
                          arr'[j].kind = "accept", arr'[k].kind = "accept"
                   PROVE  j = k
        OBVIOUS
      <3>1. OldIndex(i, j) = OldIndex(i, k)
        BY <1>2 DEF Once
      <3>2. QED
        BY <1>2, <3>1
    <2>3. main' = "setup" => \A j \in Entries' : arr'[j].kind # "accept"
      BY <1>2 DEF Once
    <2>4. QED
      BY <2>1, <2>2, <2>3 DEF Once
  <1>7. arr[i].conn \in Contexts
    BY <1>1 DEF TypeOK
  <1>8. held[arr[i].conn] # 0
    <2>1. i \in Holders(arr[i].conn)
      BY DEF Holders
    <2>2. Cardinality(Holders(arr[i].conn)) # 0
      BY <2>1, HolderSets, FS_EmptySet
    <2>3. QED
      BY <1>7, <2>2 DEF ContextsBalanced, Holders
  <1>9. faults' = faults
    BY <1>8 DEF Release
  <1>10. /\ held' \in [Contexts -> Int]
         /\ \A c \in Contexts : held'[c] = held[c] - (IF arr[i].conn = c THEN 1 ELSE 0)
    BY <1>7 DEF Release, TypeOK
  <1>11. ContextsBalanced'
    <2>1. \A c \in Contexts : held'[c] = Cardinality(Holders(c)')
      <3> SUFFICES ASSUME NEW c \in Contexts PROVE held'[c] = Cardinality(Holders(c)')
        OBVIOUS
      <3>1. Cardinality(Holders(c)') = Cardinality(Holders(c)) - (IF arr[i].conn = c THEN 1 ELSE 0)
        BY ShiftCounts
      <3>2. held[c] = Cardinality(Holders(c))
        BY DEF ContextsBalanced, Holders
      <3>3. QED
        BY <1>10, <3>1, <3>2
    <2>2. QED
      BY <1>5, <1>9, <2>1 DEF ContextsBalanced, Shape, Holders
  <1>12. QED
    BY <1>1, <1>3, <1>4, <1>5, <1>6, <1>9, <1>10, <1>11

\* A handler finds the peer gone: it removes its own entry, or just closes.
LEMMA InvHandleEof ==
    ASSUME Inv, HandleEof
    PROVE  Inv'
  <1> USE DEF Inv
  <1> DEFINE f == arr[idx].fd
  <1>1. /\ loop = "entry" /\ idx >= 1 /\ arr[idx].kind = "data"
        /\ sock' = [sock EXCEPT ![f] = Closed]
        /\ loop' = "dead"
        /\ UNCHANGED <<program, peer, shutdown, stopped, idx, main, asked, signalled>>
    BY DEF HandleEof
  <1>2. idx \in Entries /\ idx \in Data /\ idx \in Int /\ count \in Nat /\ idx <= count - 1
    BY <1>1, Numbers DEF TypeOK, Walk, Entries, Data
  <1>3. main # "joined" /\ ~stopped
    BY <1>1 DEF Order
  <1>4. f \in Fds /\ arr[idx].conn \in Conns
    BY <1>2 DEF Shape, Data
  <1>5. \A g \in Fds : sock'[g] = IF g = f THEN Closed ELSE sock[g]
    BY <1>1, <1>4 DEF TypeOK
  <1>6. CASE program.onEof = "remove"
    <2>1. sock[f] = arr[idx].conn /\ \A i \in Data : sock[arr[i].fd] = arr[i].conn
      BY <1>2, <1>6 DEF HandlersRemove
    <2>2. Registered(f) = {idx}
      <3>1. \A i \in Data : arr[i].fd = f => i = idx
        <4> SUFFICES ASSUME NEW i \in Data, arr[i].fd = f PROVE i = idx
          OBVIOUS
        <4>1. arr[i].conn = arr[idx].conn
          BY <2>1
        <4>2. QED
          BY <1>2, <4>1 DEF Once
      <3>2. Registered(f) = {i \in Data : arr[i].fd = f}
        BY DEF Registered, Data, Entries
      <3>3. QED
        BY <1>2, <3>1, <3>2
    <2>3. Min(Registered(f)) = idx
      <3>1. idx <= idx
        BY <1>2
      <3>2. QED
        BY <2>2, <3>1 DEF Min
    <2>4. /\ Release(arr[idx].conn) /\ arr' = Shifted(idx) /\ count' = count - 1
          /\ wake' = TRUE
      BY <1>6, <2>2, <2>3 DEF HandleEof, Remove
    <2>5. /\ arr' \in [Slots -> [kind : {"pipe", "accept", "data"}, fd : Fds \cup {Listener, Closed},
                                 conn : Contexts, rev : SUBSET {"in", "hup"}]]
          /\ count' \in 0 .. MaxFds /\ held' \in [Contexts -> Int] /\ faults' = faults
          /\ \A j \in Data' : OldIndex(idx, j) \in Data \ {idx} /\ arr'[j] = arr[OldIndex(idx, j)]
          /\ Shape' /\ Once' /\ ContextsBalanced'
      BY <1>1, <1>2, <1>3, <2>4, RemoveEffect
    <2>6. TypeOK'
      <3>1. sock' \in [Fds -> Conns \cup {Closed}] /\ wake' \in BOOLEAN
        BY <1>1, <2>4 DEF TypeOK
      <3>2. QED
        BY <1>1, <2>5, <3>1 DEF TypeOK
    <2>7. Walk' /\ Order'
      BY <1>1, <1>2, <1>3, <1>6, <2>4 DEF Walk, Order
    <2>8. Accepted'
      <3>1. /\ \A g \in Fds : sock'[g] # Closed => peer[sock'[g]] \notin Unheard /\ sock'[g] \in program.conns
            /\ \A g, h \in Fds : sock'[g] = sock'[h] /\ sock'[g] # Closed => g = h
        BY <1>5 DEF Accepted
      <3>2. \A j \in Data' : peer[arr'[j].conn] \notin Unheard /\ arr'[j].conn \in program.conns
        BY <2>5 DEF Accepted
      <3>3. QED
        BY <1>1, <3>1, <3>2 DEF Accepted
    <2>9. HandlersRemove'
      <3>1. \A j \in Slots : "hup" \notin arr'[j].rev
        BY <1>2, <1>6, <2>4, ShiftMoves DEF HandlersRemove
      <3>2. \A j \in Data' : sock'[arr'[j].fd] = arr'[j].conn
        <4> SUFFICES ASSUME NEW j \in Data' PROVE sock'[arr'[j].fd] = arr'[j].conn
          OBVIOUS
        <4>1. PICK k \in Data \ {idx} : arr'[j] = arr[k]
          BY <2>5
        <4>2. arr[k].fd \in Fds /\ arr[k].fd # f
          BY <4>1, <1>2, <2>1 DEF Once, Shape, Data
        <4>3. QED
          BY <1>5, <2>1, <4>1, <4>2
      <3>3. QED
        BY <3>1, <3>2 DEF HandlersRemove
    <2>10. QED
      BY <2>5, <2>6, <2>7, <2>8, <2>9
  <1>7. CASE program.onEof # "remove"
    <2>1. UNCHANGED <<arr, count, held, wake, faults>>
      BY <1>7 DEF HandleEof, array
    <2>2. TypeOK'
      <3>1. sock' \in [Fds -> Conns \cup {Closed}]
        BY <1>1 DEF TypeOK
      <3>2. QED
        BY <1>1, <2>1, <3>1 DEF TypeOK
    <2>3. Shape' /\ Once' /\ Walk' /\ Order'
      BY <1>1, <1>2, <1>3, <2>1 DEF Shape, Once, Walk, Order, Entries, Data
    <2>4. Accepted'
      BY <1>1, <1>5, <2>1 DEF Accepted, Data, Entries
    <2>5. HandlersRemove' /\ ContextsBalanced'
      BY <1>1, <1>7, <2>1 DEF HandlersRemove, ContextsBalanced, Entries
    <2>6. QED
      BY <2>2, <2>3, <2>4, <2>5
  <1>8. QED
    BY <1>6, <1>7

\* The loop drops the entry at the index when poll said it is dead.
LEMMA InvDropDead ==
    ASSUME Inv, DropDead
    PROVE  Inv'
  <1> USE DEF Inv
  <1>1. /\ loop = "dead" /\ idx' = idx - 1 /\ loop' = "entry"
        /\ UNCHANGED <<program, sock, peer, wake, shutdown, stopped, main, asked, signalled>>
    BY DEF DropDead, env
  <1>2. idx \in Nat /\ idx >= 1 /\ idx <= count /\ count \in Nat /\ idx <= MaxFds - 1 /\ MaxFds \in Nat
    BY <1>1, Numbers DEF TypeOK, Walk
  <1>3. main # "joined" /\ ~stopped
    BY <1>1 DEF Order
  <1>4. idx' \in 0 .. MaxFds - 1
    BY <1>1, <1>2
  <1>5. CASE "hup" \in arr[idx].rev
    <2>1. program.onEof = "close"
      <3>1. idx \in Slots
        BY <1>2 DEF Slots
      <3>2. program.onEof \in {"remove", "close"}
        BY SelectorAssumption DEF TypeOK
      <3>3. QED
        BY <1>5, <3>1, <3>2 DEF HandlersRemove
    <2>2. idx \in Entries /\ idx <= count - 1
      BY <1>1, <1>2, <2>1 DEF Walk, Entries
    <2>3. Release(arr[idx].conn) /\ arr' = Shifted(idx) /\ count' = count - 1
      BY <1>5 DEF DropDead
    <2>4. /\ arr' \in [Slots -> [kind : {"pipe", "accept", "data"}, fd : Fds \cup {Listener, Closed},
                                 conn : Contexts, rev : SUBSET {"in", "hup"}]]
          /\ count' \in 0 .. MaxFds /\ held' \in [Contexts -> Int] /\ faults' = faults
          /\ \A j \in Data' : OldIndex(idx, j) \in Data \ {idx} /\ arr'[j] = arr[OldIndex(idx, j)]
          /\ Shape' /\ Once' /\ ContextsBalanced'
      BY <1>1, <1>3, <2>2, <2>3, RemoveEffect
    <2>5. TypeOK'
      BY <1>1, <1>4, <2>4 DEF TypeOK
    <2>6. Walk' /\ Order' /\ HandlersRemove'
      BY <1>1, <1>2, <1>3, <2>1, <2>2, <2>3 DEF Walk, Order, HandlersRemove
    <2>7. Accepted'
      BY <1>1, <2>4 DEF Accepted
    <2>8. QED
      BY <2>4, <2>5, <2>6, <2>7
  <1>6. CASE "hup" \notin arr[idx].rev
    <2>1. UNCHANGED <<arr, count, held, faults>>
      BY <1>6 DEF DropDead
    <2>2. Walk' /\ Order'
      BY <1>1, <1>2, <1>3, <2>1 DEF Walk, Order
    <2>3. QED
      BY <1>1, <1>4, <2>1, <2>2, InvQuiet DEF TypeOK, env, array
  <1>7. QED
    BY <1>5, <1>6

\* A connection is accepted on a free descriptor, and registered if there is room.
LEMMA InvAccept ==
    ASSUME Inv, Accept
    PROVE  Inv'
  <1> USE DEF Inv
  <1>1. /\ loop = "entry" /\ idx >= 1 /\ loop' = "dead"
        /\ UNCHANGED <<program, shutdown, stopped, idx, main, asked, signalled, faults>>
    BY DEF Accept
  <1>2. PICK k \in Queued :
          /\ sock' = [sock EXCEPT ![Min({g \in Fds : sock[g] = Closed})] = k]
          /\ peer' = [peer EXCEPT ![k] = "idle"]
          /\ Add("data", Min({g \in Fds : sock[g] = Closed}), k)
    BY DEF Accept
  <1> DEFINE f == Min({g \in Fds : sock[g] = Closed})
  <1>3. f \in Fds /\ sock[f] = Closed
    BY FreeDescriptor
  <1>4. Add("data", f, k) /\ sock' = [sock EXCEPT ![f] = k]
    BY <1>2
  <1> HIDE DEF f
  <1>5. k \in Conns /\ peer[k] = "queued" /\ k \in program.conns /\ k \in Contexts
    BY DEF Queued, Accepted, Contexts
  <1>6. /\ idx \in Nat /\ count \in Nat /\ idx <= count - 1 /\ count >= 1 /\ count <= MaxFds
        /\ MaxFds \in Nat
    BY <1>1, Numbers DEF TypeOK, Walk
  <1>7. main # "joined" /\ ~stopped
    BY <1>1 DEF Order
  <1>8. \A g \in Fds : sock'[g] = IF g = f THEN k ELSE sock[g]
    BY <1>3, <1>4 DEF TypeOK
  <1>9. \A l \in Conns : peer'[l] = IF l = k THEN "idle" ELSE peer[l]
    BY <1>2 DEF TypeOK
  <1>10. sock' \in [Fds -> Conns \cup {Closed}]
    BY <1>3, <1>4, <1>5 DEF TypeOK
  <1>11. peer' \in [Conns -> {"none", "queued", "idle", "data", "eof", "reset"}]
    BY <1>2 DEF TypeOK
  <1>12. \A g \in Fds : sock[g] # k
    BY <1>5, Numbers DEF Accepted, Unheard
  <1>13. \A i \in Data : arr[i].conn # k /\ arr[i].conn \in Conns /\ arr[i].fd \in Fds
    BY <1>5 DEF Accepted, Unheard, Data, Shape
  <1>14. \A g \in Fds : sock'[g] # Closed => peer'[sock'[g]] \notin Unheard /\ sock'[g] \in program.conns
    <2> SUFFICES ASSUME NEW g \in Fds, sock'[g] # Closed
                 PROVE  peer'[sock'[g]] \notin Unheard /\ sock'[g] \in program.conns
      OBVIOUS
    <2>1. CASE g = f
      BY <1>5, <1>8, <1>9, <2>1 DEF Unheard
    <2>2. CASE g # f
      <3>1. sock'[g] = sock[g] /\ sock[g] # Closed /\ sock[g] \in Conns \ {k}
        BY <1>8, <1>12, <2>2 DEF TypeOK
      <3>2. QED
        BY <1>9, <3>1 DEF Accepted
    <2>3. QED
      BY <2>1, <2>2
  <1>15. \A g, h \in Fds : sock'[g] = sock'[h] /\ sock'[g] # Closed => g = h
    BY <1>8, <1>12 DEF Accepted
  <1>16. \A l \in Conns : (peer'[l] # "none" => l \in program.conns)
                            /\ (peer'[l] = "reset" => program.resets)
    BY <1>5, <1>9 DEF Accepted
  <1>17. CASE count < MaxFds
    <2>1. /\ count' = count + 1 /\ wake' = TRUE
          /\ Entries' = Entries \cup {count} /\ count \notin Entries /\ count \in Slots
          /\ arr'[count] = [kind |-> "data", fd |-> f, conn |-> k, rev |-> arr[count].rev]
          /\ \A i \in Slots : i # count => arr'[i] = arr[i]
          /\ \A i \in Slots : arr'[i].rev = arr[i].rev
          /\ \A c \in Contexts : Cardinality(Holders(c)') =
                 Cardinality(Holders(c)) + (IF c = k THEN 1 ELSE 0)
          /\ \A c \in Contexts : held'[c] = held[c] + (IF c = k THEN 1 ELSE 0)
          /\ arr' \in [Slots -> [kind : {"pipe", "accept", "data"}, fd : Fds \cup {Listener, Closed},
                                 conn : Contexts, rev : SUBSET {"in", "hup"}]]
          /\ held' \in [Contexts -> Int]
      <3>1. "data" \in {"accept", "data"} /\ f \in Fds \cup {Listener, Closed}
        BY <1>3
      <3>2. QED
        BY <1>4, <1>5, <1>6, <1>17, <3>1, AddEffect
    <2>2. Entries \subseteq Slots /\ 0 \in Slots /\ 0 # count
      BY <1>6 DEF Entries, Slots
    <2>3. \A i \in Entries : arr'[i] = arr[i]
      BY <2>1, <2>2
    <2>4. Data' = Data \cup {count}
      BY <2>1, <2>3 DEF Data
    <2>5. TypeOK'
      <3>1. count' \in 0 .. MaxFds
        BY <1>6, <1>17, <2>1
      <3>2. wake' \in BOOLEAN
        BY <2>1
      <3>3. QED
        BY <1>1, <1>10, <1>11, <2>1, <3>1, <3>2 DEF TypeOK
    <2>6. Shape'
      <3>1. count' >= 1 /\ arr'[0] = arr[0]
        BY <1>6, <2>1, <2>2
      <3>2. QED
        BY <1>3, <1>5, <2>1, <2>3, <3>1 DEF Shape
    <2>7. Walk' /\ Order'
      BY <1>1, <1>6, <1>7, <2>1 DEF Walk, Order
    <2>8. Accepted'
      <3>1. \A i \in Data' : peer'[arr'[i].conn] \notin Unheard /\ arr'[i].conn \in program.conns
        <4>1. peer'[k] \notin Unheard /\ k \in program.conns /\ arr'[count].conn = k
          BY <1>5, <1>9, <2>1 DEF Unheard
        <4>2. \A i \in Data : /\ arr'[i] = arr[i]
                               /\ peer'[arr[i].conn] = peer[arr[i].conn]
          BY <1>9, <1>13, <2>3 DEF Data
        <4>3. QED
          BY <2>4, <4>1, <4>2 DEF Accepted
      <3>2. QED
        BY <1>1, <1>14, <1>15, <1>16, <3>1 DEF Accepted
    <2>9. Once'
      <3>1. \A i, j \in Data' : arr'[i].conn = arr'[j].conn => i = j
        <4>1. arr'[count].conn = k /\ \A i \in Data : arr'[i] = arr[i] /\ arr[i].conn # k
          BY <1>13, <2>1, <2>3 DEF Data
        <4>2. QED
          BY <2>4, <4>1 DEF Once
      <3>2. /\ \A i, j \in Entries' : arr'[i].kind = "accept" /\ arr'[j].kind = "accept" => i = j
            /\ main' = "setup" => \A i \in Entries' : arr'[i].kind # "accept"
        BY <1>1, <2>1, <2>3 DEF Once
      <3>3. QED
        BY <3>1, <3>2 DEF Once
    <2>10. HandlersRemove'
      <3> SUFFICES ASSUME program.onEof = "remove" PROVE HandlersRemove'
        BY <1>1 DEF HandlersRemove
      <3>1. \A i \in Slots : "hup" \notin arr'[i].rev
        BY <2>1 DEF HandlersRemove
      <3>2. \A i \in Data' : sock'[arr'[i].fd] = arr'[i].conn
        <4>1. sock'[f] = k /\ arr'[count].fd = f /\ arr'[count].conn = k
          BY <1>3, <1>8, <2>1
        <4>2. ASSUME NEW i \in Data PROVE sock'[arr[i].fd] = arr[i].conn /\ arr'[i] = arr[i]
          <5>1. sock[arr[i].fd] = arr[i].conn /\ arr[i].fd \in Fds /\ arr[i].conn \in Conns
            BY <1>13 DEF HandlersRemove
          <5>2. arr[i].fd # f
            BY <1>3, <5>1, Numbers
          <5>3. QED
            BY <1>8, <2>3, <5>1, <5>2 DEF Data
        <4>3. QED
          BY <2>4, <4>1, <4>2
      <3>3. QED
        BY <3>1, <3>2 DEF HandlersRemove
    <2>11. ContextsBalanced'
      <3>1. \A c \in Contexts : held[c] = Cardinality(Holders(c))
        BY <1>7 DEF ContextsBalanced, Holders
      <3>2. \A c \in Contexts : held'[c] = Cardinality(Holders(c)')
        BY <2>1, <3>1
      <3>3. QED
        BY <1>1, <1>7, <2>6, <3>2 DEF ContextsBalanced, Shape, Holders
    <2>12. QED
      BY <2>5, <2>6, <2>7, <2>8, <2>9, <2>10, <2>11
  <1>18. CASE ~(count < MaxFds)
    <2>1. UNCHANGED <<arr, count, held, wake>>
      BY <1>4, <1>18 DEF Add, array
    <2>2. Entries' = Entries /\ Data' = Data
      BY <2>1 DEF Entries, Data
    <2>3. TypeOK'
      BY <1>1, <1>10, <1>11, <2>1 DEF TypeOK
    <2>4. Shape' /\ Once' /\ Walk' /\ Order'
      BY <1>1, <1>6, <1>7, <2>1, <2>2 DEF Shape, Once, Walk, Order
    <2>5. Accepted'
      <3>1. \A i \in Data' : peer'[arr'[i].conn] \notin Unheard /\ arr'[i].conn \in program.conns
        BY <1>9, <1>13, <2>1, <2>2 DEF Accepted
      <3>2. QED
        BY <1>1, <1>14, <1>15, <1>16, <3>1 DEF Accepted
    <2>6. HandlersRemove'
      <3> SUFFICES ASSUME program.onEof = "remove" PROVE HandlersRemove'
        BY <1>1 DEF HandlersRemove
      <3>1. \A i \in Data : sock'[arr[i].fd] = arr[i].conn
        BY <1>3, <1>8, <1>13, Numbers DEF HandlersRemove
      <3>2. QED
        BY <2>1, <2>2, <3>1 DEF HandlersRemove
    <2>7. ContextsBalanced'
      BY <1>1, <2>1, <2>2 DEF ContextsBalanced
    <2>8. QED
      BY <2>3, <2>4, <2>5, <2>6, <2>7
  <1>19. QED
    BY <1>17, <1>18

\* The main thread registers the listening socket.
LEMMA InvOnAccept ==
    ASSUME Inv, OnAccept
    PROVE  Inv'
  <1> USE DEF Inv
  <1>1. /\ main = "setup" /\ main' = "serving" /\ Add("accept", Listener, Listener)
        /\ UNCHANGED <<program, sock, peer, shutdown, stopped, loop, idx, asked, signalled, faults>>
    BY DEF OnAccept, env
  <1>2. count \in Nat /\ count >= 1 /\ count <= MaxFds /\ MaxFds \in Nat /\ idx \in Nat
    BY Numbers DEF TypeOK, Shape
  <1>3. CASE count < MaxFds
    <2>1. /\ count' = count + 1 /\ wake' = TRUE
          /\ Entries' = Entries \cup {count} /\ count \notin Entries /\ count \in Slots
          /\ arr'[count] = [kind |-> "accept", fd |-> Listener, conn |-> Listener, rev |-> arr[count].rev]
          /\ \A i \in Slots : i # count => arr'[i] = arr[i]
          /\ \A i \in Slots : arr'[i].rev = arr[i].rev
          /\ \A c \in Contexts : Cardinality(Holders(c)') =
                 Cardinality(Holders(c)) + (IF c = Listener THEN 1 ELSE 0)
          /\ \A c \in Contexts : held'[c] = held[c] + (IF c = Listener THEN 1 ELSE 0)
          /\ arr' \in [Slots -> [kind : {"pipe", "accept", "data"}, fd : Fds \cup {Listener, Closed},
                                 conn : Contexts, rev : SUBSET {"in", "hup"}]]
          /\ held' \in [Contexts -> Int]
      <3>1. "accept" \in {"accept", "data"} /\ Listener \in Fds \cup {Listener, Closed}
            /\ Listener \in Contexts
        BY DEF Contexts
      <3>2. QED
        BY <1>1, <1>2, <1>3, <3>1, AddEffect
    <2>2. Entries \subseteq Slots /\ 0 \in Slots /\ 0 # count
      BY <1>2 DEF Entries, Slots
    <2>3. \A i \in Entries : arr'[i] = arr[i]
      BY <2>1, <2>2
    <2>4. Data' = Data
      BY <2>1, <2>3 DEF Data
    <2>5. TypeOK'
      <3>1. count' \in 0 .. MaxFds
        BY <1>2, <1>3, <2>1
      <3>2. wake' \in BOOLEAN /\ main' \in {"setup", "serving", "join", "joined"}
        BY <1>1, <2>1
      <3>3. QED
        BY <1>1, <2>1, <3>1, <3>2 DEF TypeOK
    <2>6. Shape'
      <3>1. count' >= 1 /\ arr'[0] = arr[0]
        BY <1>2, <2>1, <2>2
      <3>2. QED
        BY <2>1, <2>3, <3>1 DEF Shape
    <2>7. Walk' /\ Order'
      BY <1>1, <1>2, <2>1 DEF Walk, Order
    <2>8. Accepted'
      BY <1>1, <2>3, <2>4 DEF Accepted, Data
    <2>9. Once'
      BY <1>1, <2>1, <2>3, <2>4 DEF Once, Data
    <2>10. HandlersRemove'
      BY <1>1, <2>1, <2>3, <2>4 DEF HandlersRemove, Data
    <2>11. ContextsBalanced'
      <3>1. \A c \in Contexts : held[c] = Cardinality(Holders(c))
        BY <1>1 DEF ContextsBalanced, Holders
      <3>2. \A c \in Contexts : held'[c] = Cardinality(Holders(c)')
        BY <2>1, <3>1
      <3>3. QED
        BY <1>1, <2>6, <3>2 DEF ContextsBalanced, Shape, Holders
    <2>12. QED
      BY <2>5, <2>6, <2>7, <2>8, <2>9, <2>10, <2>11
  <1>4. CASE ~(count < MaxFds)
    <2>1. UNCHANGED <<arr, count, held, wake>>
      BY <1>1, <1>4 DEF Add, array
    <2>2. Walk' /\ Order'
      BY <1>1, <2>1 DEF Walk, Order
    <2>3. QED
      BY <1>1, <2>1, <2>2, InvQuiet DEF TypeOK, env
  <1>5. QED
    BY <1>3, <1>4

\* __blang_selector_destroy gives every reference back.
LEMMA InvJoinReturn ==
    ASSUME Inv, JoinReturn
    PROVE  Inv'
  <1> USE DEF Inv
  <1>1. /\ main = "join" /\ stopped /\ main' = "joined"
        /\ held' = [c \in Contexts |-> held[c] - Cardinality({i \in 1 .. count - 1 : arr[i].conn = c})]
        /\ UNCHANGED <<program, sock, peer, arr, count, wake, shutdown, stopped, loop, idx, asked,
                       signalled, faults>>
    BY DEF JoinReturn, env
  <1>2. \A c \in Contexts : Holders(c) = {i \in 1 .. count - 1 : arr[i].conn = c}
    BY DEF Holders, Entries
  <1>3. \A c \in Contexts : held[c] = Cardinality(Holders(c)) /\ held[c] \in Int
    BY <1>1 DEF ContextsBalanced, Holders, TypeOK
  <1>4. \A c \in Contexts : held'[c] = 0
    BY <1>1, <1>2, <1>3
  <1>5. held' \in [Contexts -> Int]
    <2>1. \A c \in Contexts : held[c] - Cardinality({i \in 1 .. count - 1 : arr[i].conn = c}) \in Int
      BY <1>2, <1>3
    <2>2. QED
      BY <1>1, <2>1
  <1>6. TypeOK'
    BY <1>1, <1>5 DEF TypeOK
  <1>7. Shape' /\ Walk' /\ Order'
    BY <1>1 DEF Shape, Walk, Order, Entries
  <1>8. Once'
    BY <1>1 DEF Once, Entries, Data
  <1>9. Accepted' /\ HandlersRemove'
    BY <1>1 DEF Accepted, HandlersRemove, Entries, Data
  <1>10. ContextsBalanced'
    BY <1>1, <1>4 DEF ContextsBalanced
  <1>11. QED
    BY <1>6, <1>7, <1>8, <1>9, <1>10

\* Peers' own steps.
LEMMA InvPeersStep ==
    ASSUME Inv, Peers
    PROVE  Inv'
  <1> USE DEF Inv
  <1>1. UNCHANGED <<program, arr, count, held, wake, shutdown, stopped, loop, idx, sock, main, asked,
                    signalled, faults>>
    BY DEF Peers, array
  <1>2. PICK k \in Conns : Connect(k) \/ Send(k) \/ PeerLeaves(k)
    BY DEF Peers
  <1>3. /\ peer' \in [Conns -> {"none", "queued", "idle", "data", "eof", "reset"}]
        /\ \A l \in Conns \ {k} : peer'[l] = peer[l]
        /\ peer'[k] # "none" /\ (peer'[k] \in Unheard => peer[k] \in Unheard)
        /\ k \in program.conns /\ (peer'[k] = "reset" => program.resets)
    <2>1. CASE Connect(k)
      BY <2>1 DEF Connect, TypeOK, Unheard
    <2>2. CASE Send(k)
      BY <2>2 DEF Send, TypeOK, Unheard, Accepted
    <2>3. CASE PeerLeaves(k)
      <3>1. /\ peer[k] = "idle"
            /\ \/ peer' = [peer EXCEPT ![k] = "eof"]
               \/ program.resets /\ peer' = [peer EXCEPT ![k] = "reset"]
        <4>1. CASE program.resets
          BY <2>3, <4>1 DEF PeerLeaves
        <4>2. CASE ~program.resets
          BY <2>3, <4>2 DEF PeerLeaves
        <4>3. QED
          BY <4>1, <4>2
      <3>2. QED
        BY <3>1 DEF TypeOK, Unheard, Accepted
    <2>4. QED
      BY <1>2, <2>1, <2>2, <2>3
  <1>4. Walk' /\ Order'
    BY <1>1 DEF Walk, Order
  <1>5. QED
    BY <1>1, <1>3, <1>4, InvPeers DEF TypeOK, array

\* A handler reads what there is.
LEMMA InvHandleData ==
    ASSUME Inv, HandleData
    PROVE  Inv'
  <1> USE DEF Inv
  <1> DEFINE k == sock[arr[idx].fd]
  <1>1. /\ loop = "entry" /\ idx >= 1 /\ loop' = "dead" /\ arr[idx].kind = "data"
        /\ k # Closed /\ peer[k] = "data" /\ peer' = [peer EXCEPT ![k] = "idle"]
        /\ signalled' \in {signalled, TRUE}
        /\ UNCHANGED <<program, arr, count, held, wake, shutdown, stopped, idx, sock, main, asked, faults>>
    BY DEF HandleData, array
  <1>2. idx \in Entries /\ idx \in Data /\ idx \in Int /\ count \in Nat /\ idx <= count - 1
    BY <1>1, Numbers DEF TypeOK, Walk, Entries, Data
  <1>3. k \in Conns /\ k \in program.conns
    BY <1>1, <1>2 DEF Shape, Data, TypeOK, Accepted
  <1> HIDE DEF k
  <1>4. /\ peer' \in [Conns -> {"none", "queued", "idle", "data", "eof", "reset"}]
        /\ \A l \in Conns \ {k} : peer'[l] = peer[l]
        /\ peer'[k] = "idle"
    BY <1>1, <1>3 DEF TypeOK
  <1>5. peer'[k] # "none" /\ (peer'[k] \in Unheard => peer[k] \in Unheard)
        /\ (peer'[k] = "reset" => program.resets)
    BY <1>4 DEF Unheard
  <1>6. Walk' /\ Order'
    BY <1>1, <1>2 DEF Walk, Order
  <1>7. signalled' \in BOOLEAN
    BY <1>1 DEF TypeOK
  <1>8. QED
    BY <1>1, <1>3, <1>4, <1>5, <1>6, <1>7, InvPeers DEF array

\* Every step preserves the invariant.
LEMMA InvNext ==
    ASSUME Inv, [Next]_vars
    PROVE  Inv'
  <1>1. CASE Peers
    BY <1>1, InvPeersStep
  <1>2. CASE LoopStart
    <2>1. Walk' /\ Order'
      BY <1>2 DEF LoopStart, Inv, Walk, Order, env, array
    <2>2. QED
      BY <1>2, <2>1, InvQuiet DEF LoopStart, array, Inv, TypeOK
  <1>3. CASE LoopTest
    <2>1. Walk' /\ Order'
      BY <1>3 DEF LoopTest, Inv, TypeOK, Walk, Order, env, array
    <2>2. QED
      BY <1>3, <2>1, InvQuiet DEF LoopTest, array, Inv, TypeOK
  <1>4. CASE Poll
    BY <1>4, InvPoll
  <1>5. CASE NotReadable
    <2>1. count \in Int /\ idx \in Int
      BY Numbers DEF Inv, TypeOK
    <2>2. Walk' /\ Order'
      BY <1>5, <2>1 DEF NotReadable, Inv, Walk, Order, env, array
    <2>3. QED
      BY <1>5, <2>2, InvQuiet DEF NotReadable, array, Inv, TypeOK
  <1>6. CASE Accept
    BY <1>6, InvAccept
  <1>7. CASE HandleData
    BY <1>7, InvHandleData
  <1>8. CASE HandleEof
    BY <1>8, InvHandleEof
  <1>9. CASE DropDead
    BY <1>9, InvDropDead
  <1>10. CASE PassEnds
    <2>1. Walk' /\ Order'
      BY <1>10 DEF PassEnds, Inv, Walk, Order, env, array
    <2>2. QED
      BY <1>10, <2>1, InvQuiet DEF PassEnds, array, Inv, TypeOK
  <1>11. CASE OnAccept
    BY <1>11, InvOnAccept
  <1>12. CASE Shutdown
    <2>1. Walk' /\ Order'
      BY <1>12 DEF Shutdown, Inv, Walk, Order, env
    <2>2. QED
      BY <1>12, <2>1, InvQuiet DEF Shutdown, Inv, TypeOK
  <1>13. CASE Join
    <2>1. Walk' /\ Order'
      BY <1>13 DEF Join, Inv, Walk, Order, env, array
    <2>2. QED
      BY <1>13, <2>1, InvQuiet DEF Join, array, Inv, TypeOK
  <1>14. CASE JoinReturn
    BY <1>14, InvJoinReturn
  <1>15. CASE UNCHANGED vars
    <2>1. Walk' /\ Order'
      BY <1>15 DEF vars, Inv, Walk, Order
    <2>2. QED
      BY <1>15, <2>1, InvQuiet DEF vars, env, Inv, TypeOK
  <1>16. QED
    BY <1>1, <1>2, <1>3, <1>4, <1>5, <1>6, <1>7, <1>8, <1>9, <1>10, <1>11, <1>12, <1>13, <1>14,
       <1>15 DEF Next, LoopStep

\* The selector holds one reference on the context of every entry, and none is left
\* after join(), however handlers, the loop and the main thread interleave.
THEOREM Balanced ==
    ASSUME \A g \in Programs : OneRemover(g)
    PROVE  Spec => []ContextsBalanced
  <1>1. Init => Inv
    BY InvInit
  <1>2. Inv /\ [Next]_vars => Inv'
    BY InvNext
  <1>3. Inv => ContextsBalanced
    BY DEF Inv
  <1>4. QED
    BY <1>1, <1>2, <1>3, PTL DEF Spec

-----------------------------------------------------------------------------
\* What poll found stays true of the entries the dispatch loop has yet to visit.

\* Entries yet to be visited are entries of the array, and more than the current
\* one only when the loop stands before an entry.
LEMMA PendingSlots ==
    ASSUME Inv
    PROVE  /\ Pending \subseteq Entries /\ Pending \subseteq Slots
           /\ idx \in Int /\ \A i \in Pending : i \in Int /\ i >= 1 /\ i <= idx /\ i < count
           /\ loop = "dead" => \A i \in Pending : i < idx
           /\ loop = "entry" /\ idx >= 1 => idx \in Pending
  <1>1. count \in Nat /\ idx \in Nat /\ count <= MaxFds /\ MaxFds \in Nat
    BY Numbers DEF Inv, TypeOK
  <1>2. (loop = "entry" => idx <= count - 1) /\ (loop = "dead" => idx >= 1 /\ idx <= count)
    BY DEF Inv, Walk
  <1>3. CASE loop = "entry"
    BY <1>1, <1>2, <1>3 DEF Pending, Entries, Slots
  <1>4. CASE loop = "dead"
    BY <1>1, <1>2, <1>4 DEF Pending, Entries, Slots
  <1>5. CASE loop \notin {"entry", "dead"}
    BY <1>1, <1>5 DEF Pending
  <1>6. QED
    BY <1>3, <1>4, <1>5

\* The entries yet to be visited after a handler are those below the index.
LEMMA PendingBelow ==
    ASSUME Inv, loop = "entry", loop' = "dead", idx' = idx
    PROVE  Pending' = {i \in Pending : i < idx}
  <1>1. idx \in Int
    BY Numbers DEF Inv, TypeOK
  <1>2. QED
    BY <1>1 DEF Pending

\* A step that leaves the array, the sockets and the peers as they are, and no
\* entry more to visit.
LEMMA ReadyQuiet ==
    ASSUME Inv, StillReady, UNCHANGED <<arr, sock, peer>>, Pending' \subseteq Pending
    PROVE  StillReady'
  BY DEF StillReady, Queued

\* What poll has just reported is so.
LEMMA ReadyPoll ==
    ASSUME Inv, NoReuse(program), Poll
    PROVE  StillReady'
  <1> USE DEF Inv
  <1>1. /\ arr' = [i \in Slots |->
                     IF i < count THEN [arr[i] EXCEPT !.rev = Revents(arr[i])] ELSE arr[i]]
        /\ idx' = count - 1 /\ loop' = "entry"
        /\ UNCHANGED <<program, sock, peer, count>>
    BY DEF Poll, env
  <1>2. count \in Nat /\ count <= MaxFds /\ MaxFds \in Nat /\ Slots = 0 .. MaxFds - 1
    BY Numbers DEF TypeOK, Slots
  <1>3. Pending' = Entries /\ Entries \subseteq Slots
    BY <1>1, <1>2 DEF Pending, Entries
  <1> SUFFICES ASSUME NEW i \in Entries, "in" \in arr'[i].rev
               PROVE  /\ arr'[i].kind = "accept" => Queued' # {}
                      /\ arr'[i].kind = "data" => /\ sock'[arr'[i].fd] = arr'[i].conn
                                                  /\ peer'[arr'[i].conn] \in {"data", "eof", "reset"}
    BY <1>3 DEF StillReady
  <1>4. /\ arr'[i].kind = arr[i].kind /\ arr'[i].fd = arr[i].fd /\ arr'[i].conn = arr[i].conn
        /\ arr'[i].rev = Revents(arr[i])
    BY <1>1, <1>2, <1>3 DEF TypeOK, Entries
  <1>5. Queued' = Queued
    BY <1>1 DEF Queued
  <1>6. CASE arr[i].kind = "accept"
    BY <1>4, <1>5, <1>6 DEF Revents
  <1>7. CASE arr[i].kind = "data"
    <2>1. i \in Data /\ arr[i].fd \in Fds /\ arr[i].conn \in Conns
      BY <1>7 DEF Data, Shape
    <2>2. sock[arr[i].fd] # Closed
      BY <1>4, <1>7 DEF Revents
    <2>3. peer[sock[arr[i].fd]] \in {"data", "eof", "reset"}
      BY <1>4, <1>7, <2>2 DEF Revents
    <2>4. sock[arr[i].fd] = arr[i].conn
      <3>1. CASE program.onEof = "remove"
        BY <2>1, <3>1 DEF HandlersRemove
      <3>2. CASE \E k \in Conns : program.conns \subseteq {k}
        <4>1. sock[arr[i].fd] \in program.conns /\ arr[i].conn \in program.conns
          BY <2>1, <2>2 DEF Accepted
        <4>2. QED
          BY <3>2, <4>1
      <3>3. QED
        BY <3>1, <3>2 DEF NoReuse
    <2>5. QED
      BY <1>1, <1>4, <1>7, <2>3, <2>4
  <1>8. QED
    BY <1>4, <1>6, <1>7 DEF Shape

\* accept takes a waiting connection: there is no second listening entry to miss
\* it, and the descriptor it opens belongs to no entry yet to be visited.
LEMMA ReadyAccept ==
    ASSUME Inv, StillReady, Accept
    PROVE  StillReady'
  <1> USE DEF Inv
  <1>1. /\ loop = "entry" /\ idx >= 1 /\ loop' = "dead" /\ idx' = idx /\ arr[idx].kind = "accept"
    BY DEF Accept
  <1>2. PICK k \in Queued :
          /\ sock' = [sock EXCEPT ![Min({g \in Fds : sock[g] = Closed})] = k]
          /\ peer' = [peer EXCEPT ![k] = "idle"]
          /\ Add("data", Min({g \in Fds : sock[g] = Closed}), k)
    BY DEF Accept
  <1> DEFINE f == Min({g \in Fds : sock[g] = Closed})
  <1>3. f \in Fds /\ sock[f] = Closed
    BY FreeDescriptor
  <1>4. Add("data", f, k) /\ sock' = [sock EXCEPT ![f] = k]
    BY <1>2
  <1> HIDE DEF f
  <1>5. k \in Conns /\ peer[k] = "queued"
    BY DEF Queued
  <1> SUFFICES ASSUME NEW i \in Pending, i < idx, "in" \in arr'[i].rev
               PROVE  /\ arr'[i].kind = "accept" => Queued' # {}
                      /\ arr'[i].kind = "data" => /\ sock'[arr'[i].fd] = arr'[i].conn
                                                  /\ peer'[arr'[i].conn] \in {"data", "eof", "reset"}
    BY <1>1, PendingBelow DEF StillReady
  <1>6. i \in Entries /\ idx \in Entries /\ i # idx /\ i \in Slots /\ i # count
    BY <1>1, PendingSlots
  <1>7. arr'[i] = arr[i]
    <2>1. count \in Nat /\ count <= MaxFds /\ MaxFds \in Nat
      BY Numbers DEF TypeOK
    <2>2. CASE count < MaxFds
      BY <1>4, <1>6, <2>2 DEF Add, TypeOK
    <2>3. CASE ~(count < MaxFds)
      BY <1>4, <2>3 DEF Add, array
    <2>4. QED
      BY <2>2, <2>3
  <1>8. arr[i].kind = "data" /\ i \in Data /\ arr[i].fd \in Fds /\ arr[i].conn \in Conns
    BY <1>1, <1>6 DEF Once, Shape, Data
  <1>9. sock[arr[i].fd] = arr[i].conn /\ peer[arr[i].conn] \in {"data", "eof", "reset"}
    BY <1>7, <1>8 DEF StillReady
  <1>10. arr[i].fd # f /\ arr[i].conn # k
    BY <1>3, <1>5, <1>8, <1>9, Numbers
  <1>11. sock'[arr[i].fd] = arr[i].conn /\ peer'[arr[i].conn] \in {"data", "eof", "reset"}
    BY <1>2, <1>4, <1>8, <1>9, <1>10 DEF TypeOK
  <1>12. QED
    BY <1>7, <1>8, <1>11

\* A handler reads its own connection only.
LEMMA ReadyHandleData ==
    ASSUME Inv, StillReady, HandleData
    PROVE  StillReady'
  <1> USE DEF Inv
  <1> DEFINE k == sock[arr[idx].fd]
  <1>1. /\ loop = "entry" /\ idx >= 1 /\ loop' = "dead" /\ idx' = idx /\ arr[idx].kind = "data"
        /\ "in" \in arr[idx].rev /\ peer' = [peer EXCEPT ![k] = "idle"]
        /\ peer[k] = "data" /\ UNCHANGED <<arr, sock>>
    BY DEF HandleData, array
  <1>2. idx \in Pending /\ idx \in Entries /\ idx \in Data
    BY <1>1, PendingSlots DEF Data
  <1>3. k = arr[idx].conn /\ k \in Conns
    BY <1>1, <1>2 DEF StillReady, Shape, Data
  <1> HIDE DEF k
  <1> SUFFICES ASSUME NEW i \in Pending, i < idx, "in" \in arr[i].rev
               PROVE  /\ arr[i].kind = "accept" => Queued' # {}
                      /\ arr[i].kind = "data" => /\ sock[arr[i].fd] = arr[i].conn
                                                 /\ peer'[arr[i].conn] \in {"data", "eof", "reset"}
    BY <1>1, PendingBelow DEF StillReady
  <1>4. i \in Entries /\ i # idx
    BY <1>1, PendingSlots
  <1>5. CASE arr[i].kind = "accept"
    <2>1. PICK q \in Conns : peer[q] = "queued"
      BY <1>5 DEF StillReady, Queued
    <2>2. peer'[q] = "queued"
      BY <1>1, <1>3, <2>1 DEF TypeOK
    <2>3. QED
      BY <1>5, <2>1, <2>2 DEF Queued
  <1>6. CASE arr[i].kind = "data"
    <2>1. i \in Data /\ arr[i].conn \in Conns
      BY <1>4, <1>6 DEF Data, Shape
    <2>2. arr[i].conn # k
      BY <1>2, <1>3, <1>4, <2>1 DEF Once
    <2>3. sock[arr[i].fd] = arr[i].conn /\ peer[arr[i].conn] \in {"data", "eof", "reset"}
      BY <1>6 DEF StillReady
    <2>4. peer'[arr[i].conn] = peer[arr[i].conn]
      BY <1>1, <1>3, <2>1, <2>2 DEF TypeOK
    <2>5. QED
      BY <1>6, <2>3, <2>4
  <1>7. QED
    BY <1>4, <1>5, <1>6 DEF Shape

\* A handler that closes and removes leaves the entries below the index alone.
LEMMA ReadyHandleEof ==
    ASSUME Inv, StillReady, HandleEof
    PROVE  StillReady'
  <1> USE DEF Inv
  <1> DEFINE f == arr[idx].fd
  <1>1. /\ loop = "entry" /\ idx >= 1 /\ loop' = "dead" /\ idx' = idx /\ arr[idx].kind = "data"
        /\ "in" \in arr[idx].rev /\ sock' = [sock EXCEPT ![f] = Closed] /\ peer' = peer
        /\ program.onEof = "remove" => Remove(f)
        /\ program.onEof # "remove" => UNCHANGED arr
    BY DEF HandleEof, array
  <1>2. idx \in Pending /\ idx \in Entries /\ idx \in Data
    BY <1>1, PendingSlots DEF Data
  <1>3. sock[f] = arr[idx].conn /\ f \in Fds
    BY <1>1, <1>2 DEF StillReady, Shape, Data
  <1>4. \A i \in Slots : i < idx => arr'[i] = arr[i]
    <2>1. CASE program.onEof = "remove"
      <3>1. \A i \in Data : arr[i].fd = f => i = idx
        <4> SUFFICES ASSUME NEW i \in Data, arr[i].fd = f PROVE i = idx
          OBVIOUS
        <4>1. arr[i].conn = arr[idx].conn
          BY <1>3, <2>1 DEF HandlersRemove
        <4>2. QED
          BY <1>2, <4>1 DEF Once
      <3>2. Registered(f) = {idx}
        <4>1. Registered(f) = {i \in Data : arr[i].fd = f}
          BY DEF Registered, Data, Entries
        <4>2. QED
          BY <1>2, <3>1, <4>1
      <3>3. Min(Registered(f)) = idx
        <4>1. idx <= idx
          BY PendingSlots
        <4>2. QED
          BY <3>2, <4>1 DEF Min
      <3>4. arr' = Shifted(idx) /\ count' = count - 1
        BY <1>1, <2>1, <3>2, <3>3 DEF Remove
      <3>5. QED
        BY <1>2, <3>4, ShiftMoves
    <2>2. CASE program.onEof # "remove"
      BY <1>1, <2>2
    <2>3. QED
      BY <2>1, <2>2
  <1> SUFFICES ASSUME NEW i \in Pending, i < idx, "in" \in arr'[i].rev
               PROVE  /\ arr'[i].kind = "accept" => Queued' # {}
                      /\ arr'[i].kind = "data" => /\ sock'[arr'[i].fd] = arr'[i].conn
                                                  /\ peer'[arr'[i].conn] \in {"data", "eof", "reset"}
    BY <1>1, PendingBelow DEF StillReady
  <1>5. i \in Entries /\ i # idx /\ i \in Slots /\ arr'[i] = arr[i]
    BY <1>1, <1>4, PendingSlots
  <1>6. Queued' = Queued
    BY <1>1 DEF Queued
  <1>7. CASE arr[i].kind = "accept"
    BY <1>5, <1>6, <1>7 DEF StillReady
  <1>8. CASE arr[i].kind = "data"
    <2>1. i \in Data /\ arr[i].fd \in Fds
      BY <1>5, <1>8 DEF Data, Shape
    <2>2. sock[arr[i].fd] = arr[i].conn /\ peer[arr[i].conn] \in {"data", "eof", "reset"}
      BY <1>5, <1>8 DEF StillReady
    <2>3. arr[i].fd # f
      BY <1>2, <1>3, <1>5, <2>1, <2>2 DEF Once
    <2>4. sock'[arr[i].fd] = sock[arr[i].fd]
      BY <1>1, <1>3, <2>1, <2>3 DEF TypeOK
    <2>5. QED
      BY <1>1, <1>5, <1>8, <2>2, <2>4
  <1>9. QED
    BY <1>5, <1>7, <1>8 DEF Shape

\* The loop drops at the index, above the entries yet to be visited.
LEMMA ReadyDropDead ==
    ASSUME Inv, StillReady, DropDead
    PROVE  StillReady'
  <1> USE DEF Inv
  <1>1. /\ loop = "dead" /\ idx' = idx - 1 /\ loop' = "entry" /\ UNCHANGED <<program, sock, peer>>
    BY DEF DropDead, env
  <1>2. Pending' = Pending /\ \A i \in Pending : i < idx /\ i \in Slots
    <2>1. Pending' = Pending
      BY <1>1 DEF Pending
    <2>2. QED
      BY <1>1, <2>1, PendingSlots
  <1>3. \A i \in Slots : i < idx => arr'[i] = arr[i]
    <2>1. CASE "hup" \in arr[idx].rev
      <3>1. arr' = Shifted(idx)
        BY <2>1 DEF DropDead
      <3>2. idx \in Int
        BY PendingSlots
      <3>3. QED
        BY <3>1, <3>2 DEF Shifted, Slots
    <2>2. CASE "hup" \notin arr[idx].rev
      BY <2>2 DEF DropDead
    <2>3. QED
      BY <2>1, <2>2
  <1>4. QED
    BY <1>1, <1>2, <1>3 DEF StillReady, Queued

\* A new entry lies above those the loop has yet to visit.
LEMMA ReadyOnAccept ==
    ASSUME Inv, StillReady, OnAccept
    PROVE  StillReady'
  <1> USE DEF Inv
  <1>1. Add("accept", Listener, Listener) /\ UNCHANGED <<program, sock, peer, loop, idx>>
    BY DEF OnAccept, env
  <1>2. Pending' = Pending
    BY <1>1 DEF Pending
  <1>3. \A i \in Pending : arr'[i] = arr[i]
    <2> SUFFICES ASSUME NEW i \in Pending PROVE arr'[i] = arr[i]
      OBVIOUS
    <2>1. i \in Slots /\ i # count /\ count \in Int
      BY PendingSlots, Numbers DEF TypeOK
    <2>2. CASE count < MaxFds
      BY <1>1, <2>1, <2>2 DEF Add, TypeOK
    <2>3. CASE ~(count < MaxFds)
      BY <1>1, <2>3 DEF Add, array
    <2>4. QED
      BY <2>2, <2>3
  <1>4. QED
    BY <1>1, <1>2, <1>3 DEF StillReady, Queued

\* Peers make nothing unreadable.
LEMMA ReadyPeers ==
    ASSUME Inv, StillReady, Peers
    PROVE  StillReady'
  <1> USE DEF Inv
  <1>1. UNCHANGED <<arr, sock, loop, idx>>
    BY DEF Peers, array
  <1>2. PICK k \in Conns : Connect(k) \/ Send(k) \/ PeerLeaves(k)
    BY DEF Peers
  <1>3. \A l \in Conns : peer[l] \in {"queued", "data", "eof", "reset"} => peer'[l] = peer[l]
    <2>1. CASE Connect(k)
      BY <2>1 DEF Connect, TypeOK
    <2>2. CASE Send(k)
      BY <2>2 DEF Send, TypeOK
    <2>3. CASE PeerLeaves(k)
      <3>1. peer[k] = "idle" /\ \E x \in {"eof", "reset"} : peer' = [peer EXCEPT ![k] = x]
        <4>1. CASE program.resets
          BY <2>3, <4>1 DEF PeerLeaves
        <4>2. CASE ~program.resets
          BY <2>3, <4>2 DEF PeerLeaves
        <4>3. QED
          BY <4>1, <4>2
      <3>2. QED
        BY <3>1 DEF TypeOK
    <2>4. QED
      BY <1>2, <2>1, <2>2, <2>3
  <1>4. Queued \subseteq Queued'
    BY <1>3 DEF Queued
  <1>5. \A i \in Pending : arr[i].kind = "data" => arr[i].conn \in Conns
    BY PendingSlots DEF Shape
  <1>6. Pending' = Pending
    BY <1>1 DEF Pending
  <1> SUFFICES ASSUME NEW i \in Pending, "in" \in arr[i].rev
               PROVE  /\ arr[i].kind = "accept" => Queued' # {}
                      /\ arr[i].kind = "data" => /\ sock[arr[i].fd] = arr[i].conn
                                                 /\ peer'[arr[i].conn] \in {"data", "eof", "reset"}
    BY <1>1, <1>6 DEF StillReady
  <1>7. arr[i].kind = "accept" => Queued' # {}
    BY <1>4 DEF StillReady
  <1>8. arr[i].kind = "data" => /\ sock[arr[i].fd] = arr[i].conn
                                /\ peer'[arr[i].conn] \in {"data", "eof", "reset"}
    BY <1>3, <1>5 DEF StillReady
  <1>9. QED
    BY <1>7, <1>8

\* Every step keeps what poll found true until its entry has been visited.
LEMMA ReadyNext ==
    ASSUME ReadyInv, [Next]_vars
    PROVE  ReadyInv'
  <1> USE DEF ReadyInv
  <1>1. Inv'
    BY InvNext
  <1>2. program' = program
    BY DEF Next, LoopStep, Peers, LoopStart, LoopTest, Poll, NotReadable, Accept, HandleData, HandleEof,
           DropDead, PassEnds, OnAccept, Shutdown, Join, JoinReturn, env, vars
  <1>3. NoReuse(program)'
    BY <1>2 DEF NoReuse, OneRemover
  <1>4. StillReady'
    <2>1. idx \in Int
      BY PendingSlots
    <2>2. CASE Peers
      BY <2>2, ReadyPeers
    <2>3. CASE LoopStart \/ LoopTest \/ PassEnds
      <3>1. UNCHANGED <<arr, sock, peer>> /\ loop' \in {"test", "poll", "over"}
        BY <2>3 DEF LoopStart, LoopTest, PassEnds, env, array
      <3>2. Pending' = {}
        BY <3>1 DEF Pending
      <3>3. QED
        BY <3>1, <3>2, ReadyQuiet
    <2>4. CASE Poll
      BY <2>4, ReadyPoll
    <2>5. CASE NotReadable
      <3>1. UNCHANGED <<arr, sock, peer, idx>> /\ loop = "entry" /\ loop' = "dead"
        BY <2>5 DEF NotReadable, env, array
      <3>2. Pending' \subseteq Pending
        BY <3>1, PendingBelow
      <3>3. QED
        BY <3>1, <3>2, ReadyQuiet
    <2>6. CASE Accept
      BY <2>6, ReadyAccept
    <2>7. CASE HandleData
      BY <2>7, ReadyHandleData
    <2>8. CASE HandleEof
      BY <2>8, ReadyHandleEof
    <2>9. CASE DropDead
      BY <2>9, ReadyDropDead
    <2>10. CASE OnAccept
      BY <2>10, ReadyOnAccept
    <2>11. CASE Shutdown \/ Join \/ JoinReturn \/ UNCHANGED vars
      <3>1. UNCHANGED <<arr, sock, peer, loop, idx>>
        BY <2>11 DEF Shutdown, Join, JoinReturn, vars, env, array
      <3>2. Pending' = Pending
        BY <3>1 DEF Pending
      <3>3. QED
        BY <3>1, <3>2, ReadyQuiet
    <2>12. QED
      BY <2>2, <2>3, <2>4, <2>5, <2>6, <2>7, <2>8, <2>9, <2>10, <2>11 DEF Next, LoopStep
  <1>5. QED
    BY <1>1, <1>3, <1>4

\* The loop's thread finds every entry it dispatches as poll reported it: no accept
\* without a waiting connection, no read of an idle or of another connection.
THEOREM NeverBlocks ==
    ASSUME \A g \in Programs : NoReuse(g)
    PROVE  Spec => []LoopNeverBlocks
  <1>1. Init => ReadyInv
    <2> SUFFICES ASSUME Init PROVE ReadyInv
      OBVIOUS
    <2>1. Inv
      BY InvInit DEF NoReuse
    <2>2. NoReuse(program) /\ Pending = {}
      BY DEF Init, Pending
    <2>3. QED
      BY <2>1, <2>2 DEF ReadyInv, StillReady
  <1>2. ReadyInv /\ [Next]_vars => ReadyInv'
    BY ReadyNext
  <1>3. ReadyInv => LoopNeverBlocks
    BY PendingSlots DEF ReadyInv, StillReady, LoopNeverBlocks
  <1>4. QED
    BY <1>1, <1>2, <1>3, PTL DEF Spec
=============================================================================
