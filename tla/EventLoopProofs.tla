-------------------------- MODULE EventLoopProofs ---------------------------
(***************************************************************************)
(* Proofs about EventLoop.tla, for every number of timers and every        *)
(* capacity of the loop:                                                   *)
(*   InStep      entries, descriptors and active_count agree and nothing   *)
(*               of another source is closed,                              *)
(*   NoBlocking  the loop never blocks draining a timer,                   *)
(*   Stays       a repeating timer leaves the loop by being cancelled only,*)
(*   Once        a one-shot timer fires once and leaves the loop, if       *)
(*               MAX_TIMER_FDS timers at most are made.                    *)
(* They are about programs whose handlers cancel their own source only,    *)
(* of two sorts: those that cancel no one-shot in its own handler and      *)
(* nothing that is over, and make no repeating timer after a one-shot has  *)
(* fired or been cancelled; and those that cancel what they like of that,  *)
(* but make every timer before any is gone.  For the others TLC finds      *)
(* counterexamples.                                                        *)
(***************************************************************************)
EXTENDS EventLoop, SequenceTheorems, WellFoundedInduction, TLAPS

\* The programs the theorems are about.
Careful(g) == /\ g.cancels = "self" /\ g.lateCancel \in BOOLEAN
              /\ g.creates \in {"early", "careful"}
              /\ g.lateCancel => g.creates = "early"

Entry == [fd : Fds, source : Sources, ready : BOOLEAN, isTimer : BOOLEAN, isOneshot : BOOLEAN]

\* The shape of what the calls of the runtime work on.
Shape ==
    /\ kind \in [Sources -> {"none", "every", "after"}]
    /\ fd \in [Sources -> Fds \cup {NoFd}]
    /\ open \in SUBSET Sources
    /\ status \in [Sources -> {"none", "registered", "dropped", "cancelled", "finished"}]
    /\ timerFds \in Seq(Fds) /\ oneshotFds \in Seq(Fds)
    /\ entries \in Seq(Entry)

\* The next source to be created is greater than every descriptor in use: so
\* there is a free one.
Unused ==
    \A s \in Sources : kind[s] = "none" =>
        /\ s \notin open /\ status[s] = "none"
        /\ Len(oneshotFds) < s
        /\ \A r \in open : fd[r] < s

\* Sources and descriptors.
Owned ==
    /\ \A r, s \in open : fd[r] = fd[s] => r = s
    /\ \A s \in open : fd[s] \in Fds
    /\ \A s \in Sources : status[s] \in {"registered", "dropped"} => s \in open
    /\ \A s \in Sources : status[s] = "none" => kind[s] = "none"
    /\ \A s \in Sources : status[s] = "finished" => s \notin open /\ kind[s] = "after"

\* Where sources are cancelled late no descriptor has been used twice.
Apart ==
    /\ "other" \notin faults /\ (faults # {} => program.lateCancel)
    /\ program.lateCancel =>
        \A r, s \in Sources : kind[r] # "none" /\ kind[s] # "none" /\ fd[r] = fd[s] => r = s

\* The entries of the loop.
Listed ==
    /\ active = Len(entries)
    /\ \A i \in 1 .. Len(entries) :
          /\ entries[i].source \in open /\ fd[entries[i].source] = entries[i].fd
          /\ status[entries[i].source] = "registered"
    /\ \A i, j \in 1 .. Len(entries) : entries[i].source = entries[j].source => i = j

\* Nothing but a one-shot is taken for one, descriptors being reused or not,
\* and a one-shot always is unless the table is full.
Told ==
    /\ \A j \in 1 .. Len(oneshotFds) : \E s \in Sources : kind[s] = "after" /\ fd[s] = oneshotFds[j]
    /\ \A i \in 1 .. Len(entries) :
          /\ entries[i].isOneshot => kind[entries[i].source] = "after"
          /\ MaxSources <= MaxTimerFds /\ kind[entries[i].source] = "after" => entries[i].isOneshot

\* Sources, descriptors and entries.
Registry == Shape /\ Unused /\ Owned /\ Apart /\ Listed /\ Told

\* The one-shots to be swept.
Noted ==
    /\ done \in Seq(Fds \X Sources)
    /\ pc \notin {"dispatch", "sweep"} => done = << >>
    /\ \A j \in 1 .. Len(done) :
          /\ done[j][2] \in Sources /\ kind[done[j][2]] = "after" /\ fd[done[j][2]] = done[j][1]
          /\ program.lateCancel \/ done[j][2] \in open
    /\ \A i, j \in 1 .. Len(done) : done[i][2] = done[j][2] => i = j

\* The entries still to be dispatched.
Ahead ==
    /\ idx \in Nat
    /\ timer \in [Sources -> {"armed", "expired", "spent"}]
    /\ pc = "dispatch" =>
        /\ idx <= Len(entries)
        /\ \A i \in 1 .. idx :
              /\ \A j \in 1 .. Len(done) : done[j][2] # entries[i].source
              /\ entries[i].ready /\ entries[i].isTimer => timer[entries[i].source] = "expired"

\* A one-shot that fired is to be swept or has been.
FiredOnce ==
    /\ fired \in [Sources -> 0 .. 2]
    /\ \A s \in Sources : kind[s] = "none" => fired[s] = 0
    /\ MaxSources <= MaxTimerFds =>
        \A s \in Sources : kind[s] = "after" =>
            /\ fired[s] <= 1
            /\ fired[s] = 1 => \/ status[s] = "finished"
                               \/ \E j \in 1 .. Len(done) : done[j][2] = s

Inv == Careful(program) /\ Registry /\ Noted /\ Ahead /\ FiredOnce

\* What a call of the runtime leaves alone when the sources in x are taken out.
Keeps(x) ==
    /\ \A s \in Sources : kind[s] # "none" =>
          /\ kind'[s] = kind[s] /\ fd'[s] = fd[s]
          /\ status[s] = "finished" => status'[s] = "finished"
          /\ s \notin x => status'[s] = status[s] /\ (s \in open => s \in open')
    /\ \A s \in Sources : kind[s] = "none" => status'[s] # "finished"
    /\ \A i \in 1 .. Len(entries) :
          (\A m \in 1 .. i : entries[m].source \notin x) =>
              i <= Len(entries') /\ entries'[i] = entries[i]

-----------------------------------------------------------------------------
\* A set of natural numbers that is not empty has a least element.
LEMMA LeastNat ==
    ASSUME NEW T \in SUBSET Nat, T # {}
    PROVE  \E x \in T : \A y \in T : x <= y
  <1> DEFINE R == {ss \in Nat \X Nat : ss[1] < ss[2]}
  <1>1. IsWellFoundedOn(R, Nat)
    BY NatLessThanWellFounded, Zenon DEF OpToRel
  <1> HIDE DEF R
  <1>2. PICK x \in T : \A y \in T : ~ (<<y, x>> \in R)
    BY <1>1, WFMin
  <1>3. ASSUME NEW y \in T PROVE x <= y
    <2>1. x \in Nat /\ y \in Nat
      OBVIOUS
    <2>2. <<y, x>> \in R <=> y < x
      BY <2>1 DEF R
    <2>3. QED
      BY <1>2, <2>1, <2>2
  <1>4. QED
    BY <1>3

\* The least element is the one FiniteSetsExt calls Min.
LEMMA MinIs ==
    ASSUME NEW T \in SUBSET Nat, T # {}
    PROVE  Min(T) \in T /\ \A y \in T : Min(T) <= y
  BY LeastNat DEF Min

\* While a source is still to be created there is a free descriptor, and the
\* lowest one is not above the number of the source.
LEMMA FreeIs ==
    ASSUME Registry, NEW s \in Sources, kind[s] = "none"
    PROVE  /\ LowestFree \in Fds /\ LowestFree <= s
           /\ \A r \in open : fd[r] # LowestFree
  <1> DEFINE T == {f \in Fds : OpenOn(f) = {}}
  <1>1. \A r \in open : fd[r] \in Fds /\ fd[r] < s
    BY DEF Registry, Unused, Owned
  <1>2. s \in T /\ T \in SUBSET Nat
    BY <1>1 DEF OpenOn, Fds, Sources
  <1> HIDE DEF T
  <1>3. Min(T) \in T /\ \A y \in T : Min(T) <= y
    BY <1>2, MinIs
  <1>4. LowestFree = Min(T)
    BY DEF LowestFree, T
  <1>5. QED
    BY <1>2, <1>3, <1>4 DEF T, OpenOn

\* An open source alone has its descriptor.
LEMMA OpenOnIs ==
    ASSUME Owned, NEW r \in open
    PROVE  OpenOn(fd[r]) = {r}
  BY DEF Owned, OpenOn

\* The first element a test accepts is taken out of a sequence.
LEMMA RemoveAtIs ==
    ASSUME NEW S, NEW q \in Seq(S), NEW k \in 1 .. Len(q)
    PROVE  /\ RemoveAt(q, k) \in Seq(S) /\ Len(RemoveAt(q, k)) = Len(q) - 1
           /\ \A i \in 1 .. Len(q) - 1 : RemoveAt(q, k)[i] = IF i < k THEN q[i] ELSE q[i + 1]
  <1> DEFINE n == Len(q)
             a == SubSeq(q, 1, k - 1)
             b == SubSeq(q, k + 1, n)
  <1>1. n \in Nat /\ k \in Nat /\ 1 <= k /\ k <= n /\ \A i \in 1 .. n : q[i] \in S
    OBVIOUS
  <1>2. /\ a \in Seq(S) /\ Len(a) = k - 1 /\ \A i \in 1 .. k - 1 : a[i] = q[i]
    <2> HIDE DEF n
    <2>1. \A i \in 1 .. k - 1 : q[i] \in S
      BY <1>1
    <2>2. /\ a \in Seq(S) /\ Len(a) = (IF 1 <= k - 1 THEN k - 1 - 1 + 1 ELSE 0)
          /\ \A i \in 1 .. k - 1 - 1 + 1 : a[i] = q[1 + i - 1]
      BY <1>1, <2>1, SubSeqProperties
    <2> HIDE DEF a
    <2>3. QED
      BY <1>1, <2>2
  <1>3. /\ b \in Seq(S) /\ Len(b) = n - k /\ \A i \in 1 .. n - k : b[i] = q[k + i]
    <2> HIDE DEF n
    <2>1. \A i \in k + 1 .. n : q[i] \in S
      BY <1>1
    <2>2. /\ b \in Seq(S) /\ Len(b) = (IF k + 1 <= n THEN n - (k + 1) + 1 ELSE 0)
          /\ \A i \in 1 .. n - (k + 1) + 1 : b[i] = q[k + 1 + i - 1]
      BY <1>1, <2>1, SubSeqProperties
    <2> HIDE DEF b
    <2>3. Len(b) = n - k
      BY <1>1, <2>2
    <2>4. ASSUME NEW i \in 1 .. n - k PROVE b[i] = q[k + i]
      <3>1. i \in 1 .. n - (k + 1) + 1 /\ k + 1 + i - 1 = k + i
        BY <1>1
      <3>2. QED
        BY <2>2, <3>1
    <2>5. QED
      BY <2>2, <2>3, <2>4
  <1>4. RemoveAt(q, k) = a \o b
    BY DEF RemoveAt
  <1> HIDE DEF a, b, n
  <1>5. /\ a \o b \in Seq(S) /\ Len(a \o b) = Len(a) + Len(b)
        /\ \A i \in 1 .. Len(a) + Len(b) : (a \o b)[i] = IF i <= Len(a) THEN a[i] ELSE b[i - Len(a)]
    BY <1>2, <1>3, ConcatProperties
  <1>6. Len(a) + Len(b) = n - 1
    BY <1>1, <1>2, <1>3
  <1>7. ASSUME NEW i \in 1 .. n - 1 PROVE (a \o b)[i] = IF i < k THEN q[i] ELSE q[i + 1]
    <2>1. CASE i < k
      <3>1. i \in 1 .. k - 1 /\ i <= Len(a) /\ i \in 1 .. Len(a) + Len(b)
        BY <1>1, <1>2, <1>6, <2>1
      <3>2. QED
        BY <1>2, <1>5, <2>1, <3>1
    <2>2. CASE ~(i < k)
      <3>1. ~(i <= Len(a)) /\ i \in 1 .. Len(a) + Len(b) /\ i - Len(a) \in 1 .. n - k /\ k + (i - Len(a)) = i + 1
        BY <1>1, <1>2, <1>6, <2>2
      <3>2. QED
        BY <1>3, <1>5, <2>2, <3>1
    <2>3. QED
      BY <2>1, <2>2
  <1>8. QED
    BY <1>4, <1>5, <1>6, <1>7 DEF n

\* One entry at most has a descriptor.
LEMMA FdsDiffer ==
    ASSUME Registry, NEW i \in 1 .. Len(entries), NEW j \in 1 .. Len(entries), entries[i].fd = entries[j].fd
    PROVE  i = j
  <1>1. entries[i].source \in open /\ entries[j].source \in open
        /\ fd[entries[i].source] = entries[i].fd /\ fd[entries[j].source] = entries[j].fd
    BY DEF Registry, Listed
  <1>2. entries[i].source = entries[j].source
    BY <1>1 DEF Registry, Owned
  <1>3. QED
    BY <1>2 DEF Registry, Listed

\* The entry of a descriptor is dropped.
LEMMA DroppedIs ==
    ASSUME Registry, NEW f, NEW k \in 1 .. Len(entries), entries[k].fd = f
    PROVE  /\ Dropped(f) \in Seq(Entry) /\ Len(Dropped(f)) = Len(entries) - 1
           /\ \A i \in 1 .. Len(entries) - 1 : Dropped(f)[i] = IF i < k THEN entries[i] ELSE entries[i + 1]
           /\ DroppedSource(f) = {entries[k].source}
  <1> DEFINE I == {i \in 1 .. Len(entries) : entries[i].fd = f}
  <1>1. entries \in Seq(Entry) /\ Len(entries) \in Nat /\ DOMAIN entries = 1 .. Len(entries)
    BY DEF Registry, Shape
  <1>2. I = {k}
    BY FdsDiffer
  <1>3. Min({k}) = k
    <2>1. {k} \in SUBSET Nat /\ {k} # {}
      BY <1>1
    <2>2. QED
      BY <2>1, MinIs
  <1>4. Dropped(f) = RemoveAt(entries, Min(I))
    BY <1>2 DEF Dropped, RemoveFirstMatch, SelectInSeq
  <1>5. Dropped(f) = RemoveAt(entries, k)
    BY <1>2, <1>3, <1>4
  <1>6. DroppedSource(f) = {entries[k].source}
    <2>1. \A j \in DOMAIN entries : entries[j].fd = f <=> j = k
      BY <1>1, <1>2
    <2>2. \A m \in 1 .. k - 1 : m \in 1 .. Len(entries) /\ m # k
      BY <1>1
    <2>3. \A m \in 1 .. k - 1 : entries[m].fd # f
      BY <1>1, <2>1, <2>2
    <2>4. {j \in DOMAIN entries : entries[j].fd = f /\ \A m \in 1 .. j - 1 : entries[m].fd # f} = {k}
      BY <1>1, <2>1, <2>3
    <2>5. QED
      BY <2>4 DEF DroppedSource
  <1>7. /\ RemoveAt(entries, k) \in Seq(Entry) /\ Len(RemoveAt(entries, k)) = Len(entries) - 1
        /\ \A i \in 1 .. Len(entries) - 1 : RemoveAt(entries, k)[i] = IF i < k THEN entries[i] ELSE entries[i + 1]
    BY <1>1, RemoveAtIs
  <1>8. QED
    BY <1>5, <1>6, <1>7

\* No entry has the descriptor.
LEMMA NoneDropped ==
    ASSUME Registry, NEW f, \A i \in 1 .. Len(entries) : entries[i].fd # f
    PROVE  Dropped(f) = entries /\ DroppedSource(f) = {}
  <1>1. DOMAIN entries = 1 .. Len(entries)
    BY DEF Registry, Shape
  <1>2. Dropped(f) = entries
    BY DEF Dropped, RemoveFirstMatch
  <1>3. QED
    BY <1>1, <1>2 DEF DroppedSource

\* What is left of the entries when those of source r are dropped.
LeftOver(r) ==
    /\ entries' \in Seq(Entry) /\ active' = Len(entries')
    /\ \A i \in 1 .. Len(entries') :
          \E j \in 1 .. Len(entries) :
             /\ i <= j /\ entries'[i] = entries[j] /\ entries[j].source # r
             /\ \A m \in 1 .. Len(entries') : m # i => entries'[m].source # entries[j].source
    /\ \A i \in 1 .. Len(entries) :
          (\A m \in 1 .. i : entries[m].source # r) => i <= Len(entries') /\ entries'[i] = entries[i]

\* The entry of an open source is dropped.
LEMMA Drops ==
    ASSUME Registry, NEW r \in open, NEW why, DropEntry(fd[r], r, why)
    PROVE  LeftOver(r) /\ status' = [status EXCEPT ![r] = why]
  <1> DEFINE n == Len(entries)
  <1>1. /\ entries \in Seq(Entry) /\ n \in Nat /\ active = n
        /\ status \in [Sources -> {"none", "registered", "dropped", "cancelled", "finished"}]
        /\ r \in Sources
    BY DEF Registry, Shape, Listed
  <1>2. /\ entries' = Dropped(fd[r])
        /\ active' = (IF Len(Dropped(fd[r])) < Len(entries) /\ active > 0 THEN active - 1 ELSE active)
        /\ status' = [s \in Sources |-> IF s = r \/ s \in DroppedSource(fd[r]) THEN why ELSE status[s]]
    <2>1. status[r] # "finished"
      BY <1>1 DEF Registry, Owned
    <2>2. QED
      BY <2>1 DEF DropEntry
  <1>3. \A i \in 1 .. n : entries[i].fd = fd[r] <=> entries[i].source = r
    BY DEF Registry, Listed, Owned
  <1>4. \A i, j \in 1 .. n : entries[i].source = entries[j].source => i = j
    BY DEF Registry, Listed
  <1>5. CASE \A i \in 1 .. n : entries[i].fd # fd[r]
    <2>1. Dropped(fd[r]) = entries /\ DroppedSource(fd[r]) = {}
      BY <1>5, NoneDropped
    <2>2. entries' = entries /\ active' = n
      BY <1>1, <1>2, <2>1
    <2>3. LeftOver(r)
      <3>1. \A i \in 1 .. n : i <= i /\ i <= n
        BY <1>1
      <3>2. QED
        BY <1>1, <1>3, <1>4, <1>5, <2>2, <3>1 DEF LeftOver
    <2>4. status' = [status EXCEPT ![r] = why]
      BY <1>1, <1>2, <2>1
    <2>5. QED
      BY <2>3, <2>4
  <1>6. CASE \E k \in 1 .. n : entries[k].fd = fd[r]
    <2>1. PICK k \in 1 .. n : entries[k].fd = fd[r]
      BY <1>6
    <2>2. /\ Dropped(fd[r]) \in Seq(Entry) /\ Len(Dropped(fd[r])) = n - 1
          /\ \A i \in 1 .. n - 1 : Dropped(fd[r])[i] = IF i < k THEN entries[i] ELSE entries[i + 1]
          /\ DroppedSource(fd[r]) = {entries[k].source}
      BY <2>1, DroppedIs
    <2> HIDE DEF n
    <2>3. entries[k].source = r
      BY <1>3, <2>1
    <2>4. /\ entries' \in Seq(Entry) /\ Len(entries') = n - 1
          /\ \A i \in 1 .. n - 1 : entries'[i] = IF i < k THEN entries[i] ELSE entries[i + 1]
      BY <1>2, <2>2
    <2>5. active' = Len(entries')
      BY <1>1, <1>2, <2>1, <2>2, <2>4 DEF n
    <2> DEFINE at(i) == IF i < k THEN i ELSE i + 1
    <2>6. \A i \in 1 .. n - 1 : at(i) \in 1 .. n /\ i <= at(i) /\ at(i) # k /\ entries'[i] = entries[at(i)]
      BY <1>1, <2>4
    <2>7. \A i, m \in 1 .. n - 1 : at(i) = at(m) => i = m
      BY <1>1
    <2> HIDE DEF at
    <2>8. ASSUME NEW i \in 1 .. n - 1
          PROVE  /\ entries[at(i)].source # r
                 /\ \A m \in 1 .. n - 1 : m # i => entries'[m].source # entries[at(i)].source
      BY <1>4, <2>3, <2>6, <2>7
    <2>9. ASSUME NEW i \in 1 .. n, \A m \in 1 .. i : entries[m].source # r
          PROVE  i <= Len(entries') /\ entries'[i] = entries[i]
      <3>1. ~(k \in 1 .. i)
        BY <2>3, <2>9
      <3>2. i < k
        BY <1>1, <3>1
      <3>3. i \in 1 .. n - 1
        BY <1>1, <3>2
      <3>4. QED
        BY <2>4, <3>2, <3>3
    <2>10. LeftOver(r)
      <3>1. ASSUME NEW i \in 1 .. Len(entries')
            PROVE  \E j \in 1 .. n :
                      /\ i <= j /\ entries'[i] = entries[j] /\ entries[j].source # r
                      /\ \A m \in 1 .. Len(entries') : m # i => entries'[m].source # entries[j].source
        <4>1. i \in 1 .. n - 1
          BY <2>4
        <4>2. at(i) \in 1 .. n /\ i <= at(i) /\ entries'[i] = entries[at(i)]
          BY <2>6, <4>1
        <4>3. /\ entries[at(i)].source # r
              /\ \A m \in 1 .. Len(entries') : m # i => entries'[m].source # entries[at(i)].source
          BY <2>4, <2>8, <4>1
        <4>4. QED
          BY <4>2, <4>3
      <3>2. QED
        BY <2>4, <2>5, <2>9, <3>1 DEF LeftOver, n
    <2>11. status' = [status EXCEPT ![r] = why]
      BY <1>1, <1>2, <2>2, <2>3
    <2>12. QED
      BY <2>10, <2>11
  <1>7. QED
    BY <1>5, <1>6

\* A source that is open is taken out of the loop, and closed unless the table
\* has forgotten its descriptor.
LEMMA TakenOut ==
    ASSUME Registry, NEW r \in open, NEW why \in {"cancelled", "finished"}, why = "finished" => kind[r] = "after",
           DropEntry(fd[r], r, why), open' = open \ {r} \/ (open' = open /\ why = "cancelled"),
           UNCHANGED <<program, kind, fd, timerFds, oneshotFds, faults>>
    PROVE  Registry' /\ Keeps({r}) /\ status'[r] = why
  <1>1. LeftOver(r) /\ status' = [status EXCEPT ![r] = why]
    BY Drops
  <1>2. /\ kind \in [Sources -> {"none", "every", "after"}] /\ open \in SUBSET Sources /\ r \in Sources
        /\ status \in [Sources -> {"none", "registered", "dropped", "cancelled", "finished"}]
        /\ kind[r] # "none"
    BY DEF Registry, Shape, Unused
  <1>3. /\ status'[r] = why /\ \A s \in Sources : s # r => status'[s] = status[s]
        /\ status' \in [Sources -> {"none", "registered", "dropped", "cancelled", "finished"}]
    BY <1>1, <1>2
  <1>4. /\ entries' \in Seq(Entry) /\ active' = Len(entries')
        /\ \A i \in 1 .. Len(entries') :
              \E j \in 1 .. Len(entries) :
                 /\ i <= j /\ entries'[i] = entries[j] /\ entries[j].source # r
                 /\ \A m \in 1 .. Len(entries') : m # i => entries'[m].source # entries[j].source
    BY <1>1 DEF LeftOver
  <1>5. Shape'
    BY <1>2, <1>3, <1>4 DEF Registry, Shape
  <1>6. Unused'
    BY <1>2, <1>3 DEF Registry, Unused
  <1>7. Owned'
    <2>1. \A s \in Sources : status'[s] \in {"registered", "dropped"} => s \in open'
      BY <1>2, <1>3 DEF Registry, Owned
    <2>2. \A s \in Sources : status'[s] = "finished" => s \notin open' /\ kind[s] = "after"
      BY <1>2, <1>3 DEF Registry, Owned
    <2>3. \A s \in Sources : status'[s] = "none" => kind[s] = "none"
      BY <1>2, <1>3 DEF Registry, Owned
    <2>4. QED
      BY <1>2, <2>1, <2>2, <2>3 DEF Registry, Owned
  <1>8. Listed'
    <2>1. ASSUME NEW i \in 1 .. Len(entries')
          PROVE  /\ entries'[i].source \in open' /\ fd[entries'[i].source] = entries'[i].fd
                 /\ status'[entries'[i].source] = "registered"
      <3>1. PICK j \in 1 .. Len(entries) : entries'[i] = entries[j] /\ entries[j].source # r
        BY <1>4
      <3>2. /\ entries[j].source \in open /\ fd[entries[j].source] = entries[j].fd
            /\ status[entries[j].source] = "registered"
        BY DEF Registry, Listed
      <3>3. QED
        BY <1>2, <1>3, <3>1, <3>2
    <2>2. ASSUME NEW i \in 1 .. Len(entries'), NEW m \in 1 .. Len(entries'),
                 entries'[i].source = entries'[m].source
          PROVE  i = m
      <3>1. PICK j \in 1 .. Len(entries) :
               /\ entries'[i] = entries[j]
               /\ \A l \in 1 .. Len(entries') : l # i => entries'[l].source # entries[j].source
        BY <1>4
      <3>2. QED
        BY <2>2, <3>1
    <2>3. QED
      BY <1>4, <2>1, <2>2 DEF Listed
  <1>9. Told'
    <2>1. ASSUME NEW i \in 1 .. Len(entries')
          PROVE  /\ entries'[i].isOneshot => kind[entries'[i].source] = "after"
                 /\ MaxSources <= MaxTimerFds /\ kind[entries'[i].source] = "after" => entries'[i].isOneshot
      <3>1. PICK j \in 1 .. Len(entries) : entries'[i] = entries[j]
        BY <1>4
      <3>2. QED
        BY <3>1 DEF Registry, Told
    <2>2. QED
      BY <2>1 DEF Registry, Told
  <1>10. Keeps({r})
    <2>1. \A s \in Sources : kind[s] # "none" =>
             /\ kind'[s] = kind[s] /\ fd'[s] = fd[s]
             /\ status[s] = "finished" => status'[s] = "finished"
             /\ s \notin {r} => status'[s] = status[s] /\ (s \in open => s \in open')
      BY <1>2, <1>3 DEF Registry, Owned
    <2>2. \A s \in Sources : kind[s] = "none" => status'[s] # "finished"
      BY <1>2, <1>3 DEF Registry, Unused
    <2>3. QED
      BY <1>1, <2>1, <2>2 DEF Keeps, LeftOver
  <1>11. Apart'
    BY DEF Registry, Apart
  <1>12. QED
    BY <1>3, <1>5, <1>6, <1>7, <1>8, <1>9, <1>10, <1>11 DEF Registry

\* A source that is closed already is taken out once more: no entry is left
\* under its number, and no open descriptor has it.
LEMMA TakenOutAgain ==
    ASSUME Registry, program.lateCancel, NEW r \in Sources, kind[r] # "none", r \notin open,
           NEW why \in {"cancelled", "finished"}, why = "finished" => kind[r] = "after",
           DropEntry(fd[r], r, why), CloseFd(fd[r], r) \/ UNCHANGED <<open, faults>>,
           UNCHANGED <<program, kind, fd, timerFds, oneshotFds>>
    PROVE  Registry' /\ Keeps({r}) /\ (why = "finished" => status'[r] = "finished")
  <1>1. /\ kind \in [Sources -> {"none", "every", "after"}] /\ open \in SUBSET Sources
        /\ status \in [Sources -> {"none", "registered", "dropped", "cancelled", "finished"}]
        /\ entries \in Seq(Entry) /\ Len(entries) \in Nat
    BY DEF Registry, Shape
  <1>2. \A s \in open : kind[s] # "none" /\ fd[s] # fd[r]
    BY <1>1 DEF Registry, Unused, Apart
  <1>3. OpenOn(fd[r]) = {}
    BY <1>2 DEF OpenOn
  <1>4. open' = open /\ faults' \in {faults, faults \cup {"again"}}
    BY <1>3 DEF CloseFd
  <1>5. \A i \in 1 .. Len(entries) : entries[i].fd # fd[r] /\ entries[i].source # r
    BY <1>2 DEF Registry, Listed
  <1>6. Dropped(fd[r]) = entries /\ DroppedSource(fd[r]) = {}
    BY <1>5, NoneDropped
  <1>7. /\ entries' = entries /\ active' = active
        /\ status' = [s \in Sources |-> IF s = r /\ status[r] # "finished" THEN why ELSE status[s]]
    BY <1>1, <1>6 DEF DropEntry
  <1>8. /\ status' \in [Sources -> {"none", "registered", "dropped", "cancelled", "finished"}]
        /\ status'[r] \in {why, "finished"} /\ \A s \in Sources : s # r => status'[s] = status[s]
        /\ status[r] = "finished" \/ status'[r] = why
        /\ status[r] = "finished" => status'[r] = "finished"
    BY <1>1, <1>7
  <1>9. Shape' /\ Unused'
    BY <1>4, <1>7, <1>8 DEF Registry, Shape, Unused
  <1>10. Owned'
    <2>1. \A s \in Sources : status'[s] \in {"registered", "dropped"} => s \in open
      BY <1>8 DEF Registry, Owned
    <2>2. \A s \in Sources : status'[s] = "finished" => s \notin open /\ kind[s] = "after"
      BY <1>8 DEF Registry, Owned
    <2>3. \A s \in Sources : status'[s] = "none" => kind[s] = "none"
      BY <1>8 DEF Registry, Owned
    <2>4. QED
      BY <1>4, <2>1, <2>2, <2>3 DEF Registry, Owned
  <1>11. Apart'
    BY <1>4 DEF Registry, Apart
  <1>12. Listed'
    <2>1. \A i \in 1 .. Len(entries) : entries[i].source \in Sources /\ entries[i].source # r
      BY <1>1, <1>5 DEF Registry, Listed
    <2>2. QED
      BY <1>4, <1>7, <1>8, <2>1 DEF Registry, Listed
  <1>13. Told'
    BY <1>7 DEF Registry, Told
  <1>14. Keeps({r})
    <2>1. \A i \in 1 .. Len(entries) : i <= Len(entries)
      BY <1>1
    <2>2. \A s \in Sources : kind[s] = "none" => status'[s] # "finished"
      BY <1>8 DEF Registry, Unused
    <2>3. QED
      BY <1>4, <1>7, <1>8, <2>1, <2>2 DEF Keeps
  <1>15. QED
    BY <1>8, <1>9, <1>10, <1>11, <1>12, <1>13, <1>14 DEF Registry

\* A source is cancelled.
LEMMA CancelKeeps ==
    ASSUME Registry, program' = program, NEW r \in Sources, Cancel(r)
    PROVE  Registry' /\ Keeps({r})
  <1>1. /\ kind[r] # "none" /\ (Over(r) => program.lateCancel) /\ DropEntry(fd[r], r, "cancelled")
        /\ (IF Contains(timerFds, fd[r]) THEN CloseFd(fd[r], r) ELSE UNCHANGED <<open, faults>>)
        /\ UNCHANGED <<kind, fd, timerFds, oneshotFds>>
    BY DEF Cancel
  <1>2. CASE r \in open
    <2>1. OpenOn(fd[r]) = {r}
      BY <1>2, OpenOnIs DEF Registry
    <2>2. (open' = open \ {r} \/ open' = open) /\ faults' = faults
      BY <1>1, <2>1 DEF CloseFd
    <2>3. QED
      BY <1>1, <1>2, <2>2, TakenOut
  <1>3. CASE r \notin open
    <2>1. status[r] \in {"cancelled", "finished"}
      BY <1>1, <1>3 DEF Registry, Shape, Owned
    <2>2. program.lateCancel
      BY <1>1, <2>1 DEF Over
    <2>3. QED
      BY <1>1, <1>3, <2>2, TakenOutAgain
  <1>4. QED
    BY <1>2, <1>3

\* A timer is created.
LEMMA NewKeeps ==
    ASSUME Careful(program), program' = program, Registry, NEW k \in {"every", "after"}, NewTimer(k)
    PROVE  Registry' /\ Keeps({})
  <1> DEFINE f == LowestFree
  <1>1. /\ k = "every" => \A s \in Sources : kind[s] = "after" => s \in open
        /\ program.lateCancel => \A s \in Sources : kind[s] # "none" => s \in open
    BY DEF NewTimer, MayCreate, Careful
  <1>2. PICK s \in Sources :
        /\ kind[s] = "none"
        /\ \A r \in Sources : r < s => kind[r] # "none"
        /\ kind' = [kind EXCEPT ![s] = k]
        /\ fd' = [fd EXCEPT ![s] = f]
        /\ open' = open \cup {s}
        /\ timerFds' = Tracked(timerFds, f)
        /\ oneshotFds' = IF k = "after" THEN Tracked(oneshotFds, f) ELSE oneshotFds
        /\ IF LoopFull
           THEN /\ status' = [status EXCEPT ![s] = "dropped"]
                /\ UNCHANGED <<entries, active, wake>>
           ELSE /\ status' = [status EXCEPT ![s] = "registered"]
                /\ entries' = Append(entries,
                      [fd |-> f, source |-> s, ready |-> FALSE,
                       isTimer |-> Contains(timerFds', f), isOneshot |-> Contains(oneshotFds', f)])
                /\ active' = active + 1
                /\ wake' = TRUE
    BY DEF NewTimer
  <1>3. faults' = faults
    BY DEF NewTimer
  <1>4. f \in Fds /\ f <= s /\ \A r \in open : fd[r] # f
    BY <1>2, FreeIs
  <1> HIDE DEF f
  <1>5. /\ kind \in [Sources -> {"none", "every", "after"}] /\ fd \in [Sources -> Fds \cup {NoFd}]
        /\ open \in SUBSET Sources
        /\ status \in [Sources -> {"none", "registered", "dropped", "cancelled", "finished"}]
        /\ timerFds \in Seq(Fds) /\ oneshotFds \in Seq(Fds) /\ entries \in Seq(Entry)
    BY DEF Registry, Shape
  <1>6. s \notin open /\ status[s] = "none" /\ Len(oneshotFds) < s /\ \A r \in open : fd[r] < s
    BY <1>2 DEF Registry, Unused
  <1>7. /\ kind'[s] = k /\ fd'[s] = f
        /\ \A r \in Sources : r # s => kind'[r] = kind[r] /\ fd'[r] = fd[r] /\ status'[r] = status[r]
        /\ kind' \in [Sources -> {"none", "every", "after"}] /\ fd' \in [Sources -> Fds \cup {NoFd}]
        /\ open' \in SUBSET Sources
        /\ status' \in [Sources -> {"none", "registered", "dropped", "cancelled", "finished"}]
        /\ status'[s] \in {"registered", "dropped"}
    BY <1>2, <1>4, <1>5
  <1>8. /\ timerFds' \in Seq(Fds) /\ oneshotFds' \in Seq(Fds)
        /\ Len(oneshotFds') <= Len(oneshotFds) + 1
        /\ \A j \in 1 .. Len(oneshotFds') :
              \/ j \in 1 .. Len(oneshotFds) /\ oneshotFds'[j] = oneshotFds[j]
              \/ k = "after" /\ oneshotFds'[j] = f
        /\ MaxSources <= MaxTimerFds /\ k = "after" => Contains(oneshotFds', f)
    <2>1. Tracked(timerFds, f) \in Seq(Fds)
      BY <1>4, <1>5 DEF Tracked
    <2>2. /\ Tracked(oneshotFds, f) \in Seq(Fds) /\ Len(Tracked(oneshotFds, f)) <= Len(oneshotFds) + 1
          /\ \A j \in 1 .. Len(Tracked(oneshotFds, f)) :
                \/ j \in 1 .. Len(oneshotFds) /\ Tracked(oneshotFds, f)[j] = oneshotFds[j]
                \/ Tracked(oneshotFds, f)[j] = f
      BY <1>4, <1>5 DEF Tracked
    <2>3. Len(oneshotFds) \in Nat
      BY <1>5
    <2>4. MaxSources <= MaxTimerFds => Contains(Tracked(oneshotFds, f), f)
      <3>1. SUFFICES ASSUME MaxSources <= MaxTimerFds PROVE Contains(Tracked(oneshotFds, f), f)
        OBVIOUS
      <3>2. Len(oneshotFds) < MaxTimerFds
        BY <1>6, <2>3, <3>1, EventLoopAssumption DEF Sources
      <3>3. Tracked(oneshotFds, f) = Append(oneshotFds, f)
        BY <3>2 DEF Tracked
      <3>4. Len(oneshotFds) + 1 \in 1 .. Len(Append(oneshotFds, f)) /\ Append(oneshotFds, f)[Len(oneshotFds) + 1] = f
        BY <1>4, <1>5
      <3>5. QED
        BY <3>3, <3>4 DEF Contains
    <2>5. CASE k = "after"
      <3>1. timerFds' = Tracked(timerFds, f) /\ oneshotFds' = Tracked(oneshotFds, f)
        BY <1>2, <2>5
      <3>2. QED
        BY <2>1, <2>2, <2>4, <2>5, <3>1
    <2>6. CASE k # "after"
      <3>1. timerFds' = Tracked(timerFds, f) /\ oneshotFds' = oneshotFds
        BY <1>2, <2>6
      <3>2. QED
        BY <1>5, <2>1, <2>3, <2>6, <3>1
    <2>7. QED
      BY <2>5, <2>6
  <1>9. Contains(oneshotFds', f) => k = "after"
    <2>1. SUFFICES ASSUME Contains(oneshotFds', f), k # "after" PROVE FALSE
      OBVIOUS
    <2>2. PICK j \in 1 .. Len(oneshotFds) : oneshotFds[j] = f
      BY <1>8, <2>1 DEF Contains
    <2>3. PICK r \in Sources : kind[r] = "after" /\ fd[r] = f
      BY <2>2 DEF Registry, Told
    <2>4. QED
      BY <1>1, <1>4, <2>1, <2>3
  <1>10. Unused'
    <2> SUFFICES ASSUME NEW r \in Sources, kind'[r] = "none"
                 PROVE  /\ r \notin open' /\ status'[r] = "none" /\ Len(oneshotFds') < r
                        /\ \A q \in open' : fd'[q] < r
      BY DEF Unused
    <2>1. r # s /\ kind[r] = "none"
      BY <1>7
    <2>2. s < r
      BY <1>2, <2>1 DEF Sources
    <2>3. r \notin open /\ status[r] = "none" /\ \A q \in open : fd[q] < r
      BY <2>1 DEF Registry, Unused
    <2>4. Len(oneshotFds') < r
      <3>1. Len(oneshotFds) \in Nat /\ Len(oneshotFds') \in Nat
        BY <1>5, <1>8
      <3>2. QED
        BY <1>6, <1>8, <2>2, <3>1 DEF Sources
    <2>5. f < r
      BY <1>4, <2>2 DEF Fds, Sources
    <2>6. QED
      BY <1>2, <1>5, <1>6, <1>7, <2>1, <2>3, <2>4, <2>5
  <1>11. Owned'
    <2>1. \A r, q \in open' : fd'[r] = fd'[q] => r = q
      BY <1>2, <1>4, <1>5, <1>6, <1>7 DEF Registry, Owned
    <2>2. \A r \in open' : fd'[r] \in Fds
      BY <1>2, <1>4, <1>5, <1>6, <1>7 DEF Registry, Owned
    <2>3. \A r \in Sources : status'[r] \in {"registered", "dropped"} => r \in open'
      BY <1>2, <1>7 DEF Registry, Owned
    <2>4. \A r \in Sources : status'[r] = "finished" => r \notin open' /\ kind'[r] = "after"
      BY <1>2, <1>7 DEF Registry, Owned
    <2>5. \A r \in Sources : status'[r] = "none" => kind'[r] = "none"
      BY <1>2, <1>7 DEF Registry, Owned
    <2>6. QED
      BY <2>1, <2>2, <2>3, <2>4, <2>5 DEF Owned
  <1>12. Keeps({}) /\ entries' \in Seq(Entry) /\ Listed' /\ Told'
    <2> DEFINE n == Len(entries)
    <2>0. n \in Nat
      BY <1>5
    <2>1. \A r \in Sources : kind[r] # "none" =>
             /\ kind'[r] = kind[r] /\ fd'[r] = fd[r]
             /\ status'[r] = status[r] /\ (r \in open => r \in open')
      BY <1>2, <1>7
    <2>2. \A r \in Sources : kind[r] = "none" => status'[r] # "finished"
      BY <1>2, <1>7 DEF Registry, Unused
    <2>3. \A i \in 1 .. n : /\ entries[i].source \in open /\ entries[i].source # s
                            /\ fd[entries[i].source] = entries[i].fd
                            /\ status[entries[i].source] = "registered"
      BY <1>6 DEF Registry, Listed
    <2>4. \A i \in 1 .. n : /\ entries[i].source \in open'
                            /\ fd'[entries[i].source] = entries[i].fd
                            /\ status'[entries[i].source] = "registered"
                            /\ kind'[entries[i].source] = kind[entries[i].source]
      BY <1>2, <1>5, <1>7, <2>3
    <2>5. /\ active = n
          /\ \A i, j \in 1 .. n : entries[i].source = entries[j].source => i = j
      BY DEF Registry, Listed
    <2>6. \A j \in 1 .. Len(oneshotFds') : \E r \in Sources : kind'[r] = "after" /\ fd'[r] = oneshotFds'[j]
      <3> SUFFICES ASSUME NEW j \in 1 .. Len(oneshotFds')
                   PROVE  \E r \in Sources : kind'[r] = "after" /\ fd'[r] = oneshotFds'[j]
        OBVIOUS
      <3>1. CASE k = "after" /\ oneshotFds'[j] = f
        BY <1>7, <3>1
      <3>2. CASE j \in 1 .. Len(oneshotFds) /\ oneshotFds'[j] = oneshotFds[j]
        <4>1. PICK r \in Sources : kind[r] = "after" /\ fd[r] = oneshotFds[j]
          BY <3>2 DEF Registry, Told
        <4>2. r # s
          BY <1>2, <4>1
        <4>3. QED
          BY <1>7, <3>2, <4>1, <4>2
      <3>3. QED
        BY <1>8, <3>1, <3>2
    <2>7. \A i \in 1 .. n :
             /\ entries[i].isOneshot => kind[entries[i].source] = "after"
             /\ MaxSources <= MaxTimerFds /\ kind[entries[i].source] = "after" => entries[i].isOneshot
      BY DEF Registry, Told
    <2>8. CASE entries' = entries /\ active' = active
      <3>1. Keeps({})
        <4>1. \A i \in 1 .. n : i <= n
          BY <2>0
        <4>2. QED
          BY <2>1, <2>2, <2>8, <4>1 DEF Keeps
      <3>2. Listed'
        BY <2>4, <2>5, <2>8 DEF Listed
      <3>3. Told'
        BY <2>4, <2>6, <2>7, <2>8 DEF Told
      <3>4. QED
        BY <1>5, <2>8, <3>1, <3>2, <3>3
    <2>9. CASE /\ entries' = Append(entries,
                      [fd |-> f, source |-> s, ready |-> FALSE,
                       isTimer |-> Contains(timerFds', f), isOneshot |-> Contains(oneshotFds', f)])
               /\ active' = active + 1 /\ status' = [status EXCEPT ![s] = "registered"]
      <3>1. PICK x : x = [fd |-> f, source |-> s, ready |-> FALSE,
                          isTimer |-> Contains(timerFds', f), isOneshot |-> Contains(oneshotFds', f)]
        OBVIOUS
      <3>2. Contains(timerFds', f) \in BOOLEAN /\ Contains(oneshotFds', f) \in BOOLEAN
        BY DEF Contains
      <3>3. x \in Entry /\ x.fd = f /\ x.source = s /\ x.isOneshot = Contains(oneshotFds', f)
        BY <1>4, <3>1, <3>2 DEF Entry
      <3>4. entries' = Append(entries, x)
        BY <2>9, <3>1
      <3>5. /\ entries' \in Seq(Entry) /\ Len(entries') = n + 1 /\ entries'[n + 1] = x
            /\ \A i \in 1 .. n : entries'[i] = entries[i]
        BY <1>5, <3>3, <3>4
      <3>6. status'[s] = "registered" /\ s \in open'
        BY <1>2, <1>5, <2>9
      <3> HIDE DEF n
      <3>7. \A i \in 1 .. n + 1 : i \in 1 .. n \/ i = n + 1
        BY <2>0
      <3>8. Keeps({})
        <4>1. \A i \in 1 .. n : i <= n + 1
          BY <2>0
        <4>2. QED
          BY <2>1, <2>2, <3>5, <4>1 DEF Keeps, n
      <3>9. \A i \in 1 .. n + 1 :
               /\ entries'[i].source \in open' /\ fd'[entries'[i].source] = entries'[i].fd
               /\ status'[entries'[i].source] = "registered"
        BY <1>7, <2>4, <3>3, <3>5, <3>6, <3>7
      <3>10. \A i, j \in 1 .. n + 1 : entries'[i].source = entries'[j].source => i = j
        BY <2>3, <2>5, <3>3, <3>5, <3>7
      <3>11. active' = n + 1
        BY <2>5, <2>9
      <3>12. Listed'
        BY <3>5, <3>9, <3>10, <3>11 DEF Listed
      <3>13. \A i \in 1 .. n + 1 :
               /\ entries'[i].isOneshot => kind'[entries'[i].source] = "after"
               /\ MaxSources <= MaxTimerFds /\ kind'[entries'[i].source] = "after" => entries'[i].isOneshot
        BY <1>7, <1>8, <1>9, <2>4, <2>7, <3>3, <3>5, <3>7
      <3>14. Told'
        BY <2>6, <3>5, <3>13 DEF Told
      <3>15. QED
        BY <3>5, <3>8, <3>12, <3>14
    <2>10. QED
      BY <1>2, <2>8, <2>9
  <1>13. Shape'
    BY <1>7, <1>8, <1>12 DEF Shape
  <1>14. Apart'
    <2>1. "other" \notin faults' /\ (faults' # {} => program'.lateCancel)
      BY <1>3 DEF Registry, Apart
    <2>2. ASSUME program'.lateCancel, NEW q \in Sources, NEW r \in Sources,
                 kind'[q] # "none", kind'[r] # "none", fd'[q] = fd'[r]
          PROVE  q = r
      <3>1. \A t \in Sources : t # s /\ kind'[t] # "none" =>
               kind[t] # "none" /\ fd'[t] = fd[t] /\ fd[t] # f
        BY <1>1, <1>4, <1>7, <2>2
      <3>2. QED
        BY <1>7, <2>2, <3>1 DEF Registry, Apart
    <2>3. QED
      BY <2>1, <2>2 DEF Apart
  <1>15. QED
    BY <1>10, <1>11, <1>12, <1>13, <1>14 DEF Registry

-----------------------------------------------------------------------------
\* The steps of the loop.

\* The registry is left alone.
LEMMA RegistryStays ==
    ASSUME Registry, program' = program,
           UNCHANGED <<kind, fd, open, status, timerFds, oneshotFds, entries, active, faults>>
    PROVE  Registry'
  <1>1. Shape' /\ Unused' /\ Apart'
    BY DEF Registry, Shape, Unused, Apart
  <1>2. Owned' /\ Listed'
    BY DEF Registry, Owned, Listed
  <1>3. Told'
    BY DEF Registry, Told
  <1>4. QED
    BY <1>1, <1>2, <1>3 DEF Registry

\* The history of the one-shots stays true when no handler runs.
LEMMA FiredKept ==
    ASSUME Registry, FiredOnce, NEW x, Keeps(x), fired' = fired,
           kind' \in [Sources -> {"none", "every", "after"}],
           \A j \in 1 .. Len(done) : \/ \E i \in 1 .. Len(done') : done'[i][2] = done[j][2]
                                     \/ status'[done[j][2]] = "finished"
    PROVE  FiredOnce'
  <1>1. kind \in [Sources -> {"none", "every", "after"}]
    BY DEF Registry, Shape
  <1>2. /\ fired \in [Sources -> 0 .. 2] /\ \A s \in Sources : kind[s] = "none" => fired[s] = 0
    BY DEF FiredOnce
  <1>3. \A s \in Sources : kind[s] # "none" =>
           kind'[s] = kind[s] /\ (status[s] = "finished" => status'[s] = "finished")
    BY DEF Keeps
  <1>4. \A s \in Sources : kind'[s] = "none" => fired'[s] = 0
    BY <1>2, <1>3
  <1>5. ASSUME MaxSources <= MaxTimerFds, NEW s \in Sources, kind'[s] = "after"
        PROVE  /\ fired'[s] <= 1
               /\ fired'[s] = 1 => \/ status'[s] = "finished"
                                   \/ \E j \in 1 .. Len(done') : done'[j][2] = s
    <2>1. CASE kind[s] = "none"
      BY <1>2, <2>1
    <2>2. CASE kind[s] # "none"
      <3>1. /\ fired[s] <= 1
            /\ fired[s] = 1 => \/ status[s] = "finished"
                               \/ \E j \in 1 .. Len(done) : done[j][2] = s
        BY <1>3, <1>5, <2>2 DEF FiredOnce
      <3>2. QED
        BY <1>3, <2>2, <3>1
    <2>3. QED
      BY <2>1, <2>2
  <1>6. QED
    BY <1>2, <1>4, <1>5 DEF FiredOnce

\* The program calls the runtime before or after the loop.
LEMMA StepMainCalls ==
    ASSUME Inv, MainCalls
    PROVE  Inv'
  <1>1. /\ pc = "main" /\ UNCHANGED <<program, timer, fired, pc, idx, done>>
        /\ (\E k \in {"every", "after"} : NewTimer(k)) \/ (\E s \in Sources : Cancel(s))
    BY DEF MainCalls, walk
  <1>2. Registry /\ Careful(program) /\ done = << >>
    BY <1>1 DEF Inv, Noted
  <1>3. PICK x : Registry' /\ Keeps(x)
    BY <1>1, <1>2, NewKeeps, CancelKeeps
  <1>4. 1 .. Len(<< >>) = {}
    OBVIOUS
  <1>5. Noted'
    BY <1>1, <1>2, <1>4 DEF Noted
  <1>6. Ahead'
    BY <1>1 DEF Inv, Ahead
  <1>7. FiredOnce'
    <2>1. kind' \in [Sources -> {"none", "every", "after"}]
      BY <1>3 DEF Registry, Shape
    <2>2. QED
      BY <1>1, <1>2, <1>3, <1>4, <2>1, FiredKept DEF Inv
  <1>8. QED
    BY <1>1, <1>2, <1>3, <1>5, <1>6, <1>7 DEF Inv

\* A step that leaves the registry, the timers and the one-shots alone.
LEMMA StepMoves ==
    ASSUME Inv, UNCHANGED <<program, sources, fired, done>>,
           pc' \notin {"dispatch", "sweep"} => done = << >>,
           idx' \in Nat, timer' \in [Sources -> {"armed", "expired", "spent"}],
           \A s \in Sources : timer[s] = "expired" => timer'[s] = "expired",
           pc' = "dispatch" => pc = "dispatch" /\ idx' <= idx
    PROVE  Inv'
  <1>1. UNCHANGED <<kind, fd, open, status, timerFds, oneshotFds, entries, active, faults>>
    BY DEF sources
  <1>2. Registry'
    BY <1>1, RegistryStays DEF Inv
  <1>3. Noted'
    BY <1>1 DEF Inv, Noted
  <1>4. Ahead'
    <2>1. SUFFICES ASSUME pc' = "dispatch"
                   PROVE  /\ idx' <= Len(entries)
                          /\ \A i \in 1 .. idx' :
                                /\ \A j \in 1 .. Len(done) : done[j][2] # entries[i].source
                                /\ entries[i].ready /\ entries[i].isTimer => timer'[entries[i].source] = "expired"
      BY <1>1 DEF Ahead
    <2>2. /\ idx \in Nat /\ idx <= Len(entries)
          /\ \A i \in 1 .. idx :
                /\ \A j \in 1 .. Len(done) : done[j][2] # entries[i].source
                /\ entries[i].ready /\ entries[i].isTimer => timer[entries[i].source] = "expired"
      BY <2>1 DEF Inv, Ahead
    <2>3. Len(entries) \in Nat /\ \A i \in 1 .. Len(entries) : entries[i].source \in Sources
      <3>1. entries \in Seq(Entry)
        BY DEF Inv, Registry, Shape
      <3>2. Len(entries) \in Nat /\ \A i \in 1 .. Len(entries) : entries[i] \in Entry
        BY <3>1
      <3>3. QED
        BY <3>2 DEF Entry
    <2>4. idx' <= Len(entries) /\ \A i \in 1 .. idx' : i \in 1 .. idx /\ i \in 1 .. Len(entries)
      BY <2>1, <2>2, <2>3
    <2>5. QED
      BY <2>2, <2>3, <2>4
  <1>5. FiredOnce'
    BY <1>1 DEF Inv, FiredOnce
  <1>6. QED
    BY <1>2, <1>3, <1>4, <1>5 DEF Inv

\* poll returns.
LEMMA StepPoll ==
    ASSUME Inv, Poll
    PROVE  Inv'
  <1> DEFINE n == Len(entries)
  <1>1. /\ pc = "poll" /\ pc' = "dispatch" /\ idx' = n /\ done' = << >>
        /\ entries' = [i \in DOMAIN entries |-> [entries[i] EXCEPT !.ready = Readable(entries[i].fd)]]
        /\ UNCHANGED <<program, kind, fd, open, status, timerFds, oneshotFds, active, faults, timer, fired>>
    BY DEF Poll
  <1>2. entries \in Seq(Entry) /\ DOMAIN entries = 1 .. n /\ n \in Nat
    BY DEF Inv, Registry, Shape
  <1>3. /\ entries' \in Seq(Entry) /\ Len(entries') = n
        /\ \A i \in 1 .. n : /\ entries'[i].fd = entries[i].fd /\ entries'[i].source = entries[i].source
                             /\ entries'[i].isTimer = entries[i].isTimer
                             /\ entries'[i].isOneshot = entries[i].isOneshot
                             /\ entries'[i].ready = Readable(entries[i].fd)
    <2>1. \A f : Readable(f) \in BOOLEAN
      BY DEF Readable
    <2>2. ASSUME NEW i \in 1 .. n
          PROVE  /\ [entries[i] EXCEPT !.ready = Readable(entries[i].fd)] \in Entry
                 /\ [entries[i] EXCEPT !.ready = Readable(entries[i].fd)].fd = entries[i].fd
                 /\ [entries[i] EXCEPT !.ready = Readable(entries[i].fd)].source = entries[i].source
                 /\ [entries[i] EXCEPT !.ready = Readable(entries[i].fd)].isTimer = entries[i].isTimer
                 /\ [entries[i] EXCEPT !.ready = Readable(entries[i].fd)].isOneshot = entries[i].isOneshot
                 /\ [entries[i] EXCEPT !.ready = Readable(entries[i].fd)].ready = Readable(entries[i].fd)
      <3>1. PICK x \in Entry : x = entries[i]
        BY <1>2
      <3>2. PICK b \in BOOLEAN : b = Readable(entries[i].fd)
        BY <2>1
      <3>3. /\ [x EXCEPT !.ready = b] \in Entry /\ [x EXCEPT !.ready = b].fd = x.fd
            /\ [x EXCEPT !.ready = b].source = x.source /\ [x EXCEPT !.ready = b].isTimer = x.isTimer
            /\ [x EXCEPT !.ready = b].isOneshot = x.isOneshot /\ [x EXCEPT !.ready = b].ready = b
        BY DEF Entry
      <3>4. QED
        BY <3>1, <3>2, <3>3
    <2>3. DOMAIN entries' = 1 .. n /\ \A i \in 1 .. n : entries'[i] \in Entry
      BY <1>1, <1>2, <2>2
    <2>4. entries' \in Seq(Entry) /\ Len(entries') = n
      <3>1. entries' = [i \in 1 .. n |-> entries'[i]]
        BY <1>1, <1>2
      <3> HIDE DEF n
      <3>2. [i \in 1 .. n |-> entries'[i]] \in Seq(Entry) /\ Len([i \in 1 .. n |-> entries'[i]]) = n
        BY <1>2, <2>3
      <3>3. QED
        BY <3>1, <3>2
    <2>5. QED
      BY <1>1, <1>2, <2>2, <2>4
  <1> HIDE DEF n
  <1>4. Shape' /\ Unused' /\ Owned' /\ Apart'
    BY <1>1, <1>3 DEF Inv, Registry, Shape, Unused, Owned, Apart
  <1>5. Listed'
    BY <1>1, <1>3 DEF Inv, Registry, Listed, n
  <1>6. Told'
    <2>1. \A j \in 1 .. Len(oneshotFds) : \E s \in Sources : kind[s] = "after" /\ fd[s] = oneshotFds[j]
      BY DEF Inv, Registry, Told
    <2>2. \A i \in 1 .. n :
             /\ entries'[i].isOneshot => kind[entries'[i].source] = "after"
             /\ MaxSources <= MaxTimerFds /\ kind[entries'[i].source] = "after" => entries'[i].isOneshot
      BY <1>3 DEF Inv, Registry, Told, n
    <2>3. QED
      BY <1>1, <1>3, <2>1, <2>2 DEF Told
  <1>7. Noted'
    <2>1. 1 .. Len(<< >>) = {} /\ << >> \in Seq(Fds \X Sources)
      OBVIOUS
    <2>2. QED
      BY <1>1, <2>1 DEF Noted
  <1>8. Ahead'
    <2>1. \A i \in 1 .. n : entries'[i].ready => timer[entries[i].source] = "expired"
      <3> SUFFICES ASSUME NEW i \in 1 .. n, Readable(entries[i].fd) PROVE timer[entries[i].source] = "expired"
        BY <1>3
      <3>1. entries[i].source \in open /\ fd[entries[i].source] = entries[i].fd
        BY DEF Inv, Registry, Listed, n
      <3>2. OpenOn(entries[i].fd) = {entries[i].source}
        BY <3>1, OpenOnIs DEF Inv, Registry
      <3>3. QED
        BY <3>2 DEF Readable
    <2>2. 1 .. Len(<< >>) = {}
      OBVIOUS
    <2>3. \A i \in 1 .. idx' :
             /\ \A j \in 1 .. Len(done') : done'[j][2] # entries'[i].source
             /\ entries'[i].ready /\ entries'[i].isTimer => timer'[entries'[i].source] = "expired"
      BY <1>1, <1>3, <2>1, <2>2
    <2>4. idx' \in Nat /\ idx' <= Len(entries')
      BY <1>1, <1>2, <1>3
    <2>5. timer' \in [Sources -> {"armed", "expired", "spent"}]
      BY <1>1 DEF Inv, Ahead
    <2>6. QED
      BY <2>3, <2>4, <2>5 DEF Ahead
  <1>9. FiredOnce'
    <2>1. done = << >>
      BY <1>1 DEF Inv, Noted
    <2>2. QED
      BY <1>1, <2>1 DEF Inv, FiredOnce
  <1>10. QED
    BY <1>1, <1>4, <1>5, <1>6, <1>7, <1>8, <1>9 DEF Inv, Registry

\* What a handler does to the registry: it takes out one source at most, its
\* own or, cancelling late, one that is over.
LEMMA HandlerKeeps ==
    ASSUME Careful(program), program' = program, Registry, NEW s \in Sources, HandlerCalls(s)
    PROVE  /\ Registry'
           /\ \/ Keeps({})
              \/ Keeps({s}) /\ (program.lateCancel \/ kind[s] = "every")
              \/ \E r \in Sources : Keeps({r}) /\ Over(r) /\ program.lateCancel
  <1>1. CASE UNCHANGED <<sources, shutdown>>
    <2>1. UNCHANGED <<kind, fd, open, status, timerFds, oneshotFds, entries, active, faults>>
      BY <1>1 DEF sources
    <2>2. Registry'
      BY <2>1, RegistryStays
    <2>3. Keeps({})
      <3>1. \A i \in 1 .. Len(entries) : i <= Len(entries)
        BY DEF Registry, Shape
      <3>2. \A r \in Sources : kind[r] = "none" => status[r] # "finished"
        BY DEF Registry, Unused
      <3>3. QED
        BY <2>1, <3>1, <3>2 DEF Keeps
    <2>4. QED
      BY <2>2, <2>3
  <1>2. CASE Stop
    <2>1. UNCHANGED <<kind, fd, open, status, timerFds, oneshotFds, entries, active, faults>>
      BY <1>2 DEF Stop
    <2>2. Registry'
      BY <2>1, RegistryStays
    <2>3. Keeps({})
      <3>1. \A i \in 1 .. Len(entries) : i <= Len(entries)
        BY DEF Registry, Shape
      <3>2. \A r \in Sources : kind[r] = "none" => status[r] # "finished"
        BY DEF Registry, Unused
      <3>3. QED
        BY <2>1, <3>1, <3>2 DEF Keeps
    <2>4. QED
      BY <2>2, <2>3
  <1>3. CASE \E k \in {"every", "after"} : NewTimer(k)
    BY <1>3, NewKeeps
  <1>4. CASE \E r \in Sources : /\ \/ program.cancels = "any" \/ Over(r)
                                   \/ r = s /\ (kind[s] = "every" \/ program.lateCancel)
                                /\ Cancel(r)
    <2>1. PICK r \in Sources : /\ Over(r) \/ (r = s /\ (kind[s] = "every" \/ program.lateCancel))
                               /\ Cancel(r)
      BY <1>4 DEF Careful
    <2>2. Over(r) => program.lateCancel
      BY <2>1 DEF Cancel
    <2>3. QED
      BY <2>1, <2>2, CancelKeeps
  <1>5. QED
    BY <1>1, <1>2, <1>3, <1>4 DEF HandlerCalls

\* An entry is dispatched.
LEMMA StepDispatch ==
    ASSUME Inv, Dispatch
    PROVE  Inv'
  <1> DEFINE e == entries[idx]
             s == e.source
  <1>1. /\ pc = "dispatch" /\ idx >= 1 /\ e.ready /\ HandlerCalls(s)
        /\ (IF e.isTimer THEN Drain(e.fd) ELSE UNCHANGED timer)
        /\ fired' = [fired EXCEPT ![s] = Min({@ + 1, 2})]
        /\ done' = NoteOneshot(e)
        /\ idx' = idx - 1 /\ pc' = pc /\ program' = program
    BY DEF Dispatch, NextIndex
  <1>2. /\ Careful(program) /\ Registry /\ idx \in Nat /\ idx <= Len(entries)
        /\ timer \in [Sources -> {"armed", "expired", "spent"}]
        /\ \A i \in 1 .. idx :
              /\ \A j \in 1 .. Len(done) : done[j][2] # entries[i].source
              /\ entries[i].ready /\ entries[i].isTimer => timer[entries[i].source] = "expired"
    BY <1>1 DEF Inv, Ahead
  <1>3. entries \in Seq(Entry) /\ Len(entries) \in Nat /\ idx \in 1 .. Len(entries) /\ idx \in 1 .. idx
    BY <1>1, <1>2 DEF Registry, Shape
  <1>4. e \in Entry /\ e.fd \in Fds /\ s \in Sources
    <2>1. e \in Entry
      BY <1>3
    <2>2. QED
      BY <2>1 DEF Entry
  <1>5. s \in open /\ fd[s] = e.fd /\ OpenOn(e.fd) = {s} /\ kind[s] # "none"
    <2>1. s \in open /\ fd[s] = e.fd
      BY <1>2, <1>3 DEF Registry, Listed
    <2>2. QED
      BY <1>2, <1>4, <2>1, OpenOnIs DEF Registry, Owned, Unused
  <1>6. \A i \in 1 .. Len(entries) : entries[i].source \in Sources /\ entries[i].source \in open
                                     /\ (entries[i].source = s => i = idx)
    <2>1. \A i \in 1 .. Len(entries) : entries[i].source \in open /\ (entries[i].source = s => i = idx)
      BY <1>2, <1>3 DEF Registry, Listed
    <2>2. QED
      BY <1>2, <2>1 DEF Registry, Shape
  <1>7. /\ e.isOneshot => kind[s] = "after"
        /\ MaxSources <= MaxTimerFds /\ kind[s] = "after" => e.isOneshot
    BY <1>2, <1>3 DEF Registry, Told
  <1>8. PICK x \in SUBSET Sources :
           /\ Registry' /\ Keeps(x)
           /\ \A r \in x : r = s \/ Over(r)
           /\ x # {} => program.lateCancel \/ (x = {s} /\ kind[s] = "every")
    BY <1>1, <1>2, <1>4, HandlerKeeps
  <1> HIDE DEF e, s
  <1>9. /\ done \in Seq(Fds \X Sources) /\ Len(done) \in Nat
        /\ \A j \in 1 .. Len(done) :
              /\ done[j][2] \in Sources /\ kind[done[j][2]] = "after" /\ fd[done[j][2]] = done[j][1]
              /\ program.lateCancel \/ done[j][2] \in open
              /\ done[j][2] # s
        /\ \A i, j \in 1 .. Len(done) : done[i][2] = done[j][2] => i = j
    BY <1>2, <1>3 DEF Inv, Noted, s, e
  <1>10. /\ open \in SUBSET Sources /\ kind \in [Sources -> {"none", "every", "after"}]
         /\ \A r \in open : kind[r] # "none"
    BY <1>2 DEF Registry, Shape, Unused
  <1>11. /\ \A r \in open : r \notin x => r \in open'
         /\ \A r \in Sources : kind[r] # "none" => kind'[r] = kind[r] /\ fd'[r] = fd[r]
    BY <1>8, <1>10 DEF Keeps
  <1>12. \/ ~e.isOneshot /\ done' = done
         \/ e.isOneshot /\ done' = Append(done, <<e.fd, s>>)
    BY <1>1 DEF NoteOneshot, s
  <1>13. /\ done' \in Seq(Fds \X Sources)
         /\ \A j \in 1 .. Len(done) : j \in 1 .. Len(done') /\ done'[j] = done[j]
         /\ \A j \in 1 .. Len(done') : \/ j \in 1 .. Len(done)
                                       \/ e.isOneshot /\ done'[j] = <<e.fd, s>> /\ j = Len(done) + 1
         /\ e.isOneshot => \E j \in 1 .. Len(done') : done'[j][2] = s
    <2>1. CASE ~e.isOneshot /\ done' = done
      BY <1>9, <2>1
    <2>2. CASE e.isOneshot /\ done' = Append(done, <<e.fd, s>>)
      <3>1. <<e.fd, s>> \in Fds \X Sources /\ <<e.fd, s>>[2] = s
        BY <1>4
      <3>2. /\ done' \in Seq(Fds \X Sources) /\ Len(done') = Len(done) + 1 /\ done'[Len(done) + 1] = <<e.fd, s>>
            /\ \A j \in 1 .. Len(done) : done'[j] = done[j]
        BY <1>9, <2>2, <3>1
      <3>3. QED
        BY <1>9, <2>2, <3>1, <3>2
    <2>3. QED
      BY <1>12, <2>1, <2>2
  <1>14. Noted'
    <2>1. ASSUME NEW j \in 1 .. Len(done')
          PROVE  /\ done'[j][2] \in Sources /\ kind'[done'[j][2]] = "after"
                 /\ fd'[done'[j][2]] = done'[j][1]
                 /\ program'.lateCancel \/ done'[j][2] \in open'
      <3>1. CASE j \in 1 .. Len(done)
        <4>1. program.lateCancel \/ done[j][2] \notin x
          BY <1>8, <1>9, <3>1
        <4>2. QED
          BY <1>1, <1>9, <1>11, <1>13, <3>1, <4>1
      <3>2. CASE e.isOneshot /\ done'[j] = <<e.fd, s>>
        <4>1. program.lateCancel \/ s \notin x
          BY <1>7, <1>8, <3>2
        <4>2. done'[j][2] = s /\ done'[j][1] = e.fd
          BY <3>2
        <4>3. QED
          BY <1>1, <1>4, <1>5, <1>7, <1>11, <3>2, <4>1, <4>2
      <3>3. QED
        BY <1>13, <3>1, <3>2
    <2>2. ASSUME NEW i \in 1 .. Len(done'), NEW j \in 1 .. Len(done'), done'[i][2] = done'[j][2]
          PROVE  i = j
      <3>1. \A l \in 1 .. Len(done') : l \in 1 .. Len(done) => done'[l][2] = done[l][2] /\ done[l][2] # s
        BY <1>9, <1>13
      <3>2. \A l \in 1 .. Len(done') : l \notin 1 .. Len(done) => done'[l][2] = s /\ l = Len(done) + 1
        BY <1>13
      <3>3. QED
        BY <1>9, <2>2, <3>1, <3>2
    <2>3. pc' \in {"dispatch", "sweep"}
      BY <1>1
    <2>4. QED
      BY <1>13, <2>1, <2>2, <2>3 DEF Noted
  <1>15. timer' \in [Sources -> {"armed", "expired", "spent"}] /\ \A r \in Sources : r # s => timer'[r] = timer[r]
    BY <1>1, <1>2, <1>5 DEF Drain
  <1>16. Ahead'
    <2>1. idx' \in Nat /\ idx' < idx /\ \A i \in 1 .. idx' : i \in 1 .. idx /\ i # idx /\ i \in 1 .. Len(entries)
      BY <1>1, <1>2, <1>3
    <2>2. ASSUME NEW i \in 1 .. idx' PROVE i <= Len(entries') /\ entries'[i] = entries[i]
      <3>1. \A m \in 1 .. i : m \in 1 .. Len(entries) /\ m # idx
        BY <1>3, <2>1
      <3>2. \A m \in 1 .. i : entries[m].source \notin x
        <4>1. ASSUME NEW m \in 1 .. i PROVE entries[m].source # s /\ ~Over(entries[m].source)
          <5>1. m \in 1 .. Len(entries) /\ m # idx /\ m \in 1 .. idx
            BY <1>2, <1>3, <2>1, <3>1
          <5>2. status[entries[m].source] = "registered" /\ entries[m].source # s
            BY <1>2, <1>6, <5>1 DEF Registry, Listed
          <5>3. \A j \in 1 .. Len(done) : done[j][2] # entries[m].source
            BY <1>2, <5>1
          <5>4. DOMAIN done = 1 .. Len(done)
            BY <1>9
          <5>5. QED
            BY <5>2, <5>3, <5>4 DEF Over
        <4>2. QED
          BY <1>8, <4>1
      <3>3. QED
        BY <1>8, <2>1, <3>2 DEF Keeps
    <2>3. idx' <= Len(entries')
      <3>1. CASE idx' = 0
        BY <1>8, <3>1 DEF Registry, Shape
      <3>2. CASE idx' # 0
        <4>1. idx' \in 1 .. idx'
          BY <2>1, <3>2
        <4>2. QED
          BY <2>2, <4>1
      <3>3. QED
        BY <3>1, <3>2
    <2>4. ASSUME NEW i \in 1 .. idx'
          PROVE  /\ \A j \in 1 .. Len(done') : done'[j][2] # entries'[i].source
                 /\ entries'[i].ready /\ entries'[i].isTimer => timer'[entries'[i].source] = "expired"
      <3>1. entries'[i] = entries[i] /\ entries[i].source # s /\ entries[i].source \in Sources
        BY <1>6, <2>1, <2>2
      <3>2. ASSUME NEW j \in 1 .. Len(done') PROVE done'[j][2] # entries[i].source
        <4>1. CASE j \in 1 .. Len(done)
          BY <1>2, <1>13, <2>1, <4>1
        <4>2. CASE done'[j] = <<e.fd, s>>
          BY <3>1, <4>2
        <4>3. QED
          BY <1>13, <4>1, <4>2
      <3>3. QED
        BY <1>2, <1>15, <2>1, <3>1, <3>2
    <2>5. QED
      BY <1>15, <2>1, <2>3, <2>4 DEF Ahead
  <1>17. FiredOnce'
    <2>1. /\ fired \in [Sources -> 0 .. 2] /\ \A r \in Sources : kind[r] = "none" => fired[r] = 0
      BY DEF Inv, FiredOnce
    <2>2. Min({fired[s] + 1, 2}) \in 0 .. 2 /\ (fired[s] = 0 => Min({fired[s] + 1, 2}) = 1)
      <3>1. {fired[s] + 1, 2} \in SUBSET Nat /\ {fired[s] + 1, 2} # {}
        BY <1>4, <2>1
      <3>2. Min({fired[s] + 1, 2}) \in {fired[s] + 1, 2} /\ \A y \in {fired[s] + 1, 2} : Min({fired[s] + 1, 2}) <= y
        BY <3>1, MinIs
      <3> DEFINE u == Min({fired[s] + 1, 2})
      <3> HIDE DEF u
      <3>3. (u = fired[s] + 1 \/ u = 2) /\ u <= fired[s] + 1 /\ u <= 2 /\ fired[s] \in 0 .. 2
        BY <1>4, <2>1, <3>2 DEF u
      <3>4. u \in 0 .. 2 /\ (fired[s] = 0 => u = 1)
        BY <3>3
      <3>5. QED
        BY <3>4 DEF u
    <2>3. /\ fired' \in [Sources -> 0 .. 2] /\ (fired[s] = 0 => fired'[s] = 1)
          /\ \A r \in Sources : r # s => fired'[r] = fired[r]
      BY <1>1, <1>4, <2>1, <2>2
    <2>4. \A r \in Sources : kind[r] # "none" =>
             kind'[r] = kind[r] /\ (status[r] = "finished" => status'[r] = "finished")
      BY <1>8 DEF Keeps
    <2>5. \A r \in Sources : kind'[r] = "none" => fired'[r] = 0
      BY <1>5, <2>1, <2>3, <2>4
    <2>6. ASSUME MaxSources <= MaxTimerFds, NEW r \in Sources, kind'[r] = "after"
          PROVE  /\ fired'[r] <= 1
                 /\ fired'[r] = 1 => \/ status'[r] = "finished"
                                     \/ \E j \in 1 .. Len(done') : done'[j][2] = r
      <3>1. CASE kind[r] = "none"
        <4>1. r # s /\ fired'[r] = 0
          BY <1>5, <2>1, <2>3, <3>1
        <4>2. QED
          BY <4>1
      <3>2. CASE kind[r] # "none" /\ r # s
        <4>1. /\ fired[r] <= 1
              /\ fired[r] = 1 => \/ status[r] = "finished"
                                 \/ \E j \in 1 .. Len(done) : done[j][2] = r
          BY <2>4, <2>6, <3>2 DEF Inv, FiredOnce
        <4>2. QED
          BY <1>13, <2>3, <2>4, <3>2, <4>1
      <3>3. CASE r = s
        <4>1. kind[s] = "after" /\ e.isOneshot
          BY <1>5, <1>7, <2>4, <2>6, <3>3
        <4>2. /\ fired[s] <= 1
              /\ fired[s] = 1 => \/ status[s] = "finished"
                                 \/ \E j \in 1 .. Len(done) : done[j][2] = s
          BY <1>4, <2>6, <4>1 DEF Inv, FiredOnce
        <4>3. status[s] # "finished"
          BY <1>2, <1>4, <1>5 DEF Registry, Owned
        <4>4. fired[s] = 0
          BY <1>4, <1>9, <2>1, <4>2, <4>3
        <4>5. QED
          BY <1>13, <2>3, <3>3, <4>1, <4>4
      <3>4. QED
        BY <3>1, <3>2, <3>3
    <2>7. QED
      BY <2>3, <2>5, <2>6 DEF FiredOnce
  <1>18. QED
    BY <1>1, <1>2, <1>8, <1>14, <1>16, <1>17 DEF Inv

\* A one-shot that fired is taken out of the loop and closed.
LEMMA StepSweepOne ==
    ASSUME Inv, SweepOne
    PROVE  Inv'
  <1> DEFINE f == Head(done)[1]
             r == Head(done)[2]
             n == Len(done)
  <1>1. /\ pc = "sweep" /\ done # << >> /\ DropEntry(f, r, "finished") /\ CloseFd(f, r)
        /\ done' = Tail(done)
        /\ UNCHANGED <<program, kind, fd, timerFds, oneshotFds, timer, fired, pc, idx>>
    BY DEF SweepOne
  <1>2. /\ Registry /\ done \in Seq(Fds \X Sources)
        /\ \A j \in 1 .. n :
              /\ done[j][2] \in Sources /\ kind[done[j][2]] = "after" /\ fd[done[j][2]] = done[j][1]
              /\ program.lateCancel \/ done[j][2] \in open
        /\ \A i, j \in 1 .. n : done[i][2] = done[j][2] => i = j
    BY DEF Inv, Noted
  <1>3. n \in Nat /\ n >= 1 /\ 1 \in 1 .. n /\ Head(done) = done[1]
    BY <1>1, <1>2
  <1>4. /\ r \in Sources /\ kind[r] = "after" /\ f = fd[r] /\ r = done[1][2]
        /\ program.lateCancel \/ r \in open
    BY <1>2, <1>3
  <1>5. /\ done' \in Seq(Fds \X Sources) /\ Len(done') = n - 1
        /\ \A j \in 1 .. n - 1 : done'[j] = done[j + 1]
    BY <1>1, <1>2
  <1> HIDE DEF f, r, n
  <1>6. open' \subseteq open /\ \A q \in open : q = r \/ program.lateCancel \/ q \in open'
    <2>1. r \in open => OpenOn(fd[r]) = {r}
      BY <1>2, OpenOnIs DEF Registry
    <2>2. QED
      BY <1>1, <1>4, <2>1 DEF CloseFd
  <1>7. r \in open => open' = open \ {r} /\ faults' = faults
    <2>1. r \in open => OpenOn(fd[r]) = {r}
      BY <1>2, OpenOnIs DEF Registry
    <2>2. QED
      BY <1>1, <1>4, <2>1 DEF CloseFd
  <1>8. Registry' /\ Keeps({r}) /\ status'[r] = "finished"
    <2>1. CASE r \in open
      BY <1>1, <1>2, <1>4, <1>7, <2>1, TakenOut
    <2>2. CASE r \notin open
      BY <1>1, <1>2, <1>4, <2>2, TakenOutAgain
    <2>3. QED
      BY <2>1, <2>2
  <1>9. \A j \in 1 .. n - 1 : j + 1 \in 1 .. n /\ j + 1 # 1
    BY <1>3
  <1>10. Noted'
    <2>1. ASSUME NEW j \in 1 .. n - 1
          PROVE  /\ done'[j][2] \in Sources /\ kind'[done'[j][2]] = "after"
                 /\ fd'[done'[j][2]] = done'[j][1] /\ (program'.lateCancel \/ done'[j][2] \in open')
      <3>1. done'[j] = done[j + 1] /\ done[j + 1][2] # r
        BY <1>2, <1>3, <1>4, <1>5, <1>9
      <3>2. QED
        BY <1>1, <1>2, <1>6, <1>9, <3>1
    <2>2. ASSUME NEW i \in 1 .. n - 1, NEW j \in 1 .. n - 1, done'[i][2] = done'[j][2]
          PROVE  i = j
      <3>1. done'[i] = done[i + 1] /\ done'[j] = done[j + 1]
        BY <1>5
      <3>2. i + 1 \in 1 .. n /\ j + 1 \in 1 .. n
        BY <1>9
      <3>3. done[i + 1][2] = done[j + 1][2]
        BY <2>2, <3>1
      <3>4. i + 1 = j + 1
        BY <1>2, <3>2, <3>3
      <3>5. QED
        BY <1>3, <3>4
    <2>3. QED
      BY <1>1, <1>5, <2>1, <2>2 DEF Noted
  <1>11. Ahead'
    BY <1>1 DEF Inv, Ahead
  <1>12. FiredOnce'
    <2>1. ASSUME NEW j \in 1 .. n
          PROVE  \/ \E i \in 1 .. Len(done') : done'[i][2] = done[j][2]
                 \/ status'[done[j][2]] = "finished"
      <3>1. CASE j = 1
        BY <1>4, <1>8, <3>1
      <3>2. CASE j # 1
        <4>1. j - 1 \in 1 .. n - 1 /\ (j - 1) + 1 = j
          BY <1>3, <3>2
        <4>2. done'[j - 1] = done[j]
          BY <1>5, <4>1
        <4>3. QED
          BY <1>5, <4>1, <4>2
      <3>3. QED
        BY <3>1, <3>2
    <2>2. kind' \in [Sources -> {"none", "every", "after"}]
      BY <1>8 DEF Registry, Shape
    <2>3. QED
      BY <1>1, <1>2, <1>8, <2>1, <2>2, FiredKept DEF Inv, n
  <1>13. QED
    BY <1>1, <1>8, <1>10, <1>11, <1>12 DEF Inv

\* The invariant holds at the start.
LEMMA InvInit ==
    ASSUME \A g \in Programs : Careful(g), Init
    PROVE  Inv
  <1>1. /\ program \in Programs /\ kind = [s \in Sources |-> "none"] /\ fd = [s \in Sources |-> NoFd]
        /\ open = {} /\ timer = [s \in Sources |-> "armed"] /\ status = [s \in Sources |-> "none"]
        /\ fired = [s \in Sources |-> 0] /\ timerFds = << >> /\ oneshotFds = << >> /\ entries = << >>
        /\ active = 0 /\ pc = "main" /\ idx = 0 /\ done = << >> /\ faults = {}
    BY DEF Init
  <1>2. /\ Len(<< >>) = 0 /\ 1 .. 0 = {} /\ << >> \in Seq(Fds) /\ << >> \in Seq(Entry)
        /\ << >> \in Seq(Fds \X Sources)
    OBVIOUS
  <1>3. Shape
    BY <1>1, <1>2 DEF Shape
  <1>4. Unused
    BY <1>1, <1>2 DEF Unused, Sources
  <1>5. Owned
    BY <1>1 DEF Owned
  <1>6. Apart /\ Listed /\ Told
    BY <1>1, <1>2 DEF Apart, Listed, Told
  <1>7. Noted
    BY <1>1, <1>2 DEF Noted
  <1>8. Ahead
    BY <1>1 DEF Ahead
  <1>9. FiredOnce
    BY <1>1 DEF FiredOnce
  <1>10. QED
    BY <1>1, <1>3, <1>4, <1>5, <1>6, <1>7, <1>8, <1>9 DEF Inv, Registry

\* Every step keeps the invariant.
LEMMA InvNext == Inv /\ [Next]_vars => Inv'
  <1> SUFFICES ASSUME Inv, [Next]_vars PROVE Inv'
    OBVIOUS
  <1>1. /\ idx \in Nat /\ timer \in [Sources -> {"armed", "expired", "spent"}]
        /\ pc \notin {"dispatch", "sweep"} => done = << >>
    BY DEF Inv, Ahead, Noted
  <1>2. CASE MainCalls
    BY <1>2, StepMainCalls
  <1>3. CASE Run
    BY <1>1, <1>3, StepMoves DEF Run
  <1>4. CASE Test
    BY <1>1, <1>4, StepMoves DEF Test
  <1>5. CASE Poll
    BY <1>5, StepPoll
  <1>6. CASE SkipEntry
    <2>1. /\ pc = "dispatch" /\ pc' = pc /\ idx >= 1 /\ idx' = idx - 1
          /\ UNCHANGED <<program, sources, timer, fired, done>>
      BY <1>6 DEF SkipEntry, NextIndex
    <2>2. idx' \in Nat /\ idx' <= idx
      BY <1>1, <2>1
    <2>3. QED
      BY <1>1, <2>1, <2>2, StepMoves
  <1>7. CASE Dispatch
    BY <1>7, StepDispatch
  <1>8. CASE DispatchEnds
    BY <1>1, <1>8, StepMoves DEF DispatchEnds
  <1>9. CASE SweepOne
    BY <1>9, StepSweepOne
  <1>10. CASE SweepEnds
    BY <1>1, <1>10, StepMoves DEF SweepEnds
  <1>11. CASE \E s \in Sources : Expire(s)
    <2>1. PICK s \in Sources : Expire(s)
      BY <1>11
    <2>2. /\ timer' = [timer EXCEPT ![s] = "expired"]
          /\ UNCHANGED <<program, sources, fired, pc, idx, done>>
      BY <2>1 DEF Expire, walk
    <2>3. /\ timer' \in [Sources -> {"armed", "expired", "spent"}]
          /\ \A r \in Sources : timer[r] = "expired" => timer'[r] = "expired"
      BY <1>1, <2>2
    <2>4. idx <= idx
      BY <1>1
    <2>5. QED
      BY <1>1, <2>2, <2>3, <2>4, StepMoves
  <1>12. CASE UNCHANGED vars
    <2>1. UNCHANGED <<program, sources, timer, fired, pc, idx, done>>
      BY <1>12 DEF vars, walk
    <2>2. idx <= idx
      BY <1>1
    <2>3. QED
      BY <1>1, <2>1, <2>2, StepMoves
  <1>13. QED
    BY <1>2, <1>3, <1>4, <1>5, <1>6, <1>7, <1>8, <1>9, <1>10, <1>11, <1>12 DEF Next, LoopStep

\* The invariant of every reachable state.
LEMMA Invariance ==
    ASSUME \A g \in Programs : Careful(g)
    PROVE  Spec => []Inv
  <1>1. Init => Inv
    BY InvInit
  <1>2. QED
    BY <1>1, InvNext, PTL DEF Spec

-----------------------------------------------------------------------------
\* While handlers register, cancel and fire, each entry's descriptor is open and
\* its own, active_count counts the entries, and nothing of another source is
\* closed: in programs that cancel only what is live although descriptors are
\* reused, and in those that cancel what is over, one-shots in their own handler
\* included, as long as all timers are made early (__blang_event_cancel and
\* __blang_selector_run, blang_net.c).
THEOREM InStep ==
    ASSUME \A g \in Programs : Careful(g)
    PROVE  Spec => []EntriesInStep
  <1>1. Inv => EntriesInStep
    <2> SUFFICES ASSUME Inv PROVE EntriesInStep
      OBVIOUS
    <2>1. /\ Registry /\ DOMAIN entries = 1 .. Len(entries) /\ active = Len(entries)
          /\ "other" \notin faults /\ (faults # {} => program.lateCancel)
      BY DEF Inv, Registry, Shape, Apart, Listed
    <2>2. \A i \in DOMAIN entries : OpenOn(entries[i].fd) = {entries[i].source}
      <3> SUFFICES ASSUME NEW i \in DOMAIN entries PROVE OpenOn(entries[i].fd) = {entries[i].source}
        OBVIOUS
      <3>1. entries[i].source \in open /\ fd[entries[i].source] = entries[i].fd
        BY <2>1 DEF Registry, Listed
      <3>2. QED
        BY <2>1, <3>1, OpenOnIs DEF Registry
    <2>3. \A i, j \in DOMAIN entries : entries[i].fd = entries[j].fd => i = j
      BY <2>1, FdsDiffer
    <2>4. QED
      BY <2>1, <2>2, <2>3 DEF EntriesInStep
  <1>2. QED
    BY <1>1, Invariance, PTL

\* The loop never blocks in the read() that drains a timer: an entry it finds
\* ready still has its expiration to read.
THEOREM NoBlocking ==
    ASSUME \A g \in Programs : Careful(g)
    PROVE  Spec => []DrainNeverBlocks
  <1>1. Inv => DrainNeverBlocks
    <2> SUFFICES ASSUME Inv, pc = "dispatch", idx >= 1, entries[idx].ready, entries[idx].isTimer
                 PROVE  Readable(entries[idx].fd)
      BY DEF DrainNeverBlocks
    <2>1. /\ idx \in Nat /\ idx <= Len(entries) /\ Registry
          /\ \A i \in 1 .. idx : entries[i].ready /\ entries[i].isTimer => timer[entries[i].source] = "expired"
      BY DEF Inv, Ahead
    <2>2. idx \in 1 .. idx /\ idx \in 1 .. Len(entries)
      BY <2>1 DEF Registry, Shape
    <2>3. entries[idx].source \in open /\ fd[entries[idx].source] = entries[idx].fd
      BY <2>1, <2>2 DEF Registry, Listed
    <2>4. QED
      BY <2>1, <2>2, <2>3 DEF Readable, OpenOn
  <1>2. QED
    BY <1>1, Invariance, PTL

\* timer.every: a repeating timer leaves the loop by being cancelled only, never
\* because its descriptor was once a one-shot's (g_oneshot_fds is never pruned).
THEOREM Stays ==
    ASSUME \A g \in Programs : Careful(g)
    PROVE  Spec => []RepeatingStays
  <1>1. Inv => RepeatingStays
    BY DEF Inv, Registry, Owned, RepeatingStays
  <1>2. QED
    BY <1>1, Invariance, PTL

\* timer.after: a one-shot fires once and then removes itself from the loop, as
\* long as its descriptor fits the table (MAX_TIMER_FDS).
THEOREM Once ==
    ASSUME \A g \in Programs : Careful(g), MaxSources <= MaxTimerFds
    PROVE  Spec => []OneShotOnce
  <1>1. Inv => OneShotOnce
    <2> SUFFICES ASSUME Inv, NEW s \in Sources, kind[s] = "after"
                 PROVE  /\ fired[s] <= 1
                        /\ fired[s] = 1 /\ pc \in {"test", "poll", "main"} =>
                              status[s] = "finished" /\ s \notin open
      BY DEF OneShotOnce
    <2>1. /\ fired[s] <= 1
          /\ fired[s] = 1 => \/ status[s] = "finished"
                             \/ \E j \in 1 .. Len(done) : done[j][2] = s
      BY DEF Inv, FiredOnce
    <2>2. status[s] = "finished" => s \notin open
      BY DEF Inv, Registry, Owned
    <2>3. pc \in {"test", "poll", "main"} => done = << >>
      BY DEF Inv, Noted
    <2>4. QED
      BY <2>1, <2>2, <2>3
  <1>2. QED
    BY <1>1, Invariance, PTL
=============================================================================
