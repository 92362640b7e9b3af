----------------------------- MODULE SpawnProofs ----------------------------
(***************************************************************************)
(* Proofs about SpawnRuntime.tla, for every finite set of tasks and every  *)
(* set of channels:                                                        *)
(*   SpawnTypes    the state keeps its shape,                              *)
(*   WaitsBlock    wait, wait_all and shutdown return only after the work, *)
(*   NoDangling    nothing touches a freed handle, table or channel,       *)
(*   AllFreed      a process that exits has freed every handle and channel. *)
(* The first two hold of every program, the others of the programs that    *)
(* call the shutdown and in which no thread moves the table while another  *)
(* one edits it (SoundProgram).                                            *)
(***************************************************************************)
EXTENDS SpawnRuntime, FiniteSetTheorems, SequenceTheorems, TLAPS

\* The programs that __blang_spawn_task_destroy is safe for: it edits the table
\* without the lock, so either one thread spawns and waits, or the table never
\* grows.
SoundProgram(g) ==
    /\ g.shutdown
    /\ g.spawners \subseteq {Main} \/ g.capacity >= Cardinality(Tasks)

-----------------------------------------------------------------------------
\* The inductive invariant of every program.

\* Where a task and where main can be.
Places ==
    /\ pc[Main] \notin {"unborn", "ended", "completed", "leaving", "exited"}
    /\ \A t \in Tasks : pc[t] \notin {"shutdown", "shutdown_zz", "join", "down", "gone"}

\* The flag in the handle is set by the tail of the thread, and a handle is
\* freed after that.
Flags ==
    /\ \A t \in Tasks : completed[t] <=> pc[t] \in {"completed", "leaving", "exited"}
    /\ \A t \in Tasks : handle[t] = "freed" => completed[t]
    /\ \A t \in Tasks : handle[t] = "none" => pc[t] = "unborn" /\ owner[t] = NoTask

\* A thread works on a handle exactly inside spawn, wait and destroy; a handle is
\* in at most one pair of hands, and those of the creator come first.
Busy == {"create", "wait", "wait_zz", "search", "clear", "free"}
Working == \A p \in Threads : on[p] # NoTask <=> pc[p] \in Busy
OneHand == \A p, q \in Threads : on[p] = on[q] /\ on[p] # NoTask => p = q
Unowned == \A p \in Threads : on[p] # NoTask => owner[on[p]] = NoTask /\ handle[on[p]] # "none"
Created == \A p \in Threads : pc[p] = "create" => pc[on[p]] = "unborn"
Destroyed == \A p \in Threads : pc[p] \in {"search", "clear", "free"} => completed[on[p]]
Hands == Working /\ OneHand /\ Unowned /\ Created /\ Destroyed

\* tasks_in_flight counts the tasks between the tracker's two critical sections.
Spawned == {t \in Tasks : handle[t] # "none"}
InFlight == {t \in Tasks : handle[t] # "none" /\ pc[t] \notin {"leaving", "exited"}}
Counted == inFlight = Cardinality(InFlight)

Inv == TypeOK /\ Places /\ Flags /\ Hands /\ Counted

-----------------------------------------------------------------------------
\* The inductive invariant of a sound program.

\* Only spawners ever hold a handle.
Spawners ==
    /\ SoundProgram(program)
    /\ \A p \in Threads : on[p] # NoTask => p \in program.spawners
    /\ \A t \in Tasks : owner[t] # NoTask => owner[t] \in program.spawners

\* A handle someone can still reach is allocated, and is in the table until its
\* destroyer has taken it out.
Reachable ==
    /\ \A p \in Threads : on[p] # NoTask => handle[on[p]] = "live"
    /\ pc[Main] \notin {"join", "down", "gone"} =>
          \A t \in Tasks : owner[t] # NoTask => handle[t] = "live"
    /\ \A i \in DOMAIN table : table[i] # NoTask => handle[table[i]] = "live"
    /\ \A t \in Tasks : handle[t] = "live" =>
          \/ \E i \in DOMAIN table : table[i] = t
          \/ \E p \in Threads : pc[p] = "free" /\ on[p] = t

\* A handle is in the table once, and an entry found is still where it was found.
Entries ==
    /\ \A i, j \in DOMAIN table : table[i] = table[j] /\ table[i] # NoTask => i = j
    /\ \A p \in Threads : pc[p] = "free" => \A i \in DOMAIN table : table[i] # on[p]
    /\ \A p \in Threads : pc[p] = "clear" =>
          /\ found[p][1] = block
          /\ found[p][2] \in DOMAIN table
          /\ table[found[p][2]] = on[p]

\* A table that is edited by several threads has room for all their spawns.
Room ==
    pc[Main] \notin {"down", "gone"} =>
        \/ program.spawners \subseteq {Main}
        \/ capacity >= Cardinality(Tasks) /\ Len(table) <= Cardinality(Spawned)

\* What the shutdown has done at each of its stages.
Stages ==
    /\ pc[Main] \in {"join", "down", "gone"} => \A t \in Tasks : ~Running(t)
    /\ pc[Main] \in {"down", "gone"} => /\ \A t \in Tasks : handle[t] # "live"
                                        /\ \A c \in Chans : chans[c] # "live"
    /\ pc[Main] \notin {"down", "gone"} => \A c \in Chans : chans[c] # "freed"

SoundInv == Inv /\ Spawners /\ Reachable /\ Entries /\ Room /\ Stages /\ NoUseAfterFree

-----------------------------------------------------------------------------
\* The set of tasks is finite, and so are the tasks spawned and in flight.
LEMMA TaskSets ==
    ASSUME NEW S \in SUBSET Tasks
    PROVE  /\ IsFiniteSet(S)
           /\ Cardinality(S) \in Nat
           /\ Cardinality(S) <= Cardinality(Tasks)
           /\ \A t \in S : Cardinality(S \ {t}) = Cardinality(S) - 1
           /\ \A t \in Tasks \ S : Cardinality(S \cup {t}) = Cardinality(S) + 1
  <1>1. IsFiniteSet(S) /\ Cardinality(S) \in Nat /\ Cardinality(S) <= Cardinality(Tasks)
    BY SpawnAssumption, FS_Subset, FS_CardinalityType
  <1>2. QED
    BY <1>1, FS_RemoveElement, FS_AddElement

\* What a signal does to the threads: the caller moves on, and a sleeper that is
\* woken is back at the loop it sleeps in.
Woken(q) ==
    \/ pc'[q] = pc[q]
    \/ pc[q] = "wait_zz" /\ pc'[q] = "wait"
    \/ pc[q] = "all_zz" /\ pc'[q] = "all"
    \/ pc[q] = "shutdown_zz" /\ pc'[q] = "shutdown"

LEMMA SignalEffect ==
    ASSUME TypeOK, NEW t \in Threads, NEW l \in Labels,
           NEW asleep \in SUBSET {p \in Threads : pc[p] \in {"wait_zz", "all_zz", "shutdown_zz"}},
           t \notin asleep, SignalGoto(t, l, asleep)
    PROVE  /\ pc' \in [Threads -> Labels]
           /\ pc'[t] = l
           /\ \A q \in Threads \ {t} : Woken(q)
  <1>1. CASE asleep = {}
    <2>1. pc' = [pc EXCEPT ![t] = l]
      BY <1>1, Zenon DEF SignalGoto, Goto
    <2>2. QED
      BY <2>1 DEF TypeOK, Woken
  <1>2. CASE asleep # {}
    <2>1. PICK w \in asleep :
            pc' = [pc EXCEPT ![t] = l,
                             ![w] = CASE pc[w] = "wait_zz" -> "wait"
                                      [] pc[w] = "all_zz" -> "all"
                                      [] pc[w] = "shutdown_zz" -> "shutdown"]
      BY <1>2 DEF SignalGoto
    <2>2. CASE pc[w] = "wait_zz"
      BY <2>1, <2>2 DEF TypeOK, Woken, Labels
    <2>3. CASE pc[w] = "all_zz"
      BY <2>1, <2>3 DEF TypeOK, Woken, Labels
    <2>4. CASE pc[w] = "shutdown_zz"
      BY <2>1, <2>4 DEF TypeOK, Woken, Labels
    <2>5. QED
      BY <2>2, <2>3, <2>4
  <1>3. QED
    BY <1>1, <1>2

\* A step that moves one thread between two labels of the program's own code or of
\* wait_all and shutdown, and wakes sleepers at most, keeps the invariant.
Idle == {"body", "all", "all_zz", "shutdown", "shutdown_zz", "join", "down", "gone"}

LEMMA IdleMoves ==
    ASSUME Inv, NEW p \in Threads,
           pc' \in [Threads -> Labels],
           \A q \in Threads \ {p} : Woken(q),
           \/ /\ pc[p] \in Idle /\ pc'[p] \in Idle
              /\ pc'[p] \in {"shutdown", "shutdown_zz", "join", "down", "gone"} => p = Main
           \/ Woken(p),
           UNCHANGED <<program, on, owner, handle, completed, tracker, found, chans, faults>>
    PROVE  Inv'
  <1>3. \A q \in Threads : Woken(q) \/ (pc[q] \in Idle /\ pc'[q] \in Idle)
    <2> SUFFICES ASSUME NEW q \in Threads PROVE Woken(q) \/ (pc[q] \in Idle /\ pc'[q] \in Idle)
      OBVIOUS
    <2>1. CASE q = p
      BY <2>1 DEF Woken
    <2>2. CASE q # p
      BY <2>2 DEF Woken
    <2>3. QED
      BY <2>1, <2>2
  <1> USE DEF Inv, tracker
  <1>1. \A t \in Tasks : t \in Threads
    BY DEF Threads
  <1>2. Main \in Threads /\ Main \notin Tasks
    BY SpawnAssumption DEF Threads
  <1>4. TypeOK'
    BY DEF TypeOK
  <1>5. Places'
    BY <1>1, <1>2 DEF Places, Woken, Idle
  <1>6. Flags'
    BY <1>1, <1>3 DEF Flags, Woken, Idle
  <1>7. Hands'
    <2> USE DEF Hands
    <2>1. Working'
      BY <1>3 DEF Working, Woken, Idle, Busy
    <2>2. Created'
      <3> SUFFICES ASSUME NEW q \in Threads, pc'[q] = "create" PROVE pc'[on[q]] = "unborn"
        BY DEF Created
      <3>1. pc[q] = "create"
        BY <1>3 DEF Woken, Idle
      <3>2. pc[on[q]] = "unborn" /\ on[q] \in Threads
        BY <1>1, <3>1 DEF Created, Working, TypeOK, Busy
      <3>3. QED
        BY <1>3, <3>2 DEF Woken, Idle
    <2>3. Destroyed'
      BY <1>3 DEF Destroyed, Woken, Idle
    <2>4. OneHand' /\ Unowned'
      BY DEF OneHand, Unowned
    <2>5. QED
      BY <2>1, <2>2, <2>3, <2>4
  <1>8. InFlight' = InFlight
    BY <1>1, <1>3 DEF InFlight, Woken, Idle
  <1>9. QED
    BY <1>4, <1>5, <1>6, <1>7, <1>8 DEF Counted

-----------------------------------------------------------------------------
\* Before main's first statement nothing has been spawned.
LEMMA InvInit == Init => Inv
  <1> SUFFICES ASSUME Init PROVE Inv
    OBVIOUS
  <1> USE DEF Init
  <1>1. Main \in Threads /\ Main \notin Tasks /\ \A t \in Tasks : t \in Threads
    BY SpawnAssumption DEF Threads
  <1>2. program.capacity \in Nat
    BY SpawnAssumption
  <1>3. TypeOK
    BY <1>1, <1>2 DEF TypeOK, Labels
  <1>4. Places /\ Flags /\ Hands
    BY <1>1 DEF Places, Flags, Hands, Working, OneHand, Unowned, Created, Destroyed, Busy
  <1>5. InFlight = {}
    BY DEF InFlight
  <1>6. QED
    BY <1>3, <1>4, <1>5, FS_EmptySet DEF Inv, Counted

\* __blang_spawn, first critical section.
LEMMA InvSpawnTrack ==
    ASSUME Inv, NEW p \in Threads, NEW t \in Tasks, SpawnTrack(p, t)
    PROVE  Inv'
  <1> USE DEF Inv
  <1>1. Main \in Threads /\ Main \notin Tasks /\ \A u \in Tasks : u \in Threads
    BY SpawnAssumption DEF Threads
  <1>2. /\ t # NoTask /\ pc[t] = "unborn" /\ owner[t] = NoTask /\ p # t
        /\ pc[p] = "body" /\ handle[t] = "none" /\ ~completed[t]
    BY SpawnAssumption DEF Flags, Threads, SpawnTrack
  <1>3. /\ pc' = [pc EXCEPT ![p] = "create"]
        /\ on' = [on EXCEPT ![p] = t]
        /\ handle' = [handle EXCEPT ![t] = "live"]
        /\ UNCHANGED <<program, owner, completed, found, chans, faults>>
        /\ inFlight' = inFlight + 1
    BY DEF SpawnTrack, Goto
  <1>4. TypeOK'
    <2>1. capacity' \in Nat /\ block' \in Nat
      BY DEF TypeOK, SpawnTrack
    <2>2. table' \in Seq(Tasks \cup {NoTask})
      BY DEF TypeOK, SpawnTrack
    <2>3. QED
      BY <1>3, <2>1, <2>2 DEF TypeOK, Labels
  <1>5. Places'
    BY <1>1, <1>3 DEF Places, TypeOK
  <1>6. Flags'
    BY <1>1, <1>2, <1>3 DEF Flags, TypeOK
  <1>7. Hands'
    <2> USE DEF Hands
    <2>1. \A q \in Threads : on[q] # t
      BY <1>2 DEF Unowned
    <2>2. Working' /\ OneHand' /\ Unowned'
      BY <2>1, <1>2, <1>3 DEF Working, OneHand, Unowned, TypeOK, Busy
    <2>3. Destroyed'
      BY <1>2, <1>3 DEF Destroyed, TypeOK
    <2>4. Created'
      <3> SUFFICES ASSUME NEW q \in Threads, pc'[q] = "create" PROVE pc'[on'[q]] = "unborn"
        BY DEF Created
      <3>1. pc[on'[q]] = "unborn"
        BY <1>2, <1>3 DEF TypeOK, Created
      <3>2. QED
        BY <1>2, <1>3, <3>1 DEF TypeOK
    <2>5. QED
      BY <2>2, <2>3, <2>4
  <1>8. InFlight' = InFlight \cup {t} /\ t \in Tasks \ InFlight
    BY <1>1, <1>2, <1>3 DEF InFlight, TypeOK
  <1>9. Counted'
    BY <1>3, <1>8, TaskSets DEF Counted, InFlight
  <1>10. QED
    BY <1>4, <1>5, <1>6, <1>7, <1>9

\* __blang_spawn after pthread_create.
LEMMA InvSpawnCreate ==
    ASSUME Inv, NEW p \in Threads, SpawnCreate(p)
    PROVE  Inv'
  <1> USE DEF Inv
  <1> DEFINE t == on[p]
  <1>1. Main \in Threads /\ Main \notin Tasks /\ \A u \in Tasks : u \in Threads
    BY SpawnAssumption DEF Threads
  <1>2. /\ t \in Tasks /\ t # NoTask /\ pc[t] = "unborn" /\ p # t /\ handle[t] # "none"
        /\ ~completed[t] /\ pc[p] = "create"
    BY SpawnAssumption DEF Hands, Created, Working, Unowned, Flags, TypeOK, SpawnCreate, Busy
  <1>3. /\ pc' = [pc EXCEPT ![p] = "body", ![t] = "body"]
        /\ on' = [on EXCEPT ![p] = NoTask]
        /\ owner' = [owner EXCEPT ![t] = p]
        /\ UNCHANGED <<program, handle, completed, inFlight, table, capacity, block,
                       found, chans, faults>>
    BY DEF SpawnCreate, tracker
  <1> HIDE DEF t
  <1>4. TypeOK'
    <2>1. "body" \in Labels
      BY DEF Labels
    <2>2. pc' \in [Threads -> Labels]
      BY <1>1, <1>2, <1>3, <2>1 DEF TypeOK
    <2>3. QED
      BY <1>1, <1>2, <1>3, <2>2 DEF TypeOK
  <1>5. Places'
    BY <1>1, <1>2, <1>3 DEF Places, TypeOK
  <1>6. Flags'
    <2>1. \A u \in Tasks : pc'[u] \in {"completed", "leaving", "exited"}
                              <=> pc[u] \in {"completed", "leaving", "exited"}
      BY <1>1, <1>2, <1>3 DEF TypeOK, Flags
    <2>2. QED
      BY <1>1, <1>2, <1>3, <2>1 DEF Flags, TypeOK
  <1>7. Hands'
    <2> USE DEF Hands
    <2>1. \A q \in Threads : q # p => on[q] # t
      BY <1>2 DEF OneHand, t
    <2>2. pc[t] \notin Busy /\ on[t] = NoTask
      BY <1>1, <1>2 DEF Working, Busy
    <2>3. Working' /\ OneHand'
      BY <1>1, <1>2, <1>3, <2>2 DEF Working, OneHand, TypeOK, Busy
    <2>4. Unowned'
      BY <1>1, <1>2, <1>3, <2>1 DEF Unowned, TypeOK
    <2>5. Destroyed'
      BY <1>1, <1>2, <1>3 DEF Destroyed, TypeOK
    <2>6. Created'
      <3> SUFFICES ASSUME NEW q \in Threads, pc'[q] = "create" PROVE pc'[on'[q]] = "unborn"
        BY DEF Created
      <3>1. q # p /\ pc[q] = "create" /\ on'[q] = on[q]
        BY <1>1, <1>2, <1>3 DEF TypeOK
      <3>2. pc[on[q]] = "unborn" /\ on[q] # t
        BY <3>1, <2>1 DEF Created
      <3>3. on[q] # p /\ on[q] \in Threads
        BY <3>1, <3>2, <1>1, <1>2 DEF TypeOK, Working, Busy
      <3>4. QED
        BY <1>3, <3>1, <3>2, <3>3 DEF TypeOK
    <2>7. QED
      BY <2>3, <2>4, <2>5, <2>6
  <1>8. InFlight' = InFlight
    BY <1>1, <1>2, <1>3 DEF InFlight, TypeOK
  <1>9. QED
    BY <1>3, <1>4, <1>5, <1>6, <1>7, <1>8 DEF Counted

\* The thread function of a task: its body returns, it sets completed under the
\* task's mutex, leaves the count under the tracker's, and exits.
LEMMA InvThreadMoves ==
    ASSUME Inv, NEW t \in Tasks,
           pc' \in [Threads -> Labels],
           \A q \in Threads \ {t} : Woken(q),
           \/ pc[t] = "body" /\ pc'[t] = "ended" /\ UNCHANGED <<completed, inFlight>>
           \/ /\ pc[t] = "ended" /\ pc'[t] = "completed"
              /\ completed' = [completed EXCEPT ![t] = TRUE] /\ UNCHANGED inFlight
           \/ /\ pc[t] = "completed" /\ pc'[t] = "leaving"
              /\ inFlight' = inFlight - 1 /\ UNCHANGED completed
           \/ pc[t] = "leaving" /\ pc'[t] = "exited" /\ UNCHANGED <<completed, inFlight>>,
           UNCHANGED <<program, on, owner, handle, table, capacity, block, found, chans>>,
           faults' \in SUBSET {"completed", "wait", "free", "join", "table", "channel"}
    PROVE  Inv'
  <1> USE DEF Inv
  <1> DEFINE Ending == {"body", "ended", "completed", "leaving", "exited"}
  <1>1. Main \in Threads /\ Main \notin Tasks /\ \A u \in Tasks : u \in Threads
    BY SpawnAssumption DEF Threads
  <1>2. pc[t] \in Ending /\ pc'[t] \in Ending /\ handle[t] # "none" /\ on[t] = NoTask
    BY <1>1 DEF Flags, Hands, Working, Busy
  <1>3. \A q \in Threads : q # t => Woken(q)
    OBVIOUS
  <1>4. \A u \in Tasks : completed'[u] <=> pc'[u] \in {"completed", "leaving", "exited"}
    <2> SUFFICES ASSUME NEW u \in Tasks
                 PROVE  completed'[u] <=> pc'[u] \in {"completed", "leaving", "exited"}
      OBVIOUS
    <2>1. completed[u] <=> pc[u] \in {"completed", "leaving", "exited"}
      BY DEF Flags
    <2>2. CASE u # t
      <3>1. completed'[u] = completed[u] /\ Woken(u)
        BY <2>2, <1>1, <1>3 DEF TypeOK
      <3>2. QED
        BY <2>1, <3>1 DEF Woken
    <2>3. CASE u = t /\ pc[t] = "ended"
      BY <2>3 DEF TypeOK
    <2>4. CASE u = t /\ pc[t] # "ended"
      <3>1. completed' = completed
        BY <2>4
      <3>2. QED
        BY <2>1, <2>4, <3>1
    <2>5. QED
      BY <2>2, <2>3, <2>4
  <1>5. \A u \in Tasks : completed[u] => completed'[u]
    BY DEF TypeOK
  <1>6. InFlight' = IF pc[t] = "completed" THEN InFlight \ {t} ELSE InFlight
    BY <1>1, <1>2, <1>3 DEF InFlight, Woken
  <1>7. Counted'
    <2>1. CASE pc[t] = "completed"
      <3>1. t \in InFlight /\ InFlight \in SUBSET Tasks
        BY <1>2, <2>1 DEF InFlight
      <3>2. QED
        BY <1>6, <2>1, <3>1, TaskSets DEF Counted
    <2>2. CASE pc[t] # "completed"
      BY <1>6, <2>2 DEF Counted
    <2>3. QED
      BY <2>1, <2>2
  <1>8. TypeOK'
    <2>1. inFlight' \in Nat
      BY <1>7, TaskSets DEF Counted, InFlight
    <2>2. completed' \in [Tasks -> BOOLEAN]
      BY DEF TypeOK
    <2>3. QED
      BY <2>1, <2>2 DEF TypeOK
  <1>9. Places'
    BY <1>1, <1>2, <1>3 DEF Places, Woken
  <1>10. Flags'
    <2>1. \A u \in Tasks : handle[u] = "none" => pc'[u] = "unborn"
      BY <1>1, <1>2, <1>3 DEF Flags, Woken
    <2>2. QED
      BY <1>4, <1>5, <2>1 DEF Flags
  <1>11. Hands'
    <2> USE DEF Hands
    <2>1. Working'
      BY <1>2, <1>3 DEF Working, Busy, Woken
    <2>2. Created'
      <3> SUFFICES ASSUME NEW q \in Threads, pc'[q] = "create" PROVE pc'[on[q]] = "unborn"
        BY DEF Created
      <3>1. pc[q] = "create"
        BY <1>2, <1>3 DEF Woken
      <3>2. pc[on[q]] = "unborn" /\ on[q] \in Threads
        BY <1>1, <3>1 DEF Created, Working, TypeOK, Busy
      <3>3. QED
        BY <1>2, <1>3, <3>2 DEF Woken
    <2>3. Destroyed'
      <3> SUFFICES ASSUME NEW q \in Threads, pc'[q] \in {"search", "clear", "free"}
                   PROVE  completed'[on[q]]
        BY DEF Destroyed
      <3>1. pc[q] \in {"search", "clear", "free"}
        BY <1>2, <1>3 DEF Woken
      <3>2. completed[on[q]] /\ on[q] \in Tasks
        BY <3>1 DEF Destroyed, Working, TypeOK, Busy
      <3>3. QED
        BY <1>5, <3>2
    <2>4. OneHand' /\ Unowned'
      BY DEF OneHand, Unowned
    <2>5. QED
      BY <2>1, <2>2, <2>3, <2>4
  <1>12. QED
    BY <1>7, <1>8, <1>9, <1>10, <1>11

\* `wait t` takes the handle from the variable.
LEMMA InvWaitCall ==
    ASSUME Inv, NEW p \in Threads, NEW t \in Tasks, WaitCall(p, t)
    PROVE  Inv'
  <1> USE DEF Inv
  <1>1. Main \in Threads /\ Main \notin Tasks /\ \A u \in Tasks : u \in Threads
    BY SpawnAssumption DEF Threads
  <1>2. /\ pc[p] = "body" /\ owner[t] = p /\ t # NoTask /\ p # NoTask
        /\ handle[t] # "none" /\ on[p] = NoTask
    BY SpawnAssumption DEF Flags, Threads, WaitCall, Hands, Working, Busy
  <1>3. /\ pc' = [pc EXCEPT ![p] = "wait"]
        /\ on' = [on EXCEPT ![p] = t]
        /\ owner' = [owner EXCEPT ![t] = NoTask]
        /\ UNCHANGED <<program, handle, completed, inFlight, table, capacity, block,
                       found, chans, faults>>
    BY DEF WaitCall, Goto, tracker
  <1>4. TypeOK'
    BY <1>3 DEF TypeOK, Labels
  <1>5. Places' /\ Flags'
    BY <1>1, <1>2, <1>3 DEF Places, Flags, TypeOK
  <1>6. Hands'
    <2> USE DEF Hands
    <2>1. \A q \in Threads : on[q] # t
      BY <1>2 DEF Unowned
    <2>2. Working' /\ OneHand' /\ Unowned'
      BY <2>1, <1>2, <1>3 DEF Working, OneHand, Unowned, TypeOK, Busy
    <2>3. Destroyed'
      BY <1>2, <1>3 DEF Destroyed, TypeOK
    <2>4. Created'
      <3> SUFFICES ASSUME NEW q \in Threads, pc'[q] = "create" PROVE pc'[on'[q]] = "unborn"
        BY DEF Created
      <3>1. pc[on'[q]] = "unborn"
        BY <1>2, <1>3 DEF TypeOK, Created
      <3>2. QED
        BY <1>2, <1>3, <3>1 DEF TypeOK
    <2>5. QED
      BY <2>2, <2>3, <2>4
  <1>7. InFlight' = InFlight
    BY <1>1, <1>2, <1>3 DEF InFlight, TypeOK
  <1>8. QED
    BY <1>3, <1>4, <1>5, <1>6, <1>7 DEF Counted

\* A thread goes from one label of wait and destroy to the next.
LEMMA InvWaiterMoves ==
    ASSUME Inv, NEW p \in Threads, NEW l \in Busy \ {"create"},
           pc[p] \in Busy \ {"create"}, Goto(p, l),
           l \in {"search", "clear", "free"} => completed[on[p]],
           UNCHANGED <<program, on, owner, handle, completed, inFlight, capacity, block, chans>>,
           table' \in Seq(Tasks \cup {NoTask}), found' \in [Threads -> Nat \X Nat],
           faults' \in SUBSET {"completed", "wait", "free", "join", "table", "channel"}
    PROVE  Inv'
  <1> USE DEF Inv
  <1>1. Main \in Threads /\ Main \notin Tasks /\ \A u \in Tasks : u \in Threads
    BY SpawnAssumption DEF Threads
  <1>2. pc' = [pc EXCEPT ![p] = l] /\ l \in Labels
    BY DEF Goto, Busy, Labels
  <1>3. TypeOK'
    BY <1>2 DEF TypeOK
  <1>4. Places' /\ Flags'
    BY <1>1, <1>2 DEF Places, Flags, TypeOK, Busy
  <1>5. Hands'
    <2> USE DEF Hands
    <2>1. Working' /\ OneHand' /\ Unowned' /\ Destroyed'
      BY <1>2 DEF Working, OneHand, Unowned, Destroyed, TypeOK, Busy
    <2>2. Created'
      <3> SUFFICES ASSUME NEW q \in Threads, pc'[q] = "create" PROVE pc'[on[q]] = "unborn"
        BY DEF Created
      <3>1. pc[on[q]] = "unborn"
        BY <1>2 DEF TypeOK, Created
      <3>2. QED
        BY <1>2, <3>1 DEF TypeOK, Busy
    <2>3. QED
      BY <2>1, <2>2
  <1>6. InFlight' = InFlight
    BY <1>1, <1>2 DEF InFlight, TypeOK, Busy
  <1>7. QED
    BY <1>3, <1>4, <1>5, <1>6 DEF Counted

\* A handle of a task that has completed is freed, by its waiter ...
LEMMA InvDestroyFree ==
    ASSUME Inv, NEW p \in Threads, DestroyFree(p)
    PROVE  Inv'
  <1> USE DEF Inv
  <1> DEFINE t == on[p]
  <1>1. Main \in Threads /\ Main \notin Tasks /\ \A u \in Tasks : u \in Threads
    BY SpawnAssumption DEF Threads
  <1>2. t \in Tasks /\ completed[t] /\ pc[p] = "free" /\ p # t /\ handle[t] # "none"
    <2>1. pc[p] = "free" /\ t \in Tasks /\ handle[t] # "none"
      BY DEF Hands, Working, Unowned, TypeOK, DestroyFree, Busy
    <2>2. completed[t]
      BY <2>1 DEF Hands, Destroyed
    <2>3. QED
      BY <2>1, <2>2 DEF Flags
  <1>3. /\ pc' = [pc EXCEPT ![p] = "body"]
        /\ on' = [on EXCEPT ![p] = NoTask]
        /\ handle' = [handle EXCEPT ![t] = "freed"]
        /\ UNCHANGED <<program, owner, completed, inFlight, table, capacity, block,
                       found, chans>>
    BY DEF DestroyFree, Goto, tracker
  <1> HIDE DEF t
  <1>4. TypeOK'
    <2>1. faults' \in SUBSET {"completed", "wait", "free", "join", "table", "channel"}
      BY DEF DestroyFree, Deref, TypeOK
    <2>2. QED
      BY <1>2, <1>3, <2>1 DEF TypeOK, Labels
  <1>5. Places' /\ Flags'
    BY <1>1, <1>2, <1>3 DEF Places, Flags, TypeOK
  <1>6. Hands'
    <2> USE DEF Hands
    <2>1. \A q \in Threads : on'[q] # NoTask => q # p /\ on'[q] = on[q]
      BY <1>3 DEF TypeOK
    <2>2. Working' /\ OneHand' /\ Unowned' /\ Destroyed'
      BY <1>2, <1>3, <2>1 DEF Working, OneHand, Unowned, Destroyed, TypeOK, Busy
    <2>3. Created'
      <3> SUFFICES ASSUME NEW q \in Threads, pc'[q] = "create" PROVE pc'[on'[q]] = "unborn"
        BY DEF Created
      <3>1. pc[q] = "create" /\ on'[q] = on[q] /\ pc[on[q]] = "unborn"
        BY <1>3 DEF TypeOK, Created
      <3>2. QED
        BY <1>2, <1>3, <3>1 DEF TypeOK
    <2>4. QED
      BY <2>2, <2>3
  <1>7. InFlight' = InFlight
    BY <1>1, <1>2, <1>3 DEF InFlight, TypeOK
  <1>8. QED
    BY <1>3, <1>4, <1>5, <1>6, <1>7 DEF Counted

\* ... or by the shutdown.
LEMMA InvShutdownJoin ==
    ASSUME Inv, ShutdownJoin
    PROVE  Inv'
  <1> USE DEF Inv
  <1>1. PICK i \in Tracked :
            /\ pc[table[i]] = "exited"
            /\ Deref(table[i], "join")
            /\ handle' = [handle EXCEPT ![table[i]] = "freed"]
            /\ table' = [table EXCEPT ![i] = NoTask]
    BY DEF ShutdownJoin
  <1> DEFINE t == table[i]
  <1>2. i \in DOMAIN table /\ t \in Tasks
    BY DEF Tracked, TypeOK
  <1>3. pc[t] = "exited" /\ completed[t] /\ handle[t] # "none"
    BY <1>1, <1>2 DEF Flags
  <1>4. /\ handle' = [handle EXCEPT ![t] = "freed"]
        /\ UNCHANGED <<program, pc, on, owner, completed, inFlight, capacity, block,
                       found, chans>>
    BY <1>1 DEF ShutdownJoin
  <1>5. TypeOK'
    <2>1. faults' \in SUBSET {"completed", "wait", "free", "join", "table", "channel"}
      BY <1>1 DEF Deref, TypeOK
    <2>2. table' \in Seq(Tasks \cup {NoTask})
      BY <1>1, <1>2 DEF TypeOK
    <2>3. handle' \in [Tasks -> {"none", "live", "freed"}]
      BY <1>4 DEF TypeOK
    <2>4. QED
      BY <1>4, <2>1, <2>2, <2>3 DEF TypeOK
  <1> HIDE DEF t
  <1>6. Places'
    BY <1>4 DEF Places
  <1>7. Flags'
    BY <1>2, <1>3, <1>4 DEF Flags, TypeOK
  <1>8. \A u \in Tasks : handle'[u] = "none" <=> handle[u] = "none"
    BY <1>2, <1>3, <1>4 DEF TypeOK
  <1>9. Unowned'
    <2> SUFFICES ASSUME NEW q \in Threads, on[q] # NoTask
                 PROVE  owner[on[q]] = NoTask /\ handle'[on[q]] # "none"
      BY <1>4 DEF Unowned
    <2>1. on[q] \in Tasks /\ owner[on[q]] = NoTask /\ handle[on[q]] # "none"
      BY DEF TypeOK, Hands, Unowned
    <2>2. QED
      BY <1>8, <2>1
  <1>10. Hands'
    BY <1>4, <1>9 DEF Hands, Working, OneHand, Created, Destroyed
  <1>11. InFlight' = InFlight
    BY <1>2, <1>3, <1>4 DEF InFlight, TypeOK
  <1>12. QED
    BY <1>4, <1>5, <1>6, <1>7, <1>10, <1>11 DEF Counted

\* Every step of every thread keeps the invariant, whatever the program.
LEMMA InvNext == Inv /\ [Next]_vars => Inv'
  <1> SUFFICES ASSUME Inv, [Next]_vars PROVE Inv'
    OBVIOUS
  <1>a. Main \in Threads /\ Main \notin Tasks /\ \A u \in Tasks : u \in Threads
    BY SpawnAssumption DEF Threads
  <1>b. TypeOK
    BY DEF Inv
  <1>1. ASSUME NEW p \in Threads, NEW t \in Tasks, SpawnTrack(p, t) PROVE Inv'
    BY <1>1, InvSpawnTrack
  <1>2. ASSUME NEW p \in Threads, SpawnCreate(p) PROVE Inv'
    BY <1>2, InvSpawnCreate
  <1>3. ASSUME NEW t \in Tasks, BodyEnds(t) PROVE Inv'
    <2>1. pc' \in [Threads -> Labels] /\ pc'[t] = "ended" /\ pc[t] = "body"
      BY <1>3, <1>a, <1>b DEF BodyEnds, Goto, TypeOK, Labels
    <2>2. \A q \in Threads \ {t} : Woken(q)
      BY <1>3, <1>a, <1>b DEF BodyEnds, Goto, TypeOK, Woken
    <2>3. QED
      BY <1>3, <1>b, <2>1, <2>2, InvThreadMoves DEF BodyEnds, tracker, TypeOK
  <1>4. ASSUME NEW t \in Tasks, Complete(t) PROVE Inv'
    <2> DEFINE asleep == {p \in Threads : pc[p] = "wait_zz" /\ on[p] = t}
    <2>1. pc[t] = "ended" /\ SignalGoto(t, "completed", asleep) /\ t \notin asleep
      BY <1>4 DEF Complete
    <2>2. asleep \in SUBSET {p \in Threads : pc[p] \in {"wait_zz", "all_zz", "shutdown_zz"}}
      OBVIOUS
    <2> HIDE DEF asleep
    <2>3. /\ pc' \in [Threads -> Labels] /\ pc'[t] = "completed"
          /\ \A q \in Threads \ {t} : Woken(q)
      BY <2>1, <2>2, <1>a, <1>b, SignalEffect DEF Labels
    <2>4. faults' \in SUBSET {"completed", "wait", "free", "join", "table", "channel"}
      BY <1>4, <1>b DEF Complete, Deref, TypeOK
    <2>5. QED
      BY <1>4, <2>1, <2>3, <2>4, InvThreadMoves DEF Complete, tracker
  <1>5. ASSUME NEW t \in Tasks, LeaveFlight(t) PROVE Inv'
    <2>1. pc[t] = "completed" /\ t \notin SleepersOnAll
      BY <1>5 DEF LeaveFlight, SleepersOnAll
    <2>2. SleepersOnAll \in SUBSET {p \in Threads : pc[p] \in {"wait_zz", "all_zz", "shutdown_zz"}}
      BY DEF SleepersOnAll
    <2>3. /\ pc' \in [Threads -> Labels] /\ pc'[t] = "leaving"
          /\ \A q \in Threads \ {t} : Woken(q)
      <3>1. CASE inFlight = 1
        <4>1. SignalGoto(t, "leaving", SleepersOnAll)
          BY <1>5, <3>1 DEF LeaveFlight
        <4>2. QED
          BY <4>1, <2>1, <2>2, <1>a, <1>b, SignalEffect DEF Labels
      <3>2. CASE inFlight # 1
        BY <1>5, <3>2, <1>a, <1>b DEF LeaveFlight, Goto, TypeOK, Labels, Woken
      <3>3. QED
        BY <3>1, <3>2
    <2>4. QED
      BY <1>5, <1>b, <2>1, <2>3, InvThreadMoves DEF LeaveFlight, TypeOK
  <1>6. ASSUME NEW t \in Tasks, ThreadExits(t) PROVE Inv'
    <2>1. pc' \in [Threads -> Labels] /\ pc'[t] = "exited" /\ pc[t] = "leaving"
      BY <1>6, <1>a, <1>b DEF ThreadExits, Goto, TypeOK, Labels
    <2>2. \A q \in Threads \ {t} : Woken(q)
      BY <1>6, <1>a, <1>b DEF ThreadExits, Goto, TypeOK, Woken
    <2>3. QED
      BY <1>6, <1>b, <2>1, <2>2, InvThreadMoves DEF ThreadExits, tracker, TypeOK
  <1>7. ASSUME NEW p \in Threads, NEW t \in Tasks, WaitCall(p, t) PROVE Inv'
    BY <1>7, InvWaitCall
  <1>8. ASSUME NEW p \in Threads, WaitTest(p) PROVE Inv'
    <2> DEFINE l == IF completed[on[p]] THEN "search" ELSE "wait_zz"
    <2>1. l \in Busy \ {"create"} /\ pc[p] \in Busy \ {"create"} /\ Goto(p, l)
      BY <1>8 DEF WaitTest, Busy
    <2>2. faults' \in SUBSET {"completed", "wait", "free", "join", "table", "channel"}
      BY <1>8, <1>b DEF WaitTest, Deref, TypeOK
    <2>3. l \in {"search", "clear", "free"} => completed[on[p]]
      OBVIOUS
    <2> HIDE DEF l
    <2>4. QED
      BY <1>8, <1>b, <2>1, <2>2, <2>3, InvWaiterMoves DEF WaitTest, tracker, TypeOK
  <1>9. ASSUME NEW p \in Threads, DestroySearch(p) PROVE Inv'
    <2>1. pc[p] \in Busy \ {"create"} /\ completed[on[p]]
      BY <1>9 DEF DestroySearch, Busy, Inv, Hands, Destroyed
    <2>2. PICK l \in {"clear", "free"} : Goto(p, l)
      BY <1>9 DEF DestroySearch
    <2>3. found' \in [Threads -> Nat \X Nat]
      <3>1. ASSUME Indices(on[p]) # {} PROVE (CHOOSE i \in Indices(on[p]) : TRUE) \in Nat
        BY <3>1, <1>b DEF Indices, TypeOK
      <3>2. CASE Indices(on[p]) = {}
        BY <1>9, <1>b, <3>2 DEF DestroySearch, TypeOK
      <3>3. CASE Indices(on[p]) # {}
        <4> DEFINE k == CHOOSE i \in Indices(on[p]) : TRUE
        <4>1. k \in Nat
          BY <3>1, <3>3
        <4>2. found' = [found EXCEPT ![p] = <<block, k>>]
          BY <1>9, <3>3 DEF DestroySearch
        <4> HIDE DEF k
        <4>3. QED
          BY <1>b, <4>1, <4>2 DEF TypeOK
      <3>4. QED
        BY <3>2, <3>3
    <2>4. QED
      BY <1>9, <1>b, <2>1, <2>2, <2>3, InvWaiterMoves DEF DestroySearch, tracker, TypeOK, Busy
  <1>10. ASSUME NEW p \in Threads, DestroyClear(p) PROVE Inv'
    <2>1. pc[p] \in Busy \ {"create"} /\ completed[on[p]] /\ Goto(p, "free")
      BY <1>10 DEF DestroyClear, Busy, Inv, Hands, Destroyed
    <2>2. table' \in Seq(Tasks \cup {NoTask})
      <3>1. table \in [1 .. Len(table) -> Tasks \cup {NoTask}] /\ Len(table) \in Nat
        BY <1>b DEF TypeOK
      <3>2. table' \in [1 .. Len(table) -> Tasks \cup {NoTask}]
        BY <1>10, <3>1 DEF DestroyClear
      <3>3. QED
        BY <3>1, <3>2
    <2>3. found' \in [Threads -> Nat \X Nat]
      BY <1>10, <1>b DEF DestroyClear, TypeOK
    <2>4. faults' \in SUBSET {"completed", "wait", "free", "join", "table", "channel"}
      BY <1>10, <1>b DEF DestroyClear, TypeOK
    <2>5. QED
      BY <1>10, <2>1, <2>2, <2>3, <2>4, InvWaiterMoves DEF DestroyClear, Busy
  <1>11. ASSUME NEW p \in Threads, DestroyFree(p) PROVE Inv'
    BY <1>11, InvDestroyFree
  <1>12. ASSUME NEW p \in Threads, WaitAllCall(p) PROVE Inv'
    <2>1. pc' = [pc EXCEPT ![p] = "all"] /\ pc[p] = "body"
      BY <1>12 DEF WaitAllCall, Goto
    <2>2. pc' \in [Threads -> Labels] /\ \A q \in Threads \ {p} : Woken(q)
      BY <2>1, <1>b DEF TypeOK, Labels, Woken
    <2>3. pc[p] \in Idle /\ pc'[p] = "all" /\ "all" \in Idle
      BY <2>1, <1>b DEF TypeOK, Idle
    <2>4. QED
      BY <1>12, <2>2, <2>3, IdleMoves DEF WaitAllCall
  <1>13. ASSUME NEW p \in Threads, WaitAllTest(p) PROVE Inv'
    <2>1. PICK l \in {"all_zz", "body"} : pc' = [pc EXCEPT ![p] = l] /\ pc[p] = "all"
      BY <1>13 DEF WaitAllTest, Goto
    <2>2. pc' \in [Threads -> Labels] /\ \A q \in Threads \ {p} : Woken(q)
      BY <2>1, <1>b DEF TypeOK, Labels, Woken
    <2>3. pc[p] \in Idle /\ pc'[p] = l /\ l \in Idle
      BY <2>1, <1>b DEF TypeOK, Idle
    <2>4. QED
      BY <1>13, <2>1, <2>2, <2>3, IdleMoves DEF WaitAllTest
  <1>14. ASSUME NEW p \in Threads, SpuriousWakeup(p) PROVE Inv'
    <2>1. pc' \in [Threads -> Labels] /\ \A q \in Threads : Woken(q)
      BY <1>14, <1>b DEF SpuriousWakeup, Goto, TypeOK, Labels, Woken
    <2>2. QED
      BY <1>14, <2>1, IdleMoves DEF SpuriousWakeup
  <1>15. ASSUME NEW p \in Threads, NEW c \in Chans, ChanCreate(p, c) \/ ChanUse(p, c)
         PROVE  Inv'
    <2>1. UNCHANGED <<program, pc, on, owner, handle, completed, inFlight, table, capacity,
                      block, found>>
      BY <1>15 DEF ChanCreate, ChanUse, tracker
    <2>2. /\ chans' \in [Chans -> {"none", "live", "freed"}]
          /\ faults' \in SUBSET {"completed", "wait", "free", "join", "table", "channel"}
      BY <1>15, <1>b DEF ChanCreate, ChanUse, TypeOK
    <2>3. QED
      BY <2>1, <2>2 DEF Inv, TypeOK, Places, Flags, Hands, Working, OneHand, Unowned,
                        Created, Destroyed, Counted, InFlight
  <1>16. ASSUME MainReturns \/ ShutdownTest \/ ProcessExits PROVE Inv'
    <2>1. PICK l \in {"shutdown", "down", "shutdown_zz", "join", "gone"} :
              pc' = [pc EXCEPT ![Main] = l] /\ pc[Main] \in {"body", "shutdown", "down"}
      BY <1>16 DEF MainReturns, ShutdownTest, ProcessExits, Goto
    <2>2. pc' \in [Threads -> Labels] /\ \A q \in Threads \ {Main} : Woken(q)
      BY <2>1, <1>a, <1>b DEF TypeOK, Labels, Woken
    <2>3. pc[Main] \in Idle /\ pc'[Main] = l /\ l \in Idle
      BY <2>1, <1>a, <1>b DEF TypeOK, Idle
    <2>4. QED
      BY <1>16, <1>a, <2>2, <2>3, IdleMoves DEF MainReturns, ShutdownTest, ProcessExits
  <1>17. ASSUME ShutdownJoin PROVE Inv'
    BY <1>17, InvShutdownJoin
  <1>18. ASSUME ShutdownEnds PROVE Inv'
    <2>1. /\ pc' = [pc EXCEPT ![Main] = "down"] /\ pc[Main] = "join"
          /\ UNCHANGED <<program, on, owner, handle, completed, inFlight, block, found, faults>>
          /\ table' = << >> /\ capacity' = 0
      BY <1>18 DEF ShutdownEnds, Goto
    <2>2. chans' \in [Chans -> {"none", "live", "freed"}]
      BY <1>18, <1>b DEF ShutdownEnds, TypeOK
    <2>3. TypeOK'
      <3>1. pc' \in [Threads -> Labels]
        BY <2>1, <1>b DEF TypeOK, Labels
      <3>2. table' \in Seq(Tasks \cup {NoTask}) /\ capacity' \in Nat
        BY <2>1
      <3>3. QED
        BY <2>1, <2>2, <3>1, <3>2, <1>b DEF TypeOK
    <2>4. \A q \in Threads : q # Main => pc'[q] = pc[q]
      BY <2>1, <1>b DEF TypeOK
    <2>5. pc'[Main] = "down"
      BY <2>1, <1>a, <1>b DEF TypeOK
    <2>6. Places' /\ Flags'
      BY <2>1, <2>4, <2>5, <1>a DEF Inv, Places, Flags
    <2>7. Hands'
      <3> USE DEF Inv, Hands
      <3>1. Working' /\ OneHand' /\ Unowned' /\ Destroyed'
        BY <2>1, <2>4, <2>5 DEF Working, OneHand, Unowned, Destroyed, Busy
      <3>2. Created'
        <4> SUFFICES ASSUME NEW q \in Threads, pc'[q] = "create" PROVE pc'[on[q]] = "unborn"
          BY <2>1 DEF Created
        <4>1. pc[q] = "create" /\ pc[on[q]] = "unborn"
          BY <2>4, <2>5 DEF Created
        <4>2. on[q] \in Threads /\ on[q] # Main
          BY <4>1, <2>1, <1>a DEF Working, Busy, TypeOK
        <4>3. QED
          BY <4>1, <4>2, <2>4
      <3>3. QED
        BY <3>1, <3>2
    <2>8. InFlight' = InFlight
      BY <2>1, <2>4, <1>a DEF InFlight
    <2>9. QED
      BY <2>1, <2>3, <2>6, <2>7, <2>8 DEF Inv, Counted
  <1>19. ASSUME UNCHANGED vars PROVE Inv'
    BY <1>19 DEF vars, tracker, Inv, TypeOK, Places, Flags, Hands, Working, OneHand, Unowned,
                 Created, Destroyed, Counted, InFlight
  <1>20. QED
    BY <1>1, <1>2, <1>3, <1>4, <1>5, <1>6, <1>7, <1>8, <1>9, <1>10, <1>11, <1>12, <1>13,
       <1>14, <1>15, <1>16, <1>17, <1>18, <1>19
       DEF Next, RuntimeStep, ThreadTail, ShutdownStep, Terminated

\* Through every interleaving of spawns, waits and the shutdown, whatever the
\* program, the state keeps its shape; tasks_in_flight never underflows.
THEOREM SpawnTypes == Spec => []TypeOK
  <1>1. Spec => []Inv
    BY InvInit, InvNext, PTL DEF Spec
  <1>2. Inv => TypeOK
    BY DEF Inv
  <1>3. QED
    BY <1>1, <1>2, PTL

\* When no task is counted, none runs.
LEMMA NoneRuns ==
    ASSUME Inv, ~TasksLeft
    PROVE  \A t \in Tasks : ~Running(t)
  <1>1. InFlight = {}
    <2>1. Cardinality(InFlight) = 0 /\ IsFiniteSet(InFlight)
      BY TaskSets DEF Inv, TypeOK, Counted, TasksLeft, InFlight
    <2>2. QED
      BY <2>1, FS_EmptySet
  <1>2. QED
    BY <1>1 DEF InFlight, Running, Inv, Flags

\* A step lets a thread out of a wait, a wait_all or the first loop of the shutdown
\* only on the condition that loop tests.
LEMMA LoopsTest ==
    ASSUME Inv, Next, NEW p \in Threads
    PROVE  /\ pc[p] = "wait" /\ pc'[p] = "search" => completed[on[p]]
           /\ pc[p] = "all" /\ pc'[p] = "body" => ~TasksLeft
           /\ pc[p] = "shutdown" /\ pc'[p] = "join" => ~TasksLeft
  <1> DEFINE Goal == /\ pc[p] = "wait" /\ pc'[p] = "search" => completed[on[p]]
                     /\ pc[p] = "all" /\ pc'[p] = "body" => ~TasksLeft
                     /\ pc[p] = "shutdown" /\ pc'[p] = "join" => ~TasksLeft
  <1>a. Main \in Threads /\ Main \notin Tasks /\ \A u \in Tasks : u \in Threads
    BY SpawnAssumption DEF Threads
  <1>b. TypeOK
    BY DEF Inv
  <1> USE <1>a, <1>b DEF Goto
  <1>1. ASSUME NEW q \in Threads, NEW t \in Tasks, SpawnTrack(q, t) \/ WaitCall(q, t) PROVE Goal
    BY <1>1 DEF SpawnTrack, WaitCall, TypeOK
  <1>2. ASSUME NEW q \in Threads, SpawnCreate(q) PROVE Goal
    <2>1. pc[q] = "create" /\ pc[on[q]] = "unborn"
      BY <1>2 DEF SpawnCreate, Inv, Hands, Created
    <2>2. pc' = [pc EXCEPT ![q] = "body", ![on[q]] = "body"]
      BY <1>2 DEF SpawnCreate
    <2>3. pc[p] = pc'[p] \/ p = q \/ p = on[q]
      BY <2>2 DEF TypeOK
    <2>4. QED
      BY <2>1, <2>3
  <1>3. ASSUME NEW t \in Tasks, BodyEnds(t) \/ ThreadExits(t) PROVE Goal
    BY <1>3 DEF BodyEnds, ThreadExits, TypeOK
  <1>4. ASSUME NEW t \in Tasks, Complete(t) PROVE Goal
    <2> DEFINE asleep == {q \in Threads : pc[q] = "wait_zz" /\ on[q] = t}
    <2>1. pc[t] = "ended" /\ SignalGoto(t, "completed", asleep) /\ t \notin asleep
      BY <1>4 DEF Complete
    <2>2. asleep \in SUBSET {q \in Threads : pc[q] \in {"wait_zz", "all_zz", "shutdown_zz"}}
      OBVIOUS
    <2> HIDE DEF asleep
    <2>3. pc'[t] = "completed" /\ \A q \in Threads \ {t} : Woken(q)
      BY <2>1, <2>2, SignalEffect DEF Labels
    <2>4. QED
      BY <2>1, <2>3 DEF Woken
  <1>5. ASSUME NEW t \in Tasks, LeaveFlight(t) PROVE Goal
    <2>1. pc[t] = "completed" /\ t \notin SleepersOnAll
      BY <1>5 DEF LeaveFlight, SleepersOnAll
    <2>2. SleepersOnAll \in SUBSET {q \in Threads : pc[q] \in {"wait_zz", "all_zz", "shutdown_zz"}}
      BY DEF SleepersOnAll
    <2>3. CASE inFlight = 1
      <3>1. SignalGoto(t, "leaving", SleepersOnAll)
        BY <1>5, <2>3 DEF LeaveFlight
      <3>2. pc'[t] = "leaving" /\ \A q \in Threads \ {t} : Woken(q)
        BY <3>1, <2>1, <2>2, SignalEffect DEF Labels
      <3>3. QED
        BY <2>1, <3>2 DEF Woken
    <2>4. CASE inFlight # 1
      BY <1>5, <2>4 DEF LeaveFlight, TypeOK
    <2>5. QED
      BY <2>3, <2>4
  <1>6. ASSUME NEW q \in Threads, WaitTest(q) PROVE Goal
    BY <1>6 DEF WaitTest, TypeOK
  <1>7. ASSUME NEW q \in Threads, DestroySearch(q) \/ DestroyClear(q) \/ DestroyFree(q) PROVE Goal
    BY <1>7 DEF DestroySearch, DestroyClear, DestroyFree, TypeOK
  <1>8. ASSUME NEW q \in Threads, WaitAllCall(q) \/ WaitAllTest(q) \/ SpuriousWakeup(q) PROVE Goal
    BY <1>8 DEF WaitAllCall, WaitAllTest, SpuriousWakeup, TypeOK
  <1>9. ASSUME NEW q \in Threads, NEW c \in Chans, ChanCreate(q, c) \/ ChanUse(q, c) PROVE Goal
    BY <1>9 DEF ChanCreate, ChanUse
  <1>10. ASSUME MainReturns \/ ShutdownTest \/ ProcessExits \/ ShutdownEnds PROVE Goal
    BY <1>10 DEF MainReturns, ShutdownTest, ProcessExits, ShutdownEnds, TypeOK
  <1>11. ASSUME ShutdownJoin \/ UNCHANGED vars PROVE Goal
    BY <1>11 DEF ShutdownJoin, vars
  <1>12. QED
    BY <1>1, <1>2, <1>3, <1>4, <1>5, <1>6, <1>7, <1>8, <1>9, <1>10, <1>11
       DEF Next, RuntimeStep, ThreadTail, ShutdownStep, Terminated

\* A thread past `wait t` runs after t's body, and a wait_all or a shutdown that
\* goes on leaves no task running, whatever the program and however deep tasks
\* spawn tasks (__blang_spawn_wait, __blang_wait_all, __blang_runtime_shutdown).
THEOREM WaitsBlock == Spec => WaitsForWork
  <1> DEFINE A == \A p \in Threads :
                    pc[p] = "wait" /\ pc'[p] = "search" => pc[on[p]] \in
                        {"completed", "leaving", "exited"}
             B == \A p \in Threads :
                    \/ pc[p] = "all" /\ pc'[p] = "body"
                    \/ pc[p] = "shutdown" /\ pc'[p] = "join"
                    => \A t \in Tasks : ~Running(t)
  <1>1. Inv /\ [Next]_vars => [A]_vars
    <2> SUFFICES ASSUME Inv, Next, NEW p \in Threads, pc[p] = "wait", pc'[p] = "search"
                 PROVE  pc[on[p]] \in {"completed", "leaving", "exited"}
      OBVIOUS
    <2>1. completed[on[p]]
      BY LoopsTest
    <2>2. on[p] \in Tasks
      BY DEF Inv, Hands, Working, Busy, TypeOK
    <2>3. QED
      BY <2>1, <2>2 DEF Inv, Flags
  <1>2. Inv /\ [Next]_vars => [B]_vars
    <2> SUFFICES ASSUME Inv, Next, NEW p \in Threads,
                        \/ pc[p] = "all" /\ pc'[p] = "body"
                        \/ pc[p] = "shutdown" /\ pc'[p] = "join"
                 PROVE  \A t \in Tasks : ~Running(t)
      OBVIOUS
    <2>1. ~TasksLeft
      BY LoopsTest
    <2>2. QED
      BY <2>1, NoneRuns
  <1>3. QED
    BY <1>1, <1>2, InvInit, InvNext, PTL DEF Spec, WaitsForWork

-----------------------------------------------------------------------------
\* Sound programs.

\* At the start nothing is allocated.
LEMMA SoundInit ==
    ASSUME \A g \in Programs : SoundProgram(g)
    PROVE  Init => SoundInv
  <1> SUFFICES ASSUME Init PROVE SoundInv
    OBVIOUS
  <1> USE DEF Init
  <1>1. Main \in Threads /\ Main \notin Tasks /\ \A t \in Tasks : t \in Threads
    BY SpawnAssumption DEF Threads
  <1>2. Inv
    BY InvInit
  <1>3. Spawners /\ Reachable
    BY <1>1 DEF Spawners, Reachable
  <1>4. Entries /\ Stages
    BY <1>1 DEF Entries, Stages
  <1>5. Room
    <2>1. Len(table) <= Cardinality(Spawned)
      BY TaskSets DEF Spawned
    <2>2. QED
      BY <2>1, <1>3 DEF Room, Spawners, SoundProgram
  <1>6. QED
    BY <1>2, <1>3, <1>4, <1>5 DEF SoundInv, NoUseAfterFree

\* While a thread is at work the shutdown has not passed its first loop.
LEMMA StillUp ==
    ASSUME SoundInv, NEW p \in Threads,
           pc[p] \notin {"unborn", "leaving", "exited", "join", "down", "gone"}
    PROVE  pc[Main] \notin {"join", "down", "gone"}
  <1>1. CASE p = Main
    BY <1>1
  <1>2. CASE p # Main
    <2>1. p \in Tasks /\ Running(p)
      BY <1>2 DEF Threads, Running
    <2>2. QED
      BY <2>1 DEF SoundInv, Stages
  <1>3. QED
    BY <1>1, <1>2

\* A step that leaves handles, table and channels alone, moves no thread in or out
\* of destroy's last steps and does not end the shutdown.
LEMMA SoundQuiet ==
    ASSUME SoundInv, Inv',
           UNCHANGED <<program, on, owner, handle, table, capacity, block, found, chans, faults>>,
           \A q \in Threads : \A l \in {"clear", "free"} : pc'[q] = l <=> pc[q] = l,
           pc[Main] \in {"join", "down", "gone"} => pc'[Main] \in {"join", "down", "gone"},
           pc[Main] \in {"down", "gone"} <=> pc'[Main] \in {"down", "gone"},
           pc'[Main] \in {"join", "down", "gone"} => \A t \in Tasks : ~Running(t)'
    PROVE  SoundInv'
  <1> USE DEF SoundInv
  <1>1. Spawners' /\ NoUseAfterFree'
    BY DEF Spawners, NoUseAfterFree
  <1>2. Reachable'
    BY DEF Reachable
  <1>3. Entries'
    BY DEF Entries
  <1>4. Room'
    BY DEF Room, Spawned
  <1>5. Stages'
    BY DEF Stages
  <1>6. QED
    BY <1>1, <1>2, <1>3, <1>4, <1>5

\* The new handle goes into a fresh entry; a table that moves has one user.
LEMMA SoundSpawnTrack ==
    ASSUME SoundInv, NEW p \in Threads, NEW t \in Tasks, SpawnTrack(p, t)
    PROVE  SoundInv'
  <1> USE DEF SoundInv
  <1>1. Main \in Threads /\ Main \notin Tasks /\ \A u \in Tasks : u \in Threads
    BY SpawnAssumption DEF Threads
  <1>2. TypeOK /\ Flags /\ Hands
    BY DEF Inv
  <1>3. Inv'
    BY InvSpawnTrack
  <1>4. /\ pc[p] = "body" /\ p \in program.spawners /\ handle[t] = "none" /\ t # NoTask
        /\ pc' = [pc EXCEPT ![p] = "create"]
        /\ on' = [on EXCEPT ![p] = t]
        /\ handle' = [handle EXCEPT ![t] = "live"]
        /\ table' = Append(table, t)
        /\ UNCHANGED <<program, owner, completed, found, chans, faults>>
    BY SpawnAssumption DEF SpawnTrack, Goto, Threads
  <1>5. pc[Main] \notin {"join", "down", "gone"}
    BY <1>4, StillUp
  <1>6. pc'[Main] \notin {"join", "down", "gone"}
    BY <1>4, <1>5, <1>1, <1>2 DEF TypeOK
  <1>7. \A q \in Threads : \A l \in {"clear", "free"} : pc'[q] = l => pc[q] = l /\ q # p /\ on'[q] = on[q]
    BY <1>2, <1>4 DEF TypeOK
  <1>8. /\ Len(table) \in Nat /\ Len(table') = Len(table) + 1
        /\ DOMAIN table = 1 .. Len(table) /\ DOMAIN table' = 1 .. Len(table')
        /\ \A i \in DOMAIN table : table'[i] = table[i] /\ table[i] \in Tasks \cup {NoTask}
        /\ table'[Len(table')] = t
    BY <1>2, <1>4 DEF TypeOK
  <1>9. \A i \in DOMAIN table : table[i] # t
    BY <1>4, <1>8 DEF Reachable
  <1>10. \A u \in Tasks : handle[u] = "live" => handle'[u] = "live"
    BY <1>2, <1>4 DEF TypeOK
  <1>11. Spawners'
    BY <1>2, <1>4 DEF Spawners, TypeOK
  <1>12. Reachable'
    <2>1. \A q \in Threads : on'[q] # NoTask => handle'[on'[q]] = "live"
      BY <1>2, <1>4, <1>10 DEF Reachable, TypeOK
    <2>2. \A u \in Tasks : owner'[u] # NoTask => handle'[u] = "live"
      BY <1>4, <1>5, <1>10 DEF Reachable
    <2>3. \A i \in DOMAIN table' : table'[i] # NoTask => handle'[table'[i]] = "live"
      <3> SUFFICES ASSUME NEW i \in DOMAIN table', table'[i] # NoTask
                   PROVE  handle'[table'[i]] = "live"
        OBVIOUS
      <3>1. CASE i \in DOMAIN table
        BY <3>1, <1>8, <1>10 DEF Reachable
      <3>2. CASE i = Len(table')
        BY <3>2, <1>8, <1>2, <1>4 DEF TypeOK
      <3>3. QED
        BY <3>1, <3>2, <1>8
    <2>4. ASSUME NEW u \in Tasks, handle'[u] = "live"
          PROVE  \/ \E i \in DOMAIN table' : table'[i] = u
                 \/ \E q \in Threads : pc'[q] = "free" /\ on'[q] = u
      <3>1. CASE u = t
        BY <3>1, <1>8
      <3>2. CASE u # t
        <4>1. handle[u] = "live"
          BY <3>2, <2>4, <1>2, <1>4 DEF TypeOK
        <4>2. CASE \E i \in DOMAIN table : table[i] = u
          BY <4>2, <1>8
        <4>3. CASE \E q \in Threads : pc[q] = "free" /\ on[q] = u
          <5>1. PICK q \in Threads : pc[q] = "free" /\ on[q] = u
            BY <4>3
          <5>2. pc'[q] = "free" /\ on'[q] = u
            BY <5>1, <1>2, <1>4 DEF TypeOK
          <5>3. QED
            BY <5>2
        <4>4. QED
          BY <4>1, <4>2, <4>3 DEF Reachable
      <3>3. QED
        BY <3>1, <3>2
    <2>5. QED
      BY <2>1, <2>2, <2>3, <2>4 DEF Reachable
  <1>13. Entries'
    <2>1. \A i, j \in DOMAIN table' : table'[i] = table'[j] /\ table'[i] # NoTask => i = j
      BY <1>8, <1>9 DEF Entries
    <2>2. \A q \in Threads : pc'[q] = "free" => \A i \in DOMAIN table' : table'[i] # on'[q]
      <3> SUFFICES ASSUME NEW q \in Threads, pc'[q] = "free", NEW i \in DOMAIN table'
                   PROVE  table'[i] # on'[q]
        OBVIOUS
      <3>1. pc[q] = "free" /\ on'[q] = on[q]
        BY <1>7
      <3>2. on[q] # t
        BY <3>1, <1>4, <1>2 DEF Hands, Unowned, Working, Busy
      <3>3. QED
        BY <3>1, <3>2, <1>8 DEF Entries
    <2>3. ASSUME NEW q \in Threads, pc'[q] = "clear"
          PROVE  /\ found'[q][1] = block'
                 /\ found'[q][2] \in DOMAIN table'
                 /\ table'[found'[q][2]] = on'[q]
      <3>1. pc[q] = "clear" /\ q # p /\ on'[q] = on[q]
        BY <2>3, <1>7
      <3>2. /\ found[q][1] = block /\ found[q][2] \in DOMAIN table
            /\ table[found[q][2]] = on[q]
        BY <3>1 DEF Entries
      <3>3. q \in program.spawners
        BY <3>1, <1>2 DEF Spawners, Hands, Working, Busy
      <3>4. ~(program.spawners \subseteq {Main})
        BY <3>1, <3>3, <1>4
      <3>5. capacity >= Cardinality(Tasks) /\ Len(table) <= Cardinality(Spawned)
        BY <3>4, <1>5 DEF Room
      <3>6. Cardinality(Spawned) < Cardinality(Tasks)
        <4>1. Spawned \in SUBSET Tasks /\ Spawned \cup {t} \in SUBSET Tasks /\ t \in Tasks \ Spawned
          BY <1>4 DEF Spawned
        <4>2. Cardinality(Spawned \cup {t}) = Cardinality(Spawned) + 1
          BY <4>1, TaskSets
        <4>3. Cardinality(Spawned \cup {t}) <= Cardinality(Tasks)
          BY <4>1, TaskSets
        <4>4. Cardinality(Spawned) \in Nat /\ Cardinality(Tasks) \in Nat
          BY <4>1, TaskSets
        <4>5. QED
          BY <4>2, <4>3, <4>4
      <3>7. block' = block
        <4>1. Cardinality(Spawned) \in Nat /\ Cardinality(Tasks) \in Nat /\ capacity \in Nat
          BY TaskSets, <1>2 DEF Spawned, TypeOK
        <4>2. Len(table) < capacity
          BY <3>5, <3>6, <4>1, <1>8
        <4>3. QED
          BY <4>1, <4>2, <1>8 DEF SpawnTrack
      <3>8. QED
        BY <3>1, <3>2, <3>7, <1>4, <1>8
    <2>4. QED
      BY <2>1, <2>2, <2>3 DEF Entries
  <1>14. Room'
    <2>1. Spawned' = Spawned \cup {t} /\ t \in Tasks \ Spawned /\ Spawned \in SUBSET Tasks
      BY <1>2, <1>4 DEF Spawned, TypeOK
    <2>2. Cardinality(Spawned') = Cardinality(Spawned) + 1 /\ Cardinality(Spawned) \in Nat
      BY <2>1, TaskSets
    <2>3. capacity' >= capacity /\ capacity \in Nat /\ capacity' \in Nat /\ Cardinality(Tasks) \in Nat
      BY <1>2, TaskSets DEF SpawnTrack, TypeOK
    <2>4. CASE program.spawners \subseteq {Main}
      BY <2>4, <1>4 DEF Room
    <2>5. CASE capacity >= Cardinality(Tasks) /\ Len(table) <= Cardinality(Spawned)
      BY <2>2, <2>3, <2>5, <1>8 DEF Room
    <2>6. QED
      BY <2>4, <2>5, <1>5 DEF Room
  <1>15. Stages' /\ NoUseAfterFree'
    BY <1>4, <1>5, <1>6 DEF Stages, NoUseAfterFree
  <1>16. QED
    BY <1>3, <1>11, <1>12, <1>13, <1>14, <1>15

\* A handle changes hands between a thread inside spawn or wait and the variable.
LEMMA SoundHandover ==
    ASSUME SoundInv, Inv', NEW p \in Threads, NEW t \in Tasks, NEW l \in {"body", "wait"},
           pc[p] \in {"create", "body"}, handle[t] = "live", p \in program.spawners,
           \A q \in Threads : pc'[q] = IF q = p THEN l ELSE IF q = t /\ pc[p] = "create"
                                       THEN "body" ELSE pc[q],
           pc[p] = "create" => pc[t] = "unborn",
           \A q \in Threads : on'[q] = on[q] \/ (q = p /\ on'[q] \in {t, NoTask}),
           \A u \in Tasks : owner'[u] = owner[u] \/ (u = t /\ owner'[u] \in {p, NoTask}),
           UNCHANGED <<program, handle, table, capacity, block, found, chans, faults>>
    PROVE  SoundInv'
  <1> USE DEF SoundInv
  <1>1. Main \in Threads /\ Main \notin Tasks /\ \A u \in Tasks : u \in Threads
    BY SpawnAssumption DEF Threads
  <1>2. pc[Main] \notin {"join", "down", "gone"}
    BY StillUp
  <1>3. pc'[Main] \notin {"join", "down", "gone"}
    BY <1>1, <1>2
  <1>4. \A q \in Threads : \A k \in {"clear", "free"} :
            /\ pc'[q] = k <=> pc[q] = k
            /\ pc[q] = k => on'[q] = on[q]
    BY <1>1
  <1>5. Spawners'
    BY DEF Spawners
  <1>6. Reachable'
    <2>1. \A q \in Threads : on'[q] # NoTask => handle'[on'[q]] = "live"
      BY DEF Reachable
    <2>2. \A u \in Tasks : owner'[u] # NoTask => handle'[u] = "live"
      BY <1>2 DEF Reachable
    <2>3. \A u \in Tasks : handle'[u] = "live" =>
              \/ \E i \in DOMAIN table' : table'[i] = u
              \/ \E q \in Threads : pc'[q] = "free" /\ on'[q] = u
      BY <1>4 DEF Reachable
    <2>4. QED
      BY <2>1, <2>2, <2>3 DEF Reachable
  <1>7. Entries'
    BY <1>4 DEF Entries
  <1>8. Room'
    BY <1>2 DEF Room, Spawned
  <1>9. Stages' /\ NoUseAfterFree'
    BY <1>2, <1>3 DEF Stages, NoUseAfterFree
  <1>10. QED
    BY <1>5, <1>6, <1>7, <1>8, <1>9

LEMMA SoundSpawnCreate ==
    ASSUME SoundInv, NEW p \in Threads, SpawnCreate(p)
    PROVE  SoundInv'
  <1> DEFINE t == on[p]
  <1>1. Inv /\ Inv'
    BY InvSpawnCreate DEF SoundInv
  <1>2. t \in Tasks /\ t # NoTask /\ pc[p] = "create" /\ pc[t] = "unborn"
    BY <1>1 DEF SpawnCreate, Inv, Hands, Working, Created, TypeOK, Busy
  <1>3. handle[t] = "live" /\ p \in program.spawners
    BY <1>2 DEF SoundInv, Reachable, Spawners
  <1>4. t \in Threads /\ p # t
    BY <1>2 DEF Threads
  <1>5. /\ pc' = [pc EXCEPT ![p] = "body", ![t] = "body"]
        /\ on' = [on EXCEPT ![p] = NoTask]
        /\ owner' = [owner EXCEPT ![t] = p]
        /\ UNCHANGED <<program, handle, table, capacity, block, found, chans, faults>>
    BY DEF SpawnCreate, tracker
  <1> HIDE DEF t
  <1>6. \A q \in Threads : pc'[q] = IF q = p THEN "body" ELSE IF q = t /\ pc[p] = "create"
                                    THEN "body" ELSE pc[q]
    BY <1>1, <1>2, <1>4, <1>5 DEF Inv, TypeOK
  <1>7. \A q \in Threads : on'[q] = on[q] \/ (q = p /\ on'[q] \in {t, NoTask})
    BY <1>1, <1>5 DEF Inv, TypeOK
  <1>8. \A u \in Tasks : owner'[u] = owner[u] \/ (u = t /\ owner'[u] \in {p, NoTask})
    BY <1>1, <1>5 DEF Inv, TypeOK
  <1>9. QED
    BY <1>1, <1>2, <1>3, <1>5, <1>6, <1>7, <1>8, SoundHandover

LEMMA SoundWaitCall ==
    ASSUME SoundInv, NEW p \in Threads, NEW t \in Tasks, WaitCall(p, t)
    PROVE  SoundInv'
  <1>1. Inv /\ Inv'
    BY InvWaitCall DEF SoundInv
  <1>2. pc[p] = "body" /\ owner[t] = p /\ p # NoTask
    BY SpawnAssumption DEF WaitCall
  <1>3. pc[Main] \notin {"join", "down", "gone"}
    BY <1>2, StillUp
  <1>4. handle[t] = "live" /\ p \in program.spawners
    BY <1>2, <1>3 DEF SoundInv, Reachable, Spawners
  <1>5. /\ pc' = [pc EXCEPT ![p] = "wait"]
        /\ on' = [on EXCEPT ![p] = t]
        /\ owner' = [owner EXCEPT ![t] = NoTask]
        /\ UNCHANGED <<program, handle, table, capacity, block, found, chans, faults>>
    BY DEF WaitCall, Goto, tracker
  <1>6. \A q \in Threads : pc'[q] = IF q = p THEN "wait" ELSE IF q = t /\ pc[p] = "create"
                                    THEN "body" ELSE pc[q]
    BY <1>1, <1>2, <1>5 DEF Inv, TypeOK
  <1>7. \A q \in Threads : on'[q] = on[q] \/ (q = p /\ on'[q] \in {t, NoTask})
    BY <1>1, <1>5 DEF Inv, TypeOK
  <1>8. \A u \in Tasks : owner'[u] = owner[u] \/ (u = t /\ owner'[u] \in {p, NoTask})
    BY <1>1, <1>5 DEF Inv, TypeOK
  <1>9. QED
    BY <1>1, <1>2, <1>4, <1>5, <1>6, <1>7, <1>8, SoundHandover

\* __blang_spawn_task_destroy: the entry is where the search found it, so that
\* after the store the table does not hold the handle that is about to be freed.
LEMMA SoundDestroySearch ==
    ASSUME SoundInv, Inv', NEW p \in Threads, DestroySearch(p)
    PROVE  SoundInv'
  <1> USE DEF SoundInv
  <1>1. TypeOK /\ pc[p] = "search" /\ Main \in Threads /\ on[p] # NoTask
    BY SpawnAssumption DEF Inv, DestroySearch, Threads, Hands, Working, Busy
  <1>2. pc[Main] \notin {"join", "down", "gone"}
    BY <1>1, StillUp
  <1>3. UNCHANGED <<program, on, owner, handle, table, capacity, block, chans, faults>>
    BY DEF DestroySearch, tracker
  <1>4. CASE Indices(on[p]) = {}
    <2>1. pc' = [pc EXCEPT ![p] = "free"] /\ found' = found
      BY <1>4 DEF DestroySearch, Goto
    <2>2. pc'[p] = "free" /\ \A q \in Threads : q # p => pc'[q] = pc[q]
      BY <1>1, <2>1 DEF TypeOK
    <2>3. pc'[Main] \notin {"join", "down", "gone"}
      BY <1>1, <1>2, <2>2
    <2>4. \A i \in DOMAIN table : table[i] # on[p]
      BY <1>4 DEF Indices
    <2>5. Spawners' /\ NoUseAfterFree' /\ Stages' /\ Room'
      BY <1>2, <1>3, <2>3 DEF Spawners, NoUseAfterFree, Stages, Room, Spawned
    <2>6. Entries'
      BY <1>1, <1>3, <2>1, <2>2, <2>4 DEF Entries
    <2>7. Reachable'
      BY <1>1, <1>2, <1>3, <2>2 DEF Reachable
    <2>8. QED
      BY <2>5, <2>6, <2>7
  <1>5. CASE Indices(on[p]) # {}
    <2> DEFINE k == CHOOSE i \in Indices(on[p]) : TRUE
    <2>1. pc' = [pc EXCEPT ![p] = "clear"] /\ found' = [found EXCEPT ![p] = <<block, k>>]
      BY <1>5 DEF DestroySearch, Goto
    <2>2. k \in DOMAIN table /\ table[k] = on[p]
      BY <1>5 DEF Indices
    <2> HIDE DEF k
    <2>3. pc'[p] = "clear" /\ \A q \in Threads : q # p => pc'[q] = pc[q] /\ found'[q] = found[q]
      BY <1>1, <2>1 DEF TypeOK
    <2>4. found'[p] = <<block, k>>
      BY <1>1, <2>1 DEF TypeOK
    <2>5. pc'[Main] \notin {"join", "down", "gone"}
      BY <1>1, <1>2, <2>3
    <2>6. Spawners' /\ NoUseAfterFree' /\ Stages' /\ Room'
      BY <1>2, <1>3, <2>5 DEF Spawners, NoUseAfterFree, Stages, Room, Spawned
    <2>7. Entries'
      <3>1. \A i, j \in DOMAIN table' : table'[i] = table'[j] /\ table'[i] # NoTask => i = j
        BY <1>3 DEF Entries
      <3>2. \A q \in Threads : pc'[q] = "free" => \A i \in DOMAIN table' : table'[i] # on'[q]
        BY <1>3, <2>3 DEF Entries
      <3>3. \A q \in Threads : pc'[q] = "clear" =>
                /\ found'[q][1] = block'
                /\ found'[q][2] \in DOMAIN table'
                /\ table'[found'[q][2]] = on'[q]
        <4> SUFFICES ASSUME NEW q \in Threads, pc'[q] = "clear"
                     PROVE  /\ found'[q][1] = block'
                            /\ found'[q][2] \in DOMAIN table'
                            /\ table'[found'[q][2]] = on'[q]
          OBVIOUS
        <4>1. CASE q = p
          BY <4>1, <1>3, <2>2, <2>4
        <4>2. CASE q # p
          BY <4>2, <1>3, <2>3 DEF Entries
        <4>3. QED
          BY <4>1, <4>2
      <3>4. QED
        BY <3>1, <3>2, <3>3 DEF Entries
    <2>8. Reachable'
      BY <1>1, <1>2, <1>3, <2>3 DEF Reachable
    <2>9. QED
      BY <2>6, <2>7, <2>8
  <1>6. QED
    BY <1>4, <1>5

LEMMA SoundDestroyClear ==
    ASSUME SoundInv, Inv', NEW p \in Threads, DestroyClear(p)
    PROVE  SoundInv'
  <1> USE DEF SoundInv
  <1> DEFINE k == found[p][2]
  <1>1. TypeOK /\ pc[p] = "clear" /\ Main \in Threads /\ on[p] # NoTask
    BY SpawnAssumption DEF Inv, DestroyClear, Threads, Hands, Working, Busy
  <1>2. pc[Main] \notin {"join", "down", "gone"}
    BY <1>1, StillUp
  <1>3. found[p][1] = block /\ k \in DOMAIN table /\ table[k] = on[p]
    BY <1>1 DEF Entries
  <1>4. /\ table' = [table EXCEPT ![k] = NoTask]
        /\ found' = [found EXCEPT ![p] = <<0, 0>>]
        /\ pc' = [pc EXCEPT ![p] = "free"]
        /\ UNCHANGED <<program, on, owner, handle, capacity, block, chans, faults>>
    BY <1>3 DEF DestroyClear, Goto
  <1> HIDE DEF k
  <1>5. pc'[p] = "free" /\ \A q \in Threads : q # p => pc'[q] = pc[q] /\ found'[q] = found[q]
    BY <1>1, <1>4 DEF TypeOK
  <1>6. pc'[Main] \notin {"join", "down", "gone"}
    BY <1>1, <1>2, <1>5
  <1>7. /\ DOMAIN table' = DOMAIN table /\ table'[k] = NoTask
        /\ \A i \in DOMAIN table : i # k => table'[i] = table[i]
        /\ Len(table') = Len(table)
    BY <1>1, <1>3, <1>4 DEF TypeOK
  <1>8. Spawners' /\ NoUseAfterFree' /\ Stages' /\ Room'
    BY <1>2, <1>4, <1>6, <1>7 DEF Spawners, NoUseAfterFree, Stages, Room, Spawned
  <1>9. \A q \in Threads : q # p => on[q] # on[p]
    BY <1>1 DEF Inv, Hands, OneHand
  <1>10. Entries'
    <2>1. \A i, j \in DOMAIN table' : table'[i] = table'[j] /\ table'[i] # NoTask => i = j
      BY <1>7 DEF Entries
    <2>2. \A q \in Threads : pc'[q] = "free" => \A i \in DOMAIN table' : table'[i] # on'[q]
      <3> SUFFICES ASSUME NEW q \in Threads, pc'[q] = "free", NEW i \in DOMAIN table'
                   PROVE  table'[i] # on[q]
        BY <1>4
      <3>1. on[q] # NoTask
        BY <1>1, <1>5 DEF Inv, Hands, Working, Busy
      <3>2. CASE q = p
        BY <3>1, <3>2, <1>3, <1>7 DEF Entries
      <3>3. CASE q # p
        BY <3>1, <3>3, <1>5, <1>7 DEF Entries
      <3>4. QED
        BY <3>2, <3>3
    <2>3. ASSUME NEW q \in Threads, pc'[q] = "clear"
          PROVE  /\ found'[q][1] = block'
                 /\ found'[q][2] \in DOMAIN table'
                 /\ table'[found'[q][2]] = on'[q]
      <3>1. q # p /\ pc[q] = "clear" /\ found'[q] = found[q] /\ on[q] # on[p]
        BY <2>3, <1>5, <1>9
      <3>2. /\ found[q][1] = block /\ found[q][2] \in DOMAIN table
            /\ table[found[q][2]] = on[q] /\ found[q][2] # k
        BY <3>1, <1>3 DEF Entries
      <3>3. QED
        BY <3>1, <3>2, <1>4, <1>7
    <2>4. QED
      BY <2>1, <2>2, <2>3 DEF Entries
  <1>11. Reachable'
    <2>1. \A i \in DOMAIN table' : table'[i] # NoTask => handle'[table'[i]] = "live"
      BY <1>4, <1>7 DEF Reachable
    <2>2. ASSUME NEW u \in Tasks, handle'[u] = "live"
          PROVE  \/ \E i \in DOMAIN table' : table'[i] = u
                 \/ \E q \in Threads : pc'[q] = "free" /\ on'[q] = u
      <3>1. CASE u = on[p]
        BY <3>1, <1>4, <1>5
      <3>2. CASE u # on[p]
        <4>1. CASE \E i \in DOMAIN table : table[i] = u
          BY <4>1, <3>2, <1>3, <1>7
        <4>2. CASE \E q \in Threads : pc[q] = "free" /\ on[q] = u
          BY <4>2, <1>1, <1>4, <1>5
        <4>3. QED
          BY <2>2, <4>1, <4>2, <1>4 DEF Reachable
      <3>3. QED
        BY <3>1, <3>2
    <2>3. QED
      BY <2>1, <2>2, <1>2, <1>4 DEF Reachable
  <1>12. QED
    BY <1>8, <1>10, <1>11

LEMMA SoundDestroyFree ==
    ASSUME SoundInv, Inv', NEW p \in Threads, DestroyFree(p)
    PROVE  SoundInv'
  <1> USE DEF SoundInv
  <1> DEFINE t == on[p]
  <1>1. TypeOK /\ pc[p] = "free" /\ Main \in Threads /\ t # NoTask /\ t \in Tasks
    BY SpawnAssumption DEF Inv, DestroyFree, Threads, Hands, Working, Busy, TypeOK
  <1>2. pc[Main] \notin {"join", "down", "gone"}
    BY <1>1, StillUp
  <1>3. handle[t] = "live" /\ owner[t] = NoTask /\ \A i \in DOMAIN table : table[i] # t
    BY <1>1 DEF Reachable, Entries, Inv, Hands, Unowned
  <1>4. /\ handle' = [handle EXCEPT ![t] = "freed"]
        /\ on' = [on EXCEPT ![p] = NoTask]
        /\ pc' = [pc EXCEPT ![p] = "body"]
        /\ UNCHANGED <<program, owner, table, capacity, block, found, chans, faults>>
    BY <1>3 DEF DestroyFree, Goto, Deref, tracker
  <1>5. \A q \in Threads : q # p => on[q] # t
    BY <1>1 DEF Inv, Hands, OneHand
  <1> HIDE DEF t
  <1>6. pc'[p] = "body" /\ \A q \in Threads : q # p => pc'[q] = pc[q] /\ on'[q] = on[q]
    BY <1>1, <1>4 DEF TypeOK
  <1>7. on'[p] = NoTask /\ \A u \in Tasks : u # t => handle'[u] = handle[u]
    BY <1>1, <1>4 DEF TypeOK
  <1>8. pc'[Main] \notin {"join", "down", "gone"}
    BY <1>1, <1>2, <1>6
  <1>9. Spawned' = Spawned
    BY <1>1, <1>3, <1>4 DEF Spawned, TypeOK
  <1>10. Spawners' /\ NoUseAfterFree' /\ Stages' /\ Room'
    BY <1>2, <1>4, <1>6, <1>7, <1>8, <1>9 DEF Spawners, NoUseAfterFree, Stages, Room
  <1>11. Entries'
    BY <1>4, <1>6 DEF Entries
  <1>12. Reachable'
    <2>1. \A q \in Threads : on'[q] # NoTask => handle'[on'[q]] = "live"
      <3> SUFFICES ASSUME NEW q \in Threads, on'[q] # NoTask PROVE handle'[on'[q]] = "live"
        OBVIOUS
      <3>1. q # p /\ on'[q] = on[q] /\ on[q] # t
        BY <1>5, <1>6, <1>7
      <3>2. on[q] \in Tasks /\ handle[on[q]] = "live"
        BY <3>1, <1>1 DEF Reachable, TypeOK
      <3>3. QED
        BY <3>1, <3>2, <1>7
    <2>2. \A u \in Tasks : owner'[u] # NoTask => handle'[u] = "live"
      BY <1>2, <1>3, <1>4, <1>7 DEF Reachable
    <2>3. \A i \in DOMAIN table' : table'[i] # NoTask => handle'[table'[i]] = "live"
      <3> SUFFICES ASSUME NEW i \in DOMAIN table, table[i] # NoTask PROVE handle'[table[i]] = "live"
        BY <1>4
      <3>1. table[i] \in Tasks /\ table[i] # t /\ handle[table[i]] = "live"
        BY <1>1, <1>3 DEF Reachable, TypeOK
      <3>2. QED
        BY <3>1, <1>7
    <2>4. ASSUME NEW u \in Tasks, handle'[u] = "live"
          PROVE  \/ \E i \in DOMAIN table' : table'[i] = u
                 \/ \E q \in Threads : pc'[q] = "free" /\ on'[q] = u
      <3>1. u # t /\ handle[u] = "live"
        BY <2>4, <1>1, <1>4 DEF TypeOK
      <3>2. CASE \E i \in DOMAIN table : table[i] = u
        BY <3>2, <1>4
      <3>3. CASE \E q \in Threads : pc[q] = "free" /\ on[q] = u
        BY <3>3, <3>1, <1>6 DEF t
      <3>4. QED
        BY <3>1, <3>2, <3>3 DEF Reachable
    <2>5. QED
      BY <2>1, <2>2, <2>3, <2>4 DEF Reachable
  <1>13. QED
    BY <1>10, <1>11, <1>12

\* The shutdown frees a handle nobody waited for; no thread holds one by then.
LEMMA SoundShutdownJoin ==
    ASSUME SoundInv, Inv', ShutdownJoin
    PROVE  SoundInv'
  <1> USE DEF SoundInv
  <1>1. Main \in Threads /\ Main \notin Tasks /\ TypeOK /\ pc[Main] = "join"
    BY SpawnAssumption DEF Inv, Threads, ShutdownJoin
  <1>2. PICK k \in Tracked :
            /\ Deref(table[k], "join")
            /\ handle' = [handle EXCEPT ![table[k]] = "freed"]
            /\ table' = [table EXCEPT ![k] = NoTask]
    BY DEF ShutdownJoin
  <1> DEFINE t == table[k]
  <1>3. k \in DOMAIN table /\ t \in Tasks /\ handle[t] = "live"
    BY <1>1 DEF Tracked, TypeOK, Reachable
  <1>4. /\ handle' = [handle EXCEPT ![t] = "freed"]
        /\ UNCHANGED <<program, pc, on, owner, completed, inFlight, capacity, block, found,
                       chans, faults>>
    BY <1>2, <1>3 DEF ShutdownJoin, Deref
  <1>5. \A q \in Threads : on[q] = NoTask
    <2> SUFFICES ASSUME NEW q \in Threads, on[q] # NoTask PROVE FALSE
      OBVIOUS
    <2>1. pc[q] \in Busy
      BY DEF Inv, Hands, Working
    <2>2. q \in Tasks /\ Running(q)
      BY <1>1, <2>1 DEF Threads, Running, Busy
    <2>3. QED
      BY <1>1, <2>2 DEF Stages
  <1> HIDE DEF t
  <1>6. /\ DOMAIN table' = DOMAIN table /\ table'[k] = NoTask
        /\ \A i \in DOMAIN table : i # k => table'[i] = table[i]
        /\ Len(table') = Len(table)
    BY <1>1, <1>2, <1>3 DEF TypeOK
  <1>7. \A u \in Tasks : u # t => handle'[u] = handle[u]
    BY <1>1, <1>4 DEF TypeOK
  <1>8. \A i \in DOMAIN table : i # k => table[i] # t
    BY <1>3, SpawnAssumption DEF Entries, t, Threads
  <1>9. Spawned' = Spawned /\ handle'[t] = "freed"
    BY <1>1, <1>3, <1>4 DEF Spawned, TypeOK
  <1>10. \A q \in Threads : pc[q] \notin {"clear", "free"}
    BY <1>5 DEF Inv, Hands, Working, Busy
  <1>11. Spawners' /\ NoUseAfterFree'
    BY <1>4 DEF Spawners, NoUseAfterFree
  <1>12. Room'
    BY <1>4, <1>6, <1>9 DEF Room
  <1>13. Stages'
    BY <1>1, <1>4 DEF Stages, Running
  <1>14. Entries'
    BY <1>4, <1>6, <1>10 DEF Entries
  <1>15. Reachable'
    <2>1. \A i \in DOMAIN table' : table'[i] # NoTask => handle'[table'[i]] = "live"
      <3> SUFFICES ASSUME NEW i \in DOMAIN table, table'[i] # NoTask PROVE handle'[table'[i]] = "live"
        BY <1>6
      <3>1. i # k /\ table'[i] = table[i] /\ table[i] # t
        BY <1>6, <1>8
      <3>2. table[i] \in Tasks /\ handle[table[i]] = "live"
        BY <3>1, <1>1 DEF Reachable, TypeOK
      <3>3. QED
        BY <3>1, <3>2, <1>7
    <2>2. ASSUME NEW u \in Tasks, handle'[u] = "live"
          PROVE  \E i \in DOMAIN table' : table'[i] = u
      <3>1. u # t /\ handle[u] = "live"
        BY <2>2, <1>7, <1>9
      <3>2. PICK i \in DOMAIN table : table[i] = u
        BY <3>1, <1>10 DEF Reachable
      <3>3. i # k
        BY <3>1, <3>2 DEF t
      <3>4. QED
        BY <3>2, <3>3, <1>6
    <2>3. QED
      BY <2>1, <2>2, <1>1, <1>4, <1>5 DEF Reachable
  <1>16. QED
    BY <1>11, <1>12, <1>13, <1>14, <1>15

\* The table is freed when no live handle is left in it.
LEMMA SoundShutdownEnds ==
    ASSUME SoundInv, Inv', ShutdownEnds
    PROVE  SoundInv'
  <1> USE DEF SoundInv
  <1>1. Main \in Threads /\ Main \notin Tasks /\ TypeOK /\ pc[Main] = "join"
    BY SpawnAssumption DEF Inv, Threads, ShutdownEnds
  <1>2. /\ pc' = [pc EXCEPT ![Main] = "down"] /\ table' = << >> /\ Tracked = {}
        /\ chans' = [c \in Chans |-> IF chans[c] = "live" THEN "freed" ELSE chans[c]]
        /\ UNCHANGED <<program, on, owner, handle, completed, inFlight, block, found, faults>>
    BY DEF ShutdownEnds, Goto
  <1>3. pc'[Main] = "down" /\ \A q \in Threads : q # Main => pc'[q] = pc[q]
    BY <1>1, <1>2 DEF TypeOK
  <1>4. \A q \in Threads : on[q] = NoTask
    <2> SUFFICES ASSUME NEW q \in Threads, on[q] # NoTask PROVE FALSE
      OBVIOUS
    <2>1. pc[q] \in Busy
      BY DEF Inv, Hands, Working
    <2>2. q \in Tasks /\ Running(q)
      BY <1>1, <2>1 DEF Threads, Running, Busy
    <2>3. QED
      BY <1>1, <2>2 DEF Stages
  <1>5. \A t \in Tasks : handle[t] # "live"
    <2> SUFFICES ASSUME NEW t \in Tasks, handle[t] = "live" PROVE FALSE
      OBVIOUS
    <2>1. \A p \in Threads : pc[p] # "free"
      BY <1>4 DEF Inv, Hands, Working, Busy
    <2>2. PICK i \in DOMAIN table : table[i] = t
      BY <2>1 DEF Reachable
    <2>3. t # NoTask
      BY SpawnAssumption DEF Threads
    <2>4. QED
      BY <1>2, <2>2, <2>3 DEF Tracked
  <1>6. \A q \in Threads : pc'[q] \notin {"clear", "free"}
    BY <1>2, <1>4 DEF Inv, Hands, Working, Busy
  <1>7. DOMAIN table' = {}
    BY <1>2
  <1>8. Spawners' /\ NoUseAfterFree' /\ Room' /\ Entries' /\ Reachable'
    BY <1>2, <1>3, <1>4, <1>5, <1>6, <1>7
       DEF Spawners, NoUseAfterFree, Room, Entries, Reachable
  <1>9. Stages'
    <2>1. \A t \in Tasks : ~Running(t)'
      BY <1>1, <1>3 DEF Stages, Running, Threads
    <2>2. \A c \in Chans : chans'[c] # "live"
      BY <1>1, <1>2 DEF TypeOK
    <2>3. QED
      BY <1>2, <1>3, <1>5, <2>1, <2>2 DEF Stages
  <1>10. QED
    BY <1>8, <1>9

\* Channels are made and used while the shutdown has not destroyed them.
LEMMA SoundChan ==
    ASSUME SoundInv, Inv', NEW p \in Threads, NEW c \in Chans, ChanCreate(p, c) \/ ChanUse(p, c)
    PROVE  SoundInv'
  <1> USE DEF SoundInv
  <1>1. TypeOK /\ pc[p] = "body"
    BY DEF Inv, ChanCreate, ChanUse
  <1>2. pc[Main] \notin {"join", "down", "gone"}
    BY <1>1, StillUp
  <1>3. UNCHANGED <<program, pc, on, owner, handle, completed, inFlight, table, capacity,
                    block, found>>
    BY DEF ChanCreate, ChanUse, tracker
  <1>4. \A d \in Chans : chans'[d] # "freed"
    BY <1>1, <1>2 DEF Stages, ChanCreate, ChanUse, TypeOK
  <1>5. faults' = faults
    BY <1>2 DEF Stages, ChanCreate, ChanUse
  <1>6. Spawners' /\ NoUseAfterFree' /\ Room' /\ Entries' /\ Reachable'
    BY <1>3, <1>5 DEF Spawners, NoUseAfterFree, Room, Spawned, Entries, Reachable
  <1>7. Stages'
    BY <1>2, <1>3, <1>4 DEF Stages
  <1>8. QED
    BY <1>6, <1>7

\* Every step of a sound program keeps its invariant.
LEMMA SoundNext == SoundInv /\ [Next]_vars => SoundInv'
  <1> SUFFICES ASSUME SoundInv, [Next]_vars PROVE SoundInv'
    OBVIOUS
  <1>a. Main \in Threads /\ Main \notin Tasks /\ \A u \in Tasks : u \in Threads
    BY SpawnAssumption DEF Threads
  <1>b. Inv /\ TypeOK
    BY DEF Inv, SoundInv
  <1>c. Inv'
    BY <1>b, InvNext
  <1>1. ASSUME NEW p \in Threads, NEW t \in Tasks, SpawnTrack(p, t) PROVE SoundInv'
    BY <1>1, SoundSpawnTrack
  <1>2. ASSUME NEW p \in Threads, SpawnCreate(p) PROVE SoundInv'
    BY <1>2, SoundSpawnCreate
  <1>3. ASSUME NEW t \in Tasks, BodyEnds(t) \/ Complete(t) \/ LeaveFlight(t) \/ ThreadExits(t)
        PROVE  SoundInv'
    <2>1. /\ UNCHANGED <<program, on, owner, handle, table, capacity, block, found, chans>>
          /\ pc[t] \in {"body", "ended", "completed", "leaving"}
      BY <1>3 DEF BodyEnds, Complete, LeaveFlight, ThreadExits, tracker
    <2>2. /\ \A q \in Threads : q # t => Woken(q)
          /\ pc'[t] \in {"ended", "completed", "leaving", "exited"}
      <3>1. CASE BodyEnds(t) \/ ThreadExits(t)
        BY <3>1, <1>a, <1>b DEF BodyEnds, ThreadExits, Goto, TypeOK, Woken
      <3>2. CASE Complete(t)
        <4> DEFINE asleep == {p \in Threads : pc[p] = "wait_zz" /\ on[p] = t}
        <4>1. pc[t] = "ended" /\ SignalGoto(t, "completed", asleep) /\ t \notin asleep
          BY <3>2 DEF Complete
        <4>2. asleep \in SUBSET {p \in Threads : pc[p] \in {"wait_zz", "all_zz", "shutdown_zz"}}
          OBVIOUS
        <4> HIDE DEF asleep
        <4>3. QED
          BY <4>1, <4>2, <1>a, <1>b, SignalEffect DEF Labels
      <3>3. CASE LeaveFlight(t)
        <4>1. pc[t] = "completed" /\ t \notin SleepersOnAll
          BY <3>3 DEF LeaveFlight, SleepersOnAll
        <4>2. SleepersOnAll \in SUBSET {p \in Threads : pc[p] \in {"wait_zz", "all_zz", "shutdown_zz"}}
          BY DEF SleepersOnAll
        <4>3. CASE inFlight = 1
          <5>1. SignalGoto(t, "leaving", SleepersOnAll)
            BY <3>3, <4>3 DEF LeaveFlight
          <5>2. QED
            BY <5>1, <4>1, <4>2, <1>a, <1>b, SignalEffect DEF Labels
        <4>4. CASE inFlight # 1
          BY <3>3, <4>4, <1>a, <1>b DEF LeaveFlight, Goto, TypeOK, Woken
        <4>5. QED
          BY <4>3, <4>4
      <3>4. QED
        BY <1>3, <3>1, <3>2, <3>3
    <2>3. faults' = faults
      <3>1. pc[t] = "ended" => handle[t] # "freed"
        BY <1>b DEF Inv, Flags
      <3>2. QED
        BY <1>3, <3>1 DEF BodyEnds, Complete, LeaveFlight, ThreadExits, Deref
    <2>4. \A q \in Threads : \A l \in {"clear", "free", "join", "down", "gone"} : pc'[q] = l <=> pc[q] = l
      BY <2>1, <2>2 DEF Woken
    <2>5. pc'[Main] \in {"join", "down", "gone"} => \A u \in Tasks : ~Running(u)'
      <3> SUFFICES ASSUME pc'[Main] \in {"join", "down", "gone"}, NEW u \in Tasks PROVE ~Running(u)'
        OBVIOUS
      <3>1. pc[Main] \in {"join", "down", "gone"}
        BY <2>4, <1>a
      <3>2. ~Running(u) /\ ~Running(t)
        BY <3>1 DEF SoundInv, Stages
      <3>3. pc[t] = "leaving"
        BY <3>2, <2>1 DEF Running
      <3>4. pc'[t] = "exited"
        BY <3>3, <1>3, <1>a, <1>b DEF BodyEnds, Complete, LeaveFlight, ThreadExits, Goto, TypeOK
      <3>5. QED
        BY <3>2, <3>4, <2>2, <1>a DEF Running, Woken
    <2>6. QED
      BY <2>1, <2>3, <2>4, <2>5, <1>a, <1>c, SoundQuiet
  <1>4. ASSUME NEW p \in Threads, NEW t \in Tasks, WaitCall(p, t) PROVE SoundInv'
    BY <1>4, SoundWaitCall
  <1>5. ASSUME NEW p \in Threads,
               WaitTest(p) \/ WaitAllCall(p) \/ WaitAllTest(p) \/ SpuriousWakeup(p)
        PROVE  SoundInv'
    <2>1. UNCHANGED <<program, on, owner, handle, table, capacity, block, found, chans>>
      BY <1>5 DEF WaitTest, WaitAllCall, WaitAllTest, SpuriousWakeup, tracker
    <2>2. PICK l \in {"search", "wait_zz", "all", "all_zz", "body", "wait", "shutdown"} :
              pc' = [pc EXCEPT ![p] = l]
      BY <1>5 DEF WaitTest, WaitAllCall, WaitAllTest, SpuriousWakeup, Goto
    <2>3. pc[p] \in {"wait", "body", "all", "wait_zz", "all_zz", "shutdown_zz"}
      BY <1>5 DEF WaitTest, WaitAllCall, WaitAllTest, SpuriousWakeup
    <2>4. pc[Main] \notin {"join", "down", "gone"}
      BY <2>3, StillUp
    <2>5. faults' = faults
      <3>1. pc[p] = "wait" => handle[on[p]] = "live"
        BY <1>b DEF Inv, Hands, Working, Busy, SoundInv, Reachable
      <3>2. QED
        BY <1>5, <3>1 DEF WaitTest, WaitAllCall, WaitAllTest, SpuriousWakeup, Deref
    <2>6. \A q \in Threads : \A k \in {"clear", "free", "join", "down", "gone"} : pc'[q] = k <=> pc[q] = k
      BY <2>2, <2>3, <1>b DEF TypeOK
    <2>7. pc'[Main] \notin {"join", "down", "gone"}
      BY <2>4, <2>6, <1>a
    <2>8. QED
      BY <2>1, <2>4, <2>5, <2>6, <2>7, <1>c, SoundQuiet
  <1>6. ASSUME NEW p \in Threads, DestroySearch(p) PROVE SoundInv'
    BY <1>6, <1>c, SoundDestroySearch
  <1>7. ASSUME NEW p \in Threads, DestroyClear(p) PROVE SoundInv'
    BY <1>7, <1>c, SoundDestroyClear
  <1>8. ASSUME NEW p \in Threads, DestroyFree(p) PROVE SoundInv'
    BY <1>8, <1>c, SoundDestroyFree
  <1>9. ASSUME NEW p \in Threads, NEW c \in Chans, ChanCreate(p, c) \/ ChanUse(p, c)
        PROVE  SoundInv'
    BY <1>9, <1>c, SoundChan
  <1>10. ASSUME MainReturns \/ ShutdownTest \/ ProcessExits PROVE SoundInv'
    <2>1. UNCHANGED <<program, on, owner, handle, table, capacity, block, found, chans, faults>>
      BY <1>10 DEF MainReturns, ShutdownTest, ProcessExits, tracker
    <2>2. PICK l \in {"shutdown", "shutdown_zz", "join", "gone"} :
              /\ pc' = [pc EXCEPT ![Main] = l]
              /\ l = "join" => pc[Main] = "shutdown" /\ ~TasksLeft
              /\ l = "gone" <=> pc[Main] = "down"
              /\ pc[Main] \in {"body", "shutdown", "down"}
      BY <1>10 DEF MainReturns, ShutdownTest, ProcessExits, Goto, SoundInv, Spawners, SoundProgram
    <2>3. pc'[Main] = l /\ \A q \in Threads : q # Main => pc'[q] = pc[q]
      BY <2>2, <1>a, <1>b DEF TypeOK
    <2>4. pc'[Main] \in {"join", "down", "gone"} => \A t \in Tasks : ~Running(t)
      <3>1. CASE l = "join"
        BY <2>2, <3>1, <1>b, NoneRuns
      <3>2. CASE l # "join"
        BY <2>2, <2>3, <3>2 DEF SoundInv, Stages
      <3>3. QED
        BY <3>1, <3>2
    <2>5. \A t \in Tasks : Running(t)' <=> Running(t)
      BY <2>3, <1>a DEF Running
    <2>6. \A q \in Threads : \A k \in {"clear", "free"} : pc'[q] = k <=> pc[q] = k
      BY <2>2, <2>3
    <2>7. /\ pc[Main] \in {"join", "down", "gone"} => pc'[Main] \in {"join", "down", "gone"}
          /\ pc[Main] \in {"down", "gone"} <=> pc'[Main] \in {"down", "gone"}
      BY <2>2, <2>3
    <2>8. pc'[Main] \in {"join", "down", "gone"} => \A t \in Tasks : ~Running(t)'
      BY <2>4, <2>5
    <2>9. QED
      BY <2>1, <2>6, <2>7, <2>8, <1>c, SoundQuiet
  <1>11. ASSUME ShutdownJoin PROVE SoundInv'
    BY <1>11, <1>c, SoundShutdownJoin
  <1>12. ASSUME ShutdownEnds PROVE SoundInv'
    BY <1>12, <1>c, SoundShutdownEnds
  <1>13. ASSUME UNCHANGED vars PROVE SoundInv'
    BY <1>13, <1>c DEF vars, tracker, SoundInv, Spawners, Reachable, Entries, Room, Spawned,
                       Stages, Running, NoUseAfterFree
  <1>14. QED
    BY <1>1, <1>2, <1>3, <1>4, <1>5, <1>6, <1>7, <1>8, <1>9, <1>10, <1>11, <1>12, <1>13
       DEF Next, RuntimeStep, ThreadTail, ShutdownStep, Terminated

\* In every sound program no thread touches a freed handle, a freed handle table or
\* a freed channel, though destroy edits the table without the lock and the
\* shutdown frees what is left.
THEOREM NoDangling ==
    ASSUME \A g \in Programs : SoundProgram(g)
    PROVE  Spec => []NoUseAfterFree
  <1>1. SoundInv => NoUseAfterFree
    BY DEF SoundInv
  <1>2. QED
    BY <1>1, SoundInit, SoundNext, PTL DEF Spec

\* In every sound program the process ends with no task running and with every
\* handle and every channel freed ("guarantees spawned work completes and is
\* freed", blang_runtime.c).
THEOREM AllFreed ==
    ASSUME \A g \in Programs : SoundProgram(g)
    PROVE  Spec => []ShutdownFreesAll
  <1>1. SoundInv => ShutdownFreesAll
    <2> SUFFICES ASSUME Stages, pc[Main] = "gone"
                 PROVE  /\ \A t \in Tasks : handle[t] # "live" /\ ~Running(t)
                        /\ \A c \in Chans : chans[c] # "live"
      BY DEF SoundInv, ShutdownFreesAll
    <2>1. QED
      BY DEF Stages
  <1>2. QED
    BY <1>1, SoundInit, SoundNext, PTL DEF Spec
=============================================================================
