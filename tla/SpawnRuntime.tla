---------------------------- MODULE SpawnRuntime ----------------------------
(***************************************************************************)
(* The spawn part of runtime/blang_runtime.c as compiled programs use it:  *)
(* `spawn`, `wait t`, `wait_all` and the shutdown that the code generator  *)
(* emits at the returns of main.                                           *)
(*                                                                         *)
(* A task is one spawn of a run of the program: an OS thread and a         *)
(* BlangSpawnTask handle on the heap.  Handles are tracked in a growable   *)
(* table so that shutdown can join and free those nobody waited for.       *)
(* Steps are the critical sections of the tracker's mutex and of a task's  *)
(* mutex, and, where the code takes no lock, the single accesses: the      *)
(* handle table is searched and cleared by __blang_spawn_task_destroy with *)
(* no lock while __blang_spawn may be moving it.                           *)
(*                                                                         *)
(* pc[p] says where a thread is:                                           *)
(*   "unborn"             the task has not been spawned                    *)
(*   "body"               in the program's own code                        *)
(*   "create"             in __blang_spawn, handle tracked, thread not yet *)
(*                        created                                          *)
(*   "wait" "wait_zz"     in __blang_spawn_wait, awake / asleep            *)
(*   "search" "clear" "free"  in __blang_spawn_task_destroy                *)
(*   "all" "all_zz"       in __blang_wait_all, awake / asleep              *)
(*   "ended" "completed" "leaving" "exited"  the tail of spawn_thread_fn   *)
(*   "shutdown" "shutdown_zz" "join" "down" "gone"  main only: the loops of *)
(*                        __blang_runtime_shutdown, past it, exited        *)
(***************************************************************************)
EXTENDS Naturals, Sequences, FiniteSets

CONSTANTS Tasks,     \* the spawns of a run
          Main,      \* the main thread
          Chans,     \* the channels a run creates
          NoTask,    \* NULL
          Programs   \* the programs considered: records with fields
                     \*   spawners:   the threads whose code spawns and waits
                     \*   waitAllers: the threads whose code has wait_all
                     \*   capacity:   handle_capacity set by tracker_init
                     \*   shutdown:   main's return calls runtime_shutdown

Threads == Tasks \cup {Main}

ASSUME SpawnAssumption ==
    /\ IsFiniteSet(Tasks)
    /\ Main \notin Tasks
    /\ NoTask \notin Threads
    /\ Programs \subseteq [spawners : SUBSET Threads, waitAllers : SUBSET Threads,
                           capacity : Nat \ {0}, shutdown : BOOLEAN]

VARIABLES program,    \* the program that runs
          pc,
          on,         \* on[p]: the task p is creating, waiting for or destroying
          owner,      \* owner[t]: who holds the handle variable of t, unused
          handle,     \* handle[t]: "none", "live" or "freed"
          completed,  \* completed[t]: the flag inside the handle
          inFlight,   \* g_tracker.tasks_in_flight
          table,      \* g_tracker.handles[0 .. handle_count - 1]
          capacity,   \* g_tracker.handle_capacity
          block,      \* which allocation g_tracker.handles points to
          found,      \* found[p]: where p's search found its task
          chans,      \* chans[c]: "none", "live" or "freed"
          faults      \* what touched freed memory

tracker == <<inFlight, table, capacity, block>>
vars == <<program, pc, on, owner, handle, completed, tracker, found,
          chans, faults>>

Goto(p, l) == pc' = [pc EXCEPT ![p] = l]

\* A dereference of t's handle.
Deref(t, what) ==
    faults' = IF handle[t] = "freed" THEN faults \cup {what} ELSE faults

\* pthread_cond_signal by p on the way to l: at most one sleeper of `asleep`
\* is awake again.
SignalGoto(p, l, asleep) ==
    IF asleep = {}
    THEN Goto(p, l)
    ELSE \E w \in asleep :
            pc' = [pc EXCEPT ![p] = l,
                             ![w] = CASE pc[w] = "wait_zz" -> "wait"
                                      [] pc[w] = "all_zz" -> "all"
                                      [] pc[w] = "shutdown_zz" -> "shutdown"]

Init ==
    /\ program \in Programs
    /\ pc = [p \in Threads |-> IF p = Main THEN "body" ELSE "unborn"]
    /\ on = [p \in Threads |-> NoTask]
    /\ owner = [t \in Tasks |-> NoTask]
    /\ handle = [t \in Tasks |-> "none"]
    /\ completed = [t \in Tasks |-> FALSE]
    /\ inFlight = 0
    /\ table = << >>
    /\ capacity = program.capacity
    /\ block = 0
    /\ found = [p \in Threads |-> <<0, 0>>]
    /\ chans = [c \in Chans |-> "none"]
    /\ faults = {}

\* Spawns are interchangeable until they happen: any one not yet used.
FreshTask == CHOOSE t \in Tasks : handle[t] = "none"

\* __blang_spawn up to the unlock: count the task, grow the table (realloc may
\* or may not move it), append the handle.
SpawnTrack(p, t) ==
    /\ pc[p] = "body"
    /\ p \in program.spawners
    /\ handle[t] = "none" /\ t = FreshTask
    /\ inFlight' = inFlight + 1
    /\ IF Len(table) >= capacity
       THEN capacity' = capacity * 2 /\ block' \in {block, block + 1}
       ELSE UNCHANGED <<capacity, block>>
    /\ table' = Append(table, t)
    /\ handle' = [handle EXCEPT ![t] = "live"]
    /\ on' = [on EXCEPT ![p] = t]
    /\ Goto(p, "create")
    /\ UNCHANGED <<program, owner, completed, found, chans, faults>>

\* pthread_create, and the handle is stored in the program's Task variable.
SpawnCreate(p) ==
    /\ pc[p] = "create"
    /\ pc' = [pc EXCEPT ![p] = "body", ![on[p]] = "body"]
    /\ owner' = [owner EXCEPT ![on[p]] = p]
    /\ on' = [on EXCEPT ![p] = NoTask]
    /\ UNCHANGED <<program, handle, completed, tracker, found, chans, faults>>

\* spawn_thread_fn: task->fn returns and the context is freed.
BodyEnds(t) ==
    /\ pc[t] = "body"
    /\ Goto(t, "ended")
    /\ UNCHANGED <<program, on, owner, handle, completed, tracker, found,
                   chans, faults>>

\* Mutation: the flag is set and done_cond is not signalled.
CompleteUnsignalled(t) ==
    /\ pc[t] = "ended"
    /\ completed' = [completed EXCEPT ![t] = TRUE]
    /\ Deref(t, "completed")
    /\ Goto(t, "completed")
    /\ UNCHANGED <<program, on, owner, handle, tracker, found, chans>>

\* spawn_thread_fn under task->mutex.
Complete(t) ==
    /\ pc[t] = "ended"
    /\ completed' = [completed EXCEPT ![t] = TRUE]
    /\ Deref(t, "completed")
    /\ SignalGoto(t, "completed", {p \in Threads : pc[p] = "wait_zz" /\ on[p] = t})
    /\ UNCHANGED <<program, on, owner, handle, tracker, found, chans>>

SleepersOnAll == {p \in Threads : pc[p] \in {"all_zz", "shutdown_zz"}}

\* spawn_thread_fn under g_tracker.mutex.
LeaveFlight(t) ==
    /\ pc[t] = "completed"
    /\ inFlight' = inFlight - 1
    /\ IF inFlight = 1 THEN SignalGoto(t, "leaving", SleepersOnAll)
                       ELSE Goto(t, "leaving")
    /\ UNCHANGED <<program, on, owner, handle, completed, table, capacity,
                   block, found, chans, faults>>

ThreadExits(t) ==
    /\ pc[t] = "leaving"
    /\ Goto(t, "exited")
    /\ UNCHANGED <<program, on, owner, handle, completed, tracker, found,
                   chans, faults>>

-----------------------------------------------------------------------------
\* `wait t`: genWaitStatement calls __blang_spawn_wait on the variable's
\* handle.  The programs considered wait at most once for a handle.
WaitCall(p, t) ==
    /\ pc[p] = "body"
    /\ owner[t] = p
    /\ owner' = [owner EXCEPT ![t] = NoTask]
    /\ on' = [on EXCEPT ![p] = t]
    /\ Goto(p, "wait")
    /\ UNCHANGED <<program, handle, completed, tracker, found, chans, faults>>

WaitTest(p) ==
    /\ pc[p] = "wait"
    /\ Deref(on[p], "wait")
    /\ Goto(p, IF completed[on[p]] THEN "search" ELSE "wait_zz")
    /\ UNCHANGED <<program, on, owner, handle, completed, tracker, found, chans>>

Indices(t) == {i \in DOMAIN table : table[i] = t}

\* __blang_spawn_task_destroy, no lock held: find the entry ...
DestroySearch(p) ==
    /\ pc[p] = "search"
    /\ IF Indices(on[p]) = {}
       THEN Goto(p, "free") /\ UNCHANGED found
       ELSE /\ found' = [found EXCEPT ![p] =
                            <<block, CHOOSE i \in Indices(on[p]) : TRUE>>]
            /\ Goto(p, "clear")
    /\ UNCHANGED <<program, on, owner, handle, completed, tracker, chans, faults>>

\* Mutation: the entry of a destroyed handle stays in the table.
DestroyKeepsEntry(p) ==
    /\ pc[p] = "clear"
    /\ found' = [found EXCEPT ![p] = <<0, 0>>]
    /\ Goto(p, "free")
    /\ UNCHANGED <<program, on, owner, handle, completed, tracker, chans, faults>>

\* ... store NULL through the pointer that was read (into a freed block if the
\* table has moved since) ...
DestroyClear(p) ==
    /\ pc[p] = "clear"
    /\ IF found[p][1] = block
       THEN table' = [table EXCEPT ![found[p][2]] = NoTask] /\ UNCHANGED faults
       ELSE faults' = faults \cup {"table"} /\ UNCHANGED table
    /\ found' = [found EXCEPT ![p] = <<0, 0>>]
    /\ Goto(p, "free")
    /\ UNCHANGED <<program, on, owner, handle, completed, inFlight, capacity,
                   block, chans>>

\* Mutation: waiting for a task takes it out of flight a second time.
DestroyUncounts(p) ==
    /\ pc[p] = "free"
    /\ Deref(on[p], "free")
    /\ handle' = [handle EXCEPT ![on[p]] = "freed"]
    /\ on' = [on EXCEPT ![p] = NoTask]
    /\ Goto(p, "body")
    /\ inFlight' = inFlight - 1
    /\ UNCHANGED <<program, owner, completed, table, capacity, block, found, chans>>

\* ... and free the handle.
DestroyFree(p) ==
    /\ pc[p] = "free"
    /\ Deref(on[p], "free")
    /\ handle' = [handle EXCEPT ![on[p]] = "freed"]
    /\ on' = [on EXCEPT ![p] = NoTask]
    /\ Goto(p, "body")
    /\ UNCHANGED <<program, owner, completed, tracker, found, chans>>

-----------------------------------------------------------------------------
WaitAllCall(p) ==
    /\ pc[p] = "body"
    /\ p \in program.waitAllers
    /\ Goto(p, "all")
    /\ UNCHANGED <<program, on, owner, handle, completed, tracker, found,
                   chans, faults>>

\* Mutation: the loops stop one task early.
MoreThanOneLeft == inFlight > 1

\* The while condition of __blang_wait_all and __blang_runtime_shutdown.
TasksLeft == inFlight > 0

WaitAllTest(p) ==
    /\ pc[p] = "all"
    /\ Goto(p, IF TasksLeft THEN "all_zz" ELSE "body")
    /\ UNCHANGED <<program, on, owner, handle, completed, tracker, found,
                   chans, faults>>

\* A thread may return from pthread_cond_wait without a signal.
SpuriousWakeup(p) ==
    /\ \/ pc[p] = "wait_zz" /\ Goto(p, "wait")
       \/ pc[p] = "all_zz" /\ Goto(p, "all")
       \/ pc[p] = "shutdown_zz" /\ Goto(p, "shutdown")
    /\ UNCHANGED <<program, on, owner, handle, completed, tracker, found,
                   chans, faults>>

-----------------------------------------------------------------------------
\* __blang_chan_create registers the channel for the destruction at shutdown.
ChanCreate(p, c) ==
    /\ pc[p] = "body"
    /\ chans[c] = "none"
    /\ chans' = [chans EXCEPT ![c] = "live"]
    /\ UNCHANGED <<program, pc, on, owner, handle, completed, tracker, found,
                   faults>>

\* send, recv or close on a channel of the program (Channel.tla has the rest).
ChanUse(p, c) ==
    /\ pc[p] = "body"
    /\ chans[c] # "none"
    /\ faults' = IF chans[c] = "freed" THEN faults \cup {"channel"} ELSE faults
    /\ UNCHANGED <<program, pc, on, owner, handle, completed, tracker, found,
                   chans>>

-----------------------------------------------------------------------------
\* main returns.  The code generator calls __blang_runtime_shutdown at a
\* return only if it met a concurrency construct in main's module before it.
MainReturns ==
    /\ pc[Main] = "body"
    /\ Goto(Main, IF program.shutdown THEN "shutdown" ELSE "down")
    /\ UNCHANGED <<program, on, owner, handle, completed, tracker, found,
                   chans, faults>>

ShutdownTest ==
    /\ pc[Main] = "shutdown"
    /\ Goto(Main, IF TasksLeft THEN "shutdown_zz" ELSE "join")
    /\ UNCHANGED <<program, on, owner, handle, completed, tracker, found,
                   chans, faults>>

\* Mutation: the loop over the handles stops one entry early.
TrackedButLast == {i \in DOMAIN table : table[i] # NoTask /\ i < Len(table)}

Tracked == {i \in DOMAIN table : table[i] # NoTask}

\* One turn of the loop over the handles: pthread_join, then destroy.
ShutdownJoin ==
    /\ pc[Main] = "join"
    /\ \E i \in Tracked :
          /\ \A j \in Tracked : i <= j
          /\ pc[table[i]] = "exited"
          /\ Deref(table[i], "join")
          /\ handle' = [handle EXCEPT ![table[i]] = "freed"]
          /\ table' = [table EXCEPT ![i] = NoTask]
    /\ UNCHANGED <<program, pc, on, owner, completed, inFlight, capacity, block, found,
                   chans>>

\* The rest of shutdown: free the table and destroy every channel.
ShutdownEnds ==
    /\ pc[Main] = "join"
    /\ Tracked = {}
    /\ chans' = [c \in Chans |-> IF chans[c] = "live" THEN "freed" ELSE chans[c]]
    /\ table' = << >>
    /\ capacity' = 0
    /\ Goto(Main, "down")
    /\ UNCHANGED <<program, on, owner, handle, completed, inFlight, block, found,
                   faults>>

\* main releases its locals and returns, which ends the process.
ProcessExits ==
    /\ pc[Main] = "down"
    /\ Goto(Main, "gone")
    /\ UNCHANGED <<program, on, owner, handle, completed, tracker, found,
                   chans, faults>>

-----------------------------------------------------------------------------
\* A thread inside the runtime, awake.
RuntimeStep(p) ==
    \/ SpawnCreate(p)
    \/ WaitTest(p) \/ DestroySearch(p) \/ DestroyClear(p) \/ DestroyFree(p)
    \/ WaitAllTest(p)

ThreadTail(t) == Complete(t) \/ LeaveFlight(t) \/ ThreadExits(t)

ShutdownStep == ShutdownTest \/ ShutdownJoin \/ ShutdownEnds \/ ProcessExits

Terminated == pc[Main] = "gone" /\ UNCHANGED vars

\* The return of main ends every thread with the process.
Next ==
    \/ /\ pc[Main] # "gone"
       /\ \/ \E p \in Threads :
                \/ \E t \in Tasks : SpawnTrack(p, t) \/ WaitCall(p, t)
                \/ WaitAllCall(p)
                \/ RuntimeStep(p)
                \/ SpuriousWakeup(p)
                \/ \E c \in Chans : ChanCreate(p, c) \/ ChanUse(p, c)
          \/ \E t \in Tasks : BodyEnds(t) \/ ThreadTail(t)
          \/ MainReturns
          \/ ShutdownStep
    \/ Terminated

Spec == Init /\ [][Next]_vars

\* Threads inside the runtime are scheduled, and the bodies considered for
\* liveness end: a body that runs for ever keeps its waiters for ever.
FairSpec ==
    /\ Spec
    /\ \A p \in Threads : WF_vars(pc[Main] # "gone" /\ RuntimeStep(p))
    /\ \A t \in Tasks : WF_vars(pc[Main] # "gone" /\ (BodyEnds(t) \/ ThreadTail(t)))
    /\ WF_vars(ShutdownStep)
-----------------------------------------------------------------------------
Labels == {"unborn", "body", "create", "wait", "wait_zz", "search", "clear", "free",
           "all", "all_zz", "ended", "completed", "leaving", "exited",
           "shutdown", "shutdown_zz", "join", "down", "gone"}

\* The shape of the state.
TypeOK ==
    /\ program \in Programs
    /\ pc \in [Threads -> Labels]
    /\ on \in [Threads -> Tasks \cup {NoTask}]
    /\ owner \in [Tasks -> Threads \cup {NoTask}]
    /\ handle \in [Tasks -> {"none", "live", "freed"}]
    /\ completed \in [Tasks -> BOOLEAN]
    /\ inFlight \in Nat
    /\ table \in Seq(Tasks \cup {NoTask})
    /\ capacity \in Nat
    /\ block \in Nat
    /\ found \in [Threads -> Nat \X Nat]
    /\ chans \in [Chans -> {"none", "live", "freed"}]
    /\ faults \in SUBSET {"completed", "wait", "free", "join", "table", "channel"}

\* No thread touches a freed handle, a freed handle table or a freed channel,
\* although `wait` frees a handle its thread has just written, destroy edits
\* the table without the lock, and shutdown frees everything that is left.
NoUseAfterFree == faults = {}

Running(t) == pc[t] \notin {"unborn", "leaving", "exited"}

\* `wait t` and `wait_all` block until the work is done: a thread past the
\* wait for t runs only after t's body, and a wait_all or a shutdown that
\* returns leaves no task running, those spawned by tasks included.
WaitsForWork ==
    /\ [][\A p \in Threads :
            pc[p] = "wait" /\ pc'[p] = "search" => pc[on[p]] \in
                {"completed", "leaving", "exited"}]_vars
    /\ [][\A p \in Threads :
            \/ pc[p] = "all" /\ pc'[p] = "body"
            \/ pc[p] = "shutdown" /\ pc'[p] = "join"
            => \A t \in Tasks : ~Running(t)]_vars

\* "guarantees spawned work completes and is freed": when the process exits no
\* task is running, and every handle and every channel has been freed.
ShutdownFreesAll ==
    pc[Main] = "gone" =>
        /\ \A t \in Tasks : handle[t] # "live" /\ ~Running(t)
        /\ \A c \in Chans : chans[c] # "live"

\* A wait returns once the task's body does, and shutdown ends: no signal on
\* done_cond or all_done is missed.
WaitsReturn ==
    /\ \A p \in Threads : pc[p] = "wait" ~> pc[p] = "body"
    /\ pc[Main] = "shutdown" ~> pc[Main] = "gone"

\* blang_runtime.c on __blang_spawn: the shutdown "guarantees spawned work
\* completes".  When the process exits no task is still running.
SpawnedWorkCompletes == pc[Main] = "gone" => \A t \in Tasks : ~Running(t)
=============================================================================
