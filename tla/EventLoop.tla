----------------------------- MODULE EventLoop ------------------------------
(***************************************************************************)
(* The global event loop and its timers, runtime/blang_net.c under         *)
(* stdlib/timer.b: `on timer.every(ms) {..}`, `on timer.after(ms) {..}`,   *)
(* timer.cancel, timer.stop and timer.run.                                 *)
(*                                                                         *)
(* One thread registers sources and then runs the loop, which polls,       *)
(* dispatches the ready entries from the last to the first, and afterwards *)
(* drops the one-shot timers that fired.  Handlers are program code: they  *)
(* may register, cancel and stop while the loop walks its entries.  Timers *)
(* are known by their file descriptors, which the kernel reuses (lowest    *)
(* free number first) and which two tables of the runtime remember for     *)
(* ever.                                                                   *)
(*                                                                         *)
(* A source is one timer.every or timer.after of a run; the properties     *)
(* speak of sources, the runtime only of descriptors.                      *)
(***************************************************************************)
EXTENDS Naturals, FiniteSetsExt, SequencesExt

CONSTANTS MaxSources,    \* bound: timers created in a run
          MaxFds,        \* SELECTOR_MAX_FDS, the self-pipe included
          MaxTimerFds,   \* MAX_TIMER_FDS
          Programs       \* the programs considered: records with fields
                         \*   cancels:    what a handler cancels: its own
                         \*               source ("self") or "any"
                         \*   lateCancel: cancels sources that are over too,
                         \*               and one-shots in their own handler
                         \*   creates:    when it creates timers: "early",
                         \*               while all made so far are open;
                         \*               "careful", repeating ones while all
                         \*               one-shots are open; "any" time

ASSUME EventLoopAssumption ==
    /\ MaxSources \in Nat /\ MaxFds \in Nat /\ MaxTimerFds \in Nat
    /\ Programs \subseteq [cancels : {"self", "any"}, lateCancel : BOOLEAN,
                            creates : {"early", "careful", "any"}]

Sources == 1 .. MaxSources
Fds == 1 .. MaxSources
NoFd == 0

VARIABLES program,
          kind,        \* kind[s]: "none" (not created), "every" or "after"
          fd,          \* fd[s]: the descriptor timerfd_create returned for s
          open,        \* the sources whose descriptor is open
          timer,       \* timer[s]: "armed", "expired" (readable) or "spent"
          status,      \* status[s]: how s stands with the loop
          fired,       \* fired[s]: how often s's handler ran, up to 2
          timerFds,    \* g_timer_fds
          oneshotFds,  \* g_oneshot_fds
          entries,     \* sel->entries[1 ..], with the revents of sel->fds
          active,      \* sel->active_count
          wake,        \* the self-pipe holds a byte
          shutdown,    \* sel->shutdown
          pc,          \* "main", "test", "poll", "dispatch" or "sweep"
          idx,         \* the index of the dispatch loop
          done,        \* oneshot_done
          faults

sources == <<kind, fd, open, status, timerFds, oneshotFds, entries, active, wake, faults>>
walk == <<pc, idx, done>>
vars == <<program, sources, timer, fired, shutdown, walk>>

Init ==
    /\ program \in Programs
    /\ kind = [s \in Sources |-> "none"]
    /\ fd = [s \in Sources |-> NoFd]
    /\ open = {}
    /\ timer = [s \in Sources |-> "armed"]
    /\ status = [s \in Sources |-> "none"]
    /\ fired = [s \in Sources |-> 0]
    /\ timerFds = << >>
    /\ oneshotFds = << >>
    /\ entries = << >>
    /\ active = 0
    /\ wake = FALSE
    /\ shutdown = FALSE
    /\ pc = "main"
    /\ idx = 0
    /\ done = << >>
    /\ faults = {}

-----------------------------------------------------------------------------
(* The calls of the program, made by main and by handlers.                 *)

\* The source whose open descriptor is f, if any.
OpenOn(f) == {s \in open : fd[s] = f}

\* The kernel hands out the lowest free descriptor.
LowestFree == Min({f \in Fds : OpenOn(f) = {}})

\* track_timer_fd, track_oneshot_fd: a full table forgets the descriptor.
Tracked(fds, f) == IF Len(fds) < MaxTimerFds THEN Append(fds, f) ELSE fds

\* When the program considered creates a timer.
MayCreate(k) ==
    \/ program.creates = "any"
    \/ /\ program.creates = "careful"
       /\ k = "every" => \A s \in Sources : kind[s] = "after" => s \in open
    \/ /\ program.creates = "early"
       /\ \A s \in Sources : kind[s] # "none" => s \in open

\* Mutation: the capacity test of event_on is off by one.
LoopOverfull == Len(entries) + 1 > MaxFds

\* SELECTOR_MAX_FDS is reached; the self-pipe takes the first place.
LoopFull == Len(entries) + 1 >= MaxFds

\* timer.every(ms) or timer.after(ms), and __blang_event_on of its descriptor;
\* event_on drops the handler when the loop is full.
NewTimer(k) ==
    /\ MayCreate(k)
    /\ \E s \in Sources :
        /\ kind[s] = "none"
        /\ \A r \in Sources : r < s => kind[r] # "none"
        /\ kind' = [kind EXCEPT ![s] = k]
        /\ fd' = [fd EXCEPT ![s] = LowestFree]
        /\ open' = open \cup {s}
        /\ timerFds' = Tracked(timerFds, LowestFree)
        /\ oneshotFds' = IF k = "after" THEN Tracked(oneshotFds, LowestFree) ELSE oneshotFds
        /\ IF LoopFull
           THEN /\ status' = [status EXCEPT ![s] = "dropped"]
                /\ UNCHANGED <<entries, active, wake>>
           ELSE /\ status' = [status EXCEPT ![s] = "registered"]
                /\ entries' = Append(entries,
                      [fd |-> LowestFree, source |-> s, ready |-> FALSE,
                       isTimer |-> Contains(timerFds', LowestFree),
                       isOneshot |-> Contains(oneshotFds', LowestFree)])
                /\ active' = active + 1
                /\ wake' = TRUE
    /\ UNCHANGED <<faults, shutdown>>

\* The entries without the first one for descriptor f: __blang_selector_remove
\* and the sweep shift the rest down, revents included.
Dropped(f) == RemoveFirstMatch(entries, LAMBDA e : e.fd = f)

\* The source of the entry that Dropped(f) removes.
DroppedSource(f) ==
    {entries[i].source : i \in {j \in DOMAIN entries :
        entries[j].fd = f /\ \A m \in 1 .. j - 1 : entries[m].fd # f}}

\* The entry of descriptor f is dropped on behalf of source s; nothing revives
\* a source that is finished.
DropEntry(f, s, why) ==
    /\ entries' = Dropped(f)
    /\ active' = IF Len(Dropped(f)) < Len(entries) /\ active > 0 THEN active - 1 ELSE active
    /\ status' = [r \in Sources |->
                   IF r \in DroppedSource(f) \/ (r = s /\ status[s] # "finished")
                   THEN why ELSE status[r]]

\* close(f), meant for source s: a fault if f is closed already, and a worse
\* one if it is another source's by now.
CloseFd(f, s) ==
    /\ open' = open \ OpenOn(f)
    /\ faults' = faults \cup (IF OpenOn(f) = {} THEN {"again"} ELSE {})
                       \cup (IF OpenOn(f) \ {s} # {} THEN {"other"} ELSE {})

\* Source s has been cancelled or swept, or is a one-shot that waits for the sweep.
Over(s) == \/ status[s] \in {"cancelled", "finished"}
           \/ \E j \in DOMAIN done : done[j][2] = s

\* Mutation: cancel closes the timer and leaves it in the loop.
CancelKeepsEntry(s) ==
    /\ kind[s] # "none" /\ (Over(s) => program.lateCancel)
    /\ status' = [status EXCEPT ![s] = "cancelled"]
    /\ wake' = TRUE
    /\ CloseFd(fd[s], s)
    /\ UNCHANGED <<kind, fd, timerFds, oneshotFds, entries, active, shutdown>>

\* __blang_event_cancel of the descriptor the program got for s, which need not
\* be that of s any more: is_timer_fd knows every number a timer ever had.
Cancel(s) ==
    /\ kind[s] # "none" /\ (Over(s) => program.lateCancel)
    /\ DropEntry(fd[s], s, "cancelled")
    /\ wake' = TRUE
    /\ IF Contains(timerFds, fd[s])
       THEN CloseFd(fd[s], s)
       ELSE UNCHANGED <<open, faults>>
    /\ UNCHANGED <<kind, fd, timerFds, oneshotFds, shutdown>>

\* __blang_event_stop
Stop ==
    /\ shutdown' = TRUE
    /\ wake' = TRUE
    /\ UNCHANGED <<kind, fd, open, status, timerFds, oneshotFds, entries, active, faults>>

-----------------------------------------------------------------------------
(* Main, before and after timer.run().                                     *)

MainCalls ==
    /\ pc = "main"
    /\ (\E k \in {"every", "after"} : NewTimer(k)) \/ (\E s \in Sources : Cancel(s))
    /\ UNCHANGED <<program, timer, fired, walk>>

\* __blang_event_run; __blang_selector_run resets the shutdown flag.
Run ==
    /\ pc = "main"
    /\ pc' = "test"
    /\ shutdown' = FALSE
    /\ UNCHANGED <<program, sources, timer, fired, idx, done>>

-----------------------------------------------------------------------------
(* __blang_selector_run.                                                   *)

\* Mutation: the loop does not stop when it is idle.
LoopIgnoresIdle == ~shutdown

\* The while condition; exit_when_idle is set.
LoopGoesOn == ~shutdown /\ active > 0

Test ==
    /\ pc = "test"
    /\ pc' = IF LoopGoesOn THEN "poll" ELSE "main"
    /\ UNCHANGED <<program, sources, timer, fired, shutdown, idx, done>>

Readable(f) == \E s \in OpenOn(f) : timer[s] = "expired"

\* Mutation: an entry stays ready from an earlier poll.
PollKeepsReady ==
    /\ pc = "poll"
    /\ wake \/ \E i \in DOMAIN entries : Readable(entries[i].fd)
    /\ entries' = [i \in DOMAIN entries |->
                      [entries[i] EXCEPT !.ready = @ \/ Readable(entries[i].fd)]]
    /\ wake' = FALSE
    /\ idx' = Len(entries)
    /\ done' = << >>
    /\ pc' = "dispatch"
    /\ UNCHANGED <<program, kind, fd, open, status, timerFds, oneshotFds, active, faults,
                   timer, fired, shutdown>>

\* poll returns when something is readable; the self-pipe is drained.
Poll ==
    /\ pc = "poll"
    /\ wake \/ \E i \in DOMAIN entries : Readable(entries[i].fd)
    /\ entries' = [i \in DOMAIN entries |->
                      [entries[i] EXCEPT !.ready = Readable(entries[i].fd)]]
    /\ wake' = FALSE
    /\ idx' = Len(entries)
    /\ done' = << >>
    /\ pc' = "dispatch"
    /\ UNCHANGED <<program, kind, fd, open, status, timerFds, oneshotFds, active, faults,
                   timer, fired, shutdown>>

\* What a handler of source s may do: at most one call of the runtime.
HandlerCalls(s) ==
    \/ UNCHANGED <<sources, shutdown>>
    \/ Stop
    \/ \E k \in {"every", "after"} : NewTimer(k)
    \/ \E r \in Sources :
          /\ \/ program.cancels = "any" \/ Over(r)
             \/ r = s /\ (kind[s] = "every" \/ program.lateCancel)
          /\ Cancel(r)

NextIndex == idx' = idx - 1 /\ UNCHANGED pc

SkipEntry ==
    /\ pc = "dispatch"
    /\ idx >= 1
    /\ ~entries[idx].ready
    /\ NextIndex
    /\ UNCHANGED <<program, sources, timer, fired, shutdown, done>>

\* read() of the expiration count blocks until the timer has expired.
Drain(f) ==
    /\ Readable(f)
    /\ timer' = [s \in Sources |->
                   IF s \in OpenOn(f)
                   THEN IF kind[s] = "every" THEN "armed" ELSE "spent"
                   ELSE timer[s]]

\* Mutation: every timer that fired is noted for the sweep.
NoteTimer(e) == IF e.isTimer THEN Append(done, <<e.fd, e.source>>) ELSE done

\* oneshot_done after the dispatch of entry e.
NoteOneshot(e) == IF e.isOneshot THEN Append(done, <<e.fd, e.source>>) ELSE done

\* Drain a timer, run the handler, and note a one-shot for the sweep.
Dispatch ==
    /\ pc = "dispatch"
    /\ idx >= 1
    /\ LET e == entries[idx] IN
        /\ e.ready
        /\ IF e.isTimer THEN Drain(e.fd) ELSE UNCHANGED timer
        /\ HandlerCalls(e.source)
        /\ fired' = [fired EXCEPT ![e.source] = Min({@ + 1, 2})]
        /\ done' = NoteOneshot(e)
    /\ NextIndex
    /\ UNCHANGED program

DispatchEnds ==
    /\ pc = "dispatch"
    /\ idx = 0
    /\ pc' = "sweep"
    /\ UNCHANGED <<program, sources, timer, fired, shutdown, idx, done>>

\* Mutation: a one-shot that fired stays in the loop.
SweepForgets ==
    /\ pc = "sweep"
    /\ done # << >>
    /\ done' = Tail(done)
    /\ UNCHANGED <<program, sources, timer, fired, shutdown, pc, idx>>

\* Remove a fired one-shot by descriptor and close it, whether or not its
\* handler or a later one has cancelled it in this pass.
SweepOne ==
    /\ pc = "sweep"
    /\ done # << >>
    /\ DropEntry(Head(done)[1], Head(done)[2], "finished")
    /\ CloseFd(Head(done)[1], Head(done)[2])
    /\ done' = Tail(done)
    /\ UNCHANGED <<program, kind, fd, timerFds, oneshotFds, wake, timer, fired, shutdown,
                   pc, idx>>

SweepEnds ==
    /\ pc = "sweep"
    /\ done = << >>
    /\ pc' = "test"
    /\ UNCHANGED <<program, sources, timer, fired, shutdown, idx, done>>

LoopStep == Test \/ Poll \/ SkipEntry \/ Dispatch \/ DispatchEnds \/ SweepOne \/ SweepEnds

\* Time passes: an open timer reaches its expiration.
Expire(s) ==
    /\ s \in open
    /\ timer[s] = "armed"
    /\ timer' = [timer EXCEPT ![s] = "expired"]
    /\ UNCHANGED <<program, sources, fired, shutdown, walk>>

Next == MainCalls \/ Run \/ LoopStep \/ \E s \in Sources : Expire(s)

Spec == Init /\ [][Next]_vars

\* The loop's thread is scheduled and timers expire.  Whether main calls run
\* again is up to the program.
FairSpec == Spec /\ WF_vars(LoopStep) /\ \A s \in Sources : WF_vars(Expire(s))
-----------------------------------------------------------------------------
\* The shape of the state.
TypeOK ==
    /\ program \in Programs
    /\ kind \in [Sources -> {"none", "every", "after"}]
    /\ fd \in [Sources -> Fds \cup {NoFd}]
    /\ open \in SUBSET Sources
    /\ timer \in [Sources -> {"armed", "expired", "spent"}]
    /\ status \in [Sources -> {"none", "registered", "dropped", "cancelled", "finished"}]
    /\ fired \in [Sources -> 0 .. 2]
    /\ timerFds \in Seq(Fds) /\ oneshotFds \in Seq(Fds)
    /\ \A i \in DOMAIN entries :
          entries[i] \in [fd : Fds, source : Sources, ready : BOOLEAN,
                          isTimer : BOOLEAN, isOneshot : BOOLEAN]
    /\ active \in 0 .. MaxFds - 1
    /\ wake \in BOOLEAN /\ shutdown \in BOOLEAN
    /\ pc \in {"main", "test", "poll", "dispatch", "sweep"}
    /\ idx \in 0 .. MaxFds - 1
    /\ done \in Seq(Fds \X Sources)
    /\ faults \in SUBSET {"again", "other"}

\* While handlers register, cancel and fire, the entries stay in step with the
\* sources: each entry's descriptor is open and its own, active_count (on
\* which the idle exit depends) counts them, and no call or sweep closes what is
\* another source's.  A descriptor is closed twice only by a program that cancels
\* what is over: a one-shot in its own handler is cancelled, then swept.
EntriesInStep ==
    /\ active = Len(entries)
    /\ \A i \in DOMAIN entries : OpenOn(entries[i].fd) = {entries[i].source}
    /\ \A i, j \in DOMAIN entries : entries[i].fd = entries[j].fd => i = j
    /\ "other" \notin faults
    /\ faults # {} => program.lateCancel

\* The sweep drops fired one-shots "by fd so a handler that mutates the set
\* mid-iteration can't corrupt this" (oneshot_done, blang_net.c): what it drops
\* has fired.  Late cancels break it (the programs MCEventLoop!LateCancelPrograms).
SweptHaveFired == \A s \in Sources : status[s] = "finished" => fired[s] > 0

\* The loop, which runs every handler, never blocks draining a timer: an entry
\* it finds ready still has its expiration to read.
DrainNeverBlocks ==
    pc = "dispatch" /\ idx >= 1 =>
        (entries[idx].ready /\ entries[idx].isTimer => Readable(entries[idx].fd))

\* timer.b on after(): "fires once after `ms` milliseconds, then removes itself
\* from the loop".
OneShotOnce ==
    \A s \in Sources : kind[s] = "after" =>
        /\ fired[s] <= 1
        /\ fired[s] = 1 /\ pc \in {"test", "poll", "main"} =>
              status[s] = "finished" /\ s \notin open

\* timer.b on every(): "fires every `ms` milliseconds": a repeating timer
\* leaves the loop by being cancelled only.
RepeatingStays ==
    \A s \in Sources : kind[s] = "every" => status[s] # "finished"

\* run() returns once stop() is called in a handler, and, when the program has
\* one-shot timers only, once they have all fired.
RunReturns ==
    /\ shutdown /\ pc # "main" ~> pc = "main"
    /\ [](\A s \in Sources : kind[s] # "every") => (pc = "test" ~> pc = "main")
=============================================================================
