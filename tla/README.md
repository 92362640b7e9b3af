# A TLA+ verification project for BLang

BLang is a compiled language: a C++ compiler (`qcc`) and build driver (`bcc`), a
C runtime linked into every program (`runtime/`), a standard library in BLang
(`stdlib/`), and a language server (`lsp/`). Two kinds of thing are hard to test
here. In the runtime and the build driver it is order: threads, condition
variables, a poll loop whose handlers change what it walks, a cache on disk that
outlives killed builds. In the compiler, which is sequential, it is agreement:
several passes decide the same question independently (who owns a reference,
which children a node has, what type an expression is, what crosses a module
boundary, where a function body starts), and a test reaches one combination of
forms at a time. The modules follow this division.

## 1. Inventory

| Component | Source | State | Operations | Hard because | Correct when |
|---|---|---|---|---|---|
| Channels `chan<T>` | `runtime/blang_runtime.c` 405-544 | ring buffer, head, tail, count, closed, two condition variables | create, send, recv, close, destroy at shutdown | signal wakes one thread, a third may overtake it; close races sleepers | a bounded FIFO queue; nobody sleeps in vain |
| Spawn, wait, shutdown | `blang_runtime.c` 183-399, `CGLambda.cpp`, `CGStatements.cpp` | handles, handle table, in-flight counter, channel registry | spawn, body end, `wait t`, `wait_all`, shutdown | the table is searched without its lock; a handle is freed by its waiter while its thread is finishing | no use after free; waits end exactly when the work has; all is freed |
| Event loop, timers | `runtime/blang_net.c` 655-824, `stdlib/timer.b` | entries, active count, two tables of descriptors, shutdown flag | every, after, cancel, stop, run | handlers change the entries during dispatch; descriptors are reused | entries match open sources; one-shots fire once; the loop never blocks in a drain; run returns |
| Selector | `blang_net.c` 322-653, `stdlib/net.b` | parallel arrays with a count, self-pipe, lambda contexts, shutdown and stopped flags | on_accept, on_data, remove, run, shutdown, join | two threads without a lock; peers close and reset at any time | contexts balanced, the loop never blocks in a handler, join returns |
| Build driver and cache | `bcc.cpp` 1097-1633, `BuildCache.cpp` | `building`, call frames, cache entries, git checkouts | build, clean; edits and kills from outside | two-file entries stored in place; early returns; diamonds and cycles | links whole, current archives in dependency order; ends |
| Async tasks | `blang_runtime.c` 546-683, `CodeGen.cpp` 650-735 | task, libuv loop or thread | async call, await, destroy | the stub drops the handle, so no task is ever awaited | every await returns its result |
| Reference counting, sync objects | `blang_runtime.c`, `CGRuntime.cpp`, `CGStruct.cpp` | counts, mutexes | retain, release, lock | every gen function decides by the form of its operands who owns a reference | counts equal owners |
| Strings, arrays, buffers | `runtime/blang_{string,array,buffer}.c` | counted heap values | create, push, slice, ... | capacity arithmetic, aliasing | equal to the mathematical value |
| TCP, HTTP, files | `blang_net.c`, `blang_fs.c`, `net.b` | descriptors | read, write_all, sendfile | partial writes | all bytes once |
| JSON | `blang_json.c`, `lsp/Json.cpp` | parse position | parse, print | nesting, escapes | print and parse are inverse |
| Database, migration | `blang_db.c`, `SQLGen.cpp`, `SchemaMigration.cpp` | connections, results, migration plan | open, exec, step, plan | partial failure of a plan | schema reaches the target |
| Lexer, parser | `FileLexer.cpp`, `Q*.cpp` | token list, cursor, kept body positions, scopes | next token, split `>>`, take back, defer a body, recover | the list is rewritten under kept positions; nested recoveries | terminates; bodies and declarations are those of the source |
| Semantic analysis | `Sema.cpp` | annotations, scopes, moved set | annotate, check types, moves, spawn captures, exports | its verdicts are derived again by the generator and the emitter | annotations are true; no rule is blind below some form; nothing correct is rejected |
| Resolution, front end | `Resolver.cpp`, `qcc.cpp` | modules, injected symbols | import, resolve, inject | interfaces are read in order | a consumer sees what the library was compiled with |
| Code generation | `CG*.cpp`, `CodeGen.cpp` | scope stacks, temporary lists, moved set, type substitution | one gen function per node | one static walk, many run-time paths | every path releases each reference once; nothing analysed is dropped |
| `.bmod` emitter | `BmodEmitter.cpp` | the text of the interface, the key of consumers | emit | must agree with the export rules and with the reader | what is emitted can be read; private edits do not show |
| Diagnostics, project file | `DiagnosticEngine.cpp`, `ProjectConfig.cpp` | - | - | - | - |
| Language server | `lsp/`, `LocationDumper.cpp` | open documents | open, change, close, query | its walk of the tree is one more copy | finds whatever is compiled |
| Test runner | `blang_testrunner.c` | counters | run | - | - |

Interaction: compiled programs call the runtime; the code generator decides which
calls (for instance whether `main` ends with `__blang_runtime_shutdown`);
`stdlib/net.b` runs the selector on a spawned thread and a program's handlers on
that thread; channels cross threads and are freed by the shutdown of the spawn
runtime; `bcc` runs `qcc` once per project and links what the cache hands it; the
text of a library's `.bmod` is both what its consumers parse and part of their
cache keys.

The hazards are listed, each at its line, in `PROJECT.json`.

## 2. Modules

| Module | Models | Composes |
|---|---|---|
| `ChanFIFO` | what a channel promises: one FIFO queue, atomic operations | - |
| `Channel` | the ring, mutex and condition variables | implements `ChanFIFO` |
| `SpawnRuntime` | tasks, handles, waits, shutdown; a channel is present as a thing to be freed | |
| `EventLoop` | the global loop with its timers | |
| `Selector` | the selector thread, peers, and main | |
| `Build` | `buildProject`, cache, git checkouts | |
| `Parser` | token list, deferred bodies, backtracking, error recovery | |
| `Passes` | the six walks of the syntax tree | |
| `Types` | the type of an expression: real, annotated, derived by the generator | |
| `Interface` | export rules, `.bmod` emitter and its reader | |
| `Arc` | reference counts as the generated code changes them, straight-line | |
| `Flow` | scope stacks and temporaries along branches, loops and exits | |
| `MC...` | instances for TLC | |
| `ChannelProofs`, `SpawnProofs`, `EventLoopProofs`, `SelectorProofs`, `BuildProofs`, `FrontProofs`, `SemaProofs`, `FlowProofs` | theorems about `Channel`, `SpawnRuntime`, `EventLoop`, `Selector`, `Build`, `Parser` and `Interface`, `Passes` and `Types`, `Flow` | |

### Channel
`buffer head tail count closed` are the fields of `BlangChan`. A step is a
critical section of `ch->mutex`: a call either finishes or goes to sleep
(`pc[t]` is then the name of the condition variable). `Signal` moves at most one
sleeper back to the test of its `while`; the thread that gets there first wins,
so stealing is in the model, and so are spurious wake-ups. `FIFO` maps the ring
to the sequence `Contents(buffer, head, count)` and a sleeper to its call.

### SpawnRuntime
Steps are the critical sections of `g_tracker.mutex` and of a task's mutex and,
where no lock is taken, single accesses: `__blang_spawn_task_destroy` is
`DestroySearch`, `DestroyClear`, `DestroyFree`. `block` numbers the allocations
of the handle table, so a store through a pointer read before a `realloc` is
visible as a fault. `faults` collects every touch of something freed. The
constant `Programs` says what the program does: who spawns, who calls
`wait_all`, how large the table is, and whether `main` ends with a shutdown.

### EventLoop
`entries` is `sel->entries[1..]` with the `revents` of `sel->fds`. A *source* is
one call of `timer.every` or `timer.after`; the runtime knows only its
descriptor, the lowest free number, and remembers it in `timerFds` and
`oneshotFds`. A dispatch drains the timer (`Drain` is disabled where `read`
would block), runs the handler, which makes at most one runtime call, and notes
a one-shot for the sweep. `Cancel` and the sweep go by number, as the code does:
they may meet a descriptor that is closed already (fault `again`) or another
source's by now (`other`). `lateCancel` says whether the program cancels sources that are over,
or a one-shot in its own handler; `creates` when it makes timers.

### Selector
`arr` holds the two parallel arrays slot by slot, beyond `count` too, because the
code reads slots after they have been shifted away. One iteration of the
dispatch loop is two steps, the readable half (`Accept`, `HandleData`,
`HandleEof`) and the dead half (`DropDead`). `held[c]` counts the selector's
references on a lambda context. Handlers are those of `examples/chat` (remove,
then close) and of `demos/11_echo_server.b` (just close).

### Build
`stack` holds the active calls of `buildProject`; `building` is its circularity
set. A cache key is the nested value that `computeKey` hashes (SHA-256 is taken
to be injective on it). A file is the set of source versions it was compiled from
and whether it is whole. `store` is three steps, so a kill (or a failing copy, whose
result the code ignores) can leave any prefix of it. `copyFile` looks at the stream
before its last flush and `operator<<` fails only where nothing was inserted: a copy
that a full disk cuts short may count as done (`StoreArchiveShort`), and the interface
is then stored beside it. A git fetch is clone into `dir.part`, then rename. The
dependency lists are well formed: every dependency has a path, or a url with a pin.

### Parser
`list` is `mSymbolList` and `pos` is `mCurrentPos`. The lexer's lazy scanning is
not visible to the parser, so the list is complete from the start. `stack` holds
the parse functions that are active; `Throw` is a C++ exception: it unwinds to the
innermost `Block::Parse`, or to the module, and restores the position where a
statement was tried and taken back. Tokens keep their number in the source, so
the properties can say which brace a kept position really points at. A function may end
in `;` instead of a body (`Bodyless`). A source is
put together from declarations of `MCParser!MCPieces`.

### Passes
The children of every node kind are read off the fields of `Expression.h`
(`...Slots`), the branches of each walk off its `dynamic_cast` chain (`Sema...`,
`Gen...`, `Capture...`, `SpawnRef`, `Locate...`, `Dump...`). A step goes from a node
to a child and keeps the walks that follow; a behaviour is a path from a `root` to a
variable. `Reach` says which walks start at a root: Sema has no branch for test blocks
and skips the modules that come from interface files, whose generic bodies the generator
instantiates. The spawn rule starts afresh at every spawn Sema visits, the capture
walk at the outermost lambda.

### Types
Operands carry their real type, Sema's annotation and what the generator would
derive from the form of the node; each action is one `visitExpr` branch together
with the generator functions that look at the same node. `Box<T>` is generated
with `T` bound to `string`. Programs are well typed, and followed until one is
rejected or miscompiled.

### Interface
The state is the library's source, one declaration at a time; an `Edit` changes
what one declaration mentions. `Accepted` is Sema's verdict, `Emit` the interface
file: a set of items, each with the place the emitter's loops give it (section,
struct or declaration, part of the struct, member), which `Precedes` orders.
`Reads` says whether the consumer's parser gets through it from top to bottom. The
properties say in terms of the library alone what should cross.

### Arc and Flow
`Arc` has one action per gen function that touches counted values. It follows the
heap that the generated code produces: counts, children, the slots of open
blocks, the lists of temporaries. A value carries the form of expression it came
from, because that is what the generator looks at. `broken` is set by the forms
after which the counts are wrong, and the invariant states that they are exactly
those. `Flow` leaves the values out and has the control flow instead: the
generator's static state is followed together with one path through the code it
emits. A match of `Flow` has blocks for arms, which makes it a statement: all that is
pending when it branches was made by its subject. On an enum the strings among it are
released first and a temporary enum gets a slot of the enclosing block (`GenMatchEnum`); on a
string or an integer nothing is released (`GenMatchValue`).

## 3. Runs

| Run | Instance | Shows |
|---|---|---|
| `channel` | 3 threads, 2 values, capacity 2 (25 304 states) | FIFO refinement, no lost wake-up, close releases everyone |
| `spawn` | 3 tasks, 1 channel (86 738) | no use after free, all freed at exit, waits exact and live |
| `event_loop` | 3 timers, 2 places in the loop (193 273) | entries in step, nothing of another source closed, no blocking drain, one-shots once, run returns |
| `selector` | 3 connections, 4 slots (250 846) | contexts balanced, the loop never blocks, join returns |
| `build` | 4 projects, 4 graphs, 2 edits, 2 kills, full disks (419 738) | order of the closure, current archives, whole unless cut short unnoticed, fetches, termination |
| `parser` | 3 declarations out of 18 (143 774) | kept positions, declarations found, bodies whole, the parse ends |
| `passes` | 2 nested functions on a path from 4 roots (90 938) | captures and the spawn rule see all but the named forms and roots; so is what is generated analysed and located |
| `types` | 2 operands, types of 3 names (776 013) | annotations true, nothing mistaken, knowledge used, calls kept, no false rejection |
| `interface` | 3 declarations and edits (557 408) | interfaces read, signatures kept, edits stay inside |
| `arc` | 2 objects, 2 scopes, 2 operands (1 272 406) | counts equal owners, except after the named forms |
| `flow` | 4 open constructs, 3 slots and temporaries (2 029 300) | nothing lost, nothing twice, nothing before it is stored |
| `build_diamond` | two diamonds, no edits | **violation**: a false circular dependency on a cache hit |

The compiler's properties have the form *holds, except for these forms*: the
exception list is part of what is checked. Where it is an equivalence (`CountsExact`,
`CaptureComplete`, `SpawnRuleSeesAll`, `GeneratedIsAnalysed`, `MethodCallsKept`,
`InterfaceReads`, `SignaturesKept`) a repair of the code makes the property fail
until the exception is taken out. The runtime's properties are checked on the programs called `SoundPrograms`, where
they are expected to hold.

**Known defects.** Besides `build_diamond`, seven runtime defects are reproduced by giving
`Programs` another value in the configuration of the run:
`MCSelector!ResetAndRemove` (`ContextsBalanced`: a handler removes a socket that the
peer has reset, and the dead-descriptor branch removes and releases again, although
`blang_net.c:533` says the walk allows removal), `MCSelector!EarlyShutdown`
(`JoinReturns`: a shutdown before the loop starts is lost),
`MCEventLoop!LateEveryPrograms` (`RepeatingStays`: a repeating timer inherits the
descriptor number of a dead one-shot and is dropped),
`MCEventLoop!CancellingPrograms` (`DrainNeverBlocks`),
`MCEventLoop!LateCancelPrograms` (`EntriesInStep`, `DrainNeverBlocks`: a cancel of a
timer that has fired or was cancelled removes and closes whatever has its number by
now, `blang_net.c:804-806`, which may be a socket or a file too; and `SweptHaveFired`:
a one-shot cancels itself in its handler, another handler of the pass makes a
timer that gets the number, and the sweep removes and closes that one, `:602`, although
`blang_net.c:528-529` says that going by descriptor is what protects it),
`MCSpawnRuntime!GrowingPrograms` (`NoUseAfterFree`: the handle table moves under an
unlocked search), and `MCSpawnRuntime!HelperAfterMain` (`SpawnedWorkCompletes`: `main`
compiled before the function that spawns ends without a shutdown). Two more are written
into properties of passing runs. A one-shot that its own handler cancels is closed twice
(`blang_net.c:806` and `:602`), which is harmless only as long as nobody has got the number
(`EntriesInStep`). An archive that a full disk cuts short is stored with its
interface, and every later build links it until `bcc clean` (`ServedWhole`,
`LinksCurrent`: `Copied` instead of `Whole`). The compiler's are the exceptions in the
properties:

* `Arc`: `b = a` releases the old value of `b` and does not retain a variable (or a
  field that was not tracked) on the right; an own Array declared from an own Array is retained and moved; the results of array
  `+`, array literals, pipelines, indirect calls and buffer slices are owned by nobody.
* `Flow`: `break` and `continue` release nothing; a move in one branch leaks on the
  other; an own parameter is released by an explicit `return` only; a nested
  function's generation forgets the moves of the enclosing one; `?` in an
  initialiser releases the slot that is being declared; what the subject of a match on a
  string or an integer leaves pending is released by the first statement of the first arm
  (by each iteration, if that is a loop) and lost on the other arms, and so is what is
  not a string at every `if`, `while` and match on an enum.
* `Passes`: a variable used only in a constructor argument, an expression arm or a table
  expression is not captured by a lambda; the spawn rule is blind below fourteen kinds
  of node. Test blocks and imported generic bodies are generated without
  semantic analysis, the spawn rule included; the latter cannot be located either.
* `Types`: `T` of another declaration is taken for the enclosing struct's; a method
  called on the result of a method, an element, a literal or a match is dropped in
  silence; `+` on a `var` without annotation is rejected.
* `Interface`: function types and `cstring` make an interface unreadable; a return type
  declared further down becomes void; `own` and `static` are lost.
* `Parser`: recovery swallows a declaration that follows the offending token at once,
  turns the members after a wrong impl member into functions, and takes the brace of
  a match for that of the block when an arm is wrong.

**Bounds.** Channel: with capacity 2 the ring is empty, partial, full and wraps;
three threads are a sleeper, the thread that is signalled and the one that overtakes it. Spawn:
three tasks give a task that spawns a task that spawns; capacity 1 makes the
table grow twice, capacity 3 never. Event loop: three timers and two places
reach a full loop, a reused descriptor and two timers ready at once. Selector:
three connections and four slots reach a full array and entries above and below
the one removed. Build: two edits change a leaf and change it back, which is what a
stale hit needs; two kills interrupt a store and its repair; `MaxDepth` is above any
depth that distinct projects can reach. Parser: three declarations are one that
fails, one that is skipped to and one whose position has moved. Passes: two nested
functions are a lambda in a spawn and a spawn in a lambda; node kinds are not
bounded. Types: three names are `Array<Box<string>>`, the deepest type of which the
generator looks at a part. Interface: three declarations are a type, a member and
something that names one of them; a library that Sema rejects is not extended, and
`InOrder` leaves out third declarations that have nothing to do with the others and one
of two orders that cannot be told apart (the theorems do without any of it). Arc: two
objects are a container and its child, or an old and a new value; two scopes an inner
and an outer block. Flow: four open constructs are a loop with a branch in it below
the two frames of a function, or a nested function with a block.

**Fairness.** A thread inside a runtime call is scheduled and gets the mutex
(`WF` of its step): no runtime function holds a lock while it sleeps. Spawned
bodies are assumed to end where waits are shown to return. Timers expire. Peers,
users and programs owe nothing: they may never send, never call, never edit. The
commands `bcc` waits for end. The parser is one thread that runs until it is
done (`WF` of `Next`). `CHECK_DEADLOCK FALSE` is used for the selector, where a
server whose peers are silent rests in `poll`, for the parser, which stops when it
is done, and for the runs of the compiler's other modules, where a program is
followed to the bound or to its first defect.

## 4. Proofs

Eight modules hold theorems, each about one or two components, for every value of
their constants: any number of threads, tasks, timers, connections and projects, sources of
any length, any depth of nesting. They rest on the named assumption of the component's
module (finite sets, natural bounds, distinct markers) and on what is said below about
the program. Every invariant was checked by TLC on the instance of its run before it
was proved, and has the same shape: `InvInit`, one `Step...` lemma per action,
`InvNext`, and the properties as consequences.

| Theorem | States | For |
|---|---|---|
| `TypeCorrect`, `WakeupsKept`, `ImplementsFIFO` | `TypeOK`, `NoLostWakeup`, `RefinesFIFO` of `Channel` | all programs |
| `SpawnTypes`, `WaitsBlock` | `TypeOK`, `WaitsForWork` (an action property) of `SpawnRuntime` | all programs |
| `NoDangling`, `AllFreed` | `NoUseAfterFree`, `ShutdownFreesAll` | `SoundProgram` |
| `InStep`, `NoBlocking`, `Stays` | `EntriesInStep`, `DrainNeverBlocks`, `RepeatingStays` of `EventLoop` | `Careful` |
| `Once` | `OneShotOnce` | `Careful`, `MaxSources <= MaxTimerFds` |
| `Balanced`, `NeverBlocks` | `ContextsBalanced`, `LoopNeverBlocks` of `Selector` | `OneRemover`, `NoReuse` |
| `Fetched`, `Closures`, `Served`, `Links` | `FetchedWhole`, `ClosureInOrder`, `ServedWhole`, `LinksCurrent` of `Build` | all graphs, edits, kills |
| `Placed` | `BodiesInPlace` of `Parser` | all sources |
| `InterfaceAlwaysReads`, `SignaturesAlwaysKept`, `EditsAlwaysStayInside` | `InterfaceReads`, `SignaturesKept`, `EditsStayInside` (an action property) of `Interface` | all libraries over the names of the module |
| `Captured`, `Seen`, `Analysed` | `CaptureComplete`, `SpawnRuleSeesAll`, `GeneratedIsAnalysed` of `Passes` | all paths |
| `AnnotationsAlwaysSound`, `GeneratorNeverMistaken`, `AnnotationsAreUsed`, `ResolvedCallsKept`, `WellTypedAccepted` | `AnnotationsSound`, `NeverMistaken`, `KnownIsUsed`, `MethodCallsKept`, `NoFalseRejection` of `Types` | all types and expressions over the two structs |
| `Kept`, `Single`, `Stored` | `NothingLost`, `ReleasedOnce`, `Dominated` of `Flow` | all functions, up to the first form outside the discipline |

**Which programs.** The conditions on `Programs` are the ones that separate the programs
for which the runtime is right from those of section 3 for which TLC finds a
counterexample; the instances of the runs satisfy them.

* `SoundProgram`: `main` ends with a shutdown, and either one thread spawns and waits
  or the handle table has room for all tasks (`__blang_spawn_task_destroy` edits it
  without the lock).
* `Careful`: handlers cancel their own source only. Either no one-shot cancels itself,
  nothing is cancelled once it is over, and no repeating timer is made after a one-shot is
  gone; or sources are cancelled at any time, late and one-shots in their own handler
  too, and all timers are made before any is gone (`lateCancel`). Outside of it are the
  programs of the three event-loop defects above. That the one-shots fit `MAX_TIMER_FDS`
  matters for `Once` only: one that does not fit is taken for a repeating timer.
* `OneRemover`: an entry is removed by the handler (then peers do not reset) or by the
  loop (then handlers just close). `NoReuse`: the handler that closes a socket also
  removes its entry, or there is one connection, so that no number is reused under an
  entry that is still there.

**Along which argument.**

* *Channel.* `TypeOK` is inductive. `NoLostWakeup` counts: if a receiver sleeps, there are
  at most as many elements as receivers awake at their test, and the same for senders
  and free slots; a `Put` adds an element and wakes a receiver, a `Take` removes both.
  The refinement needs that `tail` is `count` places after `head` (`RingInv`).
* *SpawnRuntime.* `Counted` says `inFlight` is the number of tasks whose thread has not
  left, which is what makes the waits exact; `Hands` that a task has one owner or one
  destroyer. A sound program adds that every live handle is in the table once or with
  the thread that is about to free it (`Reachable`, `Entries`), that an entry found by
  `DestroySearch` is still where it was found (`Entries`, from `Room`: the table has not
  moved), and what the shutdown has done at each stage (`Stages`).
* *EventLoop.* The next source is greater than every descriptor in use, so a free one
  exists (`Unused`); entries have distinct open sources (`Listed`); only descriptors of
  one-shots are taken for one-shots (`Told`), and this is where a late repeating timer
  would break in; what the loop has not dispatched yet is still as `poll` reported it
  (`Ahead`) because a handler takes out only what is at or behind the index. Where
  sources are cancelled late no two ever had the same number (`Apart`), so a second close
  finds nothing, and a one-shot that waits for the sweep may be out of the loop (`Noted`).
* *Selector.* The index stays inside the array through every shift (`Walk`), each
  connection is accepted and registered once (`Accepted`, `Once`), and in programs
  whose handlers remove entries the loop finds none to drop (`HandlersRemove`).
  `NeverBlocks` adds that what `poll` reported below the index still holds (`StillReady`).
* *Build.* An entry with an interface comes from a build that found that key, so its
  archive was copied to its end or cut short unnoticed, and is from the sources the key
  names (`CacheInv`); a frame that stores
  replaces no entry that lookup would serve (`TopInv`), so a kill cannot damage one;
  closures are sets of dependencies in order, kept so by `mergeDep` (`GoodFrame`). A key
  determines the sources (`KeyDetermines`): the projects that a key covers under two
  states of the sources have the same version in both, and with each its dependencies.
* *Parser.* All kept positions are below the cursor and below every place a parse may be
  taken back to, in the order of the source; so no split can move one of them.
* *Interface.* The invariant (`LibInv`) is what the parser guarantees of a library: what a
  declaration of each kind may be (`DeclOK`), no name and no member twice, a struct for
  every member and a protocol with the same types for every conformance. From it,
  `EmitIs` says what the file holds (the item of each declaration that is shown and the
  records), `PrecedesIs` that places are ordered as `Above` says, `KnownIs` that the names
  known at an item are those that resolve, `OutcomeIs` what becomes of an item, and
  `RecordIs` that a record finds its protocol and its method. A record can only differ
  one way because the protocol comes first: what resolves there resolves below
  (`ProtocolFirst`). For an edit, the same facts before and after the step (`View`) are
  compared item by item. The names are those of the module (two structs, an enum, a
  protocol, two functions, five members per struct): libraries of up to sixteen
  declarations, in every order, where the run has three.
* *Passes.* Each walk was started at the root (or, the capture walk and the spawn rule, at
  a lambda or a spawn), and is on the path or has left it at one of the forms it stops at
  (`Accounted`, `Where`): one lemma per walk and group of node kinds.
* *Types.* A type is a row of generic names that ends in a simple one, and `Box` is of
  `string` (`GoodType`). An annotation has one of eight shapes (`AnnIs`): none, the whole
  type, its bare name, `Array<T>`, `T`, `var`, `self`, `bool`. The generator looks at the form of
  a node first, so the invariant says form by form what it may hold: the declared type
  of a variable is its annotation, the derived type of a field is the real one or ends
  in a `T` that is not bound (`FieldIs`, `DerivedIs`), and no other form than a receiver is
  annotated with a struct (`FormIs`). One `New...` lemma per form shows that a node built
  over such operands is such an operand; any two annotations of one type are
  compatible (`Compatible`). The two structs are those of the module: other field
  and method types would be other constants of the same argument.
* *Flow.* A frame is *lit* when the path is in it or will come back to it: it took the
  other branch, did not enter the loop, is in the outer function, or a jump goes there.
  In every lit frame each slot is what its release takes it for (`SlotsOK`), except the
  one being declared; temporaries belong to this function and are on the path exactly
  if the point is (`Temporaries`); the moves a branch keeps are those below its frame
  (`FrameOK`). Opening and closing a construct never lights a frame (`LitPush`,
  `LitPop`), which is the heart of the argument: `Push` and `PopKeeps` then serve all
  constructs, and the faults of a release are shown empty once (`NoScopeFault`,
  `NoFlushFault`).

Facts that need an induction (`Without` of `Flow`, `FlattenSeq` of `Parser`, the fold of
`mergeDep` in `Build`, the lowest free descriptor of `EventLoop` and `Selector`) are proved
by least counterexample: `LeastNat` gives the smallest number at which a claim fails, and
the definition is unfolded there.
Some definitions have a form chosen for the provers: the guard of `HandleEof` in
`Selector`, `Without` in `Flow`, a recursive function that keeps the elements whose kind
is not in a set, and the interface file as a set of items with places.

**Only model-checked.**

* Everything that needs fairness: `CloseReleases`, `WaitsReturn`, `RunReturns`, `JoinReturns`,
  `BuildEnds`, `ParseEnds`. Liveness is outside the prover's reach.
* `DeclarationsFound` and `BodiesWhole` of `Parser`: they say which declarations come out of a
  source that may be wrong, and the argument would go over the shapes of the pieces,
  which the theorems leave open.
* `Arc`. `CountsExact` compares a count with the number of owners after releases that
  cascade through children, and `broken` with the forms that cause it, over a finite
  table of forms that the run goes through completely; only the number of objects would
  be gained by a proof.

## 5. Plan

1. Prove more: `CountsExact` of `Arc` (an invariant that counts owners per object) and the
   safety half of `DeclarationsFound`.
2. Extend the model: `Build` with two builders; `EventLoop` with socket sources and
   contexts; atomic counts of shared values across spawned threads; the moves of
   Sema against those of the generator as a refinement; origins of re-exported types.

## 6. Not modelled

* Bytes, text and layout: scanning of characters, the grammar of expressions, LLVM
  types and arithmetic, JSON, SQL text, what is sent over sockets. String, array and
  buffer algorithms are loops over bytes with bounds checks and no further state.
* Async tasks. `CodeGen.cpp:726-733` returns null or zero instead of the task, so
  `__blang_await` is only ever called with `NULL`: there is no reachable behaviour
  between an async call and its await.
* Failure of `pthread_create`, `malloc` (the runtime exits) and `poll`. Torn
  interleavings inside an unlocked registration on the selector. Two builds at the
  same time, and edits during a build.
* Matches whose arms are expressions, in `Flow`: they stand in the middle of a statement,
  and the temporaries of the rest of it are not those of their subject. `Arc` has them
  straight-line, `Passes` and `Types` as nodes.
* Loops are followed by `Flow` for their cleanup, not for their values; `Arc` is
  straight-line. Cycles of references, which counting never frees, are not built.
* Type invariants of `SpawnRuntime`, `EventLoop`, `Selector` and `Build` are stated in
  the modules and not part of the runs. Those of `SpawnRuntime` and `Selector` are part of
  the invariants proved; the compiler modules are functional enough that a wrong type
  stops TLC.
* The components marked `not_modelled` in `PROJECT.json`.
