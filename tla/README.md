# Verification of pmjs

pmjs runs RPG Maker MV and MZ games natively: the game's JavaScript runs in Node,
the browser it expects is provided by JavaScript adapters (`src/js`), and drawing,
audio, images and the overlay of game files by a C++ addon (`src/src`). A
supervisor process prepares a game, forks a worker per session and watches its
memory (`src/runner`).

This directory holds TLA+ models of the parts of pmjs whose correctness depends on
the order of events, their TLC runs, and TLAPS proofs about each of them: the task
dispatcher, on which everything the game does in time is built, the frame loop, the
timers, the writable game filesystem, the supervisor, requests, images, audio streams,
saves, localStorage and the cache of prepared assets. `PROJECT.json` relates every definition to the source lines it models.

- [Inventory](#inventory) – the parts of the system
- [Hazards](#hazards) – what the properties are for
- [Modules](#modules) – which module models what, and how
- [Runs](#runs) – what is checked, with which bounds
- [Fairness](#fairness)
- [Proofs](#proofs)
- [What is not modelled](#what-is-not-modelled)
- [Observations](#observations)
- [Plan](#plan)

To repeat the work: `tlc -config MCTimers.cfg MCTimers.tla` for a run, and
`tlapm M.tla` for the proofs, with `M` one of the modules `*Proofs` below.

## Inventory

### Modelled

**Task dispatcher** (`js/pmjs-web/scheduler.js`). All callbacks of the game, of the
host and of the frame go through one dispatcher. *State*: an array of entries with
a head index, the continuations of the frame being rendered, whether a host
immediate is scheduled, whether a frame waits or is rendering, the number of tasks
a waiting frame has let pass, the awaiters of `idle()`, and `stopped`.
*Operations*: `enqueue`, `invoke`, `invokeRendering`, `runFrame`, `idle`, `stop`,
and `step()`, which the host immediate calls. *Hard*: `step()` runs a callback that
calls back into the dispatcher (also to stop it) and tidies the array afterwards;
`wake()` is the only source of host turns; the frame interleaves with host events
while it awaits. *Correct when* no entry is lost or run twice, no wakeup is lost,
the array does not grow for ever, and tasks and continuations are each run in order
and never in the other's time.

**Timers** (same file). *State*: the map of timers, one host timeout, the tasks of
timers that are due. *Operations*: add, clear, the host timeout, the timer's task.
*Hard*: one host timeout stands for all timers; a timer may be cleared while its
task waits or its callback runs; intervals run late. *Correct when* the host timeout
always waits for the earliest deadline, tasks wait by deadline, intervals keep their
phase, and every timer fires.

**Frame loop** (`js/pmjs-rpgmaker/main-loop.js`, `runner/index.cjs`). `tick()` asks
the dispatcher for a frame and schedules the next tick when it completes; the frame
is a chain of promises (services, then the animation callbacks one by one, then
drawing). *Hard*: each link may fail, be cancelled or be dropped by a stop. *Correct
when* frames do not overlap, always complete, leave no continuation behind, and
starve nothing.

**Writable game filesystem** (`runner/storage.cjs`, `src/vfs.cpp`). A read-only game
tree, and on disk a tree of files that shadow it, markers that hide what was
deleted, and the journal of a rename. The process reads through an index of both.
*Operations*: write, exclusive create, mkdir, unlink, rmdir, recursive removal,
rename, recovery of a rename, mount. *Hard*: a mutation consists of many filesystem
calls, each of which may fail or be the last before the process dies. *Correct when*
the game sees one tree that changes as its operations say, whatever fails.

**Supervisor and worker** (`runner/supervisor.cjs`, `runner/session.cjs`). *State*:
the loop of sessions, the signal that arrived, the diagnostics of the worker (one
request for a snapshot that waits, one that is awaited, one that timed out, the
memory captured for the last two) and the IPC channel in both directions. *Hard*:
two processes, signals at any time, time-outs racing late answers, a worker that
dies. *Correct when* a signal ends everything, answers are attributed to their
request, a critical request is not displaced, and a suspended channel opens again.

**Audio streams** (`src/media_service.cpp`, `media_mix.hpp`). *State* of a voice,
under its lock: the buffer of decoded samples, position and phase of the callback, the
frame the worker is at, a generation, a requested seek, flags for playing, suspended,
end of file, loop and fade. *Operations*: play, stop, fade, suspend and pitch from the
game; fill from the worker; mix from the device callback. *Hard*: the worker decodes
without the lock, and times are cut to a frame in one place, rounded to one in another
and compared with a duration in microseconds in a third. *Correct when* what is heard is
the source in order from the offset that was asked for, the position reported is within a
frame of what comes next, and a voice that plays ends or goes on.

**XMLHttpRequest** (`js/pmjs-web/requests.js`, `events.js`). *State*: readyState, the
response, whether it was sent, the generation, and a chain of promises per
asynchronous send. *Operations*: open, send, abort, each of which calls handlers that
may call them again. *Correct when* a handler is told the events of one exchange in
their order, never sees the response of another, and hears how a request ended, also when
its file cannot be read.

**Images** (`js/pmjs-web/image-element.js`, `src/node_addon_resources.cpp`,
`src/resources.cpp`). *State*: the generation and the image of an element, one job per
file that is being decoded with its callers, the slots of the store with references,
uses in flight and CPU pixels, the index by file. *Operations*: assigning `src`, the
job on a thread and its completion, synchronous loads, release, use by a frame, the
store's update. *Correct when* each reference has one owner and each owner a live slot,
pixels that were asked for come with the image, and every assignment ends.

**Save slots** (`js/pmjs-mv/storage.js`, `patches/isat`, `runner/storage.cjs`). *State*:
save, backup and deletion marker of a slot on disk; the storage generation, the reads
of one turn and the last save of the kept progress in memory. *Operations*: save with
backup and rescue, restore, remove, load, exists. *Hard*: each is several file steps.
*Correct when* a slot holds what it held before a call or what the call asked for,
whatever fails and wherever the process ends, and a read is not stale.

**localStorage** (`js/pmjs-web/storage.js`). A current and a legacy file per key; get,
set, remove, clear. *Correct when* a call cut short leaves the old value or the new.

**Preparation state** (`runner/preparation-state.cjs`, `-lifetime.cjs`,
`-catalog.cjs`). *State* on disk, shared by processes: output directories, the state
that names them, a catalog for a fast start, invalidation markers, leases; in the
kernel, a lock; in a process, its session and what its game uses. *Operations*: start
from the catalog, open, apply markers, reuse, generate, reject, checkpoint, finish with
lease and pruning, save the catalog, report a broken output, exit, crash. *Correct
when* nothing that a session or the catalog gave a game, or would give a later start, is
removed, a report is never forgotten, and what nobody needs goes.

How these interact: the supervisor forks the worker; the worker prepares its assets,
mounts the filesystem and starts the frame loop; the frame loop and the timers submit
to the dispatcher; host events (input, requests, images) submit to the dispatcher
through `enqueue` and `invoke`; the game's reads and writes of files and saves are
synchronous calls from a callback the dispatcher runs; sounds run on threads of their
own behind one lock per voice. A game that asks for a reload ends the frame loop, then
the session, and the supervisor forks the next worker.

### Not modelled yet

| Component | State and operations | What makes it correct |
| --- | --- | --- |
| Save storage (`createStorage`) beyond what the modules above use | append, exclusive creation, read streams | a reader sees the old or the new file |
| Prepared sounds and their cache (`src/media_service.cpp`) | decoded assets, least recently used first, a byte count | the cache keeps its limit |
| Native audio of the guest (`js/*/audio.js`) | Web Audio nodes over voices | as the audio streams |
| Video, fonts, scripts | the generation protocol of images | as images |
| Preparation phases | conversion of assets | data transformation |
| Subprocesses (`runner/subprocess.cjs`) | stdin boundary, SIGTERM then SIGKILL | a child never outlives its owner |
| Memory reclamation (`runner/memory-reclamation.cjs`) | samples, boundaries, a collection in flight | one collection at a time, and one when needed |
| Settings, CLI | one asynchronous save | last settings win |
| Diagnostics, logging | measurements | formatting |
| Renderer, canvas, text, decoders, platform, PIXI adapters, achievements, plugins | pixels, codecs, SDL and engine patches | not a matter of event order |

## Hazards

`PROJECT.json` lists each with its line. In short:

- *Dispatcher*: re-entrancy between the call of a callback and the compaction after
  it; a path that leaves work and does not wake; work that arrives while a frame
  awaits; starvation in both directions.
- *Frame loop*: a continuation nobody awaits; a failure at any link; callbacks
  registered or cancelled while a snapshot of them is drained.
- *Timers*: re-arming after each of six events; due timers batched by different host
  timeouts; the arithmetic of a late interval; a timer cleared in between.
- *Filesystem*: death or failure between any two steps, also during recovery;
  a case-only rename, which must remove the old spelling first; markers that are
  never removed; an index that re-reads only the names a mutation mentioned.
- *Supervisor*: a late answer after a time-out; a map that keeps two entries; one
  slot for a waiting request; a probe whose flag is not reset; signals during
  `prepare()` and during a reload.
- *Audio*: samples and seeks of an earlier play in the hands of a worker without the
  lock; two counts of the position, before and behind the buffer, which cut and round
  times differently; underruns, loops that end, loops that produce nothing.
- *Requests*: `open()` and `abort()` inside the handlers of the exchange they end; a read
  and its fallback that both fail.
- *Images*: an image that comes late; a caller that joins a job and wants more than it
  set out for; a slot that is dropped while it is about to be used.
- *Saves*: death or failure between save, marker, backup and index; caches keyed by a
  generation; two directories of one key.
- *Preparation*: pruning while other processes play; leases of the dead; markers that
  are applied twice; a start that skips the state, or that is rejected half way.

## Modules

| Module | Models | Extends / used by |
| --- | --- | --- |
| `DispatchQueue` | abstract: two FIFO queues that a frame keeps apart | refined by `TaskScheduler` |
| `TaskScheduler` | the dispatcher | |
| `FrameLoop` | tick, frame chain, animation callbacks | extends `TaskScheduler` |
| `Timers` | timeouts and intervals over passing time | extends `TaskScheduler` |
| `EventLoopProofs` | theorems about the dispatcher, the frame loop and the timers | extends `FrameLoop`, `Timers` |
| `LogicalTree` | abstract: the one tree a game sees | refined by `GameFilesystem` |
| `GameFilesystem` | mutations, journal, markers, index, recovery | |
| `GameFilesystemProofs` | theorems about it | extends `GameFilesystem` |
| `Supervisor` | session loop, snapshot protocol, worker | |
| `SupervisorProofs` | theorems about it | extends `Supervisor` |
| `LoopedSource` | times and frames of a source with loop points | used by the next two and by proofs |
| `Playback` | abstract: what a listener hears | refined by `MediaStream` |
| `MediaStream` | a streamed voice between game, worker and callback | |
| `Exchange` | abstract: what the handlers of a request are told | refined by `HostRequests` |
| `HostRequests` | an XMLHttpRequest and its re-entrant handlers | |
| `HostRequestsProofs` | theorems about it | extends `HostRequests` |
| `ImageLoads` | elements, decode jobs and the image store | |
| `MediaProofs` | theorems about images and audio streams | extends `ImageLoads`, `MediaStream` |
| `SavedSlots` | abstract: slots, and what a call may do to one | refined by `SaveSlots` |
| `SaveSlots` | save slots and kept progress over files | |
| `SaveSlotsProofs` | theorems about it | extends `SaveSlots` |
| `WebStorage` | localStorage over two directories | |
| `WebStorageProofs` | a theorem about it | extends `WebStorage` |
| `PreparationState` | the preparation cache and the processes that share it | |
| `PreparationStateProofs` | theorems about it | extends `PreparationState` |
| `MC*` | instances for TLC | |

**Atomicity.** JavaScript runs to completion, so the code between two awaits,
callbacks or system calls that may fail is one action. Two refinements of this
matter. In `TaskScheduler` a host turn is cut where `step()` calls the callback:
`TakeTask`, `TakeContinuation` and `StartFrame` are what comes before, `EndTask`,
`EndTaskFatally`, `FrameReturns` and `FrameThrows` what comes after, and in between
`onStack` names the callback, which may use the dispatcher's interface. The
interface is also enabled with nothing on the stack, for host events and promise
reactions. In `GameFilesystem` every filesystem call is an action, because a crash
may follow it; `pc` says which comes next.

**TaskScheduler.** Variables have the names of the code; `entry` is a history
variable with the fate of each entry. `rendering` stays set after `stop()` until the
frame's own promise settles, as in the code. A frame must start when nothing waits
or its task budget is spent, and may start once a task has run (the 4 ms budget of
the code, as a choice). Entries made by `invoke` never throw out of their callback,
others may, and then `fatal()` stops the dispatcher.

**FrameLoop.** Every action of the dispatcher is taken over with its effect on the
chain. `stage` is where the chain is, `snapshot` the ids still to submit, `link` the
continuation it awaits. Reactions of promises run before the next host turn
(`ReactionPending` disables turns). Actions that the guest could repeat without end
(enqueueing, registering) are bounded by the number of ids, which can be used again.

**Timers.** Deadlines are kept relative to the clock, so time passes for ever in a
finite space: `due` is at most `MaxDelay` ahead and at least `-MaxLate`. Frames are
present because they hold tasks back, and they may take any time.

**GameFilesystem.** A path is a sequence of one or two components. `files`,
`deleted`, `staging` and `journal` survive a crash, `index`, `changed`, `op` and `pc`
do not. Recursive removal takes one node at a time, from the leaves. The logical tree
is that of the disk as recovery would leave it (`RecoveredFiles`,
`RecoveredDeleted`), which is the refinement mapping; a rename takes effect in the
abstract at the step that writes the journal. Recovery by the next mutation is a
mutation of its own here, since in the code it is complete before the mutation
checks anything. A case-only rename is a rename of a path to itself, the paths of the
index being case-folded. `publish()` itself is assumed not to fail.

**Supervisor.** The diagnostics are one record, `monitor`, with a field per variable
of the closure in `runSupervised`. The functions that request, send, suspend and
reopen are operators from monitor to monitor that collect what they send, because
they call each other within one event. Channels are sequences: the IPC channel keeps
order and loses only what a dying worker had not written. The cooldown and the
time-out of a request may end at any time. A sample finds memory fine, low or
critical, and an OOM event or none.

**MediaStream.** Times are counted in ticks, of which a frame has `Ticks`, so there are
times between two frames: a double of the code is abstracted to the frame it lies in and
the frame it is nearest to. `play()` cuts an offset to a frame (`Truncated`), the decoder
goes to the nearest one (`Rounded`), and the callback wraps a loop without tags where the
duration, a time of its own, is cut. A sample is therefore a place: the number its frame
has in the source, so the model knows what is heard, and the number the worker counted it
as, which decides where a tagged loop ends. An action is a critical section of the voice's lock: `StartFill` takes
seek and generation, `FillDropped`, `FillAppends` and `FillFails` are what the worker
does when it has the lock again, and the callback takes it once per block, here of one
frame. Pitch is a whole number of frames per step and the phase is counted in frames; a
fractional pitch consumes the same frames at other times. `heard` and `finished` are
history variables. `Playback` says that after a play the frames heard are those of the
source, folded at its loop points, each after the one before it, until it ends or is
stopped; underruns are stutters of it. As the end of a tagged loop is found by counting,
the first pass may be one frame too long, and `Playback` says so.

**HostRequests.** `stack` is the call stack of the guest: a handler, and below it the
call that emits the events. `_emit()` tells the handler and then the listeners, and
looks at the generation after the handler and at its end, which is what `checked` and
`Valid` stand for. The chain of an asynchronous send is kept per generation, since an
old one goes on after a new one began; a step of it needs an empty stack. A read may also
end in a conversion that throws: the chain is then over ("failed"), and the request stays
sent. What is told
(`told`) and whose response can be read are the abstract state of `Exchange`.

**ImageLoads.** A request is a `src` assignment with its generation, and `requests`
says how far its load is: the task, the bytes of an object URL, the job, or the result
that waits for its task. An operator on slots (`release`, `retain`, `Settled`) is a
function of the store to the next one, because the completion of a job makes several
of its calls. `Installations` is the set of ways an installation may end: the file was
loaded meanwhile, a new slot, or none. Pixels that have to be read back from a texture may
fail to come (`retainCpuPixels`), and its callers go on without them. Which caller asked for pixels is a choice, as
is whether pages match. Eviction takes any set of unused images and idle copies: budget
and order are left out, which allows more than the code does. The specification is
named `ImagesSpec`, so that `MediaProofs` can extend it beside `MediaStream`.

**SaveSlots.** `disk` is a function from slots and kinds (save, backup, marker) to
contents. A guest call is a record that says which file step is next; each step may
fail before or after it changed the disk, and `Restart` may come after any. Reads
are one action, since nothing comes between them in a turn. The calls of the engine
(backup, restore, index) are external and modelled from how the wrapped functions and
their tests use the storage. The abstract slot `Held` is what a new process would find;
`SavedSlots` says that it moves only between what it held before the call and what the
call asks for, and that answers are true. The rescue is the one of
`patches/isat/save-recovery.js`.

**WebStorage.** One action per file step; a step may be the last. `asked` and `done`
remember what each key's last call asked for and whether it returned.

**PreparationState.** A process is off, starting, preparing or playing, or it plays
"unprepared", because no session came about; the one that holds the lock has a session and
`at` says where in it it is. `using` is what a session or the catalog gave a game, `left`
what a catalog that was rejected half way had installed already: its lease is gone, and
the installation of a later phase replaces it, if there is one. Outputs belong to
sources; a lease is the set of outputs its file names; `dead` are those of leases whose
owner crashed. Markers are sources. Actions that touch the disk are separate, so that a
crash may come between any two. `reported` and `needed` are history variables: outputs
a game reported, and what the leases of living processes named when the session made
its own.

## Runs

Times are rough, with two or four workers.

| Run | Instance | States, time | Shows |
| --- | --- | --- | --- |
| `scheduler` | two enqueued and one invoked entry, all reusable; frame limit 2, compaction after 1 slot | 4 332, 2 s | no entry lost or run twice, no lost wakeup, few consumed slots, implements `DispatchQueue` |
| `frame_loop` | one ordinary entry, two animation callbacks, the services entry; frame limit 2 | 18 436, 11 s | frames do not overlap, strand nothing, complete; ordinary work is not starved |
| `timers` | two timers, delays to 2, lateness to 3, frame limit 1 | 40 313, 28 s | the host timeout is right in every state; order, phase, firing |
| `game_filesystem` | two names at the root, one below each; the game ships a directory with a file | 244 742, 50 s | implements `LogicalTree` under failure and crash at every step; index agrees with disk; no orphaned staging |
| `supervisor_loop` | three workers, one snapshot each, one signal | 101 022, 8 s | nothing is started after a signal, which ends the supervisor |
| `memory_snapshots` | one worker, three requests | 402 904, 40 s | answers are attributed, critical causes are sent, the channel reopens |
| `media_stream` | seven sources (no loop tags and an exact duration, or one half a frame short; a loop inside the file, up to its end, behind it; a loop start only; empty), two ticks to a frame, pitch 1 and 2, three generations | 172 840, 148 s | implements `Playback`; the position is the next frame or the one before it; no voice stalls |
| `host_requests` | three generations, calls three deep | 671 448, 126 s | implements `Exchange`; no foreign response; every exchange whose contents can be converted ends |
| `image_loads` | two elements, two assignments, one file, one object URL, two slots | 65 198, 64 s | references have owners, pixels arrive unless they have to be read back, assignments end |
| `save_slots` | two slots, two contents, seven mutations of one process | 1 282 410, 78 s | implements `SavedSlots` under failure and crash at every step; reads are not stale |
| `web_storage` | two keys (one without a legacy path), three values, two cuts | 22 184, 2 s | one cut revives nothing |
| `preparation_state` | two processes, two outputs of one source | 2 313 799, 94 s | nothing needed is pruned, reports are remembered, cleanup is complete |

**Why the bounds are enough.** Each is chosen so that the case it limits happens
with room to spare. *Scheduler*: 64 slots and 64 tasks become 1 and 2. Compaction
needs more than `CompactAfter` slots consumed and an entry that waits, so three
reusable entries reach it, and also a refill, a stop and a frame inside a callback.
The code treats entries alike, so more of them only repeat this; the proofs hold for
any number. *Frame loop*: two animation callbacks are needed for one to be cancelled
or registered while the other runs; a frame budget of two lets a frame start early,
late and on time. *Timers*: two timers for order and ties; a lateness of three is
more than a period of one or two, so intervals miss one or several periods.
*Filesystem*: a directory with a child and a second one suffices for every kind of
rename (file, directory, over an empty directory, across parents, case-only), for
shadowing and for markers above and below a path. *Supervisor*: three sessions so that
a signal races the first, a middle and the last one; three requests so that one times
out, a second replaces it and a third waits, which also overflows the map of two.
*Audio*: a buffer of three frames and decodes of two make it full, empty and holding a
single frame; sources of up to three frames wrap and end within it. With two ticks to a
frame a time lies on a frame or half way between two, where cutting and rounding part; the
proofs hold for any number of ticks. Three generations:
one in the worker's hands, one that replaced it, one more. *Requests*: three calls deep
is a handler of a handler's call; the second generation overtakes the first, the third
both. *Images*: two assignments on two elements share a job, on one overtake each other;
two slots are full when a file and an object URL are shown. A run without liveness over
three assignments (1.46 million states) found nothing either. *Saves*: the longest call
makes five mutations, so seven hold a whole call and a part of another. *localStorage*:
old, current and new value; with two cuts an older value does come back, so the bound is
tight. *Preparation*: one process that prunes and one that plays what the first must retain.
The leases of the dead are a set of their own, so that a process which crashed is free to
start again: a session, a game and a dead lease fit into two processes. Two outputs of one
source so that one replaces the other. The proofs hold for any number of each.

Deadlock is not checked where the system stops: a stopped dispatcher (also under a
request), a session that ended, a supervisor that returned; nor in `save_slots`, where
the bound on mutations ends a process that does not restart in time. The other runs
check it.

Each property was also tested against a mutation of the code it is about (dropped
guard, forgotten wake, wrong order, off by one); the mutants stand before the
definitions they alter, and `PROJECT.json` lists which property catches which.

## Fairness

- *Frame loop.* Node's event loop alternates timers and immediates, so a tick that
  is scheduled runs although `step()` reschedules itself each turn: strong fairness
  on `Tick` and on the completion handler, which is briefly disabled while callbacks
  are on the stack. Weak fairness on host turns, on the end of a callback (a callback
  that never returns hangs any JavaScript program) and on promise reactions.
- *Timers.* Time passes; the host timeout runs when due (strong, for the same
  reason); frames settle, which `FrameLoop` establishes for the frames of the host.
- *Supervisor.* Both event loops read their channel, a signal that was sent arrives,
  and a worker that completed exits. Nothing is assumed of timers or of the game: it
  need not end by itself, nor need a time-out occur. A worker that was sent SIGTERM dies of
  it: a callback of the game that hangs after SDL installed its handlers, so that the
  signal is only queued as an event, is outside this.
- *Filesystem, saves, localStorage, preparation.* No liveness is claimed: synchronous
  code, or processes that may end at any time.
- *Audio.* The worker looks at every voice each 2 ms and the device calls back as long as
  it is open: weak fairness on both. Nothing is assumed of the game, and `NeverStalls`
  is about a voice it leaves alone, playing and not suspended.
- *Requests.* Handlers return, calls go on and the dispatcher runs tasks; reads end, with
  contents, without, or with contents whose conversion throws.
- *Images.* The task of a load, its job on the thread pool and the job's completion
  happen: weak fairness on each load and on each file's job. No frame, eviction or
  further assignment is assumed.

## Proofs

TLC checks an instance; the theorems hold for every value of the constants that the
assumptions of a module admit. A module's assumptions say that its constants have the
types of the code (limits are numbers, names of different things differ), and TLC
evaluates each of them in a run. The inductive invariants were checked by TLC on small
instances before they were proved. Thirty-four theorems are listed in
`PROJECT.json`; all but one state a property that a run checks.

| Module | Proved | Left to TLC |
| --- | --- | --- |
| `TaskScheduler` | all four invariants, refinement of `DispatchQueue` | |
| `FrameLoop` | both invariants, both action properties | `FrameFinishes`, `AcceptedSettles` |
| `Timers` | both invariants, the action property | `TimersFire` |
| `GameFilesystem` | both invariants, `ReturnMeansDone`, refinement of `LogicalTree` | |
| `Supervisor` | the invariant, three action properties | `SignalEndsSupervisor`, `ChannelReopens` |
| `MediaStream` | the invariant, refinement of `Playback` | `NeverStalls` |
| `HostRequests` | the invariant, refinement of `Exchange` | `ExchangeEnds` |
| `ImageLoads` | the invariant, the action property | `LoadsArrive` |
| `SaveSlots` | the invariant, refinement of `SavedSlots` | |
| `WebStorage` | the invariant | |
| `PreparationState` | both invariants, the action property, the type invariant | |

### The dispatcher

The first part of `EventLoopProofs` proves about `Spec` of `TaskScheduler`, for every
set of entries, every `FrameLimit \in Nat \ {0}` and every `CompactAfter \in Nat`:

| Theorem | Statement |
| --- | --- |
| `TypeCorrect` | `[]TypeOK` |
| `EntriesConserved` | `[]NothingLostOrTwice`: accepted entries and the places that hold them correspond one to one |
| `WakeupsNeverLost` | `[]NoLostWakeup` |
| `ConsumedSlotsStayBounded` | `[]ConsumedSlotsBounded` |
| `DispatcherRefines` | every behaviour is one of `DispatchQueue` |

The only assumption is `SchedulerAssumption`: entries and the three marks are
distinct, and the limits are numbers.

*Argument.* `NothingLostOrTwice` speaks of places; the proofs use `Placement`, the
same fact with indices, which SMT handles better. The two queues are changed in only
nine ways (`QueueStep`: refused, pushed, pushed as a continuation, one taken from
either, emptied, spliced, dropped, unchanged). `NextIsQueueStep` shows that every
action is one of them, and one lemma per way shows that it keeps the types and
`Placement`; `QueuesKeep` combines them. Type correctness needs `Placement` (what is
taken from the array is an entry and not a consumed slot), so the two are proved
together in `TypeAndPlacement`.

The flags need more: the inductive invariant is

    IndInv == TypeOK /\ Placement /\ TurnInv
    TurnInv == Quiescent /\ BodyRenders /\ NoLostWakeup /\ CompactedOutsideTasks

where `Quiescent` says that a stopped dispatcher holds nothing and has no turn coming
(so a callback that stops the dispatcher and then ends leaves nothing to wake for),
`BodyRenders` that the frame callback is on the stack only while a frame is rendered
(so a turn cannot end with a frame body and forget what waits), and
`CompactedOutsideTasks` is the bound on consumed slots outside of callbacks, which
`TakeTask` breaks for the length of a callback and `Compact` restores.

For the refinement, the entries that wait are `SubSeq(tasks, head + 1, Len(tasks))`.
The `Pending...` lemmas say what a push, a take, a reset and a splice do to that
sequence; `StepRefines` maps each action to the abstract one or to a stutter
(`RunFrame`, `Idle`, `TakeNothing` and a refused submission change nothing abstract).

### The preparation cache

`PreparationStateProofs` proves about `Spec` of `PreparationState`, for every set of
processes, of outputs and of sources:

| Theorem | Statement |
| --- | --- |
| `TypeCorrect` | `[]TypeOK` |
| `NeededOutputsStay` | `[]NothingNeededIsPruned`: of what sessions and catalogs gave to games, and what the disk names |
| `ReportsStay` | `[]ReportsAreRemembered` |
| `CleanupsComplete` | `CleanupIsComplete` |

The assumptions are those of the module on its constants. The invariant is

    IInv == TypeOK /\ Holder /\ References /\ InSession /\ Reports /\ Cleanup

`Holder` ties the lock to the step of the session and says that its holder is not
playing; `References`, that the state, the catalog and the leases name directories that
exist, that what a game was given is in its lease, and that there is no catalog from the start
of a session until it may save one; `InSession`, what the session knows at each step
(unless it changed something, its results are those of the state; while it prunes, it
retains its results and every lease of a living process); `Reports`, that a report is in
the markers, in the failures of the state or in those of the session, and never among the
entries of a catalog unless a marker voids it; `Cleanup`, that while a session cleans up
no lease begins that it did not see, and that it retains nothing else. They need each
other: what may be pruned depends on what the session retained, which depends on what the
state and the leases named, which no other process changes except by ending. Nothing is
claimed of what a rejected catalog left installed (see Observations).

### The frame loop

The second part of `EventLoopProofs` stands on the first: `LoopStepIsStep` shows that
every step of the loop is one of `TaskScheduler`, so `IndInv` carries over, and the proofs
add
`ChainInv == LoopTypes /\ Stages /\ Awaited /\ OneFrame /\ Links`.

| Theorem | Statement |
| --- | --- |
| `OneContinuationAwaited` | `[]ContinuationAwaited` |
| `FramesNeverOverlap` | `[]NoOverlappingFrames` |
| `IdleIsQuiet` | `IdleMeansQuiet`: when `idle()` is answered no entry is accepted and no frame waits or is rendered |
| `NewCallbacksAreDeferred` | `NewCallbacksWait` |

`Stages` ties the place in the chain to the dispatcher's `rendering`; `Awaited` says that
the only continuation is the one the chain waits for, with a turn scheduled to run it
unless a callback is on the stack, whose end schedules one; `OneFrame`, that the
dispatcher has no frame when the loop has none, which is why a tick never meets the
frame before it; `Links`, that no animation callback waits in the dispatcher but the one
awaited and that nothing registered since the snapshot is in it. The last is where the
order of the animation callbacks matters: `Min` picks the least index of a name, so
`LeastElement` shows that a nonempty set of naturals has one, from the well-foundedness of
`<` in the library. The assumptions are those of the dispatcher, and that the entries of
the chain are among those made by `invoke`.

### Timers

The last part of `EventLoopProofs`, for any set of timers, delays and lateness:

| Theorem | Statement |
| --- | --- |
| `HostTimeoutIsArmed` | `[]WakeArmed` |
| `TimersFireInOrder` | `[]FireInDeadlineOrder` |
| `IntervalsKeepPhase` | `IntervalKeepsPhase` |
| `TimersKeepDispatcher` | `[](NothingLostOrTwice /\ NoLostWakeup)` of the dispatcher under timers |

Every step but the host timeout is one of `TaskScheduler` (`TimersStepIsStep`). The host
timeout submits the tasks of all due timers at once, so the dispatcher's invariant needs a
proof of its own for a batch of entries (`BatchKeeps`). On top of it stands

    MapInv == TimerTypes /\ OneTask /\ DueOrder /\ WakeArmed /\ FireInDeadlineOrder

`OneTask`: an armed timer has no task, and the timer whose callback is on the stack left
the map or waits in it with its period. `DueOrder`: timers that have a task were due, and
none that is armed is due before them; so a batch belongs behind the tasks of earlier
batches, although a frame may hold those back, and that is all `FireInDeadlineOrder`
needs. `WakeArmed` compares the host timeout with the earliest deadline, which exists
because deadlines are bounded below by the lateness (`EarliestArmed`). `IntervalsKeepPhase`
is the arithmetic of `Math.floor` in the `finally` block (`NextDuePhase`) and the fact that
no other step arms a timer again. The set of timers in the map is finite, as a map in
memory is; that of all timers need not be.

### The game filesystem

`GameFilesystemProofs` holds for any tree of paths, any contents and any game:

| Theorem | Statement |
| --- | --- |
| `IndexFollowsDisk` | `[]IndexMatchesDisk` |
| `StagingIsOwned` | `[]NoOrphanStaging` |
| `GameFilesystemImplementsTree` | `ImplementsLogicalTree`: every behaviour is one of `LogicalTree` |
| `ReturnedIsDone` | `ReturnMeansDone` |

A path is a sequence of components and every prefix of a path is a path; the read-only
game is a tree; what the game writes, an unfilled file, a directory and an absent node
differ. Nothing is assumed finite.

There are two invariants. `IInv == TypeInv /\ Control /\ Recorded /\ StagingOwned` says
where the process and its operation are (`Control`), and what of the disk the index may
not know (`Recorded`): each node in which they differ is below a name the mutation
recorded, or a directory made above one, and markers are only added to the recorded ones.
That is what makes it enough to read the recorded names again (`IdleMatches`). The
first two theorems need no more.

`FilesInv == IsTree(files) /\ Admitted /\ Journaled /\ Recovering /\ Done` is relative to
it. `Admitted` says that what an operation saw when its checks passed still holds until the
step that makes it take effect; `Journaled`, what a journal promises to a recovery that
finds it, in this process or the next; `Recovering`, how far a recovery has come; `Done`,
what an operation that does not throw has done. `T(n)`, the tree after recovery, is the
mapping. Most steps leave it as it is: the lemmas about `View` show that a marker, a
removal below a marker or a directory made above a node that was there changes nothing the
game sees. One step per operation is the step of `LogicalTree`: storing the contents,
marking the removed path, and writing the journal of a rename, whose remaining steps change
only what recovery would have changed.

### The supervisor

`SupervisorProofs` holds for any number of sessions and captures:

| Theorem | Statement |
| --- | --- |
| `AwaitedRequestsAreKnown` | `[]AwaitedRequestIsKnown` |
| `OnlyItsAnswerEndsTheWait` | `AnswersMatch` |
| `CriticalCausesAreSent` | `CriticalCauseIsSent` |
| `NoWorkerStartsAfterSignal` | `NoWorkerAfterSignal` |

One lemma for each function of the closure (`Probe`, `SendRequest`, `Reopen`, `Sample` and
the others) says what it preserves of a monitor, so a proof about an event names the
functions it calls in their order. The invariant adds to `AwaitedRequestIsKnown` that an
open channel has nothing queued, that no memory is kept of a request yet to come (hence
the newest two include the one that was just sent, by cardinality of the set of newer
ones), and what each direction of the IPC channel may carry, so that an event never meets
a message it could not have been sent.

### Requests

`HostRequestsProofs` holds for any number of generations and any depth of calls inside
one another:

| Theorem | Statement |
| --- | --- |
| `ResponseIsOwn` | `[]NoForeignResponse` |
| `TellsOneExchange` | `ToldInOrder`: what the on-handlers are told is a behaviour of `Exchange` |

The first needs types only. The second needs the whole call stack, as the invariant says:

    IInv == TypeInv /\ StackInv /\ ChainInv /\ SentInv /\ UnsentInv

`StackInv`: of the calls on the stack at most one still speaks for the current generation
(`OneLive`); what it has left is the end of its events, the on-handler was told last what
stands before that, and the response is the one these events imply (`Aborting`, `Sending`,
`Submitting`); while there is such a call the generation has no chain. An `open()` that has
told nothing is the innermost call. `ChainInv` says the same of the chain of the current
generation, at each of its steps, and that generations to come have none. `SentInv` and
`UnsentInv` say what a handler can rely on when it calls `abort()` or `send()`: a request
that was sent was told something of its progress, one that was only opened has nothing
under way. The numbers of pending events are a small finite range, so that each leaf
compares a position with the one before it. The assumption beyond the bounds is that "no
event" is not an event.

### Images

The first half of `MediaProofs` holds for any finite sets of elements and slots, any
files and any number of assignments:

| Theorem | Statement |
| --- | --- |
| `ReferencesStayOwned` | `[]ReferencesAreOwned`: a slot has as many references as owners, and every owner a live slot |
| `PixelsCome` | `PixelsComeWithTheImage`: unless an image that was in the store without them has to be read back |

    ImagesInv == StoreTypes /\ LoadTypes /\ JobsInv /\ NotYet /\ ReferencesAreOwned

The owners of a slot are the elements that show it, the requests that bring it and a
synchronous loader, so they are counted in three sets. `OwnersCount` gives their number
before a step and `OneMoves` what a step does to it that moves one owner; the sets are
finite because the constants are. Most events end or move one request (`RequestMoves`),
install or retain one slot (`InstallKeeps`, `Retained`) and release one (`ReleaseKeeps`).
The one that needs more is the completion of a job, which hands the slot to all its
callers at once: the first owns the reference with which the slot was installed, the
others are retained one by one. `JobsInv` says who they are. The callers of a job are
exactly the requests that wait for its file, so none is in two jobs, none owns anything
before, and after the step each owns one reference (`JobEnds`, `InstalledJob`). `NotYet`
says that a request an element has yet to make has not begun, so a new assignment
overwrites nothing. For the pixels, `JobsInv` also says that a job keeps them when one of
its callers asked for them, and that a job that was executed has what it set out for; an
image that was loaded meanwhile is served by the job's own pixels when both are prepared
(`FoundIsFresh`), and otherwise read back, which may fail.
The assumptions are that files, object URLs and the two marks are different things.

### Audio streams

The second half of `MediaProofs` holds for any resolution of time, sources, pitches,
buffer and decode sizes and number of generations:

| Theorem | Statement |
| --- | --- |
| `PositionStaysNext` | `[]PositionIsNext` |
| `StreamPlays` | `Plays`: every behaviour is one of `Playback` |

What is heard is a source folded into its loop, so both theorems speak of what follows
a frame after any number of steps (`Ahead`, an iterated function of `LoopedSource`).
`IteratedIs` and `IteratedAdds` say what iterating means, by a rule of induction over sets
of numbers (`Induction`) that the proofs derive from the well-foundedness of `<` in the
library. The invariant is

    StreamInv == StreamTypes /\ Samples /\ Produced /\ Reading /\ Positioned

`Samples`: each frame in the buffer follows the one before it in the looped source.
`Produced`: the worker's frame follows the last of them, it is inside the loop, and at
the end of file there is none to follow. `Reading`: a fill of the current generation
reads on from there; while there is none, either the decoder stands there or a seek to
there is pending. A fill of an older generation is dropped, and always leaves such a seek,
so nothing is skipped or repeated.
`Positioned`: the position reported and the frame at hand, which is the first in the buffer
or, when that is empty, the one that is produced next, are near each other (`Near`): the
position is what the worker counted that frame as, which is its number or one less; or one
of the two has wrapped before the other, and the frame is the step after the position. This
is claimed of a voice
that does not loop and of loops that are told (`LoopIsTold`: tags inside the file and its
duration, or a duration that tells the frames of the file; see Observations for the
others). `PlayIsNear` shows it of the offset of a play, where cutting and rounding part by
at most a frame (`NearestFrame`, `Quotient`), and `NearNext` that a step of both keeps it,
also when one of them wraps a frame before the other.

For the refinement, the frame that comes next is `Ahead` of the frame at hand by the
phase. The worker's steps leave it as it is, because frames that come in behind
(`FramesCome`) or an empty buffer that is filled do not change the frame at hand. A
callback consumes as many frames as the phase has passed (`FramesLeave`), and with
`AheadAdds` the frame that comes next moves by the pitch. The assumptions say that a frame
has ticks, that lengths, loop points and durations are numbers, that pitches are positive and include the pitch of
a new voice, and that a buffer holds two frames.

### Saves

`SaveSlotsProofs` holds for any slots, contents and number of mutations:

| Theorem | Statement |
| --- | --- |
| `BurstsStayFresh` | `[]BurstIsFresh` |
| `SavedSlotsImplemented` | `SlotsKeepTheirPromise`: every behaviour is one of `SavedSlots` |

For the first the invariant adds that a burst is never of a generation to come: a mutation
then leaves it behind whatever the mutation did to the disk, which is why the storage
counts before it tries. For the second, `PromiseInv == FilesOK /\ LastSaveOK /\ CallOK`:
`FilesOK` is the type of the files, `LastSaveOK` that what is remembered of the last save
was in its slot, and `CallOK` says, for each place a call can have come to, which of its
files it has changed, hence that its slot holds what it held before or what the call asked
for. `OneFileMoves` is the one lemma about the disk: a mutation moves one file, completely
or not at all. The assumptions are that the kept slot is a slot and that the marks are no
progress.

### localStorage

`WebStorageProofs` proves `FirstCutRevivesNothing`, `[]OneCutRevivesNothing`, for any keys,
values and number of cuts. The invariant says what the two files of a key hold at each step
of its call (`Halfway`), that a settled key holds what was asked or what was there
(`Settled`), and that before the first cut no key has both files, unless its call is just
about to remove the older (`BeforeCuts`). The last is why one cut is harmless and two are
not: after the first a key may have both.

### What stays with TLC

- *Liveness*: `FrameFinishes`, `AcceptedSettles`, `TimersFire`, `SignalEndsSupervisor`,
  `ChannelReopens`, `NeverStalls`, `ExchangeEnds`, `LoadsArrive`. TLAPS has no rules for
  `ENABLED`, so none for fairness.
- *Induction over data* with an operator parameter, which the provers cannot instantiate.
  Where a proof would need one it avoids it: paths are compared component by component
  (`UnderMeans`), sequences by their elements, a least index comes from
  well-foundedness, and what an iterated function returns from induction over a set of
  numbers.

Every invariant, action property and refinement that a run checks is stated by a theorem,
so the eight liveness properties are all that is only model-checked.

## What is not modelled

Within the modelled components: the attribution of guest promises, `nextTick` and the
event emitter wrapper of `scheduler.js`, which do not touch the queues; immediates
beyond their task; input, drawing and the pacing of `tick()`; memory reclamation and
preparation invalidations in a frame; read streams, symbolic links, the inventory and
derived assets of the filesystem; logs, heartbeats, output limits and the readers of
`/proc` and cgroups in the supervisor; the `error` and `close` events of a spawn that
failed, whose outcome is a single step; in audio, the release of a handle, gains, ramps
and automation, a missing device, prepared sounds and their cache; in requests, `fetch`,
`overrideMimeType`, status values and listeners that are removed; in images, tile sets,
compressed textures, palettes and page textures, pins, handle generations, the size
limit and failures of Node-API while a promise is resolved; in saves,
the switch that turns the read cache off, the cache of decoded text, plugins that write
files themselves, legacy and corrupt records; in preparation, file receipts, the indices
and failures of the state, legacy outputs, staging directories, a second lease of one
process, and a damaged state file, which reads as absent. What a catalog that is rejected
half way has installed already is modelled (`left`), but `NothingNeededIsPruned` does not
speak of it, since no lease does (see Observations).

Times of audio are exact in the model: a tick is a fraction of a frame, and the rounding of
doubles is left out, as is the resampling of files with other rates than 48 kHz, whose
decoder goes to the nearest output frame all the same.

The temporary files of atomic writes (`<name>.tmp-<pid>-<n>`) are not among the paths
of `GameFilesystem`, so what it says of the tree is said of all other names. One that
a crash leaves in a directory can only make the code refuse to remove or replace that
directory without `recursive`, and the model has that refusal: any mutation may fail
at any step.

The components of the second table of the inventory are not modelled. Those that are
planned are below; the others compute pixels, sound or text, or wrap a library, and
their behaviour does not depend on an order of events that a model could explore.

## Observations

Facts met while modelling:

- When the asset catalog is rejected half way (`preparation-catalog.cjs:90-109`) and the
  preparation that should follow cannot open its session, for instance because the lock
  times out (`preparation.cjs:13-23`), the derived files the catalog installed stay
  installed. The player is told "Continuing with original assets" (`runner/index.cjs:70`),
  while the game reads those files, no lease keeps another process from pruning them, and
  the game cannot report them when they are gone. The model reaches such a state: a process
  in `life` "unprepared" whose `left` is not empty.
- A rendering continuation that its frame does not await would stay queued when the
  frame settles, with no turn scheduled. `ContinuationAwaited` shows that the host's
  frame always awaits; other callers of `invokeRendering` must do the same.
- A process that dies during an atomic write of the game leaves the temporary file in
  `files/`. Nothing removes it, the next mount indexes it, so the game sees a file it
  never made, and the directory that holds it is not empty.
- After an OOM event with memory otherwise fine, `criticalSnapshotRequested` stays
  set, as it is reset only when pressure that was active ends. The next critical
  pressure then requests no snapshot until it, too, has ended once.
- A request of ordinary weight that waited for the channel is dropped if the channel
  opens within the cooldown of an earlier request; a critical request that times out
  is not repeated.
- `localStorage`: two calls cut short, a `setItem()` before it removed the legacy file
  and a `removeItem()` at the same place, bring a value back that is older than both. One
  cut never does.
- A sound with a loop start and no loop end, or one beyond its last frame, loops from its
  start point (`media_service.cpp:209`), but the position that is reported restarts at 0
  (`media_mix.hpp:95-98`). A sound that loops without tags, and whose duration times 48000,
  cut to a whole number, is not the number of frames the decoder returns, is reported at a
  position that drifts by the difference with every pass: the duration is held in
  microseconds, which cut can lose a frame. `PositionIsNext` is about the other sounds
  (`LoopIsTold`).
- After `play()` at an offset that does not lie on a frame, the position may be one frame
  behind what is heard, since `play()` cuts (`media_service.cpp:499`) and the decoder rounds
  (`media_decoder.cpp:719`, `762`): 0.29 s is frame 13 919 for the one and 13 920 for the
  other. The worker counts from the same number, so the first pass of a tagged loop may be a
  frame too long. Later passes of a tagged loop agree again, unless the end of the file cuts
  the first pass short of its tag; then, as in a loop without tags, the frame stays.
- Pixels that `retainCpuPixels()` fails to read back are missing without a word: its callers
  ignore what it returns (`resources.cpp:841`, `2494`), and the image is delivered.
- `XMLHttpRequest`: when the contents of an asynchronous request cannot be converted,
  `finish` throws inside the handler of the promise and only the console hears of it
  (`requests.js:158-160`, `203`): the request stays sent, without `error` or `loadend`. A
  synchronous send reports such an error. `abort()` called when the request is done but before its `load` event
  resets the response without a new generation, so `load` and `loadend` still follow, with
  an empty response. The listeners after the first are told of a synchronous event even
  when an earlier one opened the request again.
- The rescue in the engine itself removes a save before it restores the backup; with the
  wrapped `removeLocalFile`, a process that ends in between leaves the slot marked as
  deleted. `patches/isat/save-recovery.js`, which is modelled, does not remove.
- A prepared image that is found already loaded when the job of a second load ends keeps
  its CPU pixels for one frame only (`resources.cpp:2492`), where the other paths keep
  them for `retainedCpuIdleFrames`. They can be made again from the pages.

## Plan

Done: dispatcher, frame loop, timers, game filesystem, supervisor, audio streams,
requests, images, save slots, localStorage, preparation state; proofs of all of these.
Next: the cache of prepared sounds; video and script loads, which follow `ImageLoads`;
subprocesses (the stdin boundary) and memory reclamation, each small.
