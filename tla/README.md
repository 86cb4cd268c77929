# A TLA+ model of the DriftDroid runtime

DriftDroid runs a statically recompiled Wii game: `translator/` turns the
PowerPC code of the game into C++, and `runtime/` gives that code the machine
and the operating system it expects.  The runtime does not emulate the
console's kernel.  It replaces it, call by call, with high-level emulation
(HLE): `OSSleepThread`, `OSLockMutex`, `NANDSafeOpen`, `IOS_Ioctl` and so on
are C++ functions that edit the guest's own structures in guest memory.

This directory specifies that replacement kernel in TLA+, checks it with TLC on
small instances and proves parts of it with TLAPS for all instances.  Paths
below are relative to `src/`.

1. [Inventory](#1-inventory)
2. [What the modules model](#2-what-the-modules-model)
3. [The runs](#3-the-runs)
4. [The proofs](#4-the-proofs)
5. [Disagreements found](#5-disagreements-found)
6. [What is not modelled](#6-what-is-not-modelled)
7. [Plan](#7-plan)

## 1. Inventory

### 1.1 Guest thread scheduler: `runtime/src/hle/os/os_{scheduler,thread,sleep}.cpp`, `os_internal.h`

*State.*  In guest memory: the `OSThread` structures (state, suspend count,
effective and base priority, queue pointer, mutex waited for, list of mutexes
held, join queue), the 32 run queues with their pending-priority mask, the
`OSMutex` structures, any number of `OSThreadQueue`s, the list of threads, and
the globals *running thread*, *current context*, *reschedule requested* and
*scheduler-disable count*.  On the host: the table of sleep timers and the table
of sleep parks.

*Operations.*  `SelectThread` (the only function that switches), `OSSleepThread`,
`OSWakeupThread`, `OSLockMutex`, `OSUnlockMutex`, `OSSuspendThread`,
`OSResumeThread`, `OSSleepTicks`, `ProcessSleepTimers`, `OSCreateThread`,
`OSExitThread`, `OSCancelThread`, `OSJoinThread`, `OSDetachThread`.

*What is hard.*  Threads are cooperative, but a switch happens in the middle of
an HLE call: `OSResumeThread` called from the middle of `ProcessSleepTimers`
may leave its caller's stack behind for arbitrarily long, and what the caller
read before is stale when it continues.  Deferred callbacks (alarms, retraces,
audio) run on the stack of whatever thread is executing and must not switch;
the disable count is all that prevents it.  A park that the scheduler refuses
must be undone, or the thread runs on while it is linked as a waiter.  Seven
functions in four files maintain the pending mask.

*Correct if:* the mask and the queues agree; no runnable or waiting thread is in
no queue; only the running thread executes guest code; the strongest runnable
thread runs; mutexes are owned or free consistently and inherit priority; every
sleeper is released, every joiner woken.

### 1.2 Guest fibers: `runtime/src/fiber_manager.cpp`

One host fiber per guest thread; the default thread uses the scheduler's own
fiber.  A switch saves where the fiber is inside its HLE calls; a fiber of a
terminated thread is deleted.  A thread function that returns naturally is
finished by `FiberProc`, which bypasses `OSExitThread` and `SelectThread`.
*Correct if* the fiber that executes is the thread the scheduler believes is
running, and nothing continues from the middle of a call the scheduler never
resumed.

### 1.3 Message queues: `runtime/src/hle/os/os_message.cpp`

A ring of `msgCount` slots with `firstIndex` and `usedCount`, a queue of blocked
senders and one of blocked receivers.  Send appends, jam prepends, receive takes
the head; each blocks or returns at once.  Every success wakes *all* threads of
the opposite queue, which look again.  *Correct if* it is a bounded FIFO (with
jam at the head) and nobody sleeps on a condition that already holds.

### 1.4 Deferred callbacks, alarms, interrupts, retraces: `os_alarm.cpp`, `os_interrupt.cpp`, `os_context.cpp`, `hle/vi.cpp`

The alarm queue (sorted, with periodic re-arming), three guards against nested
pumping that belong to the host thread (`g_alarmProcessDepth`,
`g_nandCallbackDrainDepth`, `s_inAdvanceRetrace`), the interrupt flag, batches of
callbacks bracketed by `BeginDeferredGuestCallbacks` and
`EndDeferredGuestCallbacks`.  *Hard:* callbacks re-enter the kernel and edit the
very list that is being walked; in the default build the pump itself may switch
fibers between two handlers.  *Correct if* the queue stays in order and each
entry has its handler, no other thread runs inside a handler or a retrace, and
pumping never stops.

### 1.5 Storage: `runtime/src/hle/storage`

`nand_*.cpp`: a table of open handles; "safe" opens write to a scratch file that
a safe close renames over the original; scratch files of an earlier crash are
discarded at the next safe open; on Switch the original is removed before the
rename.  Asynchronous variants queue a guest callback that the scheduler's pump
delivers.  *Hard:* a crash between two file operations, two handles on one file.
*Correct if* after a crash either the old or the new content is there, and a
reader sees what was last committed.  `nand_isfs.cpp`, `ios.cpp`, `dvd.cpp`,
`wii_disc_extractor.cpp`, `riivolution.cpp` translate requests to host files.

### 1.6 Native sound thread: `runtime/src/hle/audio/sound_core.cpp`, `audio.cpp`, `ax_mix.cpp`

A real host thread runs the game's sound code beside the emulation thread.
*World stop* (the sound thread parks the emulation thread to touch the kernel),
*sections* (mutual exclusion emulating disabled interrupts), a bounded message
queue with a staging area while an audio interrupt runs, waits bounded by 200 ms.
*Correct if* the two never touch the mixer or the scheduler together, never wait
for each other, and no block message is lost between staging and the queue.

### 1.7 Network: `runtime/src/hle/net`

`network_deferred.cpp`: name lookups on worker threads, polls and connects probed
by the pump, each with a route (a waiting guest thread, or a callback);
completions may arrive after the socket was closed and its number reused.
*Correct if* each request made with a callback is answered exactly once and a late result
never reaches a new socket.  `network_socket.cpp`, `network_ssl.cpp`,
`network_core.cpp`: translations of socket, TLS and configuration calls.

### 1.8 Retro Rewind download: `runtime/src/retro_rewind_download.cpp`

The Switch launcher's job that installs or updates the Retro Rewind pack: the
pack's directory, a `.partial` one beside it for the full archive, an `.old` one for
the pack that steps aside, and a state file with the archive and the entry
reached.  A pack that is only behind is updated in place, by one archive per
release it lacks.  *Hard:* the job may fail, be cancelled or be killed at any
entry and between any two renames, and the next run works out from what it
finds what is left to do.  *Correct if* a run that reports success leaves a whole
pack, a resumed run skips nothing that is not there, and the installed pack is
not given up before the new one is complete.

### 1.9 The rest

| Part | Where | State and character |
|---|---|---|
| Memory, PowerPC helpers | `runtime/src/{memory,guest_flat_memory,ppc_helpers,fpu_helpers,abi_bridge}.cpp` | address translation and arithmetic, sequential, unit-tested |
| Task threads | `runtime/src/hle/task_thread.cpp` | jobs through a message queue |
| Graphics | `runtime/src/hle/gx`, `aurora-main` (vendored) | display-list decoding, rendering |
| Input | `runtime/src/hle/input`, touch controls | host input to guest structures |
| Start, settings, mods | `main.cpp`, `settings_overlay.cpp`, `recomp_mod_loader.cpp`, `boot_banner.cpp` | configuration and UI |
| Extraction, quality | `zip_extract.cpp`, `thermal_quality.cpp` | staged extraction; a step chosen from the temperature |
| Switch front end | `switch_*.cpp`, `switch/` | UI and file import |
| Android | `android/`, `android_jni_*.cpp` | Kotlin launcher, JNI bridge |
| Translator | `translator/` | batch compiler, a pure function |
| Installers, builders | `Launcher/`, `tools/`, `projects/` | packaging |
| Texts | `docs/`, `i18n/` | documentation, UI strings |

### 1.10 How the parts interact

Everything that waits meets in `SelectThread`.  A guest thread blocks by calling
it through `OSSleepThread` (mutexes, message queues, joins, synchronous network
and NAND calls) or through a self-suspension (`OSSleepTicks`).  When nothing is
runnable the executing fiber stays in `SelectThread`'s idle loop, which pumps
sleep timers, retraces, alarms, audio blocks, IOS completions and network
completions; each of these may run guest callbacks (a *deferred batch*) or wake a
queue.  The same batches also run in the middle of a guest thread, from pumps in
the translated code.  The sound thread stops the emulation thread from outside at
safe points.

## 2. What the modules model

| Module | Models | Kind |
|---|---|---|
| `OsThread` | the guest structures, and the helpers that edit them | operators from one memory to the next |
| `GuestScheduler` | every scheduler call, on one stack per fiber | state machine, extends `OsThread` |
| `SchedulerEdges` | `GuestScheduler` plus the natural return of a thread function | state machine |
| `MessageQueue` | `OSSendMessage`, `OSJamMessage`, `OSReceiveMessage` | state machine |
| `BoundedFifo` | what a message queue promises | abstract specification |
| `SoundCore` | the sound thread beside the emulation thread: sections, mutexes, world stops, blocks | state machine |
| `NandStorage` | one NAND file: handles, scratch files, the close that publishes | state machine with crashes and losses of power |
| `AtomicFile` | what the NAND layer promises of such a file | abstract specification |
| `DeferredNetwork` | deferred lookups, polls, connects; completions and callbacks | state machine |
| `AlarmPump` | alarms, callbacks, retraces and the guards of their pumps | state machine |
| `MCGuestScheduler`, `MCSchedulerEdges` | priorities for TLC | instances |
| `RetroRewindDownload` | the download and update of a pack, over failures and kills | state machine |
| `MCServices` | `MessageQueue`, `SoundCore`, `NandStorage`, `DeferredNetwork`, `AlarmPump`, `RetroRewindDownload` in one run | instance |
| `SchedulerInvariant` | the inductive invariants `LifeInv` (of which `IInv` is a part), `LockInv` and `RankInv` of `GuestScheduler` | operators |
| `Lists_proofs` | lemmas about sequences and the guest's lists | proofs |
| `GuestScheduler_proofs` | what each operator on the guest memory and each change of a stack keeps; one lemma per action other than those of the life cycle: it keeps `IInv` | proofs |
| `ThreadLife_proofs` | the actions of the life cycle keep `IInv`; every action keeps `LifeOK`; what follows from `LifeInv` | proofs |
| `SchedulerLocks_proofs` | `LockInv`, one lemma per action, and what follows from it | proofs |
| `SchedulerRanks_proofs` | `RankInv`, one lemma per action, and what follows from it | proofs |
| `SoundCore_proofs` | theorems about `SoundCore` | proofs |
| `Storage_proofs` | theorems about `NandStorage` and `RetroRewindDownload` | proofs |
| `Services_proofs` | theorems about `MessageQueue`, `DeferredNetwork`, `AlarmPump` and all services together | proofs |

### 2.1 `OsThread`

`os` is one record with a field per structure field or global the scheduler
reads.  Guest lists are sequences, so pointer surgery is `RemoveAt`, `InsertAt`,
`Append`; a queue is named by its owner (a priority, a mutex, a thread for its
join queue, a member of `WaitQueues` for any other).  Each helper of the source
(`UnlinkGuestListNode`, `RemoveThreadFromQueue`, `SetThreadEffectivePriority`,
...) is an operator with the source's name.

### 2.2 `GuestScheduler`

* `exec` is the fiber that executes, `stack[t]` the HLE calls fiber `t` is inside,
  innermost first.  A frame is what its function still needs after the call it
  made returns: `sleep` is the tail of `OSSleepThread`, `ticks` the tail of
  `OSSleepTicks`, `resched` the closing "`SelectThread(0)` if requested", and so
  on.  A switch changes `exec` and leaves the stack; the fiber continues when
  it is next dispatched.  This is the granularity of the program: between two
  points that can reach `SelectThread` nothing else runs.
* `KernelStep` advances the innermost call of `exec`; `GuestStep` lets guest code
  (a thread's own, or a callback's) make a call.  Loops of the source that can be
  interrupted by a switch (`OSLockMutex`, `WakeupThreadQueue`,
  `PromoteThreadPriority`, `PropagateMutexOwnerPriority`, `__OSUnlockAllMutex`,
  `ProcessSleepTimers`) take one turn per step.
* `OSYieldThread` and `__OSUnlockAllMutex` are the guest's own code; they are
  modelled from how `runtime/` calls into the kernel and marked external.
* A callback batch is a `callback` frame: pushed at any point where guest code or
  the idle loop runs, with the disable count raised, and popped with or without
  the flush of the deferred reschedule.

Abstractions.  Deadlines are not numbers: each `SelectThread` call captures the
timers armed at its entry (the ones it may find due, since it reads the clock
once) and any subset of them may fire; in the idle loop any timer may.  The
reconciler at the end of `ProcessSleepTimers` (`os_sleep.cpp:189-276`), which resumes
a thread whose park has had no timer for 100 ms, is left out: while
`ParksAreSleepers` holds every park has its timer and it has nothing to do, and where
threads are cancelled timer and park stay behind together.  The callback of
`OSSetSwitchThreadCallback`, register contexts, `errno`, stack-canary
checks and logging are left out, as are the caps on woken threads and on timers
(`kMaxWake`, `kMaxTimers`), the branches for the native sound thread and the
pumps a refused sleep runs.  Two recovery arms of `SelectThread` (a terminated
thread at the head of a run queue, an empty queue with its pending bit set) are
not reachable: `RunQueuesOK` says so in the runs without them.

What the guest is assumed to do.  `Calls` selects the calls of an instance.  A
callback does not suspend the thread it interrupts, does not exit, and does not
block when it runs in the idle loop; `OSUnlockMutex` is called by the owner;
the threads in `Managers` create and cancel others and never end; a structure is
reused only when its thread is gone; a join names an existing thread other than
the caller.  These are guards of the actions.  The guards that a reader may
want to doubt are hazards in `PROJECT.json` with the reason.

### 2.3 `SchedulerEdges`

Adds `FiberReturns`: the entry function of a thread returns and `FiberProc`
marks the thread dead, wakes its joiners without a switch, and jumps to the
scheduler fiber.  It is kept apart because it breaks invariants the rest of the
scheduler keeps (section 5).

### 2.4 `MessageQueue` and `BoundedFifo`

`array`, `first`, `used` are the ring; `sending` and `receiving` the blocked
threads (sets: every wake-up takes all of them); `call[t]` the call a thread is
in, `got[t]` what it last received.  `Send` and `Receive` are one turn of the
loop that succeeds, `NotReady` one that parks or gives up, `Cancel` is
`OSCancelThread` or a host abort of a blocked thread.  Scheduling is left to
`GuestScheduler`: which thread takes the next turn is arbitrary here, so what
holds holds for every schedule.  `Contents` reads the ring from `first`, and
`ImplementsFifo` is `BoundedFifo`'s specification with `items <- Contents`.

### 2.5 `SoundCore`

Two host threads with no lock around guest code.  A step is one access to a shared
atomic or one critical section of a host mutex; `mpc` and `spc` say where the
emulation thread and the sound thread are, and where several places call the
same function `pret`, `mret` and `sret` say where to return.

* `SoundEnterSection` raises its flag and then reads the four flags of the
  emulation thread one by one (`RaiseFlag`, `CheckMain`); `MainWaitForSoundSection`
  is the other half of the protocol (`DisableInterrupts`, `WaitForSoundSection`).
* `StopWorld` is a request, a wait, and the swap of the running-thread pointer
  (`StopWorld`, `LookAtOwner`, `TakeDisc`, `ResumeWorld`); `MainParkIfAsked` and the
  ways out of the yields are the other side (`ParkIfAsked`, `LeaveYield`, `YieldOut`).
* The sound mutex is taken by `LockFromGuest` and `SpinForSound` on the one side, by
  `SoundLock` and `SoundUnblocked` on the other.
* Blocks: `SendBlock` with `RouteToHost`, staging during the audio interrupt
  (`BeginAudioInterrupt` to `ReleaseStaged`), `TakeMessage`, `FinishBlock`, `Shutdown`.

The guest is two threads, one that uses the sound mutex and one that uses another
mutex the sound thread also wants (the disc streams' mutex), and audio blocks of
at most `BlockOps` locks and sections, properly nested, the sound mutex before
the other one.  The 200 ms limit of `WaitUntilIdle` is a wait that may end at any
time.  Accesses are sequentially consistent, which is the order the protocol's
atomics are accessed with; the mixer, statistics and logging are left out.

### 2.6 `NandStorage` and `AtomicFile`

One file with its scratch file.  `file` and `temp` are what the host shows now,
`onDisk` is the set of what the file may hold after a loss of power: this part is
the host's file system, and external.  Contents have two parts, so that a torn
file is neither the old nor the new one.  A handle is a `NANDFileInfo` structure or
an IOS descriptor.  A close is one action per host call (`FlushFileToDisk`,
`RemoveTarget`, `Rename`, `SyncDirectory`, `DiscardScratch`), each of which may fail
where the code looks at its result; `Crash` (the end of the program) and `PowerLoss`
may come between any two.  The Switch's commit differs from the others' and is
chosen by `platform`.

Assumed: the guest does not open a file safely for writing while *any* shadow of it
is open, one of a safe open or one that `NANDOpen` made because the file had other
handles.  `NANDSafeOpen` does not test this (`nand_async.cpp:436-482`): it discards the
scratch file and copies anew, so that `ScratchIsOwn` and `ImplementsAtomicFile` say
nothing of a guest that does.  And the host can sync a directory.
`AtomicFile` says that a reader finds the old contents or the new ones, that an
OK means the new ones last, and that a file is missing at most where the host
cannot replace it in one step; it promises nothing while somebody changes the
file behind the shadow's back (`bare`).

### 2.7 `DeferredNetwork`

`work` is the union of the workers' jobs and the lists of pending polls and
connects; `syncResults` and the callback queue are the two routes of an answer.
A synchronous request leaves its token in the frame of its thread (`cookie`), and
`WaiterIsValid` compares them; a socket is its slot and its generation.  A request
with a callback (`StartAsync`) is installed, or is answered at once by a callback in
the queue; the code gives it no token, the model numbers it like the others, and
`issued` and `calls` remember that it was made and how often it called back.  (A
callback pointer of zero, for which nothing is queued, is not such a request.)
`ProcessCompletions` is one run of the pump.  Threads are cancelled and their
structures and stacks reused, sockets closed, reopened and reconnected at any
point.  The only other host thread is the resolver's worker (`Resolve`).  What a
probe answers is the host's choice; the second look at a connect that succeeded
is the code's.

### 2.8 `AlarmPump`

`frames[f]` are the pumps and the guest code fiber `f` is inside, innermost first:
`alarms` and `drain` are the two loops of `ProcessAlarmQueue` and
`NandProcessPendingCallbacks`, `retrace` is `AdvanceRetrace`, `handler` and `callback`
are guest code.  `FireAlarm` and `DispatchNandCallback` are one turn, `HandlerReturns`
and `CallbackReturns` what the loop does next, `AlarmsDone` and `EndDrain` the ends with
the network completions and the closing reschedule.  Handlers, callbacks and
threads set and cancel alarms, queue callbacks, wake threads and call the pumps
(`GuestCall`, `ProcessAlarmQueue`, `AdvanceRetrace`); a pump whose guard is raised is
refused.  The scheduler is reduced to what the pumps see: running, ready, or
waiting, with the tests of `SelectThread` and `OSWakeupThread` that decide on a switch.

Times are ticks left; an alarm that is due stays due.  `InsertAlarm`,
`OSCancelAlarm` are the guest's own code and external: what they do is taken from
how `os_alarm.cpp` uses their list, and both call `PPCMtdec` when the head changes.
Assumed of the guest: `OSSetAlarm` only for an alarm that is not queued (the code
does not test it, and would link it twice), and no handler or callback blocks.
Modelled is the default build, without `new_rfl_pump.flag`.

The comment at `os_alarm.cpp:193-197` says that the alarm guard is not carried over
a fiber switch.  In the default build it is: the loop reschedules after each
handler, inside the guard (`:255-257`), and the thread that runs then has its own
pumps refused.  The drain's guard is carried over a switch in the same way by a
callback that wakes a stronger thread.  What the model shows is the weaker claim
`GuardsAreReleased`: again and again none of the guards is raised, provided the
game's threads block.

### 2.9 `RetroRewindDownload`

`disk` is the three directories with their files and state file, `job` the run under
way: `StartRun` chooses the archives (`Stages`, `StagesLeft`), `OpenArchive` where to go
on, `UnpackEntry` and `EntryFails` are one entry, and from `CheckCode` to `Tidy` there is
one action per change of the disk.  `Killed` may come between any two actions and
leaves the entry, the state file or `version.txt` half written.  A run that is
over leaves nothing but the disk, so the next one is the retry of the player or
the restart of the console.  `saveState` looks at no result: the new state, an
unreadable one or the old one may be on the card afterwards.

A pack is three files: `Code.pul`, `version.txt` and one for all the others, each
named by the release it came with.  The entries outside the pack, directories,
ranges, TLS and inflation are left out; that an entry failed is all that is told.
The order of the files in an archive is the server's; `CodePlace` says where
`Code.pul` stands.  Assumed: nobody else changes the three directories, and
removals do not fail.

### 2.10 `MCServices`

The six modules share no variable, so `focus` picks one of them and the others
rest in one state: all behaviours of each are checked, at the sum of their states
and not at the product.

## 3. The runs

| Run | Instance | Distinct states | Shows |
|---|---|---|---|
| `sync` | 3 threads, 1 queue, 2 priorities, callbacks, timed sleeps, suspend | 1,746,314 | with callbacks and timers: the run queues agree with their mask, parks belong to sleepers, only the running thread executes, a reschedule requested under a raised disable count is not forgotten, the count belongs to `exec`, a sleep is never undone |
| `mutex` | 3 threads, 2 mutexes, 3 priorities, nested suspends and locks | 1,266,971 | the second and third inductive invariants, of sections 4.3 and 4.4: mutexes consistent, waiters ordered, priority inheritance along chains, strongest runs |
| `lifecycle` | 1 live thread that creates up to 2 more; exit, cancel, join, detach, mutex, yield, callbacks | 740,272 | the inductive invariant of section 4.2; thread list, join queues, mutexes and run queues over reuse of structures |
| `liveness` | 3 threads, timers and host events, fairness | 53,658 | sleepers are released, the strongest thread is served |
| `queue` | the six services of `MCServices`, see below | 469,693 | see below |
| `dwc`, `exit_holding`, `stale_park`, `return_sleep` | 3 threads | first counterexample | section 5 |
| `sound_handler` | 1 slot, 2 operations a block | first counterexample | section 5 |
| `nand_commit` | 1 client, Switch | first counterexample | section 5 |
| `retro_resume` | a 6.13.1 pack, `Code.pul` first in the archives | first counterexample | section 5 |

What `queue` checks, by service (the states are those with that `focus`):

| Service | Instance | States | Properties |
|---|---|---|---|
| message queue | 2 users, 2 messages, capacity 2 | 23,808 | `TypeOK`; `NoLostWakeup`: nobody sleeps on a condition that holds; `ImplementsFifo` |
| sound thread | 1 slot, 2 operations a block | 74,806 | `SectionsExclude`, `WorldStopHolds`, `OneRoute`, `IdleIsIdle`; `WaitsEnd`: the emulation thread gets past every park and section |
| NAND file | 2 clients, POSIX and Switch | 119,090 | `ScratchIsOwn`: one writer per scratch file; `ImplementsAtomicFile` |
| network | 2 threads, 1 slot, 2 requests, 2 sockets, 1 callback a drain | 104,416 | `OwnAnswer`, `PeerIsOwn`; `CallsBackOnce`: a request with a callback is under way, queued or done, just one of these at any time; `Settles`: again and again nothing is left but polls of live sockets, and nobody waits for a request that is gone |
| pumps | 2 alarms, 2 fibers, 1 tick, 1 alarm and 1 callback a pump, 1 call per handler, 3 pumps nested | 125,178 | `AlarmsInOrder`: sorted, and queued iff the handler is set; `InterruptsFinish`: no other fiber runs inside a handler or retrace; `GuardsAreReleased` |
| download | no pack, 6.13.0, 6.13.1 or 6.13.3 installed; `Code.pul` last in the archives, 2 failures in a row | 22,395 | `FinishedIsWhole`: success means a whole pack; `SkippedIsThere`: what a run does not unpack is there; `OldPackStays`: a full download gives up the installed pack only for a whole one |

*Bounds.*  Three threads give a running thread, one it preempts or waits for, and
a third that interferes; two of equal and one of stronger (or three of distinct)
priority cover every comparison the code makes.  Two mutexes give the shortest
chain of owners and the shortest deadlock.  `MaxSuspend`, `MaxCount` and
`MaxDisable` cap counters whose code only tests for 0, 1 and "more"; where a run
has nesting in view the cap is 2.  Calls are split over the runs by the state
they share: timers meet suspend, sleep and callbacks, mutexes meet suspend and
sleep, callbacks meet sleeps, timers, locks and the life cycle, the life cycle
meets joins and locks.  (All of them meet in the theorems of section 4.2.)  A queue
of capacity 2 wraps in both directions and distinguishes empty, partly full and
full; two users give a waiter and one that overtakes it, or two waiters.

The sound thread's queue of 1 is empty or full, as is its staging area; a block of
two operations nests the sound mutex, the other mutex, a section, or any two of
them.  Two clients of a NAND file are a writer and a reader, a second writer, or
a writer behind the shadow's back.  Two network requests compete for a thread,
its frame, a socket slot and the callback queue; two generations are one reuse of
the slot; with one callback a drain a second one is always left over.  Two alarms
have an order; one tick tells due from not due, and a periodic alarm that is put
back from one that is due again; one alarm per pump leaves the second for the
next; a pump may be called inside another and a third inside that, which is
where every guard refuses.

Two failures in a row are one that is survived and one that ends a run; the runs
and kills of the download are not bounded.  The packs are one per branch of the
choice of archives; the latest release is reached by a run that ends.  With
`Code.pul` last in the 6.13.3 archive `FinishedIsWhole` holds of a 6.13.1 pack too;
with `Code.pul` first it does not, which is `retro_resume`.

*Deadlock.*  TLC checks deadlock in all scheduler runs: the idle loop always has
a step, because a host event may always come.  `queue` sets
`CHECK_DEADLOCK FALSE`: both users of the message queue may be blocked in
`OSReceiveMessage`, and the network's requests and sockets are used up; without
other threads those are legal ends.  `sound_handler` and `nand_commit` set it as they
look for one counterexample.  A download may always be started again.

*Fairness* (`FairSpec`, used by `liveness`).  `WF(HleProgress)`: the host runs HLE
code to its end.  `SF(IdleEnds)`: the idle loop tests the pending mask on every
turn (`os_scheduler.cpp:262-275`); strong, because host events may intervene
between any two turns.  `SF(ProcessSleepTimers(t))`: a deadline passes at some
time and the pump looks at every armed timer on each call.
`SF(EndDeferredGuestCallbacks)`: a batch of callbacks is finite.
`SF(ThreadBlocks)`: the game's threads come back to a blocking call; without it a
thread that computes forever keeps the processor, as on the console.

`queue` has the fairness of its services.  `SoundFairness`: the host runs both
threads (`WF(SoundNext)`, and `WF(MainWaits)` for the waits of the emulation thread
only, as guest code takes its own time); `SF(ParkIfAsked)`, since a park gets its
chance although requests come and go: the sound thread sleeps 200 µs between two
stops.  `NetFairness`: the idle loop runs the pump turn after turn (`WF(Pump)`), a
resolver answers and a connect has a deadline (`WF(Elapse)`); a poll need not have
one.  `PumpFairness`: the host runs a pump to its end (`WF(PumpStep)`), and the game's
threads block (`SF(ThreadBlocks)`); without the second `GuardsAreReleased` is false,
for a stronger thread that never blocks keeps the switched-out pump from going
on.

*Mutants.*  Next to many definitions there is a variant with a plausible bug
(`RemoveThreadFromQueue_KeepsPending`, `Resume_KeepsPark`, ...).  Each property
of a passing run is violated when the definition is replaced by its variant;
`PROJECT.json` lists the pairs.

## 4. The proofs

Every theorem below is checked by `tlapm` down to its last leaf, for every
value of the constants that satisfies the named assumptions.

### 4.1 `Services_proofs`: the message queue

From `CapacityAssumption` (the capacity is a positive integer), for any set of
threads and of messages:

* `TypeCorrect`: `Spec => []TypeOK`, inductive as it stands.
* `NoWakeupIsLost`: `Spec => []NoLostWakeup`.  `TypeOK /\ NoLostWakeup` is
  inductive: a success wakes the whole opposite queue, so the next state has
  nobody parked there, and it cannot make the *same* side's condition true.
* `QueueImplementsFifo`: `Spec => ImplementsFifo`.  Every step of the ring is a step
  of `BoundedFifo` or a stutter under `items <- Contents`.  `ContentsType` gives
  the length and type of `Contents`, `ContentsAre` says when a sequence equals it,
  and `EnqueueAppends`, `JamPrepends` and `DequeueTakesHead` are the three operations
  on the sequence.  They rest on a few facts about `%` (`WrapAround`,
  `DistinctSlots`, `FromNextSlot`, `FromPreviousSlot`), proved without induction
  because the indices stay below twice the capacity.

### 4.2 `GuestScheduler_proofs` and `ThreadLife_proofs`

From `OsConstants` and `SchedulerConstants` (the kinds of objects are disjoint,
priorities are `0 .. MaxPrio`), for any number of threads, mutexes, queues and
priorities and any bounds.  The theorems have the form
`LifeInstance => (Spec => []P)`.  `LifeInstance` allows every call, in any
combination, with three restrictions:

* the DWC queue is not among the queues; without this the theorems are false,
  as run `dwc` shows;
* where threads may end (`Mortal`: `Calls` holds a call of the life cycle), they
  release their mutexes before they exit; run `exit_holding` shows that
  `JoinersWoken` is false otherwise;
* and one thread, `Main`, creates and cancels all others.  The theorems need this
  one too.  With two managers and four threads (an instance that is not among the
  runs) TLC loses a thread: `Main` cancels a thread that holds a mutex for which a
  stronger manager waits; `OSCancelThread` releases the mutexes before it wakes the
  joiners, so `Main` is preempted in between; the other manager joins the ended
  thread (MORIBUND, reaped to NONE) and creates it anew, and `OSCreateThread`
  empties the join queue with the joiner still parked in it.  With two managers
  and three threads TLC finds no violation.

None of the safety properties is inductive.  `RunQueuesOK` speaks of run queues,
but a wake-up moves a thread from a wait queue, so one has to know what
the wait queues hold; `SleepReturnsWoken` needs to know that whoever continues inside
`OSSleepThread` was dispatched, hence RUNNING, hence that the fiber on the
processor is the running thread's, hence that no callback batch is open on a
fiber that was left.  `LifeInv` is that strengthening.  Its first conjunct, `IInv`, has
three parts:

1. *Memory* (`MemoryOK`).  The lists and the pending mask are consistent (`ListsOK`),
   and every thread is in the queue it points to exactly if its state asks for
   it (`ThreadOK`).  In the middle of a handler that fails for one thread:
   `Moving(k, x)` and `Loose(k, x)` are the same with thread `x` excepted, linked at
   most where it points, or nowhere.  The first half of `GuestScheduler_proofs` shows
   for each operator of `OsThread` which of the three it needs and which it gives
   (`RemoveThreadFromQueue` takes `Moving` to `Loose`, the insertions take `Loose` back
   to `MemoryOK`, and so on).
2. *Stacks* (`FibersOK`).  The frames are well formed, and only the executing fiber
   holds a callback batch or the idle loop.
3. *Mode* (`ExecOK`).  The disable count is the number of batches on the executing
   stack, and the executing fiber is in one of four modes: it runs its own
   thread; it is *leaving* (its thread gave up the processor and the next thing it
   does is `SelectThread`, with a reschedule requested and the count zero, so that
   `SelectThread` can neither refuse nor keep it); it is *exiting* (its thread has
   ended, and its stack holds the calls of `OSExitThread` and nothing that goes back
   to guest code; a wake-up that has woken somebody has asked for the reschedule);
   or it is idling (no running thread, the idle loop on its stack, above it only
   calls that callbacks and timers make).

The second, `LifeOK`, is about threads that end.  A thread is marked as ended first
and its joiners are woken last, with the release of its mutexes and, in a
cancellation, a preemption in between, and `SelectThread` drops the fiber of an
ended thread for good.  So the pending wake-up must be on a fiber that will run on: on the main
thread's, or on the executing one, as the innermost call or in
the exit of a thread without mutexes (`WakesOnTop`), where no unlock comes
before it and nothing switches.  No other fiber holds a wake-up at all; no
callback batch lies between a wake-up and its caller (`NoBatchInWake`), or the
batch's own calls would have to be looked through; and whoever is about to park in
a join queue finds the thread alive (`JoinsTheLiving`), which is why a join and an
end cannot miss each other.  `ThreadListOK` is a part of it: a structure can be linked again
only when it was unlinked.

`LifeInitial` and `LifeInductive` establish `LifeInv`, with one lemma per action under
`LifeInductive`; `Invariance` is `LifeInstance => (Spec => []LifeInv)`.  Run `lifecycle`
checks `LifeInv` on a finite instance.  From it follow `TypeCorrectness` (`TypeOK`),
`RunQueuesConsistent` (`RunQueuesOK`), `NoThreadIsLost` (`NoThreadLost`),
`ExecAlwaysRunning` (`ExecIsRunning`), `DisableOwned` (`DisableBelongsToExec`),
`SleepersAreWoken` (`SleepReturnsWoken`), `ThreadListIsRight` (`ThreadListOK`) and
`JoinersAreWoken` (`JoinersWoken`).

### 4.3 `SchedulerLocks_proofs`

The same assumptions, and the instances in which no thread ends: `SyncInstance` says
that `Calls` holds no life-cycle call and that the DWC queue is not among the
queues.  `IInv` says where a thread is linked and
nothing about the order of a queue, about mutexes or about timers; the properties
that do are not inductive by themselves either.  `OSUnlockMutex` clears the owner
before it wakes the waiters, so `MutexesOK` has to know that a `wake` for a mutex
starts from an unlocked one and is not left half done by a switch.  A lock
that finds the mutex taken writes `OSThread::mutex`, promotes the owners and
then sleeps, in three calls, between which guest code does not run but other
callers' frames wait below; an order of a wait queue survives a change of
priority only if the thread was in the queue `OSThread::mutex` names, or in none.
A park in the timer table outlives every switch, so it has to be tied to the `ticks` frame of
a fiber that does not execute.  `LockInv` adds to `IInv`:

1. *Memory* (`LocksOK`): `QueuesOrdered`, every wait queue is in the order of the
   priorities; `HoldersOK`, the list of held mutexes and the owner fields tell the
   same, once each; `WaiterOK`, a waiter of a mutex points to it, and a suspended
   waiter has the out-of-range priority.
2. *The calls under way* (`CallsOK`): a wake-up, a promotion, a propagation and
   the request to sleep are at the top of the executing fiber's stack or nowhere
   (`Transient`), and what each of them relies on still holds: a wake-up of a mutex
   finds no owner, the sleep of a lock finds one and a pointer to the mutex
   (`Requests`), a promotion carries the priority of the thread that asks.
3. *Every fiber* (`FiberOK`): a thread with a pointer to a mutex is inside the lock
   that set it, and a thread in the table of parks inside the `OSSleepTicks` that
   put it there, suspended, with its timer armed.
4. *Hand-over* (`HandedOver`): a mutex that threads wait for has an owner, or the
   wake-up of its waiters is the innermost call.

`LocksInitial` and `LocksInductive`, one lemma per action under it, give `LocksAgree`
(`SyncInstance => (Spec => []LockInv)`); run `mutex` checks `LockInv`, as a part of
`RankInv`, on a finite instance.  From it follow `WaitQueuesInOrder` (`WaitQueuesOK`), `MutexesConsistent`
(`MutexesOK`) and `ParksHaveSleepers` (`ParksAreSleepers`).

### 4.4 `SchedulerRanks_proofs`

The same instances and assumptions as in section 4.3.  `PriorityInheritance`,
`RescheduleRemembered` and `StrongestRuns` relate the priorities of threads that no
single call sees together, and each is false for a while inside the calls that
restore it.  `RankInv` says how, and adds to `LockInv`:

1. *Priorities* (`PrioritiesOK`).  The claims on a thread that is not suspended are
   its base priority and the priorities of those that wait for its mutexes, the
   caller that has only asked for one included (`Claims`).  Its effective priority
   is the least of them, with three exceptions, each of one thread: the one that a
   promotion has reached has the right priority *after* this turn of the loop
   (the promotion carries the missing one), the one that a propagation has reached
   may have any, and the owner of a mutex for which a lock, refused its sleep, is
   about to try again may still have the priority of the fiber that asks.
   So a chain of owners of any length is one exception that moves along it.
2. *Requests* (`RankOK`).  When something queued is stronger than the running
   thread, a reschedule is asked for, or the innermost call is the wake-up of a
   mutex with a waiter that can run, which will ask.
3. *Selection* (`SelectComes`).  In an instance without callbacks, where the disable
   count never rises, such a request is moreover on the stack: `SelectThread` is
   still to come in the call that is under way.

What carries the proof is that a change of one thread's priority changes the
claims on one other thread only, the owner of what it waits for (`PriorityOK` of
everybody else follows from the claims being the same), and that the head of an
ordered queue stands for the whole queue (`HeadIsStrongest`), as
`ComputeThreadEffectivePriority` looks at heads only; this is where the order of
`LockInv` is needed.  `RanksInitial` and `RanksInductive`, one lemma per action under
it, give `RanksAgree` (`SyncInstance => (Spec => []RankInv)`); run `mutex` checks
`RankInv` on a finite instance.  From it follow `PriorityIsInherited`
(`PriorityInheritance`), `RescheduleIsRemembered` (`RescheduleRemembered`) and
`StrongestAlwaysRuns` (`StrongestRuns`; one more hypothesis, that `Calls` holds no
`"callback"`: a batch that does not flush hands a stronger thread's turn to the
next scheduling point, which is what `RescheduleRemembered` is about).

### 4.5 `SoundCore_proofs`

From `SoundAssumption` (a positive capacity, a natural number of operations).
`SoundInvariant`: `SoundSpec => []SoundInv`.  `SectionsExclude` alone is not inductive:
the exclusion rests on what each thread has already read when the other writes.
`SoundInv` is types and five parts: `PlacesOK` (each flag says where its thread
is), `SectionsOK` (who is past its check and what the other can then be doing),
`WorldOK` and `DiscOK` (the stages of a stop against the emulation thread's place, and
the depth of the stop against the mutex's count), `BlocksOK` (the outstanding
count against queue, staging and the block in work, per route).  From it follow
`SectionsAreExclusive`, `StoppedWorldStands`, `BlocksHaveOneRoute` and
`IdleAnswersAreTrue`.  `SoundStaysTyped` (`SoundTypeOK`) adds the flags and places,
which those do not rest on, and the count of operations of a block.

### 4.6 `Storage_proofs`

*A NAND file.*  For any sets of clients and platforms.  `NandInvariant`: `NandInv`
relates handles, scratch file and the host calls a commit has behind it
(`HandlePlacesOK`, `ShadowsOK`, `CommitOK`) and says that a writer behind the
shadow's back is remembered (`BareOK`).  From it `OneWriter` (`ScratchIsOwn`) and
`NandImplementsAtomicFile`: each action is a step of `AtomicFile` or a stutter under
`draft <- Draft`, the contents of the scratch file up to the rename and of the
file after it.

*The download.*  From `DownloadAssumption` (there are entries and failures to count,
an installed pack is a release), for every set of installed packs, order of the
files in an archive and number of failures.  `SkippedIsThere` says nothing of
the directory a killed run left, and it is from there that the next run reads how
far to skip.  `DownloadInvariant` therefore says of every directory at every
moment that its state file promises no more than what is there (`Resumes`, in
`PackOK` for the installed pack and the one that stepped aside, in `PartialOK` for a
full download), and of the run under way, by its place, what its archive has
already left (`TableOK`, `StreamOK`, `UpdateOK`, `GoingLiveOK`, `Finished`).  From it
`DownloadStaysTyped`, `SkippedEntriesAreThere` (`SkippedIsThere`), `InstalledPackStays`
(`OldPackStays`, an action property), and `CompletedPackIsWhole`:
`CourseFirst => (DownloadSpec => []FinishedIsWhole)`.  `CourseFirst` is what
`retro_resume` lacks: an update archive that does not start with `Code.pul`, or no
6.13.1 pack to start from.  Whoever packs the archives can see to the first.

### 4.7 `Services_proofs`: the network, the pumps, and the services together

*Network.*  From `NetAssumption`.  `NetInvariant`: tokens are handed out once and name one
request, a waiting thread's cookie is the token it waits for, a token is in the list, in the
callback queue or called, never in two of them (`CallbacksOK`), and the tokens found
in one of the three are those of the requests made with a callback (`IssuedOK`).  From
it `WokenByOwnAnswer`, `PeersAreOwn` and `CallbacksRunOnce`: no callback is lost and none
runs twice.  That it runs in the end is `Settles`, which TLC checks.

*Pumps.*  From `PumpAssumption`, for any alarms and fibers, any bound on delays, turns, calls
and nesting.  `InterruptsFinish` speaks of the fibers that were left, so it needs
to know when a fiber is left: only with the disable count zero and no retrace
under way.  `NestingOK` ties both to the frames of the executing fiber: the
count is the number of handlers and masked pumps on it, the retrace flag tells
whether there is a retrace on it, and there is at most one.  And it says what a frame
stands on (a handler on a pump of alarms that has a turn left, a callback on
a drain), without which the return of a handler could lower the count of somebody
else's pump.  `QueueInv` is the order of the queue with its types.  From the two
(`PumpInv`) follow `PumpsStayTyped` (`PumpTypeOK`), `AlarmsStayInOrder` (`AlarmsInOrder`) and
`InterruptsRunToTheirEnd` (`InterruptsFinish`).

*Together.*  `ServicesStayTyped`: `ServicesSpec => []ServicesTypeOK`.  A step of `MCServices` is a
step of one service and leaves the others alone, so the conjunction of their
invariants is inductive (`ServicesStep`); the initial states of `ServicesSpec` are some
of the initial states of each.

## 5. Disagreements found

Each is a run that TLC ends with a counterexample.

* `dwc` — `DisableBelongsToExec`.  `OSSleepThread` and `SelectThread` allow a park
  on the queue of the DWC connect poll while the disable count is raised
  (`os_internal.h:54-60`).  The switch keeps the count, so the *next* thread runs
  with the scheduler disabled by a batch suspended on another stack: its own
  sleeps are refused.  The comment says every other queue's protection stays
  untouched.
* `exit_holding` — `JoinersWoken`.  A thread that exits while it holds a contended
  mutex is marked terminated, then unlocks; the wake-up reaches `SelectThread`,
  which deletes its fiber; the wake-up of its joiners, next in
  `TerminateThreadCommon` (`os_thread.cpp:242`), never happens.
* `stale_park` — `TimerFindsItsSleeper`.  `OSCancelThread` leaves the sleep timer and
  park of its target.  A thread created in the same structure is READY and
  suspended, the shape `os_sleep.cpp:148-151` takes as proof of a park, and the
  old timer starts it.
* `return_sleep` — `SleepReturnsWoken`.  A thread function that returns switches to
  the scheduler fiber (`fiber_manager.cpp:797`).  If the default thread waits in
  `OSSleepThread`, it continues there without having been woken; the block that
  the comment at `os_sleep.cpp:574-578` calls unreachable unlinks it.
* `sound_handler` — `HandlerExcludes`.  `g_mainInHandler` stands for the interrupts a
  console has off in the audio handler, and `sound_core.cpp:230-231` concludes that
  the sound thread cannot be in a section meanwhile.  But the handler may park
  for a world stop, a parked emulation thread does not count
  (`MainHoldsSection`), and the way out of the park does not wait for the section:
  the handler goes on beside it.
* `nand_commit` — `OriginalKept`.  On the Switch the target is removed before the
  rename; when the rename fails the scratch file is dropped too, and no copy is
  left.  `nand_async.cpp:329-331` says the original is left as it was on any
  failure.
* `retro_resume` — `FinishedIsWhole`.  A 6.13.1 pack gets two archives, 6.13.3 and
  6.13.4.  A run that stops in the first after it has written `Code.pul`, because the
  connection drops, the player stops it or the console is switched off, leaves a
  pack the next run takes for 6.13.3: it stages the 6.13.4 archive alone, and
  ends without an error, with the pinned code and without the rest of 6.13.3.
  The loop under "An interrupted run continues in the archive it was in"
  (`retro_rewind_download.cpp:575-581`) looks for the archive of the state file
  among the later stages only.  It happens when other files follow `Code.pul` in
  the archive, which the code does not fix.

## 6. What is not modelled

`PROJECT.json` gives the status and reason of every component.  In the modelled
ones: deadlines as numbers and the order of simultaneous timers; the reconciler of
stranded sleepers (section 2.2); the busy-wait of
`OSSleepTicks` when the scheduler cannot switch; `OSSetThreadPriority` (the
game's own code); the padding and retrace pumps of the idle loop beyond "an
event wakes a queue or runs callbacks"; blocking message calls inside a callback
(they spin); `OSInitMessageQueue` on a live queue; faulting guest pointers; the
pumps of a build with `new_rfl_pump.flag`, the repair of a self-linked alarm queue,
the cadence of retraces and presentation; directories, file status and the
seeding of NAND system files; synchronous socket calls and TLS; the mixer.

Most of the lines of the repository are in parts that keep little state between
calls: graphics, input, user interface, launchers, the translator.  They are not
modelled, and neither is the extraction of archives to a staging directory, one
rename at its end.  Of the download: the screen of the launcher, the free-space
test, the progress counters, the waiting time between two attempts.

Only model-checked, not proved: liveness (under fairness, out of TLAPS's reach
here), that is `SleepersAreReleased`, `StrongestIsServed`, `WaitsEnd`, `Settles` and
`GuardsAreReleased`; of the scheduler the natural return, and, where threads end,
`WaitQueuesOK` and `MutexesOK` (run `lifecycle`; section 4.3 proves them where none
does).  The properties of section 4.4 and `ParksAreSleepers` are not claimed where
threads end: `OSCancelThread` of a waiter leaves the priority it has lent to the
owner of the mutex, and leaves its target's timer and park (run `stale_park`).

## 7. Plan

Done: the scheduler (`OsThread`, `GuestScheduler`, `SchedulerEdges`), message queues
(`MessageQueue`, `BoundedFifo`), the sound thread (`SoundCore`), storage (`NandStorage`,
`AtomicFile`), deferred requests (`DeferredNetwork`), with the proofs of section 4,
the pumps (`AlarmPump`) and the download (`RetroRewindDownload`).

What is left, by weight of the behaviour:

1. Two threads that create and cancel others: the loss described in section 4.2 as
   a run of its own, and `LockInv` where threads end.
2. A pump whose thread is suspended or cancelled while it is switched out: who
   lowers its guard.
3. The natural return of a detached thread as a run of its own: `ThreadListOK` is not
   checked with it, and the code leaves such a thread in the list.
4. Two safe writers of one file (section 2.6).
