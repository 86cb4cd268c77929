----------------------------- MODULE SoundCore -----------------------------
(***************************************************************************)
(* hle/audio/sound_core.cpp: the game's sound thread on a host thread of   *)
(* its own, beside the emulation ("main") thread that runs every other     *)
(* guest thread.  The two exclude each other in three ways: interrupt      *)
(* sections (an asymmetric Dekker protocol), the sound mutex, and a stop   *)
(* of the whole emulation thread around any other mutex.                   *)
(*                                                                         *)
(* A step is one access to a shared atomic, or one critical section of a   *)
(* host mutex.  mpc and spc say where the two threads are; "run" is guest  *)
(* code.  The guest is two threads of the emulation thread, Game (uses the *)
(* sound mutex) and Reader (uses one other mutex, "disc", as the DVD       *)
(* streams do), and the blocks of the sound thread: at most BlockOps locks *)
(* and interrupt sections each, properly nested, the sound mutex before    *)
(* the other one.                                                          *)
(***************************************************************************)
EXTENDS Naturals, Sequences

CONSTANTS QueueCapacity, \* kQueueCapacity, of the queue and of the staging array
          BlockOps       \* locks and sections one audio block asks for

ASSUME SoundAssumption == QueueCapacity \in Nat \ {0} /\ BlockOps \in Nat

VARIABLES
  irqOn, inHandler, mainYielded, mainParked,       \* g_interrupts_enabled, g_main*
  soundInSection, worldStopRequested, soundWaits,  \* g_sound*, g_worldStopRequested
  mpc, pret, mret,       \* main thread: place, return of a park, of a wait
  stateLocked,           \* main keeps g_stateMutex while it leaves a wait
  retryLock,             \* Game is in the loop of LockFromGuest
  handlerIrq,            \* interrupt flag when the audio handler began
  spc, sret, sIrqOn,     \* sound thread: place, return, t_interruptsEnabled
  worldDepth, savedThread, discIrq, ops,
  running,               \* the guest's running-thread pointer
  soundOwner, soundDepth, discOwner, discCount,
  staging, staged, queue, outstanding, processing, threadRunning,
  routed, guestUsed, guestBusy

mainFlags == <<irqOn, inHandler, mainYielded, mainParked>>
soundFlags == <<soundInSection, worldStopRequested, soundWaits>>
saved == <<stateLocked, retryLock, handlerIrq>>
world == <<sIrqOn, worldDepth, savedThread, discIrq>>
mutexes == <<soundOwner, soundDepth, discOwner, discCount>>
blockQueue == <<queue, outstanding, processing>>
guestBlocks == <<routed, guestUsed, guestBusy>>
blocks == <<staging, staged, blockQueue, threadRunning, guestBlocks>>

mainSide == <<mainFlags, mpc, pret, mret, saved>>
soundSide == <<soundFlags, spc, sret, world, ops>>
shared == <<running, mutexes, blocks>>
svars == <<mainSide, soundSide, shared>>

Guest == {"game", "reader"}
Owner == Guest \cup {"sound", "none"}
MainPlace == {"run", "section", "sectionPark", "ask", "parking", "parked",
              "yieldOut", "idle", "spin", "idleWait", "begin", "handler",
              "end", "join"}
Checking == {"irq", "inHandler", "yielded", "parked"}
SoundPlace == Checking \cup
  {"off", "receive", "run", "backoff", "blocked", "stop", "stopWait",
   "stopSave", "owner", "take", "give", "resume", "release", "exit"}

SoundInit ==
  /\ irqOn = TRUE /\ inHandler = FALSE /\ mainYielded = FALSE /\ mainParked = FALSE
  /\ soundInSection = FALSE /\ worldStopRequested = FALSE /\ soundWaits = FALSE
  /\ mpc = "run" /\ pret = "run" /\ mret = "run"
  /\ stateLocked = FALSE /\ retryLock = FALSE /\ handlerIrq = TRUE
  /\ spc = "off" /\ sret = "run" /\ sIrqOn = TRUE
  /\ worldDepth = 0 /\ savedThread = "game" /\ discIrq = TRUE /\ ops = 0
  /\ running = "game"
  /\ soundOwner = "none" /\ soundDepth = 0 /\ discOwner = "none" /\ discCount = 0
  /\ staging = FALSE /\ staged = 0 /\ queue = <<>> /\ outstanding = 0
  /\ processing = FALSE /\ threadRunning = FALSE
  /\ routed = FALSE /\ guestUsed = 0 /\ guestBusy = FALSE

-----------------------------------------------------------------------------
(* The emulation thread: sections, parks and yields.                       *)

GameCode(t) == mpc = "run" /\ ~inHandler /\ running = t /\ (t = "game" => ~retryLock)

\* OSDisableInterrupts, by guest code or by an HLE function.
DisableInterrupts ==
  /\ mpc = "run" /\ irqOn
  /\ irqOn' = FALSE
  /\ mpc' = "section" /\ mret' = "run"
  /\ UNCHANGED <<inHandler, mainYielded, mainParked, pret, saved, shared>>

\* OSRestoreInterrupts(1) / OSEnableInterrupts: called by the guest, it ends
\* at a safe point; called by an HLE function, it does not.
EnableInterrupts ==
  /\ mpc = "run" /\ ~irqOn
  /\ handlerIrq \/ ~inHandler
  /\ irqOn' = TRUE
  /\ \/ mpc' = "ask" /\ pret' = "run"
     \/ UNCHANGED <<mpc, pret>>
  /\ UNCHANGED <<inHandler, mainYielded, mainParked, mret, saved, shared>>

MainGoto(place) ==
  /\ mpc' = place
  /\ UNCHANGED <<mainFlags, pret, mret, saved, shared>>

\* A wait is over; its return place is of no use any more.
MainReturn ==
  /\ mpc' = mret /\ mret' = "run"
  /\ UNCHANGED <<mainFlags, pret, saved, shared>>

\* MainWaitForSoundSection.
WaitForSoundSection ==
  \/ mpc = "section" /\ ~soundInSection /\ MainReturn
  \/ mpc = "section" /\ soundInSection /\ MainGoto("sectionPark")
  \/ mpc = "sectionPark" /\ ~worldStopRequested /\ MainGoto("section")
  \/ /\ mpc = "sectionPark" /\ worldStopRequested
     /\ mpc' = "parking" /\ pret' = "section"
     /\ UNCHANGED <<mainFlags, mret, saved, shared>>

\* MainParkIfAsked.  The last test of the request and the reset of g_mainParked
\* are one step: both are done under g_worldMutex, which StopWorld holds to look.
ParkIfAsked ==
  \/ /\ mpc = "ask" /\ ~worldStopRequested
     /\ mpc' = pret /\ pret' = "run"
     /\ UNCHANGED <<mainFlags, mret, saved, shared>>
  \/ mpc = "ask" /\ worldStopRequested /\ MainGoto("parking")
  \/ /\ mpc = "parking"
     /\ mainParked' = TRUE /\ mpc' = "parked"
     /\ UNCHANGED <<irqOn, inHandler, mainYielded, pret, mret, saved, shared>>
  \/ /\ mpc = "parked" /\ ~worldStopRequested
     /\ mainParked' = FALSE /\ mpc' = pret /\ pret' = "run"
     /\ UNCHANGED <<irqOn, inHandler, mainYielded, mret, saved, shared>>

\* Mutant: the way out of a yield does not park for a stopped world.
LeaveYield_NoPark(dest) ==
  /\ mainYielded' = FALSE
  /\ mpc' = "yieldOut" /\ mret' = dest
  /\ UNCHANGED <<irqOn, inHandler, mainParked, pret>>

\* ~MainYieldScope and MainIdleEnd.
LeaveYield(dest) ==
  /\ mainYielded' = FALSE
  /\ mpc' = "ask" /\ pret' = "yieldOut" /\ mret' = dest
  /\ UNCHANGED <<irqOn, inHandler, mainParked>>

\* Mutant: the wait for the sound thread's section is given up.
YieldOut_GivesUp == mpc = "yieldOut" /\ MainReturn

YieldOut ==
  \/ mpc = "yieldOut" /\ irqOn /\ MainReturn
  \/ mpc = "yieldOut" /\ ~irqOn /\ MainGoto("section")

\* MainIdleBegin: the idle wait of the scheduler, or the host half of a disc read.
IdleBegin ==
  /\ mpc = "run" /\ ~inHandler
  /\ mainYielded' = TRUE /\ mpc' = "idle"
  /\ UNCHANGED <<irqOn, inHandler, mainParked, pret, mret, saved, shared>>

IdleEnd ==
  /\ mpc = "idle"
  /\ LeaveYield("run")
  /\ UNCHANGED <<saved, shared>>

\* The guest scheduler runs the other guest thread.
SwitchThread ==
  /\ mpc = "run" /\ ~inHandler
  /\ running' \in Guest \ {running}
  /\ UNCHANGED <<mainSide, mutexes, blocks>>

-----------------------------------------------------------------------------
(* The emulation thread: mutexes.                                          *)

\* SoundMutex::TakeLocked.
TakeSound(who) ==
  /\ soundOwner \in {"none", who}
  /\ soundOwner' = who /\ soundDepth' = soundDepth + 1

\* OSLockMutex(sound mutex) by Game: LockFromGuest, first attempt.
LockFromGuest ==
  /\ mpc = "run" /\ ~inHandler /\ running = "game"
  /\ soundDepth < 2 \/ soundOwner = "sound"
  /\ \/ /\ TakeSound("game")
        /\ retryLock' = FALSE
        /\ UNCHANGED <<mainYielded, mpc>>
     \/ /\ soundOwner = "sound"
        /\ mainYielded' = TRUE /\ mpc' = "spin"
        /\ UNCHANGED <<soundOwner, soundDepth, retryLock>>
  /\ UNCHANGED <<irqOn, inHandler, mainParked, pret, mret, stateLocked,
                 handlerIrq, running, discOwner, discCount, blocks>>

\* TryLockMutexFromGuest, the loop: it takes the mutex, or gives way to the
\* guest thread the sound thread waits for; Game then sleeps and tries again.
SpinForSound ==
  /\ mpc = "spin"
  /\ \/ TakeSound("game") /\ retryLock' = FALSE
     \/ /\ soundOwner = "sound" /\ soundWaits
        /\ retryLock' = TRUE
        /\ UNCHANGED <<soundOwner, soundDepth>>
  /\ LeaveYield("run")
  /\ UNCHANGED <<stateLocked, handlerIrq, running, discOwner, discCount,
                 blocks>>

ReleaseSound(who) ==
  /\ soundOwner = who
  /\ soundDepth' = soundDepth - 1
  /\ soundOwner' = IF soundDepth = 1 THEN "none" ELSE who
  /\ UNCHANGED <<discOwner, discCount>>

UnlockFromGuest ==
  /\ GameCode("game")
  /\ ReleaseSound("game")
  /\ UNCHANGED <<mainSide, running, blocks>>

\* OSLockMutex / OSUnlockMutex of the other mutex by Reader: the part between
\* OSDisableInterrupts and OSRestoreInterrupts.
ReaderMutex ==
  /\ GameCode("reader") /\ ~irqOn
  /\ \/ discOwner = "none" /\ discOwner' = running /\ discCount' = 1
     \/ discOwner = running /\ discOwner' = "none" /\ discCount' = 0
  /\ UNCHANGED <<mainSide, running, soundOwner, soundDepth, blocks>>

-----------------------------------------------------------------------------
(* The emulation thread: audio interrupt, block messages, shutdown.        *)

\* BeginAudioInterrupt: WaitUntilIdle with work outstanding waits, yielded.
BeginAudioInterrupt ==
  /\ mpc = "run" /\ ~inHandler
  /\ handlerIrq' = irqOn
  /\ IF outstanding = 0
       THEN mpc' = "begin" /\ UNCHANGED mainYielded
       ELSE mpc' = "idleWait" /\ mainYielded' = TRUE
  /\ UNCHANGED <<irqOn, inHandler, mainParked, pret, mret, stateLocked,
                 retryLock, shared>>

\* The wait ends idle or after 200 ms, whatever the sound thread does; the
\* lock of g_stateMutex outlives the yield scope.
IdleWaitEnds ==
  /\ mpc = "idleWait"
  /\ LeaveYield("begin")
  /\ stateLocked' = TRUE
  /\ UNCHANGED <<retryLock, handlerIrq, shared>>

StartStaging ==
  /\ mpc = "begin"
  /\ staging' = TRUE /\ stateLocked' = FALSE /\ mpc' = "handler"
  /\ UNCHANGED <<mainFlags, pret, mret, retryLock, handlerIrq, running,
                 mutexes, staged, blockQueue, threadRunning, guestBlocks>>

EnterHandler ==
  /\ mpc = "handler"
  /\ inHandler' = TRUE /\ mpc' = "section" /\ mret' = "run"
  /\ UNCHANGED <<irqOn, mainYielded, mainParked, pret, saved, shared>>

\* EndAudioInterrupt, its two stores.
EndAudioInterrupt ==
  /\ mpc = "run" /\ inHandler /\ irqOn = handlerIrq
  /\ inHandler' = FALSE /\ mpc' = "end" /\ handlerIrq' = TRUE
  /\ UNCHANGED <<irqOn, mainYielded, mainParked, pret, mret, stateLocked,
                 retryLock, shared>>

\* Mutant: the queue is not tested for room.
Enqueued_Unbounded(n) == n

\* EnqueueLocked of n block messages: a full queue drops them.
Enqueued(n) ==
  LET room == QueueCapacity - Len(queue)
  IN  IF n <= room THEN n ELSE room

\* Mutant: the staged blocks are released past the count of outstanding work.
ReleaseStaged_NotCounted ==
  /\ mpc = "end"
  /\ queue' = queue \o [i \in 1..Enqueued(staged) |-> "block"]
  /\ staging' = FALSE /\ staged' = 0 /\ mpc' = "run"
  /\ UNCHANGED <<mainFlags, pret, mret, saved, running, mutexes, outstanding,
                 processing, threadRunning, guestBlocks>>

ReleaseStaged ==
  /\ mpc = "end"
  /\ queue' = queue \o [i \in 1..Enqueued(staged) |-> "block"]
  /\ outstanding' = outstanding + Enqueued(staged)
  /\ staging' = FALSE /\ staged' = 0 /\ mpc' = "run"
  /\ UNCHANGED <<mainFlags, pret, mret, saved, running, mutexes, processing,
                 threadRunning, guestBlocks>>

\* GuestSoundThreadParked.
GuestSoundThreadParked == ~guestBusy /\ guestUsed = 0

\* Mutant: the route changes back while blocks are staged or queued.
RouteToHost_AnyTime(want) ==
  IF want /\ ~routed /\ ~GuestSoundThreadParked THEN routed ELSE want

\* RouteToHostLocked: the new route, when the game is (not) in a race.
RouteToHost(want) ==
  IF want = routed THEN routed
  ELSE IF (IF want THEN ~GuestSoundThreadParked ELSE outstanding # 0 \/ staged # 0)
  THEN routed ELSE want

\* HandleSend(block ready): to the host thread, staged inside the handler, or
\* to the guest sound thread's own queue.
SendBlock(want) ==
  /\ mpc = "run"
  /\ routed' = RouteToHost(want)
  /\ IF RouteToHost(want)
       THEN /\ threadRunning' = TRUE
            /\ spc' = IF threadRunning THEN spc ELSE "receive"
            /\ IF staging
                 THEN /\ staged' = IF staged < QueueCapacity THEN staged + 1 ELSE staged
                      /\ UNCHANGED <<queue, outstanding>>
                 ELSE /\ queue' = queue \o [i \in 1..Enqueued(1) |-> "block"]
                      /\ outstanding' = outstanding + Enqueued(1)
                      /\ UNCHANGED staged
            /\ UNCHANGED guestUsed
       ELSE /\ guestUsed < QueueCapacity
            /\ guestUsed' = guestUsed + 1
            /\ UNCHANGED <<threadRunning, spc, staged, queue, outstanding>>
  /\ UNCHANGED <<mainSide, soundFlags, sret, world, ops, running, mutexes, staging,
                 processing, guestBusy>>

\* The guest sound thread, when the blocks are its own: one block each time.
GuestSoundBlock ==
  /\ mpc = "run" /\ ~inHandler
  /\ \/ ~guestBusy /\ guestUsed > 0 /\ guestBusy' = TRUE /\ guestUsed' = guestUsed - 1
     \/ guestBusy /\ guestBusy' = FALSE /\ UNCHANGED guestUsed
  /\ UNCHANGED <<mainSide, running, mutexes, staging, staged,
                 blockQueue, threadRunning, routed>>

\* Shutdown, by a guest thread that holds neither mutex while no other holds one.
Shutdown ==
  /\ GameCode("game") /\ threadRunning
  /\ soundOwner # "game" /\ discOwner # "reader"
  /\ queue' = <<"shutdown">> /\ outstanding' = 1 /\ threadRunning' = FALSE
  /\ mainYielded' = TRUE /\ mpc' = "join"
  /\ UNCHANGED <<irqOn, inHandler, mainParked, pret, mret, saved, running,
                 mutexes, staging, staged, processing, guestBlocks>>

Joined ==
  /\ mpc = "join" /\ spc = "off"
  /\ LeaveYield("run")
  /\ UNCHANGED <<saved, shared>>

-----------------------------------------------------------------------------
(* The sound thread: messages.                                             *)

SoundGoto(place) ==
  /\ spc' = place
  /\ UNCHANGED <<soundFlags, sret, world, ops, shared>>

\* HandleReceive: a message is there.
TakeMessage ==
  /\ spc = "receive" /\ ~stateLocked /\ queue # <<>>
  /\ queue' = Tail(queue) /\ processing' = TRUE
  /\ IF Head(queue) = "shutdown"
       THEN spc' = "exit" /\ UNCHANGED ops
       ELSE spc' = "run" /\ ops' = BlockOps
  /\ UNCHANGED <<soundFlags, sret, world, running, mutexes, staging, staged,
                 outstanding, threadRunning, guestBlocks>>

\* HandleReceive after a block: the block is accounted for first.
FinishBlock ==
  /\ spc = "run" /\ ~stateLocked
  /\ sIrqOn /\ worldDepth = 0 /\ soundOwner # "sound"
  /\ spc' = "receive" /\ processing' = FALSE
  /\ outstanding' = IF outstanding > 0 THEN outstanding - 1 ELSE 0
  /\ ops' = 0
  /\ UNCHANGED <<soundFlags, sret, world, running, mutexes, staging, staged,
                 queue, threadRunning, guestBlocks>>

\* The end of SoundThreadMain.
ExitThread ==
  /\ spc = "exit" /\ ~stateLocked
  /\ spc' = "off" /\ processing' = FALSE /\ outstanding' = 0 /\ queue' = <<>>
  /\ UNCHANGED <<soundFlags, sret, world, ops, running, mutexes, staging,
                 staged, threadRunning, guestBlocks>>

-----------------------------------------------------------------------------
(* The sound thread: interrupt sections.                                   *)

\* SoundEnterSection: raise the flag, then read the main thread's four flags, one
\* at a time.  Off the section they are read together: the full check follows.
RaiseFlag(return) ==
  /\ soundInSection' = TRUE
  /\ spc' = "irq" /\ sret' = return
  /\ UNCHANGED <<worldStopRequested, soundWaits>>

MainHoldsSection == (~irqOn \/ inHandler) /\ ~mainYielded /\ ~mainParked

\* The section is entered.  The interrupt flag of the sound thread follows
\* when its own code asked, not when an HLE function did on its way.
SectionEntered ==
  /\ spc' = sret /\ sret' = "run"
  /\ sIrqOn' = IF sret = "run" THEN FALSE ELSE sIrqOn
  /\ UNCHANGED <<soundFlags, worldDepth, savedThread, discIrq, ops,
                 shared>>

CheckMain ==
  \/ spc = "irq" /\ SoundGoto(IF irqOn THEN "inHandler" ELSE "yielded")
  \/ spc = "inHandler" /\ inHandler /\ SoundGoto("yielded")
  \/ spc = "inHandler" /\ ~inHandler /\ SectionEntered
  \/ spc = "yielded" /\ ~mainYielded /\ SoundGoto("parked")
  \/ spc = "yielded" /\ mainYielded /\ SectionEntered
  \/ spc = "parked" /\ mainParked /\ SectionEntered
  \/ /\ spc = "parked" /\ ~mainParked
     /\ soundInSection' = FALSE /\ spc' = "backoff"
     /\ UNCHANGED <<worldStopRequested, soundWaits, sret, world, ops, shared>>
  \/ /\ spc = "backoff" /\ ~MainHoldsSection
     /\ RaiseFlag(sret)
     /\ UNCHANGED <<world, ops, shared>>

\* OSDisableInterrupts by the block.
SoundDisable ==
  /\ spc = "run" /\ sIrqOn /\ ops > 0
  /\ ops' = ops - 1
  /\ RaiseFlag("run")
  /\ UNCHANGED <<world, shared>>

\* OSRestoreInterrupts(1): SoundLeaveSection.  A section does not outlive the
\* critical section it began in.
SoundRestore ==
  /\ spc = "run" /\ ~sIrqOn /\ (worldDepth > 0 => discIrq)
  /\ soundInSection' = FALSE /\ sIrqOn' = TRUE
  /\ UNCHANGED <<worldStopRequested, soundWaits, spc, sret, worldDepth,
                 savedThread, discIrq, ops, shared>>

-----------------------------------------------------------------------------
(* The sound thread: the sound mutex.                                      *)

\* Mutant: a blocked sound thread stays in its section.
SoundLock_KeepsSection ==
  /\ spc = "run" /\ ops > 0 /\ ops' = ops - 1
  /\ worldDepth > 0 => soundOwner = "sound"
  /\ \/ TakeSound("sound") /\ UNCHANGED spc
     \/ /\ soundOwner = "game" /\ spc' = "blocked"
        /\ UNCHANGED <<soundOwner, soundDepth>>
  /\ UNCHANGED <<soundFlags, sret, world, running, discOwner, discCount,
                 blocks>>

\* HandleLockMutex: a blocked sound thread leaves its section meanwhile.
SoundLock ==
  /\ spc = "run" /\ ops > 0 /\ ops' = ops - 1
  /\ worldDepth > 0 => soundOwner = "sound"
  /\ \/ TakeSound("sound") /\ UNCHANGED <<spc, soundInSection>>
     \/ /\ soundOwner = "game"
        /\ soundInSection' = FALSE /\ spc' = "blocked"
        /\ UNCHANGED <<soundOwner, soundDepth>>
  /\ UNCHANGED <<worldStopRequested, soundWaits, sret, world, running,
                 discOwner, discCount, blocks>>

SoundUnblocked ==
  /\ spc = "blocked"
  /\ TakeSound("sound")
  /\ IF sIrqOn
       THEN spc' = "run" /\ UNCHANGED <<soundFlags, sret>>
       ELSE RaiseFlag("run")
  /\ UNCHANGED <<world, ops, running, discOwner, discCount, blocks>>

\* The sound mutex outlives what was taken inside it.
SoundUnlock ==
  /\ spc = "run" /\ (worldDepth > 0 => soundDepth > 1)
  /\ ReleaseSound("sound")
  /\ UNCHANGED <<soundSide, running, blocks>>

-----------------------------------------------------------------------------
(* The sound thread: another mutex, under a stop of the emulation thread.  *)

\* OSLockMutex (os_scheduler.cpp), the sound thread's loop; StopWorld.
SoundLockDisc ==
  /\ spc = "run" /\ ops > 0
  /\ ops' = ops - 1 /\ spc' = "stop"
  /\ discIrq' = IF worldDepth = 0 THEN sIrqOn ELSE discIrq
  /\ UNCHANGED <<soundFlags, sret, sIrqOn, worldDepth, savedThread, shared>>

StopWorld ==
  \/ /\ spc = "stop" /\ worldDepth > 0
     /\ worldDepth' = worldDepth + 1 /\ spc' = "owner"
     /\ UNCHANGED <<soundFlags, sret, sIrqOn, savedThread, discIrq, ops,
                    shared>>
  \/ /\ spc = "stop" /\ worldDepth = 0
     /\ worldDepth' = 1 /\ spc' = "stopWait"
     /\ soundWaits' = FALSE /\ worldStopRequested' = TRUE
     /\ UNCHANGED <<soundInSection, sret, sIrqOn, savedThread, discIrq, ops,
                    shared>>
  \/ spc = "stopWait" /\ (mainParked \/ mainYielded) /\ SoundGoto("stopSave")
  \/ /\ spc = "stopSave"
     /\ savedThread' = running /\ running' = "sound" /\ spc' = "owner"
     /\ UNCHANGED <<soundFlags, sret, sIrqOn, worldDepth, discIrq, ops,
                    mutexes, blocks>>

\* The world is stopped: look at the owner, then take the mutex inside a
\* section, or let the world go on until its owner has released it.
LookAtOwner ==
  /\ spc = "owner"
  /\ \/ /\ discOwner \in {"none", "sound"}
        /\ IF sIrqOn THEN RaiseFlag("take")
           ELSE spc' = "take" /\ UNCHANGED <<soundFlags, sret>>
     \/ /\ discOwner \in Guest
        /\ soundWaits' = TRUE /\ spc' = "resume" /\ sret' = "stop"
        /\ UNCHANGED <<soundInSection, worldStopRequested>>
  /\ UNCHANGED <<world, ops, shared>>

\* OSRestoreInterrupts at the end of an HLE function.
LeaveIfOn ==
  /\ soundInSection' = IF sIrqOn THEN FALSE ELSE soundInSection
  /\ UNCHANGED <<worldStopRequested, soundWaits>>

\* The guest half of OSLockMutex and OSUnlockMutex names the running thread.
TakeDisc ==
  /\ spc = "take"
  /\ discOwner' = running /\ discCount' = discCount + 1
  /\ LeaveIfOn
  /\ spc' = "run"
  /\ UNCHANGED <<sret, world, ops, running, soundOwner, soundDepth, blocks>>

SoundUnlockDisc ==
  /\ spc = "run" /\ worldDepth > 0 /\ sIrqOn = discIrq
  /\ IF sIrqOn THEN RaiseFlag("give")
     ELSE spc' = "give" /\ UNCHANGED <<soundFlags, sret>>
  /\ UNCHANGED <<world, ops, shared>>

GiveDisc ==
  /\ spc = "give"
  /\ IF discOwner = running
       THEN /\ discCount' = discCount - 1
            /\ discOwner' = IF discCount = 1 THEN "none" ELSE discOwner
       ELSE UNCHANGED <<discOwner, discCount>>
  /\ LeaveIfOn
  /\ spc' = "resume" /\ sret' = "run"
  /\ UNCHANGED <<world, ops, running, soundOwner, soundDepth, blocks>>

\* ResumeWorld: the pointers first, then the request.
ResumeWorld ==
  \/ /\ spc = "resume"
     /\ worldDepth' = worldDepth - 1
     /\ IF worldDepth = 1
          THEN /\ running' = savedThread /\ savedThread' = "game"
               /\ discIrq' = TRUE /\ spc' = "release" /\ UNCHANGED sret
          ELSE /\ spc' = sret /\ sret' = "run"
               /\ UNCHANGED <<running, savedThread, discIrq>>
     /\ UNCHANGED <<soundFlags, sIrqOn, ops, mutexes, blocks>>
  \/ /\ spc = "release"
     /\ worldStopRequested' = FALSE /\ spc' = sret /\ sret' = "run"
     /\ UNCHANGED <<soundInSection, soundWaits, world, ops, shared>>

-----------------------------------------------------------------------------
(* A step of the one thread leaves the flags and the places of the other   *)
(* one alone, but for SendBlock, which may start the sound thread.         *)

MainWaits == UNCHANGED soundSide /\ (WaitForSoundSection \/ ParkIfAsked \/ YieldOut)

MainCode ==
  /\ UNCHANGED soundSide
  /\ \/ DisableInterrupts \/ EnableInterrupts
     \/ IdleBegin \/ IdleEnd \/ SwitchThread
     \/ LockFromGuest \/ SpinForSound \/ UnlockFromGuest \/ ReaderMutex
     \/ BeginAudioInterrupt \/ IdleWaitEnds \/ StartStaging \/ EnterHandler
     \/ EndAudioInterrupt \/ ReleaseStaged
     \/ GuestSoundBlock \/ Shutdown \/ Joined

SoundNext ==
  /\ UNCHANGED mainSide
  /\ \/ TakeMessage \/ FinishBlock \/ ExitThread
     \/ CheckMain \/ SoundDisable \/ SoundRestore
     \/ SoundLock \/ SoundUnblocked \/ SoundUnlock
     \/ SoundLockDisc \/ StopWorld \/ LookAtOwner \/ TakeDisc
     \/ SoundUnlockDisc \/ GiveDisc \/ ResumeWorld

SoundStep == MainWaits \/ MainCode \/ SoundNext \/ \E want \in BOOLEAN : SendBlock(want)

\* The host runs both threads; guest code of the main thread takes its own time,
\* so only its waits are scheduled.  A park gets its chance although the request
\* comes and goes: the sound thread sleeps 200 us between two world stops.
SoundFairness ==
  /\ WF_svars(SoundNext) /\ WF_svars(MainWaits)
  /\ SF_svars(UNCHANGED soundSide /\ ParkIfAsked)

SoundSpec == SoundInit /\ [][SoundStep]_svars /\ SoundFairness

-----------------------------------------------------------------------------
SoundTypeOK ==
  /\ {irqOn, inHandler, mainYielded, mainParked, soundInSection,
      worldStopRequested, soundWaits, stateLocked, retryLock, handlerIrq,
      sIrqOn, discIrq, staging, processing, threadRunning, routed,
      guestBusy} \subseteq BOOLEAN
  /\ {mpc, pret, mret} \subseteq MainPlace
  /\ {spc, sret} \subseteq SoundPlace
  /\ {worldDepth, ops, soundDepth, discCount, staged, outstanding, guestUsed} \subseteq Nat
  /\ savedThread \in Guest /\ running \in Guest \cup {"sound"}
  /\ {soundOwner, discOwner} \subseteq Owner
  /\ queue \in Seq({"block", "shutdown"}) /\ Len(queue) <= QueueCapacity

\* The sound thread is past the check of SoundEnterSection.
SoundHoldsSection == soundInSection /\ spc \notin Checking

\* Guest code of the emulation thread with interrupts off and guest code of the
\* sound thread in its section never run at the same time.
SectionsExclude == mpc = "run" /\ ~irqOn => ~SoundHoldsSection

\* What the comment of g_mainInHandler says of the audio handler: "so the sound
\* thread cannot be in a section meanwhile".
HandlerExcludes == mpc = "run" /\ inHandler => ~SoundHoldsSection

WorldHeld == worldDepth > 0 /\ spc # "stopWait"

\* From the moment the sound thread has stopped the world until it lets go, no
\* guest code runs on the emulation thread; guest code of the emulation thread
\* never sees the sound thread as the running one, and the mutex the stop is
\* for is the sound thread's own.
WorldStopHolds ==
  /\ mpc = "run" => ~WorldHeld /\ running \in Guest
  /\ discOwner = "sound" => WorldHeld
  /\ spc = "run" /\ worldDepth > 0 => discOwner = "sound" /\ discCount = worldDepth

HostBlocks ==
  \/ staged > 0 \/ \E i \in DOMAIN queue : queue[i] = "block"
  \/ processing /\ spc # "exit"

\* The blocks have one processor at a time: the guest sound thread has none
\* left, or the host thread has none left.
OneRoute == (guestBusy \/ guestUsed > 0) => ~HostBlocks

\* An idle answer of WaitUntilIdle is true: no message is queued and no block
\* is being processed, unless the thread is being shut down.
IdleIsIdle ==
  outstanding = 0 /\ threadRunning => queue = <<>> /\ ~processing

\* Again and again the emulation thread is past every wait for the sound thread, a
\* park or a section, unless its own Reader holds the mutex the sound thread wants.
WaitsEnd ==
  []<>~(/\ mpc \in {"section", "sectionPark", "ask", "parking", "parked", "yieldOut"}
        /\ discOwner # "reader")
=============================================================================
