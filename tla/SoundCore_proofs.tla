-------------------------- MODULE SoundCore_proofs --------------------------
(***************************************************************************)
(* Proofs about SoundCore for every queue capacity and every number of     *)
(* operations of a block: interrupt sections exclude each other, a stopped *)
(* world stands still, the blocks have one processor and an idle answer is *)
(* true.                                                                   *)
(***************************************************************************)
EXTENDS SoundCore, SequenceTheorems, TLAPS

Yielded == {"idle", "spin", "idleWait", "join"}

\* The flags the emulation thread shows are those of its place, and the places
\* its waits lead back to.
PlacesOK ==
  /\ mainYielded <=> mpc \in Yielded
  /\ mainParked <=> mpc = "parked"
  /\ mret \in {"run", "begin"}
  /\ pret \in {"run", "yieldOut", "section"}
  /\ pret = "run" /\ mpc \in {"ask", "parking", "parked"} => irqOn

\* Places at which the emulation thread has passed the test for its section.
MainHolds == mpc \in {"run", "begin", "handler", "end"} /\ ~irqOn

\* The sound thread that checks shows its flag; while it has seen the main
\* thread's interrupts on, the main thread does not pass its own test.
SectionsOK ==
  /\ spc \in Checking => soundInSection
  /\ MainHolds => ~SoundHoldsSection /\ spc # "inHandler"

CheckingFor(place) == spc \in Checking \cup {"backoff"} /\ sret = place

\* A stop of the world is under way until its mutex is taken, or after that
\* mutex was given back.
Pending ==
  spc \in {"stopWait", "stopSave", "owner", "take", "resume"} \/ CheckingFor("take")

\* The world stands still, and the running thread is the sound thread, from the
\* end of StopWorld to the start of ResumeWorld.
WorldOK ==
  /\ WorldHeld => worldStopRequested /\ mpc \in Yielded \cup {"ask", "parking", "parked"}
  /\ spc = "stopWait" => worldStopRequested
  /\ spc \in {"stopWait", "stopSave"} => worldDepth = 1
  /\ spc = "release" => worldDepth = 0
  /\ running = "sound" <=> worldDepth > 0 /\ spc \notin {"stopWait", "stopSave"}

\* One stop for each lock of the disc mutex, and one more while it is under way.
DiscOK ==
  /\ Pending => /\ worldDepth > 0
                /\ discOwner = "sound" <=> worldDepth > 1
                /\ worldDepth > 1 => discCount = worldDepth - 1
  /\ ~Pending => /\ discOwner = "sound" <=> worldDepth > 0
                 /\ worldDepth > 0 => discCount = worldDepth
  /\ spc = "take" \/ CheckingFor("take") => discOwner \in {"none", "sound"}
  /\ spc = "give" \/ CheckingFor("give") => worldDepth > 0
  /\ spc \in Checking \cup {"backoff"} => sret \in {"run", "take", "give"}
  /\ spc \in {"resume", "release"} => sret \in {"run", "stop"}
  /\ discOwner = "none" <=> discCount = 0
  /\ soundOwner = "none" <=> soundDepth = 0

\* The queue, while the thread runs and is not shut down, holds blocks only, and
\* the count of outstanding work is its length and the block being processed.
QueueOK == queue \in Seq({"block", "shutdown"}) /\ Len(queue) <= QueueCapacity

CountOK ==
  threadRunning => /\ outstanding = Len(queue) + (IF processing THEN 1 ELSE 0)
                   /\ queue \in Seq({"block"})

\* Only Shutdown, which joins the thread, takes threadRunning back before its end.
ThreadOK ==
  /\ ~threadRunning => mpc = "join" \/ spc = "off"
  /\ threadRunning => mpc # "join" /\ spc \notin {"off", "exit"}
  /\ processing <=> spc \notin {"off", "receive"}
  /\ spc = "off" => outstanding = 0 /\ queue = <<>>

StagedOK ==
  /\ staged > 0 => staging /\ threadRunning
  /\ staging => inHandler \/ mpc \in {"handler", "end"}

\* The blocks go one way only.
RouteOK ==
  /\ ~routed => ~HostBlocks
  /\ routed => guestUsed = 0 /\ ~guestBusy

BlocksOK == QueueOK /\ CountOK /\ ThreadOK /\ StagedOK /\ RouteOK

\* The types the steps below rest on.
OwnerTypes ==
  /\ savedThread \in Guest /\ running \in Guest \cup {"sound"}
  /\ soundOwner \in Owner /\ discOwner \in Owner

CountTypes ==
  /\ worldDepth \in Nat /\ soundDepth \in Nat /\ discCount \in Nat
  /\ staged \in Nat /\ outstanding \in Nat /\ guestUsed \in Nat

SoundInv ==
  /\ OwnerTypes /\ CountTypes
  /\ PlacesOK /\ SectionsOK /\ WorldOK /\ DiscOK /\ BlocksOK

-----------------------------------------------------------------------------
(* Each step keeps each part of the invariant.                             *)

LEMMA SoundInitKeeps == SoundInit => SoundInv
  <1> SUFFICES ASSUME SoundInit PROVE SoundInv
    OBVIOUS
  <1> USE DEF SoundInit
  <1>1. OwnerTypes /\ CountTypes
    BY DEF OwnerTypes, CountTypes, Guest, Owner
  <1>2. QueueOK
    BY EmptySeq, SoundAssumption DEF QueueOK
  <1>3. PlacesOK /\ SectionsOK
    BY DEF PlacesOK, SectionsOK, MainHolds, SoundHoldsSection, Yielded, Checking
  <1>4. WorldOK /\ DiscOK
    BY DEF WorldOK, DiscOK, WorldHeld, Pending, CheckingFor, Checking
  <1>5. BlocksOK
    <2>1. CountOK /\ ThreadOK
      BY DEF CountOK, ThreadOK
    <2>2. DOMAIN queue = {} /\ ~(staged > 0) /\ ~processing
      OBVIOUS
    <2>3. ~HostBlocks
      BY <2>2 DEF HostBlocks
    <2>4. StagedOK /\ RouteOK
      BY <2>2, <2>3 DEF StagedOK, RouteOK
    <2> QED
      BY <1>2, <2>1, <2>4 DEF BlocksOK
  <1> QED
    BY <1>1, <1>3, <1>4, <1>5, <1>2 DEF SoundInv, BlocksOK

\* EnqueueLocked takes what there is room for.
LEMMA EnqueuedFits ==
  ASSUME SoundInv, NEW n \in Nat
  PROVE  /\ Enqueued(n) \in Nat /\ Len(queue) + Enqueued(n) <= QueueCapacity
         /\ n = 0 => Enqueued(n) = 0
  <1>1. Len(queue) \in Nat /\ Len(queue) <= QueueCapacity /\ QueueCapacity \in Nat
    BY LenProperties, SoundAssumption DEF SoundInv, BlocksOK, QueueOK
  <1> QED
    BY <1>1 DEF Enqueued

\* The queue with n blocks more.
LEMMA QueueGrows ==
  ASSUME NEW S, "block" \in S, queue \in Seq(S), NEW n \in Nat
  PROVE  LET q == queue \o [i \in 1..n |-> "block"]
         IN  /\ q \in Seq(S) /\ Len(q) = Len(queue) + n
             /\ n = 0 => q = queue
  <1> DEFINE b == [i \in 1..n |-> "block"]
  <1>1. b \in Seq(S) /\ Len(b) = n
    <2>1. b \in [1..n -> S]
      OBVIOUS
    <2> HIDE DEF b
    <2>2. b \in Seq(S)
      BY <2>1
    <2>3. DOMAIN b = 1..n /\ DOMAIN b = 1..Len(b) /\ Len(b) \in Nat
      BY <2>1, <2>2, LenProperties
    <2> QED
      BY <2>2, <2>3
  <1> HIDE DEF b
  <1>3. queue \o b \in Seq(S) /\ Len(queue \o b) = Len(queue) + n
    BY <1>1, ConcatProperties
  <1>4. ASSUME n = 0 PROVE queue \o b = queue
    <2>1. b = <<>>
      BY <1>1, <1>4, EmptySeq
    <2> QED
      BY <2>1, ConcatEmptySeq
  <1> QED
    BY <1>3, <1>4 DEF b

\* The places of the two threads that the blocks depend on.
LEMMA WaitPlaces ==
  ASSUME SoundInv
  PROVE  /\ mret \notin {"join", "handler", "end"} /\ pret \notin {"join", "handler", "end"}
         /\ spc \in Checking \cup {"backoff", "resume", "release"}
              => sret \notin {"off", "receive", "exit"}
  BY DEF SoundInv, PlacesOK, DiscOK, Checking

\* The sections and places, a step of the emulation thread.
LEMMA MainSections ==
  ASSUME SoundInv, UNCHANGED soundSide,
         WaitForSoundSection \/ ParkIfAsked \/ YieldOut
         \/ DisableInterrupts \/ EnableInterrupts \/ IdleBegin
         \/ IdleEnd \/ SwitchThread \/ LockFromGuest \/ SpinForSound
         \/ UnlockFromGuest \/ ReaderMutex \/ BeginAudioInterrupt
         \/ IdleWaitEnds \/ StartStaging \/ EnterHandler
         \/ EndAudioInterrupt \/ ReleaseStaged \/ GuestSoundBlock
         \/ Shutdown \/ Joined
  PROVE  (PlacesOK /\ SectionsOK)'
  <1> USE DEF SoundInv, OwnerTypes, CountTypes, PlacesOK, SectionsOK, MainHolds, SoundHoldsSection,
          Yielded, Checking, mainFlags, soundFlags, saved, world, mutexes, blockQueue, guestBlocks, blocks,
          mainSide, soundSide, shared
  <1>1. CASE WaitForSoundSection
    BY <1>1 DEF WaitForSoundSection, MainGoto, MainReturn
  <1>2. CASE ParkIfAsked
    BY <1>2 DEF ParkIfAsked, MainGoto
  <1>3. CASE YieldOut
    BY <1>3 DEF YieldOut, MainGoto, MainReturn
  <1>4. CASE DisableInterrupts
    BY <1>4 DEF DisableInterrupts
  <1>5. CASE EnableInterrupts
    BY <1>5 DEF EnableInterrupts
  <1>6. CASE IdleBegin
    BY <1>6 DEF IdleBegin
  <1>7. CASE IdleEnd
    BY <1>7 DEF IdleEnd, LeaveYield
  <1>8. CASE SwitchThread
    BY <1>8 DEF SwitchThread, Guest
  <1>9. CASE LockFromGuest
    BY <1>9 DEF LockFromGuest, TakeSound
  <1>10. CASE SpinForSound
    BY <1>10 DEF SpinForSound, TakeSound, LeaveYield
  <1>11. CASE UnlockFromGuest
    BY <1>11 DEF UnlockFromGuest, GameCode, ReleaseSound
  <1>12. CASE ReaderMutex
    BY <1>12 DEF ReaderMutex, GameCode
  <1>13. CASE BeginAudioInterrupt
    BY <1>13 DEF BeginAudioInterrupt
  <1>14. CASE IdleWaitEnds
    BY <1>14 DEF IdleWaitEnds, LeaveYield
  <1>15. CASE StartStaging
    BY <1>15 DEF StartStaging
  <1>16. CASE EnterHandler
    BY <1>16 DEF EnterHandler
  <1>17. CASE EndAudioInterrupt
    BY <1>17 DEF EndAudioInterrupt
  <1>18. CASE ReleaseStaged
    BY <1>18 DEF ReleaseStaged
  <1>19. CASE GuestSoundBlock
    BY <1>19 DEF GuestSoundBlock
  <1>20. CASE Shutdown
    BY <1>20 DEF Shutdown, GameCode
  <1>21. CASE Joined
    BY <1>21 DEF Joined, LeaveYield
  <1> QED
    BY <1>1, <1>2, <1>3, <1>4, <1>5, <1>6, <1>7, <1>8, <1>9, <1>10, <1>11, <1>12, <1>13, <1>14, <1>15, <1>16, <1>17, <1>18, <1>19, <1>20, <1>21

\* The sections and places, a step of the sound thread.
LEMMA SoundSections ==
  ASSUME SoundInv, UNCHANGED mainSide,
         TakeMessage \/ FinishBlock \/ ExitThread \/ CheckMain
         \/ SoundDisable \/ SoundRestore \/ SoundLock \/ SoundUnblocked
         \/ SoundUnlock \/ SoundLockDisc \/ StopWorld \/ LookAtOwner
         \/ TakeDisc \/ SoundUnlockDisc \/ GiveDisc \/ ResumeWorld
  PROVE  (PlacesOK /\ SectionsOK)'
  <1> USE DEF SoundInv, OwnerTypes, CountTypes, PlacesOK, SectionsOK, MainHolds, SoundHoldsSection,
          Yielded, Checking, mainFlags, soundFlags, saved, world, mutexes, blockQueue, guestBlocks, blocks,
          mainSide, soundSide, shared
  <1>1. CASE TakeMessage
    BY <1>1 DEF TakeMessage
  <1>2. CASE FinishBlock
    BY <1>2 DEF FinishBlock
  <1>3. CASE ExitThread
    BY <1>3 DEF ExitThread
  <1>4. CASE CheckMain
    BY <1>4 DEF CheckMain, SoundGoto, SectionEntered, RaiseFlag
  <1>5. CASE SoundDisable
    BY <1>5 DEF SoundDisable, RaiseFlag
  <1>6. CASE SoundRestore
    BY <1>6 DEF SoundRestore
  <1>7. CASE SoundLock
    BY <1>7 DEF SoundLock, TakeSound
  <1>8. CASE SoundUnblocked
    BY <1>8 DEF SoundUnblocked, TakeSound, RaiseFlag
  <1>9. CASE SoundUnlock
    BY <1>9 DEF SoundUnlock, ReleaseSound
  <1>10. CASE SoundLockDisc
    BY <1>10 DEF SoundLockDisc
  <1>11. CASE StopWorld
    BY <1>11 DEF StopWorld, SoundGoto
  <1>12. CASE LookAtOwner
    BY <1>12 DEF LookAtOwner, RaiseFlag
  <1>13. CASE TakeDisc
    BY <1>13 DEF TakeDisc, LeaveIfOn
  <1>14. CASE SoundUnlockDisc
    BY <1>14 DEF SoundUnlockDisc, RaiseFlag
  <1>15. CASE GiveDisc
    BY <1>15 DEF GiveDisc, LeaveIfOn
  <1>16. CASE ResumeWorld
    <2>1. sret # "inHandler" /\ sret \notin Checking /\ spc \notin Checking /\ spc # "inHandler"
      BY <1>16 DEF ResumeWorld, DiscOK
    <2> QED
      BY <1>16, <2>1 DEF ResumeWorld
  <1> QED
    BY <1>1, <1>2, <1>3, <1>4, <1>5, <1>6, <1>7, <1>8, <1>9, <1>10, <1>11, <1>12, <1>13, <1>14, <1>15, <1>16

\* The stop of the world, a step of the emulation thread.
LEMMA MainWorld ==
  ASSUME SoundInv, UNCHANGED soundSide,
         WaitForSoundSection \/ ParkIfAsked \/ YieldOut
         \/ DisableInterrupts \/ EnableInterrupts \/ IdleBegin
         \/ IdleEnd \/ SwitchThread \/ LockFromGuest \/ SpinForSound
         \/ UnlockFromGuest \/ ReaderMutex \/ BeginAudioInterrupt
         \/ IdleWaitEnds \/ StartStaging \/ EnterHandler
         \/ EndAudioInterrupt \/ ReleaseStaged \/ GuestSoundBlock
         \/ Shutdown \/ Joined
  PROVE  WorldOK'
  <1> USE DEF SoundInv, OwnerTypes, CountTypes, PlacesOK, WorldOK, WorldHeld, Yielded, Guest, mainFlags, soundFlags, saved, world, mutexes, blockQueue, guestBlocks, blocks,
          mainSide, soundSide, shared
  <1>1. CASE WaitForSoundSection
    BY <1>1 DEF WaitForSoundSection, MainGoto, MainReturn
  <1>2. CASE ParkIfAsked
    BY <1>2 DEF ParkIfAsked, MainGoto
  <1>3. CASE YieldOut
    BY <1>3 DEF YieldOut, MainGoto, MainReturn
  <1>4. CASE DisableInterrupts
    BY <1>4 DEF DisableInterrupts
  <1>5. CASE EnableInterrupts
    BY <1>5 DEF EnableInterrupts
  <1>6. CASE IdleBegin
    BY <1>6 DEF IdleBegin
  <1>7. CASE IdleEnd
    BY <1>7 DEF IdleEnd, LeaveYield
  <1>8. CASE SwitchThread
    BY <1>8 DEF SwitchThread, Guest
  <1>9. CASE LockFromGuest
    BY <1>9 DEF LockFromGuest, TakeSound
  <1>10. CASE SpinForSound
    BY <1>10 DEF SpinForSound, TakeSound, LeaveYield
  <1>11. CASE UnlockFromGuest
    BY <1>11 DEF UnlockFromGuest, GameCode, ReleaseSound
  <1>12. CASE ReaderMutex
    BY <1>12 DEF ReaderMutex, GameCode
  <1>13. CASE BeginAudioInterrupt
    BY <1>13 DEF BeginAudioInterrupt
  <1>14. CASE IdleWaitEnds
    BY <1>14 DEF IdleWaitEnds, LeaveYield
  <1>15. CASE StartStaging
    BY <1>15 DEF StartStaging
  <1>16. CASE EnterHandler
    BY <1>16 DEF EnterHandler
  <1>17. CASE EndAudioInterrupt
    BY <1>17 DEF EndAudioInterrupt
  <1>18. CASE ReleaseStaged
    BY <1>18 DEF ReleaseStaged
  <1>19. CASE GuestSoundBlock
    BY <1>19 DEF GuestSoundBlock
  <1>20. CASE Shutdown
    BY <1>20 DEF Shutdown, GameCode
  <1>21. CASE Joined
    BY <1>21 DEF Joined, LeaveYield
  <1> QED
    BY <1>1, <1>2, <1>3, <1>4, <1>5, <1>6, <1>7, <1>8, <1>9, <1>10, <1>11, <1>12, <1>13, <1>14, <1>15, <1>16, <1>17, <1>18, <1>19, <1>20, <1>21

\* The stop of the world, a step of the sound thread.
LEMMA SoundWorld ==
  ASSUME SoundInv, UNCHANGED mainSide,
         TakeMessage \/ FinishBlock \/ ExitThread \/ CheckMain
         \/ SoundDisable \/ SoundRestore \/ SoundLock \/ SoundUnblocked
         \/ SoundUnlock \/ SoundLockDisc \/ StopWorld \/ LookAtOwner
         \/ TakeDisc \/ SoundUnlockDisc \/ GiveDisc \/ ResumeWorld
  PROVE  WorldOK'
  <1> USE DEF SoundInv, OwnerTypes, CountTypes, PlacesOK, WorldOK, DiscOK, Pending, CheckingFor, WorldHeld, Yielded,
          Checking, Guest, mainFlags, soundFlags, saved, world, mutexes, blockQueue, guestBlocks, blocks,
          mainSide, soundSide, shared
  <1>1. CASE TakeMessage
    BY <1>1 DEF TakeMessage
  <1>2. CASE FinishBlock
    BY <1>2 DEF FinishBlock
  <1>3. CASE ExitThread
    BY <1>3 DEF ExitThread
  <1>4. CASE CheckMain
    BY <1>4 DEF CheckMain, SoundGoto, SectionEntered, RaiseFlag
  <1>5. CASE SoundDisable
    BY <1>5 DEF SoundDisable, RaiseFlag
  <1>6. CASE SoundRestore
    BY <1>6 DEF SoundRestore
  <1>7. CASE SoundLock
    BY <1>7 DEF SoundLock, TakeSound
  <1>8. CASE SoundUnblocked
    BY <1>8 DEF SoundUnblocked, TakeSound, RaiseFlag
  <1>9. CASE SoundUnlock
    BY <1>9 DEF SoundUnlock, ReleaseSound
  <1>10. CASE SoundLockDisc
    BY <1>10 DEF SoundLockDisc
  <1>11. CASE StopWorld
    BY <1>11 DEF StopWorld, SoundGoto
  <1>12. CASE LookAtOwner
    BY <1>12 DEF LookAtOwner, RaiseFlag
  <1>13. CASE TakeDisc
    BY <1>13 DEF TakeDisc, LeaveIfOn
  <1>14. CASE SoundUnlockDisc
    BY <1>14 DEF SoundUnlockDisc, RaiseFlag
  <1>15. CASE GiveDisc
    BY <1>15 DEF GiveDisc, LeaveIfOn
  <1>16. CASE ResumeWorld
    <2>1. worldDepth \in Nat /\ savedThread \in Guest
      OBVIOUS
    <2>2. CASE spc = "resume" /\ worldDepth = 1
      BY <1>16, <2>1, <2>2 DEF ResumeWorld
    <2>3. CASE spc = "resume" /\ worldDepth # 1
      <3>1. /\ worldDepth > 1 /\ worldDepth' = worldDepth - 1 /\ spc' = sret /\ sret \in {"run", "stop"}
            /\ UNCHANGED <<running, worldStopRequested, mpc>>
        BY <1>16, <2>1, <2>3 DEF ResumeWorld
      <3> QED
        BY <2>1, <2>3, <3>1
    <2>4. CASE spc = "release"
      <3>1. worldDepth = 0
        BY <2>1, <2>4
      <3>2. spc' \in {"run", "stop"} /\ UNCHANGED <<worldDepth, running>>
        BY <1>16, <2>4 DEF ResumeWorld
      <3> QED
        BY <3>1, <3>2, <2>4
    <2> QED
      BY <1>16, <2>2, <2>3, <2>4 DEF ResumeWorld
  <1> QED
    BY <1>1, <1>2, <1>3, <1>4, <1>5, <1>6, <1>7, <1>8, <1>9, <1>10, <1>11, <1>12, <1>13, <1>14, <1>15, <1>16

\* The owner of the disc mutex, a step of the emulation thread.
LEMMA MainDisc ==
  ASSUME SoundInv, UNCHANGED soundSide,
         WaitForSoundSection \/ ParkIfAsked \/ YieldOut
         \/ DisableInterrupts \/ EnableInterrupts \/ IdleBegin
         \/ IdleEnd \/ SwitchThread \/ LockFromGuest \/ SpinForSound
         \/ UnlockFromGuest \/ ReaderMutex \/ BeginAudioInterrupt
         \/ IdleWaitEnds \/ StartStaging \/ EnterHandler
         \/ EndAudioInterrupt \/ ReleaseStaged \/ GuestSoundBlock
         \/ Shutdown \/ Joined
  PROVE  DiscOK'
  <1> USE DEF SoundInv, OwnerTypes, CountTypes, WorldOK, DiscOK, Pending, CheckingFor, WorldHeld, Yielded,
          Checking, Guest, Owner, mainFlags, soundFlags, saved, world, mutexes, blockQueue, guestBlocks, blocks,
          mainSide, soundSide, shared
  <1>1. CASE WaitForSoundSection
    BY <1>1 DEF WaitForSoundSection, MainGoto, MainReturn
  <1>2. CASE ParkIfAsked
    BY <1>2 DEF ParkIfAsked, MainGoto
  <1>3. CASE YieldOut
    BY <1>3 DEF YieldOut, MainGoto, MainReturn
  <1>4. CASE DisableInterrupts
    BY <1>4 DEF DisableInterrupts
  <1>5. CASE EnableInterrupts
    BY <1>5 DEF EnableInterrupts
  <1>6. CASE IdleBegin
    BY <1>6 DEF IdleBegin
  <1>7. CASE IdleEnd
    BY <1>7 DEF IdleEnd, LeaveYield
  <1>8. CASE SwitchThread
    BY <1>8 DEF SwitchThread, Guest
  <1>9. CASE LockFromGuest
    BY <1>9 DEF LockFromGuest, TakeSound
  <1>10. CASE SpinForSound
    BY <1>10 DEF SpinForSound, TakeSound, LeaveYield
  <1>11. CASE UnlockFromGuest
    BY <1>11 DEF UnlockFromGuest, GameCode, ReleaseSound
  <1>12. CASE ReaderMutex
    BY <1>12 DEF ReaderMutex, GameCode
  <1>13. CASE BeginAudioInterrupt
    BY <1>13 DEF BeginAudioInterrupt
  <1>14. CASE IdleWaitEnds
    BY <1>14 DEF IdleWaitEnds, LeaveYield
  <1>15. CASE StartStaging
    BY <1>15 DEF StartStaging
  <1>16. CASE EnterHandler
    BY <1>16 DEF EnterHandler
  <1>17. CASE EndAudioInterrupt
    BY <1>17 DEF EndAudioInterrupt
  <1>18. CASE ReleaseStaged
    BY <1>18 DEF ReleaseStaged
  <1>19. CASE GuestSoundBlock
    BY <1>19 DEF GuestSoundBlock
  <1>20. CASE Shutdown
    BY <1>20 DEF Shutdown, GameCode
  <1>21. CASE Joined
    BY <1>21 DEF Joined, LeaveYield
  <1> QED
    BY <1>1, <1>2, <1>3, <1>4, <1>5, <1>6, <1>7, <1>8, <1>9, <1>10, <1>11, <1>12, <1>13, <1>14, <1>15, <1>16, <1>17, <1>18, <1>19, <1>20, <1>21

\* The owner of the disc mutex, a step of the sound thread.
LEMMA SoundDisc ==
  ASSUME SoundInv, UNCHANGED mainSide,
         TakeMessage \/ FinishBlock \/ ExitThread \/ CheckMain
         \/ SoundDisable \/ SoundRestore \/ SoundLock \/ SoundUnblocked
         \/ SoundUnlock \/ SoundLockDisc \/ StopWorld \/ LookAtOwner
         \/ TakeDisc \/ SoundUnlockDisc \/ GiveDisc \/ ResumeWorld
  PROVE  DiscOK'
  <1> USE DEF SoundInv, OwnerTypes, CountTypes, WorldOK, DiscOK, Pending, CheckingFor, WorldHeld, Yielded,
          Checking, Guest, Owner, mainFlags, soundFlags, saved, world, mutexes, blockQueue, guestBlocks, blocks,
          mainSide, soundSide, shared
  <1>1. CASE TakeMessage
    BY <1>1 DEF TakeMessage
  <1>2. CASE FinishBlock
    BY <1>2 DEF FinishBlock
  <1>3. CASE ExitThread
    BY <1>3 DEF ExitThread
  <1>4. CASE CheckMain
    BY <1>4 DEF CheckMain, SoundGoto, SectionEntered, RaiseFlag
  <1>5. CASE SoundDisable
    BY <1>5 DEF SoundDisable, RaiseFlag
  <1>6. CASE SoundRestore
    BY <1>6 DEF SoundRestore
  <1>7. CASE SoundLock
    BY <1>7 DEF SoundLock, TakeSound
  <1>8. CASE SoundUnblocked
    BY <1>8 DEF SoundUnblocked, TakeSound, RaiseFlag
  <1>9. CASE SoundUnlock
    BY <1>9 DEF SoundUnlock, ReleaseSound
  <1>10. CASE SoundLockDisc
    BY <1>10 DEF SoundLockDisc
  <1>11. CASE StopWorld
    BY <1>11 DEF StopWorld, SoundGoto
  <1>12. CASE LookAtOwner
    BY <1>12 DEF LookAtOwner, RaiseFlag
  <1>13. CASE TakeDisc
    BY <1>13 DEF TakeDisc, LeaveIfOn
  <1>14. CASE SoundUnlockDisc
    BY <1>14 DEF SoundUnlockDisc, RaiseFlag
  <1>15. CASE GiveDisc
    BY <1>15 DEF GiveDisc, LeaveIfOn
  <1>16. CASE ResumeWorld
    BY <1>16 DEF ResumeWorld
  <1> QED
    BY <1>1, <1>2, <1>3, <1>4, <1>5, <1>6, <1>7, <1>8, <1>9, <1>10, <1>11, <1>12, <1>13, <1>14, <1>15, <1>16

\* Owners and counts, a step of the emulation thread.
LEMMA MainTypes ==
  ASSUME SoundInv, UNCHANGED soundSide,
         WaitForSoundSection \/ ParkIfAsked \/ YieldOut
         \/ DisableInterrupts \/ EnableInterrupts \/ IdleBegin
         \/ IdleEnd \/ SwitchThread \/ LockFromGuest \/ SpinForSound
         \/ UnlockFromGuest \/ ReaderMutex \/ BeginAudioInterrupt
         \/ IdleWaitEnds \/ StartStaging \/ EnterHandler
         \/ EndAudioInterrupt \/ ReleaseStaged \/ GuestSoundBlock
         \/ Shutdown \/ Joined
  PROVE  (OwnerTypes /\ CountTypes)'
  <1> USE DEF SoundInv, OwnerTypes, CountTypes, WorldOK, DiscOK, Pending, CheckingFor, Guest, Owner,
          mainFlags, soundFlags, saved, world, mutexes, blockQueue, guestBlocks, blocks,
          mainSide, soundSide, shared
  <1>1. CASE WaitForSoundSection
    BY <1>1 DEF WaitForSoundSection, MainGoto, MainReturn
  <1>2. CASE ParkIfAsked
    BY <1>2 DEF ParkIfAsked, MainGoto
  <1>3. CASE YieldOut
    BY <1>3 DEF YieldOut, MainGoto, MainReturn
  <1>4. CASE DisableInterrupts
    BY <1>4 DEF DisableInterrupts
  <1>5. CASE EnableInterrupts
    BY <1>5 DEF EnableInterrupts
  <1>6. CASE IdleBegin
    BY <1>6 DEF IdleBegin
  <1>7. CASE IdleEnd
    BY <1>7 DEF IdleEnd, LeaveYield
  <1>8. CASE SwitchThread
    BY <1>8 DEF SwitchThread, Guest
  <1>9. CASE LockFromGuest
    BY <1>9 DEF LockFromGuest, TakeSound
  <1>10. CASE SpinForSound
    BY <1>10 DEF SpinForSound, TakeSound, LeaveYield
  <1>11. CASE UnlockFromGuest
    BY <1>11 DEF UnlockFromGuest, GameCode, ReleaseSound
  <1>12. CASE ReaderMutex
    BY <1>12 DEF ReaderMutex, GameCode
  <1>13. CASE BeginAudioInterrupt
    BY <1>13 DEF BeginAudioInterrupt
  <1>14. CASE IdleWaitEnds
    BY <1>14 DEF IdleWaitEnds, LeaveYield
  <1>15. CASE StartStaging
    BY <1>15 DEF StartStaging
  <1>16. CASE EnterHandler
    BY <1>16 DEF EnterHandler
  <1>17. CASE EndAudioInterrupt
    BY <1>17 DEF EndAudioInterrupt
  <1>18. CASE ReleaseStaged
    <2>1. Enqueued(staged) \in Nat
      BY EnqueuedFits DEF ReleaseStaged
    <2> QED
      BY <1>18, <2>1 DEF ReleaseStaged
  <1>19. CASE GuestSoundBlock
    BY <1>19 DEF GuestSoundBlock
  <1>20. CASE Shutdown
    BY <1>20 DEF Shutdown, GameCode
  <1>21. CASE Joined
    BY <1>21 DEF Joined, LeaveYield
  <1> QED
    BY <1>1, <1>2, <1>3, <1>4, <1>5, <1>6, <1>7, <1>8, <1>9, <1>10, <1>11, <1>12, <1>13, <1>14, <1>15, <1>16, <1>17, <1>18, <1>19, <1>20, <1>21

\* Owners and counts, a step of the sound thread.
LEMMA SoundTypes ==
  ASSUME SoundInv, UNCHANGED mainSide,
         TakeMessage \/ FinishBlock \/ ExitThread \/ CheckMain
         \/ SoundDisable \/ SoundRestore \/ SoundLock \/ SoundUnblocked
         \/ SoundUnlock \/ SoundLockDisc \/ StopWorld \/ LookAtOwner
         \/ TakeDisc \/ SoundUnlockDisc \/ GiveDisc \/ ResumeWorld
  PROVE  (OwnerTypes /\ CountTypes)'
  <1> USE DEF SoundInv, OwnerTypes, CountTypes, WorldOK, DiscOK, Pending, CheckingFor, Guest, Owner,
          mainFlags, soundFlags, saved, world, mutexes, blockQueue, guestBlocks, blocks,
          mainSide, soundSide, shared
  <1>1. CASE TakeMessage
    BY <1>1 DEF TakeMessage
  <1>2. CASE FinishBlock
    BY <1>2 DEF FinishBlock
  <1>3. CASE ExitThread
    BY <1>3 DEF ExitThread
  <1>4. CASE CheckMain
    BY <1>4 DEF CheckMain, SoundGoto, SectionEntered, RaiseFlag
  <1>5. CASE SoundDisable
    BY <1>5 DEF SoundDisable, RaiseFlag
  <1>6. CASE SoundRestore
    BY <1>6 DEF SoundRestore
  <1>7. CASE SoundLock
    BY <1>7 DEF SoundLock, TakeSound
  <1>8. CASE SoundUnblocked
    BY <1>8 DEF SoundUnblocked, TakeSound, RaiseFlag
  <1>9. CASE SoundUnlock
    BY <1>9 DEF SoundUnlock, ReleaseSound
  <1>10. CASE SoundLockDisc
    BY <1>10 DEF SoundLockDisc
  <1>11. CASE StopWorld
    BY <1>11 DEF StopWorld, SoundGoto
  <1>12. CASE LookAtOwner
    BY <1>12 DEF LookAtOwner, RaiseFlag
  <1>13. CASE TakeDisc
    BY <1>13 DEF TakeDisc, LeaveIfOn
  <1>14. CASE SoundUnlockDisc
    BY <1>14 DEF SoundUnlockDisc, RaiseFlag
  <1>15. CASE GiveDisc
    BY <1>15 DEF GiveDisc, LeaveIfOn
  <1>16. CASE ResumeWorld
    BY <1>16 DEF ResumeWorld
  <1> QED
    BY <1>1, <1>2, <1>3, <1>4, <1>5, <1>6, <1>7, <1>8, <1>9, <1>10, <1>11, <1>12, <1>13, <1>14, <1>15, <1>16

\* A step that leaves the blocks alone.
LEMMA BlocksStay ==
  ASSUME SoundInv,
         UNCHANGED <<staged, queue, outstanding, processing, threadRunning, routed, guestUsed, guestBusy>>,
         staging' = staging \/ staging', staging' => inHandler' \/ mpc' \in {"handler", "end"},
         mpc' = "join" => mpc = "join", mpc = "join" => mpc' = "join" \/ spc' = "off",
         spc' = spc \/ {spc, spc'} \cap {"off", "receive", "exit"} = {}
  PROVE  BlocksOK'
  <1>1. /\ spc' \in {"off", "receive"} <=> spc \in {"off", "receive"}
        /\ spc' = "off" <=> spc = "off"
        /\ spc' = "exit" <=> spc = "exit"
    OBVIOUS
  <1>2. QueueOK'
    BY DEF SoundInv, BlocksOK, QueueOK
  <1>3. CountOK'
    BY DEF SoundInv, BlocksOK, CountOK
  <1>4. ThreadOK'
    BY <1>1 DEF SoundInv, BlocksOK, ThreadOK
  <1>5. StagedOK'
    BY DEF SoundInv, BlocksOK, StagedOK
  <1>6. HostBlocks' => HostBlocks
    BY <1>1 DEF HostBlocks
  <1>7. RouteOK'
    BY <1>6 DEF SoundInv, BlocksOK, RouteOK
  <1> QED
    BY <1>2, <1>3, <1>4, <1>5, <1>7 DEF BlocksOK

\* The blocks, a step of the emulation thread.
LEMMA MainBlocks ==
  ASSUME SoundInv, UNCHANGED soundSide,
         WaitForSoundSection \/ ParkIfAsked \/ YieldOut
         \/ DisableInterrupts \/ EnableInterrupts \/ IdleBegin
         \/ IdleEnd \/ SwitchThread \/ LockFromGuest \/ SpinForSound
         \/ UnlockFromGuest \/ ReaderMutex \/ BeginAudioInterrupt
         \/ IdleWaitEnds \/ StartStaging \/ EnterHandler
         \/ EndAudioInterrupt \/ ReleaseStaged \/ GuestSoundBlock
         \/ Shutdown \/ Joined
  PROVE  BlocksOK'
  <1> USE DEF mainFlags, soundFlags, saved, world, mutexes, blockQueue, guestBlocks, blocks,
          mainSide, soundSide, shared
  <1>1. CASE WaitForSoundSection
    BY <1>1, BlocksStay, WaitPlaces DEF SoundInv, BlocksOK, StagedOK, Checking,
       WaitForSoundSection, MainGoto, MainReturn
  <1>2. CASE ParkIfAsked
    BY <1>2, BlocksStay, WaitPlaces DEF SoundInv, BlocksOK, StagedOK, Checking,
       ParkIfAsked, MainGoto
  <1>3. CASE YieldOut
    BY <1>3, BlocksStay, WaitPlaces DEF SoundInv, BlocksOK, StagedOK, Checking,
       YieldOut, MainGoto, MainReturn
  <1>4. CASE DisableInterrupts
    BY <1>4, BlocksStay, WaitPlaces DEF SoundInv, BlocksOK, StagedOK, Checking,
       DisableInterrupts
  <1>5. CASE EnableInterrupts
    BY <1>5, BlocksStay, WaitPlaces DEF SoundInv, BlocksOK, StagedOK, Checking,
       EnableInterrupts
  <1>6. CASE IdleBegin
    BY <1>6, BlocksStay, WaitPlaces DEF SoundInv, BlocksOK, StagedOK, Checking,
       IdleBegin
  <1>7. CASE IdleEnd
    BY <1>7, BlocksStay, WaitPlaces DEF SoundInv, BlocksOK, StagedOK, Checking,
       IdleEnd, LeaveYield
  <1>8. CASE SwitchThread
    BY <1>8, BlocksStay, WaitPlaces DEF SoundInv, BlocksOK, StagedOK, Checking,
       SwitchThread, Guest
  <1>9. CASE LockFromGuest
    BY <1>9, BlocksStay, WaitPlaces DEF SoundInv, BlocksOK, StagedOK, Checking,
       LockFromGuest, TakeSound
  <1>10. CASE SpinForSound
    BY <1>10, BlocksStay, WaitPlaces DEF SoundInv, BlocksOK, StagedOK, Checking,
       SpinForSound, TakeSound, LeaveYield
  <1>11. CASE UnlockFromGuest
    BY <1>11, BlocksStay, WaitPlaces DEF SoundInv, BlocksOK, StagedOK, Checking,
       UnlockFromGuest, GameCode, ReleaseSound
  <1>12. CASE ReaderMutex
    BY <1>12, BlocksStay, WaitPlaces DEF SoundInv, BlocksOK, StagedOK, Checking,
       ReaderMutex, GameCode
  <1>13. CASE BeginAudioInterrupt
    BY <1>13, BlocksStay, WaitPlaces DEF SoundInv, BlocksOK, StagedOK, Checking,
       BeginAudioInterrupt
  <1>14. CASE IdleWaitEnds
    BY <1>14, BlocksStay, WaitPlaces DEF SoundInv, BlocksOK, StagedOK, Checking,
       IdleWaitEnds, LeaveYield
  <1>15. CASE StartStaging
    BY <1>15, BlocksStay, WaitPlaces DEF SoundInv, BlocksOK, StagedOK, Checking,
       StartStaging
  <1>16. CASE EnterHandler
    BY <1>16, BlocksStay, WaitPlaces DEF SoundInv, BlocksOK, StagedOK, Checking,
       EnterHandler
  <1>17. CASE EndAudioInterrupt
    BY <1>17, BlocksStay, WaitPlaces DEF SoundInv, BlocksOK, StagedOK, Checking,
       EndAudioInterrupt
  <1>18. CASE ReleaseStaged
    <2>1. /\ queue' = queue \o [i \in 1..Enqueued(staged) |-> "block"]
          /\ outstanding' = outstanding + Enqueued(staged)
          /\ ~staging' /\ staged' = 0 /\ mpc = "end" /\ mpc' = "run"
          /\ UNCHANGED <<processing, threadRunning, routed, guestUsed, guestBusy, spc>>
      BY <1>18 DEF ReleaseStaged, mainSide, mainFlags, saved, soundSide, soundFlags, world, blockQueue, guestBlocks
    <2> DEFINE n == Enqueued(staged)
    <2>2. n \in Nat /\ Len(queue) + n <= QueueCapacity /\ (staged = 0 => n = 0)
      BY EnqueuedFits DEF SoundInv, CountTypes
    <2> HIDE DEF n
    <2>3. /\ queue' \in Seq({"block", "shutdown"}) /\ Len(queue') = Len(queue) + n
          /\ n = 0 => queue' = queue
          /\ threadRunning => queue' \in Seq({"block"})
      BY <2>1, <2>2, QueueGrows DEF n, SoundInv, BlocksOK, QueueOK, CountOK
    <2>4. Len(queue) \in Nat /\ staged \in Nat /\ outstanding \in Nat
      BY LenProperties DEF SoundInv, BlocksOK, QueueOK, CountTypes
    <2>5. threadRunning \/ n = 0
      BY <2>2, <2>4 DEF SoundInv, BlocksOK, StagedOK
    <2>6. outstanding' = outstanding + n
      BY <2>1 DEF n
    <2>11. QueueOK'
      BY <2>2, <2>3 DEF QueueOK
    <2>12. CountOK'
      <3> DEFINE k == IF processing THEN 1 ELSE 0
      <3>1. k \in {0, 1} /\ (IF processing' THEN 1 ELSE 0) = k
        BY <2>1
      <3>2. threadRunning => outstanding = Len(queue) + k
        BY DEF SoundInv, BlocksOK, CountOK
      <3> HIDE DEF k
      <3>3. threadRunning => outstanding' = Len(queue') + k
        BY <2>2, <2>3, <2>4, <2>6, <3>1, <3>2
      <3> QED
        BY <2>1, <2>3, <3>1, <3>3 DEF CountOK
    <2>13. ThreadOK'
      <3>1. spc = "off" => n = 0
        BY <2>5 DEF SoundInv, BlocksOK, ThreadOK
      <3>2. spc = "off" => outstanding' = 0 /\ queue' = <<>>
        BY <2>3, <2>4, <2>6, <3>1 DEF SoundInv, BlocksOK, ThreadOK
      <3> QED
        BY <2>1, <3>2 DEF SoundInv, BlocksOK, ThreadOK
    <2>14. StagedOK'
      BY <2>1 DEF SoundInv, BlocksOK, StagedOK
    <2>15. RouteOK'
      <3>1. ~HostBlocks => n = 0
        BY <2>2, <2>4 DEF HostBlocks
      <3>2. ~HostBlocks => ~HostBlocks'
        <4>1. SUFFICES ASSUME ~HostBlocks PROVE ~HostBlocks'
          OBVIOUS
        <4>2. queue' = queue /\ spc' = spc /\ processing' = processing /\ ~(staged' > 0)
          <5>1. queue' = queue
            BY <2>3, <3>1, <4>1
          <5>2. spc' = spc /\ processing' = processing /\ staged' = 0
            BY <2>1
          <5> QED
            BY <5>1, <5>2
        <4> QED
          BY <4>1, <4>2 DEF HostBlocks
      <3> QED
        BY <2>1, <3>2 DEF SoundInv, BlocksOK, RouteOK
    <2> QED
      BY <2>11, <2>12, <2>13, <2>14, <2>15 DEF BlocksOK
  <1>19. CASE GuestSoundBlock
    <2>1. /\ mpc = "run" /\ ~inHandler
          /\ guestBusy \/ (~guestBusy /\ guestUsed > 0)
          /\ UNCHANGED <<staging, staged, queue, outstanding, processing, threadRunning,
                         routed, mpc, spc, inHandler>>
      BY <1>19 DEF GuestSoundBlock, mainSide, mainFlags, saved, soundSide, soundFlags, world, blockQueue, guestBlocks
    <2>11. QueueOK'
      BY <2>1 DEF SoundInv, BlocksOK, QueueOK
    <2>12. CountOK'
      BY <2>1 DEF SoundInv, BlocksOK, CountOK
    <2>13. ThreadOK'
      BY <2>1 DEF SoundInv, BlocksOK, ThreadOK
    <2>14. StagedOK'
      BY <2>1 DEF SoundInv, BlocksOK, StagedOK
    <2>15. RouteOK'
      <3>1. HostBlocks' => HostBlocks
        BY <2>1 DEF HostBlocks
      <3> QED
        BY <2>1, <3>1 DEF SoundInv, BlocksOK, RouteOK
    <2> QED
      BY <2>11, <2>12, <2>13, <2>14, <2>15 DEF BlocksOK
  <1>20. CASE Shutdown
    <2>1. /\ queue' = <<"shutdown">> /\ ~threadRunning' /\ mpc' = "join" /\ threadRunning
          /\ mpc = "run" /\ ~inHandler
          /\ UNCHANGED <<staging, staged, processing, routed, guestUsed, guestBusy, spc, inHandler>>
      BY <1>20 DEF Shutdown, GameCode, mainSide, mainFlags, saved, soundSide, soundFlags, world, blockQueue, guestBlocks
    <2>11. QueueOK'
      BY <2>1, SoundAssumption DEF QueueOK
    <2>12. CountOK'
      BY <2>1 DEF SoundInv, BlocksOK, CountOK
    <2>13. ThreadOK'
      BY <2>1 DEF SoundInv, BlocksOK, ThreadOK
    <2>14. StagedOK'
      BY <2>1 DEF SoundInv, BlocksOK, StagedOK
    <2>15. RouteOK'
      <3>1. \A i \in DOMAIN queue' : queue'[i] # "block"
        BY <2>1
      <3>2. HostBlocks' => HostBlocks
        BY <2>1, <3>1 DEF HostBlocks
      <3> QED
        BY <2>1, <3>2 DEF SoundInv, BlocksOK, RouteOK
    <2> QED
      BY <2>11, <2>12, <2>13, <2>14, <2>15 DEF BlocksOK
  <1>21. CASE Joined
    BY <1>21, BlocksStay, WaitPlaces DEF SoundInv, BlocksOK, StagedOK, Checking,
       Joined, LeaveYield
  <1> QED
    BY <1>1, <1>2, <1>3, <1>4, <1>5, <1>6, <1>7, <1>8, <1>9, <1>10, <1>11, <1>12, <1>13, <1>14, <1>15, <1>16, <1>17, <1>18, <1>19, <1>20, <1>21

\* The blocks, a step of the sound thread.
LEMMA SoundBlocks ==
  ASSUME SoundInv, UNCHANGED mainSide,
         TakeMessage \/ FinishBlock \/ ExitThread \/ CheckMain
         \/ SoundDisable \/ SoundRestore \/ SoundLock \/ SoundUnblocked
         \/ SoundUnlock \/ SoundLockDisc \/ StopWorld \/ LookAtOwner
         \/ TakeDisc \/ SoundUnlockDisc \/ GiveDisc \/ ResumeWorld
  PROVE  BlocksOK'
  <1> USE DEF mainFlags, soundFlags, saved, world, mutexes, blockQueue, guestBlocks, blocks,
          mainSide, soundSide, shared
  <1>1. CASE TakeMessage
    <2>1. /\ spc = "receive" /\ queue # <<>> /\ queue' = Tail(queue) /\ processing'
          /\ spc' = IF Head(queue) = "shutdown" THEN "exit" ELSE "run"
          /\ UNCHANGED <<outstanding, threadRunning, staging, staged, routed,
                         guestUsed, guestBusy, mpc, inHandler>>
      BY <1>1 DEF TakeMessage, mainSide, mainFlags, saved, soundSide, soundFlags, world, blockQueue, guestBlocks
    <2>2. queue \in Seq({"block", "shutdown"}) /\ Len(queue) <= QueueCapacity
      BY DEF SoundInv, BlocksOK, QueueOK
    <2>3. /\ queue' \in Seq({"block", "shutdown"}) /\ Len(queue') = Len(queue) - 1
          /\ Head(queue) = queue[1] /\ Head(queue) \in {"block", "shutdown"}
          /\ \A i \in 1..Len(queue') : queue'[i] = queue[i + 1]
          /\ DOMAIN queue = 1..Len(queue) /\ DOMAIN queue' = 1..Len(queue') /\ Len(queue) \in Nat \ {0}
      BY <2>1, <2>2, HeadTailProperties, LenProperties
    <2>4. threadRunning => queue \in Seq({"block"})
      BY DEF SoundInv, BlocksOK, CountOK
    <2>5. threadRunning => queue' \in Seq({"block"}) /\ Head(queue) = "block"
      BY <2>1, <2>4, HeadTailProperties
    <2>6. ~processing
      BY <2>1 DEF SoundInv, BlocksOK, ThreadOK
    <2>11. QueueOK'
      BY <2>2, <2>3, SoundAssumption DEF QueueOK
    <2>12. CountOK'
      <3>1. threadRunning => outstanding = Len(queue)
        BY <2>3, <2>6 DEF SoundInv, BlocksOK, CountOK
      <3>2. threadRunning => outstanding' = Len(queue') + 1
        BY <2>1, <2>3, <3>1
      <3> QED
        BY <2>1, <2>5, <3>2 DEF CountOK
    <2>13. ThreadOK'
      BY <2>1, <2>5 DEF SoundInv, BlocksOK, ThreadOK
    <2>14. StagedOK'
      BY <2>1 DEF SoundInv, BlocksOK, StagedOK
    <2>15. RouteOK'
      <3>1. ASSUME ~HostBlocks PROVE ~HostBlocks'
        <4>1. /\ \A i \in 1..Len(queue) : queue[i] # "block"
              /\ ~(staged > 0)
          BY <2>3, <3>1 DEF HostBlocks
        <4>2. 1 \in 1..Len(queue)
          BY <2>3
        <4>3. spc' = "exit"
          BY <2>1, <2>3, <4>1, <4>2
        <4>4. \A i \in 1..Len(queue') : queue'[i] # "block"
          BY <2>3, <4>1
        <4> QED
          BY <2>1, <2>3, <4>1, <4>3, <4>4 DEF HostBlocks
      <3> QED
        BY <2>1, <3>1 DEF SoundInv, BlocksOK, RouteOK
    <2> QED
      BY <2>11, <2>12, <2>13, <2>14, <2>15 DEF BlocksOK
  <1>2. CASE FinishBlock
    <2>1. /\ spc = "run" /\ spc' = "receive" /\ ~processing'
          /\ outstanding' = IF outstanding > 0 THEN outstanding - 1 ELSE 0
          /\ UNCHANGED <<queue, threadRunning, staging, staged, routed, guestUsed,
                         guestBusy, mpc, inHandler>>
      BY <1>2 DEF FinishBlock, mainSide, mainFlags, saved, soundSide, soundFlags, world, blockQueue, guestBlocks
    <2>11. QueueOK'
      BY <2>1 DEF SoundInv, BlocksOK, QueueOK
    <2>12. CountOK'
      <3>1. Len(queue) \in Nat
        BY LenProperties DEF SoundInv, BlocksOK, QueueOK
      <3>2. processing
        BY <2>1 DEF SoundInv, BlocksOK, ThreadOK
      <3>3. threadRunning => outstanding = Len(queue) + 1 /\ queue \in Seq({"block"})
        BY <3>2 DEF SoundInv, BlocksOK, CountOK
      <3>4. threadRunning => outstanding' = Len(queue')
        BY <2>1, <3>1, <3>3
      <3>5. threadRunning' => outstanding' = Len(queue') + 0 /\ queue' \in Seq({"block"})
        BY <2>1, <3>1, <3>3, <3>4
      <3> QED
        BY <2>1, <3>5 DEF CountOK
    <2>13. ThreadOK'
      BY <2>1 DEF SoundInv, BlocksOK, ThreadOK
    <2>14. StagedOK'
      BY <2>1 DEF SoundInv, BlocksOK, StagedOK
    <2>15. RouteOK'
      <3>1. HostBlocks' => HostBlocks
        BY <2>1 DEF HostBlocks
      <3> QED
        BY <2>1, <3>1 DEF SoundInv, BlocksOK, RouteOK
    <2> QED
      BY <2>11, <2>12, <2>13, <2>14, <2>15 DEF BlocksOK
  <1>3. CASE ExitThread
    <2>1. /\ spc = "exit" /\ spc' = "off" /\ ~processing' /\ outstanding' = 0 /\ queue' = <<>>
          /\ UNCHANGED <<threadRunning, staging, staged, routed, guestUsed, guestBusy, mpc, inHandler>>
      BY <1>3 DEF ExitThread, mainSide, mainFlags, saved, soundSide, soundFlags, world, blockQueue, guestBlocks
    <2>11. QueueOK'
      BY <2>1, EmptySeq, SoundAssumption DEF QueueOK
    <2>12. CountOK'
      <3>1. ~threadRunning
        BY <2>1 DEF SoundInv, BlocksOK, ThreadOK
      <3> QED
        BY <2>1, <3>1 DEF CountOK
    <2>13. ThreadOK'
      BY <2>1 DEF SoundInv, BlocksOK, ThreadOK
    <2>14. StagedOK'
      BY <2>1 DEF SoundInv, BlocksOK, StagedOK
    <2>15. RouteOK'
      <3>1. DOMAIN queue' = {}
        BY <2>1
      <3>2. HostBlocks' => HostBlocks
        BY <2>1, <3>1 DEF HostBlocks
      <3> QED
        BY <2>1, <3>2 DEF SoundInv, BlocksOK, RouteOK
    <2> QED
      BY <2>11, <2>12, <2>13, <2>14, <2>15 DEF BlocksOK
  <1>4. CASE CheckMain
    <2>1. {spc, spc'} \cap {"off", "receive", "exit"} = {}
      BY <1>4, WaitPlaces DEF CheckMain, SoundGoto, SectionEntered, RaiseFlag, Checking
    <2>2. UNCHANGED <<mpc, inHandler, blocks>>
      BY <1>4 DEF CheckMain, SoundGoto, SectionEntered
    <2> QED
      BY <2>1, <2>2, BlocksStay DEF SoundInv, BlocksOK, StagedOK
  <1>5. CASE SoundDisable
    BY <1>5, BlocksStay, WaitPlaces DEF SoundInv, BlocksOK, StagedOK, Checking,
       SoundDisable, RaiseFlag
  <1>6. CASE SoundRestore
    BY <1>6, BlocksStay, WaitPlaces DEF SoundInv, BlocksOK, StagedOK, Checking,
       SoundRestore
  <1>7. CASE SoundLock
    BY <1>7, BlocksStay, WaitPlaces DEF SoundInv, BlocksOK, StagedOK, Checking,
       SoundLock, TakeSound
  <1>8. CASE SoundUnblocked
    BY <1>8, BlocksStay, WaitPlaces DEF SoundInv, BlocksOK, StagedOK, Checking,
       SoundUnblocked, TakeSound, RaiseFlag
  <1>9. CASE SoundUnlock
    BY <1>9, BlocksStay, WaitPlaces DEF SoundInv, BlocksOK, StagedOK, Checking,
       SoundUnlock, ReleaseSound
  <1>10. CASE SoundLockDisc
    BY <1>10, BlocksStay, WaitPlaces DEF SoundInv, BlocksOK, StagedOK, Checking,
       SoundLockDisc
  <1>11. CASE StopWorld
    BY <1>11, BlocksStay, WaitPlaces DEF SoundInv, BlocksOK, StagedOK, Checking,
       StopWorld, SoundGoto
  <1>12. CASE LookAtOwner
    BY <1>12, BlocksStay, WaitPlaces DEF SoundInv, BlocksOK, StagedOK, Checking,
       LookAtOwner, RaiseFlag
  <1>13. CASE TakeDisc
    BY <1>13, BlocksStay, WaitPlaces DEF SoundInv, BlocksOK, StagedOK, Checking,
       TakeDisc, LeaveIfOn
  <1>14. CASE SoundUnlockDisc
    BY <1>14, BlocksStay, WaitPlaces DEF SoundInv, BlocksOK, StagedOK, Checking,
       SoundUnlockDisc, RaiseFlag
  <1>15. CASE GiveDisc
    BY <1>15, BlocksStay, WaitPlaces DEF SoundInv, BlocksOK, StagedOK, Checking,
       GiveDisc, LeaveIfOn
  <1>16. CASE ResumeWorld
    BY <1>16, BlocksStay, WaitPlaces DEF SoundInv, BlocksOK, StagedOK, Checking,
       ResumeWorld
  <1> QED
    BY <1>1, <1>2, <1>3, <1>4, <1>5, <1>6, <1>7, <1>8, <1>9, <1>10, <1>11, <1>12, <1>13, <1>14, <1>15, <1>16

\* A block message: to the host thread, the staging array or the guest thread.
LEMMA SendBlockKeeps ==
  ASSUME SoundInv, NEW want \in BOOLEAN, SendBlock(want)
  PROVE  SoundInv'
  <1> DEFINE host == RouteToHost(want)
  <1>1. /\ mpc = "run" /\ routed' = host
        /\ UNCHANGED <<irqOn, inHandler, mainYielded, mainParked, mpc, pret, mret,
                       soundInSection, worldStopRequested, sret, worldDepth,
                       savedThread, running, soundOwner, soundDepth, discOwner,
                       discCount, staging, processing, guestBusy>>
    BY DEF SendBlock, mainFlags, soundFlags, saved, world, mutexes, blockQueue, guestBlocks, blocks,
          mainSide, soundSide, shared
  <1>2. \/ /\ host /\ threadRunning'
           /\ spc' = IF threadRunning THEN spc ELSE "receive"
           /\ \/ /\ staging /\ staged' \in {staged, staged + 1}
                 /\ UNCHANGED <<queue, outstanding>>
              \/ /\ queue' = queue \o [i \in 1..Enqueued(1) |-> "block"]
                 /\ outstanding' = outstanding + Enqueued(1)
                 /\ UNCHANGED staged
           /\ UNCHANGED guestUsed
        \/ /\ ~host /\ guestUsed' = guestUsed + 1
           /\ UNCHANGED <<threadRunning, spc, staged, queue, outstanding>>
    BY DEF SendBlock
  <1>3. spc' = spc \/ (spc = "off" /\ spc' = "receive")
    BY <1>1, <1>2 DEF SoundInv, BlocksOK, ThreadOK
  <1>4. PlacesOK' /\ SectionsOK'
    BY <1>1, <1>3 DEF SoundInv, PlacesOK, SectionsOK, MainHolds, SoundHoldsSection, Checking, Yielded
  <1>5. WorldOK'
    BY <1>1, <1>3 DEF SoundInv, WorldOK, WorldHeld, Yielded
  <1>6. DiscOK'
    BY <1>1, <1>3 DEF SoundInv, DiscOK, Pending, CheckingFor, Checking
  <1> DEFINE n == Enqueued(1)
  <1>7. n \in Nat /\ Len(queue) + n <= QueueCapacity
    BY EnqueuedFits
  <1>8. \/ ~host /\ UNCHANGED <<threadRunning, spc, staged, queue, outstanding>>
        \/ host /\ staging /\ staged' \in {staged, staged + 1} /\ UNCHANGED <<queue, outstanding>>
        \/ /\ host /\ queue' = queue \o [i \in 1..n |-> "block"] /\ outstanding' = outstanding + n
           /\ UNCHANGED staged
    BY <1>2
  <1>9. /\ ~host => UNCHANGED <<threadRunning, spc>> /\ guestUsed' = guestUsed + 1
        /\ host => threadRunning' /\ spc' = (IF threadRunning THEN spc ELSE "receive") /\ UNCHANGED guestUsed
    BY <1>2
  <1>10. /\ host /\ ~routed => guestUsed = 0 /\ ~guestBusy
         /\ ~host => ~routed \/ (outstanding = 0 /\ staged = 0)
    BY DEF RouteToHost, GuestSoundThreadParked
  <1> HIDE DEF host, n
  <1>11. /\ Len(queue) \in Nat /\ outstanding \in Nat /\ staged \in Nat
         /\ Len(queue) = 0 => queue = <<>>
    BY LenProperties, EmptySeq DEF SoundInv, BlocksOK, QueueOK, CountTypes
  <1>12. OwnerTypes' /\ CountTypes'
    BY <1>1, <1>7, <1>8, <1>9 DEF SoundInv, OwnerTypes, CountTypes
  <1>13. ~threadRunning => outstanding = 0 /\ queue = <<>> /\ ~processing
    BY <1>1 DEF SoundInv, BlocksOK, ThreadOK
  <1>14. queue \in Seq({"block"}) \/ ~host
    <2>1. ASSUME ~threadRunning PROVE queue \in Seq({"block"})
      BY <1>13, <2>1, EmptySeq
    <2> QED
      BY <2>1 DEF SoundInv, BlocksOK, CountOK
  <1>15. /\ UNCHANGED <<queue, outstanding>> \/ (Len(queue') = Len(queue) + n /\ outstanding' = outstanding + n)
         /\ queue' \in Seq({"block", "shutdown"}) /\ Len(queue') <= QueueCapacity
         /\ queue \in Seq({"block"}) => queue' \in Seq({"block"})
    <2>1. CASE UNCHANGED <<queue, outstanding>>
      BY <2>1 DEF SoundInv, BlocksOK, QueueOK
    <2>2. CASE queue' = queue \o [i \in 1..n |-> "block"] /\ outstanding' = outstanding + n
      <3>1. queue \in Seq({"block", "shutdown"})
        BY DEF SoundInv, BlocksOK, QueueOK
      <3>2. queue' \in Seq({"block", "shutdown"}) /\ Len(queue') = Len(queue) + n
        BY <1>7, <2>2, <3>1, QueueGrows
      <3>3. queue \in Seq({"block"}) => queue' \in Seq({"block"})
        BY <1>7, <2>2, QueueGrows
      <3> QED
        BY <1>7, <2>2, <3>2, <3>3
    <2> QED
      BY <1>8, <2>1, <2>2
  <1>16. QueueOK'
    BY <1>15 DEF QueueOK
  <1>17. CountOK'
    <2> DEFINE k == IF processing THEN 1 ELSE 0
    <2>1. k \in {0, 1} /\ (IF processing' THEN 1 ELSE 0) = k
      BY <1>1
    <2>2. host \/ threadRunning => outstanding = Len(queue) + k
      <3>1. CASE threadRunning
        BY <3>1 DEF SoundInv, BlocksOK, CountOK
      <3>2. CASE ~threadRunning
        BY <1>13, <3>2
      <3> QED
        BY <3>1, <3>2
    <2> HIDE DEF k
    <2>3. host \/ threadRunning => outstanding' = Len(queue') + k
      BY <1>7, <1>11, <1>15, <2>1, <2>2
    <2>4. threadRunning' => host \/ threadRunning
      BY <1>9
    <2>5. threadRunning' => queue' \in Seq({"block"})
      <3>1. CASE host
        BY <1>14, <1>15, <3>1
      <3>2. CASE ~host
        BY <1>9, <1>15, <3>2 DEF SoundInv, BlocksOK, CountOK
      <3> QED
        BY <3>1, <3>2
    <2> QED
      BY <2>1, <2>3, <2>4, <2>5 DEF CountOK
  <1>18. ThreadOK'
    <2>1. CASE host
      BY <1>1, <1>9, <2>1 DEF SoundInv, BlocksOK, ThreadOK
    <2>2. CASE ~host
      BY <1>1, <1>8, <2>2 DEF SoundInv, BlocksOK, ThreadOK
    <2> QED
      BY <2>1, <2>2
  <1>19. StagedOK'
    <2>1. CASE host
      BY <1>1, <1>8, <1>9, <2>1 DEF SoundInv, BlocksOK, StagedOK
    <2>2. CASE ~host
      BY <1>1, <1>8, <2>2 DEF SoundInv, BlocksOK, StagedOK
    <2> QED
      BY <2>1, <2>2
  <1>20. RouteOK'
    <2>1. CASE host
      BY <1>1, <1>9, <1>10, <2>1 DEF SoundInv, BlocksOK, RouteOK
    <2>2. CASE ~host
      <3>1. UNCHANGED <<spc, staged, queue, processing>>
        BY <1>1, <1>8, <2>2
      <3>2. HostBlocks' => HostBlocks
        BY <3>1 DEF HostBlocks
      <3>3. ~HostBlocks
        <4>1. CASE ~routed
          BY <4>1 DEF SoundInv, BlocksOK, RouteOK
        <4>2. CASE outstanding = 0 /\ staged = 0
          <5>1. queue = <<>> /\ ~processing
            <6>1. CASE threadRunning
              <7>1. outstanding = Len(queue) + (IF processing THEN 1 ELSE 0)
                BY <6>1 DEF SoundInv, BlocksOK, CountOK
              <7>2. ~processing
                BY <1>11, <4>2, <7>1
              <7> QED
                BY <1>11, <4>2, <7>1, <7>2
            <6> QED
              BY <1>13, <6>1
          <5> QED
            BY <4>2, <5>1 DEF HostBlocks
        <4> QED
          BY <1>10, <2>2, <4>1, <4>2
      <3> QED
        BY <1>1, <2>2, <3>2, <3>3 DEF RouteOK
    <2> QED
      BY <2>1, <2>2
  <1> QED
    BY <1>4, <1>5, <1>6, <1>12, <1>16, <1>17, <1>18, <1>19, <1>20 DEF SoundInv, BlocksOK

LEMMA SoundStepKeeps ==
  ASSUME SoundInv, [SoundStep]_svars
  PROVE  SoundInv'
  <1>1. CASE MainWaits \/ MainCode
    <2>1. UNCHANGED soundSide
      BY <1>1 DEF MainWaits, MainCode
    <2>2. \/ WaitForSoundSection \/ ParkIfAsked \/ YieldOut \/ DisableInterrupts
          \/ EnableInterrupts \/ IdleBegin \/ IdleEnd \/ SwitchThread
          \/ LockFromGuest \/ SpinForSound \/ UnlockFromGuest \/ ReaderMutex
          \/ BeginAudioInterrupt \/ IdleWaitEnds \/ StartStaging \/ EnterHandler
          \/ EndAudioInterrupt \/ ReleaseStaged \/ GuestSoundBlock \/ Shutdown
          \/ Joined
      BY <1>1 DEF MainWaits, MainCode
    <2> QED
      BY <2>1, <2>2, MainSections, MainWorld, MainDisc, MainTypes, MainBlocks DEF SoundInv
  <1>2. CASE SoundNext
    <2>1. UNCHANGED mainSide
      BY <1>2 DEF SoundNext
    <2>2. \/ TakeMessage \/ FinishBlock \/ ExitThread \/ CheckMain \/ SoundDisable
          \/ SoundRestore \/ SoundLock \/ SoundUnblocked \/ SoundUnlock
          \/ SoundLockDisc \/ StopWorld \/ LookAtOwner \/ TakeDisc
          \/ SoundUnlockDisc \/ GiveDisc \/ ResumeWorld
      BY <1>2 DEF SoundNext
    <2> QED
      BY <2>1, <2>2, SoundSections, SoundWorld, SoundDisc, SoundTypes, SoundBlocks DEF SoundInv
  <1>3. CASE \E want \in BOOLEAN : SendBlock(want)
    BY <1>3, SendBlockKeeps
  <1>4. CASE UNCHANGED svars
    <2>1. /\ UNCHANGED <<mpc, spc, inHandler, staging, staged, queue, outstanding, processing>>
          /\ UNCHANGED <<threadRunning, routed, guestUsed, guestBusy>>
      BY <1>4 DEF svars, mainFlags, soundFlags, saved, world, mutexes, blockQueue, guestBlocks, blocks,
          mainSide, soundSide, shared
    <2>2. HostBlocks' <=> HostBlocks
      BY <2>1 DEF HostBlocks
    <2>3. QueueOK' /\ CountOK' /\ ThreadOK'
      BY <2>1 DEF SoundInv, BlocksOK, QueueOK, CountOK, ThreadOK
    <2>4. StagedOK' /\ RouteOK'
      BY <2>1, <2>2 DEF SoundInv, BlocksOK, StagedOK, RouteOK
    <2>5. OwnerTypes' /\ CountTypes'
      BY <1>4 DEF SoundInv, OwnerTypes, CountTypes, svars, mainFlags, soundFlags, saved, world, mutexes, blockQueue, guestBlocks, blocks,
          mainSide, soundSide, shared
    <2>6. PlacesOK' /\ SectionsOK'
      BY <1>4 DEF SoundInv, PlacesOK, SectionsOK, MainHolds, SoundHoldsSection, svars, mainFlags, soundFlags, saved, world, mutexes, blockQueue, guestBlocks, blocks,
          mainSide, soundSide, shared
    <2>7. WorldOK' /\ DiscOK'
      BY <1>4 DEF SoundInv, WorldOK, WorldHeld, DiscOK, Pending, CheckingFor, svars, mainFlags, soundFlags, saved, world, mutexes, blockQueue, guestBlocks, blocks,
          mainSide, soundSide, shared
    <2> QED
      BY <2>3, <2>4, <2>5, <2>6, <2>7 DEF SoundInv, BlocksOK
  <1> QED
    BY <1>1, <1>2, <1>3, <1>4 DEF SoundStep

-----------------------------------------------------------------------------
(* The theorems.                                                           *)

\* The invariant the results below rest on holds throughout.
THEOREM SoundInvariant == SoundSpec => []SoundInv
  <1>1. SoundInv /\ [SoundStep]_svars => SoundInv'
    BY SoundStepKeeps
  <1> QED
    BY SoundInitKeeps, <1>1, PTL DEF SoundSpec

\* The interrupt sections of the two host threads exclude each other, although
\* neither thread takes a lock for its own (MainWaitForSoundSection,
\* SoundEnterSection).
THEOREM SectionsAreExclusive == SoundSpec => []SectionsExclude
  <1>1. SoundInv => SectionsExclude
    BY DEF SoundInv, SectionsOK, MainHolds, SectionsExclude
  <1> QED
    BY SoundInvariant, <1>1, PTL

\* A stopped world stands still until ResumeWorld has put the guest's pointers
\* back (StopWorld, MainParkIfAsked, ResumeWorld).
THEOREM StoppedWorldStands == SoundSpec => []WorldStopHolds
  <1>1. ASSUME SoundInv PROVE mpc = "run" => ~WorldHeld /\ running \in Guest
    BY <1>1 DEF SoundInv, OwnerTypes, CountTypes, WorldOK, WorldHeld, Yielded, Guest
  <1>2. ASSUME SoundInv PROVE discOwner = "sound" => WorldHeld
    <2>1. spc = "stopWait" => worldDepth = 1 /\ Pending
      BY <1>2 DEF SoundInv, WorldOK, Pending
    <2> QED
      BY <1>2, <2>1 DEF SoundInv, CountTypes, DiscOK, WorldHeld
  <1>3. ASSUME SoundInv, spc = "run", worldDepth > 0
        PROVE  discOwner = "sound" /\ discCount = worldDepth
    BY <1>3 DEF SoundInv, DiscOK, Pending, CheckingFor, Checking
  <1>4. SoundInv => WorldStopHolds
    BY <1>1, <1>2, <1>3 DEF WorldStopHolds
  <1> QED
    BY SoundInvariant, <1>4, PTL

\* Whatever the game's state does between two sends, the blocks never have the
\* guest and the host sound thread as their processors at once (RouteToHostLocked).
THEOREM BlocksHaveOneRoute == SoundSpec => []OneRoute
  <1>1. ASSUME SoundInv PROVE OneRoute
    <2>1. routed \/ ~routed
      OBVIOUS
    <2>2. CASE ~routed
      BY <1>1, <2>2 DEF SoundInv, BlocksOK, RouteOK, OneRoute
    <2>3. CASE routed
      <3>1. guestUsed = 0 /\ ~guestBusy
        BY <1>1, <2>3 DEF SoundInv, BlocksOK, RouteOK
      <3>2. ~(guestUsed > 0)
        BY <3>1
      <3> QED
        BY <3>1, <3>2 DEF OneRoute
    <2> QED
      BY <2>2, <2>3
  <1> QED
    BY SoundInvariant, <1>1, PTL

\* No work is outstanding only when none is queued or under way: the count of
\* WaitUntilIdle is exact while the thread runs.
THEOREM IdleAnswersAreTrue == SoundSpec => []IdleIsIdle
  <1>1. ASSUME SoundInv, outstanding = 0, threadRunning
        PROVE  queue = <<>> /\ ~processing
    <2>1. outstanding = Len(queue) + (IF processing THEN 1 ELSE 0)
      BY <1>1 DEF SoundInv, BlocksOK, CountOK
    <2>2. Len(queue) \in Nat /\ (Len(queue) = 0 => queue = <<>>)
      BY <1>1, LenProperties, EmptySeq DEF SoundInv, BlocksOK, QueueOK
    <2>3. ~processing
      BY <1>1, <2>1, <2>2
    <2> QED
      BY <1>1, <2>1, <2>2, <2>3
  <1>2. SoundInv => IdleIsIdle
    BY <1>1 DEF IdleIsIdle
  <1> QED
    BY SoundInvariant, <1>2, PTL

-----------------------------------------------------------------------------
(* The flags and the places, which the properties above do not rest on.    *)

MainTyped ==
  /\ {irqOn, inHandler, mainYielded, mainParked, stateLocked, retryLock, handlerIrq} \subseteq BOOLEAN
  /\ {mpc, pret, mret} \subseteq MainPlace

SoundTyped ==
  /\ {soundInSection, worldStopRequested, soundWaits, sIrqOn, discIrq} \subseteq BOOLEAN
  /\ {spc, sret} \subseteq SoundPlace

BlocksTyped == {staging, processing, threadRunning, routed, guestBusy} \subseteq BOOLEAN

LEMMA MainFlagsStay == MainTyped /\ [SoundStep]_svars => MainTyped'
<1> SUFFICES ASSUME MainTyped, [SoundStep]_svars PROVE MainTyped'
  OBVIOUS
<1>1. CASE UNCHANGED mainSide
  BY <1>1 DEF MainTyped, mainSide, mainFlags, saved
<1>2. CASE MainWaits
  <2> USE DEF MainTyped, MainPlace, MainGoto, MainReturn, mainFlags, saved
  <2>1. CASE WaitForSoundSection
    BY <2>1 DEF WaitForSoundSection
  <2>2. CASE ParkIfAsked
    BY <2>2 DEF ParkIfAsked
  <2>3. CASE YieldOut
    BY <2>3 DEF YieldOut
  <2> QED
    BY <1>2, <2>1, <2>2, <2>3 DEF MainWaits
<1>3. CASE MainCode
  <2> USE DEF MainTyped, MainPlace, LeaveYield, mainFlags, saved
  <2>1. CASE DisableInterrupts \/ EnableInterrupts
    BY <2>1 DEF DisableInterrupts, EnableInterrupts
  <2>2. CASE IdleBegin \/ IdleEnd
    BY <2>2 DEF IdleBegin, IdleEnd
  <2>3. CASE LockFromGuest \/ SpinForSound
    BY <2>3 DEF LockFromGuest, SpinForSound
  <2>4. CASE BeginAudioInterrupt \/ IdleWaitEnds
    BY <2>4 DEF BeginAudioInterrupt, IdleWaitEnds
  <2>5. CASE StartStaging \/ EnterHandler
    BY <2>5 DEF StartStaging, EnterHandler
  <2>6. CASE EndAudioInterrupt \/ ReleaseStaged
    BY <2>6 DEF EndAudioInterrupt, ReleaseStaged
  <2>7. CASE Shutdown \/ Joined
    BY <2>7 DEF Shutdown, Joined
  <2> QED
    BY <1>1, <1>3, <2>1, <2>2, <2>3, <2>4, <2>5, <2>6, <2>7
    DEF MainCode, SwitchThread, UnlockFromGuest, ReaderMutex, GuestSoundBlock
<1> QED
  BY <1>1, <1>2, <1>3 DEF SoundStep, SoundNext, SendBlock, svars

LEMMA SoundFlagsStay == SoundTyped /\ [SoundStep]_svars => SoundTyped'
<1> SUFFICES ASSUME SoundTyped, [SoundStep]_svars PROVE SoundTyped'
  OBVIOUS
<1>1. CASE UNCHANGED soundSide
  BY <1>1 DEF SoundTyped, soundSide, soundFlags, world
<1>2. CASE SoundNext
  <2> USE DEF SoundTyped, SoundPlace, Checking, SoundGoto, RaiseFlag, SectionEntered, LeaveIfOn,
              soundFlags, world
  <2>1. CASE TakeMessage \/ FinishBlock \/ ExitThread
    BY <2>1 DEF TakeMessage, FinishBlock, ExitThread
  <2>2. CASE CheckMain
    BY <2>2 DEF CheckMain
  <2>3. CASE SoundDisable \/ SoundRestore
    BY <2>3 DEF SoundDisable, SoundRestore
  <2>4. CASE SoundLock \/ SoundUnblocked
    BY <2>4 DEF SoundLock, SoundUnblocked
  <2>5. CASE SoundLockDisc \/ LookAtOwner
    BY <2>5 DEF SoundLockDisc, LookAtOwner
  <2>6. CASE StopWorld
    BY <2>6 DEF StopWorld
  <2>7. CASE TakeDisc \/ SoundUnlockDisc \/ GiveDisc
    BY <2>7 DEF TakeDisc, SoundUnlockDisc, GiveDisc
  <2>8. CASE ResumeWorld
    BY <2>8 DEF ResumeWorld
  <2> QED
    BY <1>1, <1>2, <2>1, <2>2, <2>3, <2>4, <2>5, <2>6, <2>7, <2>8 DEF SoundNext, SoundUnlock
<1>3. CASE \E want \in BOOLEAN : SendBlock(want)
  BY <1>3 DEF SoundTyped, SendBlock, SoundPlace, soundFlags, world
<1> QED
  BY <1>1, <1>2, <1>3 DEF SoundStep, MainWaits, MainCode, svars

LEMMA OpsStay == ops \in Nat /\ [SoundStep]_svars => ops' \in Nat
<1> SUFFICES ASSUME ops \in Nat, [SoundStep]_svars PROVE ops' \in Nat
  OBVIOUS
<1>1. CASE UNCHANGED ops
  BY <1>1
<1>2. CASE ops > 0 /\ ops' = ops - 1
  BY <1>2
<1>3. CASE TakeMessage \/ FinishBlock
  BY <1>1, <1>3, SoundAssumption DEF TakeMessage, FinishBlock
<1>4. CASE SoundNext
  BY <1>1, <1>2, <1>3, <1>4
  DEF SoundNext, ExitThread, CheckMain, SoundDisable, SoundRestore, SoundLock, SoundUnblocked,
      SoundUnlock, SoundLockDisc, StopWorld, LookAtOwner, TakeDisc, SoundUnlockDisc, GiveDisc,
      ResumeWorld, SoundGoto, SectionEntered, soundSide, world
<1> QED
  BY <1>1, <1>4 DEF SoundStep, MainWaits, MainCode, SendBlock, svars, soundSide

LEMMA BlockFlagsStay == BlocksTyped /\ [SoundStep]_svars => BlocksTyped'
<1> SUFFICES ASSUME BlocksTyped, [SoundStep]_svars PROVE BlocksTyped'
  OBVIOUS
<1>1. CASE UNCHANGED blocks
  BY <1>1 DEF BlocksTyped, blocks, blockQueue, guestBlocks
<1>2. CASE StartStaging \/ ReleaseStaged \/ GuestSoundBlock \/ Shutdown
  BY <1>2 DEF BlocksTyped, StartStaging, ReleaseStaged, GuestSoundBlock, Shutdown, blockQueue, guestBlocks
<1>3. CASE TakeMessage \/ FinishBlock \/ ExitThread
  BY <1>3 DEF BlocksTyped, TakeMessage, FinishBlock, ExitThread, guestBlocks
<1>4. ASSUME NEW want \in BOOLEAN, SendBlock(want) PROVE BlocksTyped'
  BY <1>4 DEF BlocksTyped, SendBlock, RouteToHost
<1>5. CASE MainWaits
  BY <1>1, <1>5 DEF MainWaits, WaitForSoundSection, ParkIfAsked, YieldOut, MainGoto, MainReturn, shared
<1>6. CASE MainCode
  BY <1>1, <1>2, <1>6 DEF MainCode, DisableInterrupts, EnableInterrupts, IdleBegin, IdleEnd,
              SwitchThread, LockFromGuest, SpinForSound, UnlockFromGuest, ReaderMutex,
              BeginAudioInterrupt, IdleWaitEnds, EnterHandler, EndAudioInterrupt, Joined, shared
<1>7. CASE SoundNext
  BY <1>1, <1>3, <1>7 DEF SoundNext, CheckMain, SoundDisable,
         SoundRestore, SoundLock, SoundUnblocked, SoundUnlock, SoundLockDisc, StopWorld, LookAtOwner,
         TakeDisc, SoundUnlockDisc, GiveDisc, ResumeWorld, SoundGoto, SectionEntered, shared
<1> QED
  BY <1>1, <1>4, <1>5, <1>6, <1>7 DEF SoundStep, svars, shared

SoundTypeInv == SoundInv /\ MainTyped /\ SoundTyped /\ BlocksTyped /\ ops \in Nat

LEMMA SoundTypesInitial == SoundInit => SoundTypeInv
<1> SUFFICES ASSUME SoundInit PROVE SoundTypeInv
  OBVIOUS
<1>1. MainTyped
  BY DEF SoundInit, MainTyped, MainPlace
<1>2. SoundTyped
  BY DEF SoundInit, SoundTyped, SoundPlace, Checking
<1>3. BlocksTyped /\ ops \in Nat
  BY DEF SoundInit, BlocksTyped
<1> QED
  BY <1>1, <1>2, <1>3, SoundInitKeeps DEF SoundTypeInv

LEMMA SoundTypesStay == SoundTypeInv /\ [SoundStep]_svars => SoundTypeInv'
BY SoundStepKeeps, MainFlagsStay, SoundFlagsStay, BlockFlagsStay, OpsStay, Zenon DEF SoundTypeInv

LEMMA SoundIsTyped == SoundTypeInv => SoundTypeOK
<1> SUFFICES ASSUME SoundTypeInv PROVE SoundTypeOK
  OBVIOUS
<1>1. /\ {worldDepth, ops, soundDepth, discCount, staged, outstanding, guestUsed} \subseteq Nat
      /\ savedThread \in Guest /\ running \in Guest \cup {"sound"}
      /\ {soundOwner, discOwner} \subseteq Owner
  BY DEF SoundTypeInv, SoundInv, CountTypes, OwnerTypes
<1>2. queue \in Seq({"block", "shutdown"}) /\ Len(queue) <= QueueCapacity
  BY DEF SoundTypeInv, SoundInv, BlocksOK, QueueOK
<1>3. /\ {irqOn, inHandler, mainYielded, mainParked, soundInSection,
          worldStopRequested, soundWaits, stateLocked, retryLock, handlerIrq,
          sIrqOn, discIrq, staging, processing, threadRunning, routed,
          guestBusy} \subseteq BOOLEAN
      /\ {mpc, pret, mret} \subseteq MainPlace /\ {spc, sret} \subseteq SoundPlace
  BY DEF SoundTypeInv, MainTyped, SoundTyped, BlocksTyped
<1> QED
  BY <1>1, <1>2, <1>3 DEF SoundTypeOK

\* The places of both threads (SoundThreadMain, MainWaitForSoundSection,
\* StopWorld), the nesting of locks and stops and the queue of blocks keep their
\* ranges: no count falls below zero and no block is queued past the capacity.
THEOREM SoundStaysTyped == SoundSpec => []SoundTypeOK
BY SoundTypesInitial, SoundTypesStay, SoundIsTyped, PTL DEF SoundSpec
=============================================================================
