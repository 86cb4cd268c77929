--------------------------- MODULE GuestScheduler ---------------------------
(***************************************************************************)
(* The guest thread scheduler of the runtime: SelectThread, sleep and      *)
(* wake-up, mutexes, suspension, sleep timers and the life cycle of        *)
(* threads (runtime/src/hle/os), on top of one host fiber per guest thread *)
(* (runtime/src/fiber_manager.cpp).                                        *)
(*                                                                         *)
(* Guest threads are cooperative: only the fiber `exec' runs, until some   *)
(* call reaches SelectThread and that switches to another fiber.  A fiber  *)
(* that was switched away from continues later from the middle of the      *)
(* calls it had made, so every fiber has a stack of the HLE calls it is    *)
(* still inside.  A step either lets the guest code of `exec' make a call, *)
(* or advances the innermost call of `exec'.                               *)
(***************************************************************************)
EXTENDS OsThread, FiniteSets

CONSTANTS
  InitLive,     \* threads already created, and suspended, at the start
  Managers,     \* the threads that create and cancel others; they never end
  HostQueues,   \* wait queues that host events wake from the idle loop
  Dwc,          \* kDwcConnectWaitQueueAddr, or a value that is no queue
  Calls,        \* the calls the guest makes in this instance
  MaxSuspend,   \* bound on a suspend count
  MaxCount,     \* bound on the recursion of a mutex
  MaxDisable    \* bound on nested callback batches

ASSUME SchedulerConstants ==
  /\ Main \in InitLive /\ InitLive \subseteq Threads
  /\ Main \in Managers /\ Managers \subseteq Threads
  /\ HostQueues \subseteq WaitQueues
  /\ Dwc # NULL /\ Dwc \notin Prios \cup Mutexes \cup Threads
  /\ MaxSuspend \in Nat /\ MaxCount \in Nat /\ MaxDisable \in Nat

VARIABLES
  os,      \* the guest memory and the sleep-timer tables
  exec,    \* the fiber that is executing
  stack    \* the calls each fiber is inside, innermost first

vars == << os, exec, stack >>

(* A call in progress: the function, the object it works on, a parameter,  *)
(* and for SelectThread the sleep timers that may be due at its entry.     *)
Frame(fn, obj, arg) == [fn |-> fn, obj |-> obj, arg |-> arg, due |-> {}]

FrameFns == {"select", "idle", "wake", "sleepcall", "sleep", "lock", "promote",
             "propagate", "resched", "ticks", "unlockall", "exit", "join", "callback"}

Frames == [fn  : FrameFns,
           obj : Waitables \cup {NULL},
           arg : Threads \cup (0 .. MaxPrio + 1),
           due : SUBSET Threads]

SelectCall(force) == [Frame("select", NULL, force) EXCEPT !.due = os.timers]
WakeCall(q)       == Frame("wake", q, 0)
ReschedCall       == Frame("resched", NULL, 0)
Callback          == Frame("callback", NULL, 0)

Init ==
  /\ os = [state    |-> [t \in Threads |-> CASE t = Main -> "RUNNING"
                                             [] t \in InitLive \ {Main} -> "READY"
                                             [] OTHER -> "NONE"],
           susp     |-> [t \in Threads |-> IF t \in InitLive \ {Main} THEN 1 ELSE 0],
           prio     |-> BasePrio,
           base     |-> BasePrio,
           qptr     |-> [t \in Threads |-> NULL],
           waitsOn  |-> [t \in Threads |-> NULL],
           held     |-> [t \in Threads |-> << >>],
           detached |-> {},
           listed   |-> InitLive,
           owner    |-> [m \in Mutexes |-> NULL],
           count    |-> [m \in Mutexes |-> 0],
           queue    |-> [q \in Queues |-> << >>],
           pending  |-> {},
           resched  |-> FALSE,
           disable  |-> 0,
           running  |-> Main,
           current  |-> Main,
           timers   |-> {},
           parks    |-> {}]
  /\ exec = Main
  /\ stack = [t \in Threads |-> << >>]

-----------------------------------------------------------------------------
(* The call stack of the executing fiber.                                  *)

Inside(fn) == stack[exec] # << >> /\ Head(stack[exec]).fn = fn
Top == Head(stack[exec])

(* Guest code runs in a thread's own code or in a callback.                *)
AtGuest == stack[exec] = << >> \/ Inside("callback")

(* The innermost call is replaced by the calls cs (it returns if cs is     *)
(* empty); the calls cs are made by whatever is innermost.                 *)
Continue(cs) == stack' = [stack EXCEPT ![exec] = cs \o Tail(@)] /\ UNCHANGED exec
Push(cs)     == stack' = [stack EXCEPT ![exec] = cs \o @] /\ UNCHANGED exec

(* The calls left to OSSuspendThread and OSResumeThread once they have     *)
(* edited thread t, from memory k to os: propagate a changed priority      *)
(* along the mutex owners, then reschedule if that was requested.          *)
AfterSuspend(k, t) ==
  IF k.susp[t] # 0 THEN << >>
  ELSE IF k.state[t] = "WAITING"
       THEN << Frame("propagate", MutexOwner(k, t), 0), ReschedCall >>
       ELSE << ReschedCall >>

AfterResume(k, t) ==
  IF k.susp[t] # 1 THEN << >>
  ELSE IF k.state[t] = "WAITING"
       THEN << Frame("propagate", MutexOwner(k, t), 0), ReschedCall >>
       ELSE << ReschedCall >>

-----------------------------------------------------------------------------
(* SelectThread.                                                           *)

(* One turn of ProcessSleepTimers, at the entry of SelectThread or from    *)
(* its idle loop.  Deadlines are left open: a timer armed when the call    *)
(* read the clock may be due or not.  A RUNNING owner has its timer        *)
(* re-armed, so nothing changes then.                                      *)
ProcessSleepTimers(t) ==
  /\ Inside("idle") \/ (Inside("select") /\ t \in Top.due)
  /\ t \in os.timers
  /\ os.state[t] # "RUNNING"
  /\ LET k == [os EXCEPT !.timers = @ \ {t}, !.parks = @ \ {t}]
         f == [Top EXCEPT !.due = @ \ {t}]
     IN  IF os.state[t] = "READY" /\ os.susp[t] >= 1
         THEN os' = Resume(k, t) /\ Continue(Append(AfterResume(k, t), f))
         ELSE os' = k /\ Continue(<< f >>)

(* The queue the running thread is linked on.                              *)
RunningQueue == IF os.running = NULL THEN NULL ELSE os.qptr[os.running]

(* Mutant: the disable count is not looked at.                             *)
SelectRefused_IgnoresDisable == os.current # os.running \/ os.running = NULL

SelectRefused ==
  \/ os.disable > 0 /\ RunningQueue # Dwc
  \/ os.current # os.running
  \/ os.running = NULL

(* Mutant: the pending priorities are not compared.                        *)
SelectKeeps_Always == os.state[os.running] = "RUNNING" /\ Top.arg = 0

(* The running thread stays: nothing pending is of a stronger priority.    *)
SelectKeeps ==
  /\ os.state[os.running] = "RUNNING"
  /\ Top.arg = 0
  /\ \A p \in os.pending : os.prio[os.running] <= p

(* Mutant: the bit of the run queue is not set.                            *)
Preempted_NotPending ==
  LET t == os.running
  IN  IF os.state[t] = "RUNNING"
      THEN LinkThreadOnRunQueue([os EXCEPT !.state[t] = "READY"], t, os.prio[t])
      ELSE os

(* A thread that is still RUNNING goes to the tail of its run queue.       *)
Preempted ==
  LET t == os.running
      p == os.prio[t]
  IN  IF os.state[t] = "RUNNING"
      THEN MarkRunQueuePending(LinkThreadOnRunQueue([os EXCEPT !.state[t] = "READY"], t, p), p)
      ELSE os

(* Mutant: the current context is not set.                                 *)
Dispatch_KeepsContext(k) ==
  LET p    == Min(k.pending)
      t    == Head(k.queue[p])
      rest == Tail(k.queue[p])
  IN  /\ os' = [k EXCEPT !.queue[p] = rest,
                         !.pending  = IF rest = << >> THEN @ \ {p} ELSE @,
                         !.qptr[t]  = NULL,
                         !.state[t] = "RUNNING",
                         !.running  = t,
                         !.resched  = FALSE]
      /\ exec' = t
      /\ stack' = [stack EXCEPT ![exec] =
                     IF ThreadStateIsTerminated(k.state[exec]) THEN << >> ELSE Tail(@)]

(* Switch to the first thread of the strongest pending priority of k.  The *)
(* fiber left behind continues after its SelectThread when it is next      *)
(* switched to; the fiber of a terminated thread is deleted.               *)
Dispatch(k) ==
  LET p    == Min(k.pending)
      t    == Head(k.queue[p])
      rest == Tail(k.queue[p])
  IN  /\ os' = [k EXCEPT !.queue[p] = rest,
                         !.pending  = IF rest = << >> THEN @ \ {p} ELSE @,
                         !.qptr[t]  = NULL,
                         !.state[t] = "RUNNING",
                         !.running  = t,
                         !.current  = t,
                         !.resched  = FALSE]
      /\ exec' = t
      /\ stack' = [stack EXCEPT ![exec] =
                     IF ThreadStateIsTerminated(k.state[exec]) THEN << >> ELSE Tail(@)]

SelectReturns ==
  /\ Inside("select")
  /\ IF SelectRefused THEN TRUE ELSE SelectKeeps
  /\ Continue(<< >>)
  /\ UNCHANGED os

SelectSwitches ==
  /\ Inside("select")
  /\ ~SelectRefused /\ ~SelectKeeps
  /\ Preempted.pending # {}
  /\ Dispatch(Preempted)

(* No thread can run: the fiber stays in SelectThread's idle loop.         *)
SelectIdles ==
  /\ Inside("select")
  /\ ~SelectRefused /\ ~SelectKeeps
  /\ Preempted.pending = {}
  /\ os' = [Preempted EXCEPT !.running = NULL, !.current = Idle]
  /\ Continue(<< Frame("idle", NULL, 0) >>)

(* A host event polled by the idle loop (a retrace, an audio block, an IOS *)
(* completion) wakes the threads that wait for it.                         *)
IdleEvent(q) ==
  /\ Inside("idle")
  /\ Push(<< WakeCall(q) >>)
  /\ UNCHANGED os

IdleEnds ==
  /\ Inside("idle")
  /\ os.pending # {}
  /\ Dispatch(os)
-----------------------------------------------------------------------------
(* OSWakeupThread and OSSleepThread.                                       *)

(* One turn of the loop of WakeupThreadQueue; arg is its flag `resched'.   *)
WakeupThreadQueue ==
  /\ Inside("wake")
  /\ IF os.queue[Top.obj] # << >>
     THEN /\ os' = WakeHead(os, Top.obj)
          /\ Continue(<< [Top EXCEPT !.arg = IF WakeReschedules(os, Top.obj) THEN 1 ELSE @] >>)
     ELSE /\ UNCHANGED os
          /\ Continue(IF Top.arg = 1 THEN << SelectCall(0) >> ELSE << >>)

(* Mutant: parks although the scheduler cannot switch away.                *)
SleepBegins_NeverRefuses ==
  /\ Inside("sleepcall")
  /\ LET q == Top.obj
         k == IF os.running # NULL THEN os
              ELSE [os EXCEPT !.running = Main, !.current = Main]
         t == k.running
     IN  /\ os' = InsertThreadIntoQueueByPriority(
                    [k EXCEPT !.state[t] = "WAITING", !.resched = TRUE], q, t, k.prio[t])
         /\ Continue(<< SelectCall(0), Frame("sleep", q, t) >>)

(* The body of OSSleepThread up to the switch.  With no running thread it  *)
(* acts for the default thread; while the scheduler is disabled it refuses *)
(* to park, except on the one queue of the DWC connect poll.               *)
SleepBegins ==
  /\ Inside("sleepcall")
  /\ LET q == Top.obj
         k == IF os.running # NULL THEN os
              ELSE [os EXCEPT !.running = Main, !.current = Main]
         t == k.running
     IN  IF k.disable > 0 /\ q # Dwc
         THEN os' = k /\ Continue(<< >>)
         ELSE /\ os' = InsertThreadIntoQueueByPriority(
                         [k EXCEPT !.state[t] = "WAITING", !.resched = TRUE], q, t, k.prio[t])
              /\ Continue(<< SelectCall(0), Frame("sleep", q, t) >>)

(* OSSleepThread after the switch: a thread that is still linked as        *)
(* WAITING undoes its park.                                                *)
SleepReturns ==
  /\ Inside("sleep")
  /\ LET q == Top.obj
         t == Top.arg
     IN  os' = IF os.state[t] = "WAITING" /\ os.qptr[t] = q
               THEN [os EXCEPT !.queue[q] = UnlinkGuestListNode(@, t),
                               !.qptr[t]  = NULL,
                               !.state[t] = "RUNNING"]
               ELSE os
  /\ Continue(<< >>)

-----------------------------------------------------------------------------
(* Mutexes.                                                                *)

(* One turn of the loop of OSLockMutex.  The pointer to the mutex waited   *)
(* for is cleared when the sleep returns, which starts the next turn.      *)
LockTurn ==
  /\ Inside("lock")
  /\ LET m == Top.obj
         k == [os EXCEPT !.waitsOn[exec] = NULL]
         o == os.owner[m]
     IN  IF o \in {NULL, exec}
         THEN os' = Acquire(k, m, exec) /\ Continue(<< >>)
         ELSE /\ os' = [k EXCEPT !.waitsOn[exec] = m]
              /\ Continue(<< Frame("promote", o, os.prio[exec]),
                             Frame("sleepcall", m, 0), Top >>)

(* One turn of the loop of PromoteThreadPriority.                          *)
PromoteTurn ==
  /\ Inside("promote")
  /\ LET t == Top.obj
         p == Top.arg
     IN  IF t = NULL \/ os.susp[t] > 0 \/ os.prio[t] <= p
         THEN UNCHANGED os /\ Continue(<< >>)
         ELSE /\ os' = SetThreadEffectivePriority(os, t, p)
              /\ Continue(<< Frame("promote", NextOwner(os, t), p) >>)

(* One turn of the loop of PropagateMutexOwnerPriority.                    *)
PropagateTurn ==
  /\ Inside("propagate")
  /\ LET t == Top.obj
         p == ComputeThreadEffectivePriority(os, t)
     IN  IF t = NULL \/ os.susp[t] > 0 \/ os.prio[t] = p
         THEN UNCHANGED os /\ Continue(<< >>)
         ELSE /\ os' = SetThreadEffectivePriority(os, t, p)
              /\ Continue(<< Frame("propagate", NextOwner(os, t), 0) >>)

(* The guest's own __OSUnlockAllMutex, called for a terminated thread.     *)
UnlockAllTurn ==
  /\ Inside("unlockall")
  /\ LET t == Top.obj
         m == Head(os.held[t])
     IN  IF os.held[t] = << >>
         THEN UNCHANGED os /\ Continue(<< >>)
         ELSE /\ os' = [os EXCEPT !.held[t] = Tail(@), !.owner[m] = NULL, !.count[m] = 0]
              /\ Continue(<< WakeCall(m), Top >>)

-----------------------------------------------------------------------------
(* The tails of the other calls.                                           *)

(* SelectThread(0), if a reschedule was requested.                         *)
ReschedTail ==
  /\ Inside("resched")
  /\ Continue(IF os.resched THEN << SelectCall(0) >> ELSE << >>)
  /\ UNCHANGED os

(* OSExitThread once its joiners are awake.                                *)
ExitTail ==
  /\ Inside("exit")
  /\ os' = [os EXCEPT !.resched = TRUE]
  /\ Continue(<< SelectCall(0) >>)

(* OSSleepTicks after its self-suspension: still suspended means that no   *)
(* switch took place, and the park is undone.                              *)
TicksTail ==
  /\ Inside("ticks")
  /\ os' = IF os.susp[exec] = 0 THEN os
           ELSE [os EXCEPT !.susp[exec] = @ - 1,
                           !.timers = @ \ {exec},
                           !.parks  = @ \ {exec},
                           !.state[exec] = IF os.susp[exec] = 1 /\ @ = "READY" /\ os.qptr[exec] = NULL
                                           THEN "RUNNING" ELSE @]
  /\ Continue(<< >>)

(* OSJoinThread after its sleep, or at once if it need not sleep: only a   *)
(* MORIBUND thread is reaped.                                              *)
JoinTail ==
  /\ Inside("join")
  /\ os' = IF os.state[Top.obj] = "MORIBUND" THEN Reap(os, Top.obj) ELSE os
  /\ Continue(<< >>)

KernelStep ==
  \/ \E t \in Threads : ProcessSleepTimers(t)
  \/ SelectReturns \/ SelectSwitches \/ SelectIdles
  \/ \E q \in HostQueues : IdleEvent(q)
  \/ IdleEnds
  \/ WakeupThreadQueue \/ SleepBegins \/ SleepReturns
  \/ LockTurn \/ PromoteTurn \/ PropagateTurn \/ UnlockAllTurn
  \/ ReschedTail \/ ExitTail \/ TicksTail \/ JoinTail

-----------------------------------------------------------------------------
(* The calls guest code makes.                                             *)

May(call) == AtGuest /\ call \in Calls

OSWakeupThread(q) ==
  /\ May("wake")
  /\ Push(<< WakeCall(q) >>)
  /\ UNCHANGED os

(* A callback run by the idle loop has no thread to put to sleep.          *)
OSSleepThread(q) ==
  /\ May("sleep")
  /\ os.running # NULL
  /\ Push(<< Frame("sleepcall", q, 0) >>)
  /\ UNCHANGED os

OSLockMutex(m) ==
  /\ May("lock")
  /\ os.running # NULL
  /\ os.owner[m] = exec => os.count[m] < MaxCount
  /\ Push(<< Frame("lock", m, 0) >>)
  /\ UNCHANGED os

(* Mutant: the waiters are not woken.                                      *)
OSUnlockMutex_NoWake(m) ==
  /\ May("lock")
  /\ os.running # NULL
  /\ os.owner[m] = os.running
  /\ os' = Release(os, m, os.running)
  /\ Push(<< >>)

OSUnlockMutex(m) ==
  /\ May("lock")
  /\ os.running # NULL
  /\ os.owner[m] = os.running
  /\ os' = Release(os, m, os.running)
  /\ Push(IF os.count[m] = 1 THEN << WakeCall(m) >> ELSE << >>)

(* A callback does not suspend the thread it interrupts.                   *)
OSSuspendThread(t) ==
  /\ May("suspend")
  /\ t = os.running => stack[exec] = << >>
  /\ os.state[t] # "NONE"
  /\ os.susp[t] < MaxSuspend
  /\ os' = Suspend(os, t)
  /\ Push(AfterSuspend(os, t))

OSResumeThread(t) ==
  /\ May("resume")
  /\ os.state[t] # "NONE"
  /\ os.susp[t] > 0
  /\ os' = Resume(os, t)
  /\ Push(AfterResume(os, t))

(* OSYieldThread is the guest's own: SelectThread with a forced switch.    *)
OSYieldThread ==
  /\ May("yield")
  /\ Push(<< SelectCall(1) >>)
  /\ UNCHANGED os

(* Mutant: the timer is not armed.                                         *)
OSSleepTicks_NoTimer ==
  /\ May("ticks")
  /\ os.disable = 0 /\ os.current = exec
  /\ os' = Suspend([os EXCEPT !.parks = @ \cup {exec}], exec)
  /\ Push(AfterSuspend(os, exec) \o << Frame("ticks", NULL, 0) >>)

(* A refused OSSleepTicks (scheduler disabled, or no context of its own)   *)
(* returns at once and is left out.                                        *)
OSSleepTicks ==
  /\ May("ticks")
  /\ os.disable = 0 /\ os.current = exec
  /\ os' = Suspend([os EXCEPT !.timers = @ \cup {exec}, !.parks = @ \cup {exec}], exec)
  /\ Push(AfterSuspend(os, exec) \o << Frame("ticks", NULL, 0) >>)

(* A deferred callback batch (alarms, retraces, audio blocks): it runs on  *)
(* the stack of the executing fiber with the scheduler disabled, and may   *)
(* flush the reschedule its callbacks asked for once it has unwound.       *)
BeginDeferredGuestCallbacks ==
  /\ "callback" \in Calls
  /\ AtGuest \/ Inside("idle")
  /\ os.disable < MaxDisable
  /\ os' = [os EXCEPT !.disable = @ + 1]
  /\ Push(<< Callback >>)

(* Mutant: the count is lowered once too often, as if both the exception   *)
(* path and the normal path ran.                                           *)
EndDeferredGuestCallbacks_Twice(flush) ==
  /\ Inside("callback")
  /\ os' = [os EXCEPT !.disable = @ - 2]
  /\ Continue(IF flush THEN << ReschedCall >> ELSE << >>)

EndDeferredGuestCallbacks(flush) ==
  /\ Inside("callback")
  /\ os' = [os EXCEPT !.disable = IF @ = 0 THEN 0 ELSE @ - 1]
  /\ Continue(IF flush THEN << ReschedCall >> ELSE << >>)

-----------------------------------------------------------------------------
(* The life cycle of threads.                                              *)

(* A structure is created anew only once its last thread is gone.          *)
OSCreateThread(t, detached) ==
  /\ May("create")
  /\ os.running = exec /\ exec \in Managers
  /\ os.state[t] = "NONE"
  /\ os' = Create(os, t, detached)
  /\ stack' = [stack EXCEPT ![t] = << >>]
  /\ UNCHANGED exec

(* Mutant: the joiners are not woken.                                      *)
OSExitThread_NoJoinWake ==
  /\ "exit" \in Calls
  /\ stack[exec] = << >>
  /\ exec \notin Managers
  /\ os.held[exec] = << >> \/ "exitHolding" \in Calls
  /\ os' = Terminate(os, exec)
  /\ Push(<< Frame("unlockall", exec, 0), Frame("exit", NULL, 0) >>)

(* A thread releases its mutexes before it exits, unless "exitHolding" is  *)
(* among the calls.                                                        *)
OSExitThread ==
  /\ "exit" \in Calls
  /\ stack[exec] = << >>
  /\ exec \notin Managers
  /\ os.held[exec] = << >> \/ "exitHolding" \in Calls
  /\ os' = Terminate(os, exec)
  /\ Push(<< Frame("unlockall", exec, 0), WakeCall(exec), Frame("exit", NULL, 0) >>)

(* Mutant: the thread stays in the queue it is in.                         *)
OSCancelThread_StaysQueued(t) ==
  /\ May("cancel")
  /\ os.running = exec /\ exec \in Managers
  /\ t \notin Managers
  /\ ~ThreadStateIsTerminated(os.state[t])
  /\ os' = Terminate(os, t)
  /\ stack' = [stack EXCEPT
                 ![exec] = << Frame("unlockall", t, 0), WakeCall(t), ReschedCall >> \o @,
                 ![t]    = << >>]
  /\ UNCHANGED exec

(* A cancelled thread's fiber is deleted with everything on its stack.     *)
OSCancelThread(t) ==
  /\ May("cancel")
  /\ os.running = exec /\ exec \in Managers
  /\ t \notin Managers
  /\ ~ThreadStateIsTerminated(os.state[t])
  /\ os' = Terminate(IF os.state[t] = "READY" /\ os.susp[t] >= 1
                     THEN os ELSE RemoveThreadFromQueue(os, t), t)
  /\ stack' = [stack EXCEPT
                 ![exec] = << Frame("unlockall", t, 0), WakeCall(t), ReschedCall >> \o @,
                 ![t]    = << >>]
  /\ UNCHANGED exec

OSJoinThread(t) ==
  /\ May("join")
  /\ os.running = exec /\ t # exec
  /\ os.state[t] # "NONE"
  /\ Push(IF t \notin os.detached /\ os.state[t] # "MORIBUND" /\ os.queue[t] = << >>
          THEN << Frame("sleepcall", t, 0), Frame("join", t, 0) >>
          ELSE << Frame("join", t, 0) >>)
  /\ UNCHANGED os

OSDetachThread(t) ==
  /\ May("detach")
  /\ os.state[t] # "NONE"
  /\ LET d == [os EXCEPT !.detached = @ \cup {t}]
     IN  os' = IF os.state[t] = "MORIBUND" THEN Reap(d, t) ELSE d
  /\ Push(<< WakeCall(t) >>)

GuestStep ==
  \/ \E q \in WaitQueues : OSWakeupThread(q) \/ OSSleepThread(q)
  \/ \E m \in Mutexes : OSLockMutex(m) \/ OSUnlockMutex(m)
  \/ \E t \in Threads : OSSuspendThread(t) \/ OSResumeThread(t)
  \/ OSYieldThread \/ OSSleepTicks
  \/ BeginDeferredGuestCallbacks
  \/ \E flush \in BOOLEAN : EndDeferredGuestCallbacks(flush)
  \/ \E t \in Threads, d \in BOOLEAN : OSCreateThread(t, d)
  \/ OSExitThread
  \/ \E t \in Threads : OSCancelThread(t) \/ OSJoinThread(t) \/ OSDetachThread(t)

Next == KernelStep \/ GuestStep

Spec == Init /\ [][Next]_vars

(* What the host and the game give: HLE calls run to their end; deadlines  *)
(* pass, so a timer that is offered again and again to the pump is found   *)
(* due; the idle loop tests the pending mask on every turn; a callback     *)
(* batch ends; and a thread that runs comes back to a blocking call.       *)
ThreadBlocks == stack[exec] = << >> /\ \E q \in WaitQueues : OSSleepThread(q)
HleProgress  == KernelStep /\ ~Inside("idle")

Fairness ==
  /\ WF_vars(HleProgress)
  /\ SF_vars(IdleEnds)
  /\ SF_vars(EndDeferredGuestCallbacks(TRUE) \/ EndDeferredGuestCallbacks(FALSE))
  /\ SF_vars(ThreadBlocks)
  /\ \A t \in Threads : SF_vars(ProcessSleepTimers(t))

FairSpec == Spec /\ Fairness

-----------------------------------------------------------------------------
(* Properties.                                                             *)

(* The guest memory, the executing fiber and the stacks have their types.  *)
TypeOK ==
  /\ os \in OsMemory
  /\ exec \in Threads
  /\ stack \in [Threads -> Seq(Frames)]

(* A pending bit is set exactly when its run queue has threads, and those  *)
(* are READY, not suspended, of that priority, point back to the queue and *)
(* are linked once: what lets SelectThread trust the mask and the head.    *)
RunQueuesOK ==
  \A p \in Prios :
    /\ p \in os.pending <=> os.queue[p] # << >>
    /\ IsInjective(os.queue[p])
    /\ \A t \in ToSet(os.queue[p]) :
          os.state[t] = "READY" /\ os.susp[t] = 0 /\ os.prio[t] = p /\ os.qptr[t] = p

(* The threads in a wait queue are WAITING there, linked once, strongest   *)
(* priority first: the order OSWakeupThread and the priority inheritance   *)
(* (which reads only the head) rely on.                                    *)
WaitQueuesOK ==
  \A q \in Waitables :
    LET s == os.queue[q] IN
    /\ IsInjective(s)
    /\ \A i \in DOMAIN s : os.state[s[i]] = "WAITING" /\ os.qptr[s[i]] = q
    /\ \A i, j \in DOMAIN s : i < j => os.prio[s[i]] <= os.prio[s[j]]

(* No thread is lost: one that is ready and not suspended is in its run    *)
(* queue, one that waits is in the queue it points to, and one that is     *)
(* RUNNING is the running thread, on the fiber that executes.              *)
NoThreadLost ==
  \A t \in Threads :
    /\ os.state[t] = "READY" /\ os.susp[t] = 0 => t \in ToSet(os.queue[os.prio[t]])
    /\ os.state[t] = "WAITING" => os.qptr[t] # NULL /\ t \in ToSet(os.queue[os.qptr[t]])
    /\ os.state[t] = "RUNNING" => t = os.running /\ t = exec

(* Guest code outside callbacks only ever runs on the fiber of the thread  *)
(* that the scheduler believes is running.                                 *)
ExecIsRunning ==
  AtGuest /\ os.disable = 0 =>
    os.running = exec /\ os.current = exec /\ os.state[exec] = "RUNNING"

(* Fixed-priority scheduling, where no callbacks interfere: whenever guest *)
(* code runs with the scheduler enabled, nothing runnable is stronger.     *)
StrongestRuns ==
  AtGuest /\ os.disable = 0 => \A p \in os.pending : os.prio[exec] <= p

(* With callbacks, a weaker thread may run on after a batch that did not   *)
(* flush, but only while a reschedule is on record for the next flush: a   *)
(* request made under the raised disable count is never forgotten.         *)
RescheduleRemembered ==
  AtGuest /\ os.disable = 0 /\ ~os.resched =>
    \A p \in os.pending : os.prio[exec] <= p

(* A mutex has a count, an owner and a place on that owner's list or none  *)
(* of them, and a mutex that threads wait for has an owner or is just      *)
(* being handed over: no unlock forgets its waiters.                       *)
MutexesOK ==
  \A m \in Mutexes :
    /\ os.owner[m] = NULL <=> os.count[m] = 0
    /\ \A t \in Threads : m \in ToSet(os.held[t]) <=> os.owner[m] = t
    /\ os.queue[m] # << >> => os.owner[m] # NULL \/ (Inside("wake") /\ Top.obj = m)

(* Priority inheritance: once no promotion is under way, the owner of a    *)
(* mutex is at least as strong as every thread that waits for it, unless   *)
(* one of the two is suspended.                                            *)
PriorityInheritance ==
  ~(Inside("promote") \/ Inside("propagate")) =>
    \A m \in Mutexes : os.owner[m] # NULL /\ os.susp[os.owner[m]] = 0 =>
      \A w \in ToSet(os.queue[m]) :
        os.susp[w] = 0 => os.prio[os.owner[m]] <= os.prio[w]

Callbacks(t) == {i \in DOMAIN stack[t] : stack[t][i].fn = "callback"}

(* The scheduler-disable count is owned by the fiber that executes: no     *)
(* other fiber ever runs under a callback batch that has not unwound.      *)
DisableBelongsToExec == os.disable = Cardinality(Callbacks(exec))

(* OSSleepThread resumes only after a real wake-up: the block that undoes  *)
(* a park is never needed.                                                 *)
SleepReturnsWoken ==
  Inside("sleep") =>
    ~(os.state[Top.arg] = "WAITING" /\ os.qptr[Top.arg] = Top.obj)

(* The joiners of a terminated thread are awake, or some fiber is still    *)
(* on its way to waking them.                                              *)
JoinersWoken ==
  \A t \in Threads :
    ThreadStateIsTerminated(os.state[t]) /\ os.queue[t] # << >> =>
      \E u \in Threads : \E i \in DOMAIN stack[u] :
        stack[u][i].fn = "wake" /\ stack[u][i].obj = t

(* A thread in the table of parks is inside the OSSleepTicks that put it   *)
(* there, suspended, with its timer armed.                                 *)
ParksAreSleepers ==
  \A t \in os.parks :
    /\ \E i \in DOMAIN stack[t] : stack[t][i].fn = "ticks"
    /\ t \in os.timers /\ os.susp[t] > 0

(* The thread list holds exactly the threads that exist, running or not    *)
(* yet reaped: what makes it safe to link a thread again when its          *)
(* structure is reused by OSCreateThread.                                  *)
ThreadListOK == \A t \in Threads : t \in os.listed <=> os.state[t] # "NONE"

(* A timer whose thread is in the shape of a sleep park, READY and         *)
(* suspended, belongs to a thread that is inside OSSleepTicks.             *)
TimerFindsItsSleeper ==
  \A t \in os.timers : os.state[t] = "READY" /\ os.susp[t] >= 1 =>
    \E i \in DOMAIN stack[t] : stack[t][i].fn = "ticks"

(* A thread that parks in OSSleepTicks is eventually released: its timer   *)
(* is never dropped on the stack of a fiber that was switched away.        *)
SleepersAreReleased == \A t \in Threads : t \in os.parks ~> t \notin os.parks

Strongest == {t \in Threads : \A u \in Threads \ {t} : BasePrio[t] < BasePrio[u]}

(* A thread that is runnable and stronger than every other one gets the    *)
(* processor, whatever timers, callbacks and other threads do meanwhile.   *)
StrongestIsServed ==
  \A t \in Strongest :
    (os.state[t] = "READY" /\ os.susp[t] = 0) ~>
    (os.state[t] = "RUNNING" \/ os.susp[t] > 0)
=============================================================================
