-------------------------- MODULE SchedulerInvariant --------------------------
(***************************************************************************)
(* The inductive invariants of GuestScheduler without the exception of the *)
(* DWC queue.  The first one, LifeInv, has four parts: the guest memory is *)
(* consistent for every thread; every fiber's stack is well formed; the    *)
(* executing fiber is in one of four modes, running its thread, ending it, *)
(* leaving it, or idling; and threads that end are still waited for by     *)
(* nobody who will not be woken.  Two more invariants, on locks and on     *)
(* priorities, are for the instances in which no thread ends.              *)
(***************************************************************************)
EXTENDS GuestScheduler

SyncCalls == {"wake", "sleep", "lock", "suspend", "resume", "yield", "ticks", "callback"}

(* Threads may end in this instance.                                       *)
Mortal == ~(Calls \subseteq SyncCalls)

SyncInstance == Dwc \notin Queues /\ ~Mortal

(* One thread manages the others, and threads release their mutexes before *)
(* they exit.                                                              *)
LifeInstance ==
  Dwc \notin Queues /\ (Mortal => Managers = {Main} /\ "exitHolding" \notin Calls)

-----------------------------------------------------------------------------
(* The guest memory.                                                       *)

In(k, t, q) == t \in ToSet(k.queue[q])

Ended(k, t) == ThreadStateIsTerminated(k.state[t])

(* The threads that have to be in a queue.                                 *)
Linked(k, t) == k.state[t] = "WAITING" \/ (k.state[t] = "READY" /\ k.susp[t] = 0)

(* The types, and what concerns no thread in particular.                   *)
ListsOK(k) ==
  /\ k \in OsMemory
  /\ \A q \in Queues : IsInjective(k.queue[q])
  /\ \A p \in Prios : p \in k.pending <=> k.queue[p] # << >>
  /\ \A m \in Mutexes : k.owner[m] = NULL <=> k.count[m] = 0

(* A thread is in the queue it points to if its state asks for a queue,    *)
(* and in no other; the out-of-range priority belongs to suspended ones.   *)
ThreadOK(k, t) ==
  /\ \A q \in Queues : In(k, t, q) =>
       /\ q = k.qptr[t]
       /\ q \in Prios => k.state[t] = "READY" /\ k.susp[t] = 0 /\ k.prio[t] = q
       /\ q \in Waitables => k.state[t] = "WAITING"
  /\ Linked(k, t) => k.qptr[t] \in Queues /\ In(k, t, k.qptr[t])
  /\ k.prio[t] = SuspendedWaitPriority => k.susp[t] > 0 \/ (Mortal /\ Ended(k, t))
  /\ k.state[t] = "RUNNING" => k.susp[t] = 0
  /\ k.state[t] = "MORIBUND" => Mortal

MemoryOK(k) == ListsOK(k) /\ \A t \in Threads : ThreadOK(k, t)

(* Thread x is on its way from one queue to another: every other thread is *)
(* as it should be, and x is in no queue but the one it points to.         *)
Moving(k, x) ==
  /\ ListsOK(k)
  /\ \A t \in Threads \ {x} : ThreadOK(k, t)
  /\ \A q \in Queues : In(k, x, q) => q = k.qptr[x]

(* Thread x is in no queue at all.                                         *)
Loose(k, x) == Moving(k, x) /\ \A q \in Queues : ~In(k, x, q)

-----------------------------------------------------------------------------
(* The stacks.                                                             *)

FrameOK(t, f) ==
  /\ f \in Frames
  /\ f.fn \in {"wake", "sleepcall", "sleep"} => f.obj \in Waitables
  /\ f.fn = "sleep" => f.arg = t
  /\ f.fn = "lock" => f.obj \in Mutexes
  /\ f.fn \in {"promote", "propagate"} => f.obj \in Threads \cup {NULL}
  /\ f.fn = "promote" => f.arg \in 0 .. MaxPrio + 1
  /\ f.fn \in {"unlockall", "join"} => f.obj \in Threads
  /\ f.fn \in {"unlockall", "exit", "join"} => Mortal

StackOK(t, s) ==
  /\ s \in Seq(Frames)
  /\ \A i \in DOMAIN s : FrameOK(t, s[i])

(* How many callback batches have not unwound.                             *)
Depth(s) == Cardinality({i \in DOMAIN s : s[i].fn = "callback"})

HasNo(s, fns) == \A i \in DOMAIN s : s[i].fn \notin fns

-----------------------------------------------------------------------------
(* The modes of the executing fiber e, with stack s and memory k.          *)

(* A reschedule is requested.                                              *)
Asked(k) == k.resched = TRUE

(* The thread has given up the processor and its fiber is about to switch. *)
Leaving(k, s) ==
  /\ k.disable = 0
  /\ Asked(k)
  /\ s # << >> /\ Head(s).fn \in {"select", "resched"}

(* The thread has ended and its fiber is on its way to the last switch.    *)
Exiting(k, s) ==
  /\ k.disable = 0
  /\ Mortal
  /\ s # << >> /\ s[Len(s)].fn = "exit"
  /\ \A i \in DOMAIN s :
       /\ s[i].fn \in {"unlockall", "wake", "exit"}
       /\ s[i].fn = "wake" /\ s[i].arg = 1 => Asked(k)

Live(k, e, s) ==
  /\ HasNo(s, {"idle"})
  /\ k.running = e /\ k.current = e
  /\ k.state[e] = "RUNNING" \/ Leaving(k, s) \/ Exiting(k, s)

(* The calls that callbacks and timers make from the idle loop.            *)
IdleCalls == {"callback", "wake", "select", "resched", "propagate"}

IdleAt(s) ==
  \E n \in DOMAIN s :
    /\ s[n].fn = "idle"
    /\ \A i \in 1 .. n - 1 : s[i].fn \in IdleCalls
    /\ \A i \in n + 1 .. Len(s) : s[i].fn \notin {"idle", "callback"}

Idling(k, s) == k.running = NULL /\ k.current = Idle /\ IdleAt(s)

(* The disable count is the number of batches on the executing fiber.      *)
ExecOK(k, e, s) ==
  /\ k.disable = Depth(s)
  /\ \A t \in Threads : k.state[t] = "RUNNING" => t = k.running
  /\ Live(k, e, s) \/ Idling(k, s)

FibersOK ==
  /\ exec \in Threads
  /\ stack \in [Threads -> Seq(Frames)]
  /\ \A t \in Threads : StackOK(t, stack[t])
  /\ \A t \in Threads \ {exec} : HasNo(stack[t], {"idle", "callback"})

(* The inductive invariant: between any two steps of any scheduler call    *)
(* (a wake-up half done, a priority on its way along a chain of owners, a  *)
(* fiber that has given up the processor and not yet switched) the queues, *)
(* the thread states and the stacks still agree.                           *)
IInv ==
  /\ LifeInstance
  /\ MemoryOK(os)
  /\ FibersOK
  /\ ExecOK(os, exec, stack[exec])

-----------------------------------------------------------------------------
(* The life cycle.                                                         *)

(* The calls of stack s will wake the joiners of t.                        *)
WillWake(s, t) == \E i \in DOMAIN s : s[i].fn = "wake" /\ s[i].obj = t

(* Where a thread e that ends by itself starts.                            *)
ExitCalls(e) == << Frame("unlockall", e, 0), WakeCall(e), Frame("exit", NULL, 0) >>

(* A wake-up is the innermost call of its fiber, but for the main thread's *)
(* cancellations and the exit of a thread that holds no mutex.             *)
WakesOnTop(k, e, s) ==
  e # Main =>
    \/ \A i \in DOMAIN s : s[i].fn = "wake" => i = 1
    \/ s = ExitCalls(e) /\ k.held[e] = << >>

(* No callback batch runs in the middle of a wake-up.                      *)
NoBatchInWake(s) ==
  \A i, j \in DOMAIN s : i < j /\ s[i].fn = "callback" => s[j].fn # "wake"

(* A thread that begins to wait for the end of t finds t alive.            *)
JoinsTheLiving(k, s) ==
  \A i \in DOMAIN s : s[i].fn = "sleepcall" /\ s[i].obj \in Threads =>
    i = 1 /\ ~Ended(k, s[i].obj)

(* The second part of the invariant: the thread list is right, the main    *)
(* thread does not end, and the joiners of an ended thread are awake or    *)
(* will be woken by a fiber that is not given up before it has done so.    *)
LifeOK ==
  /\ ThreadListOK
  /\ ~Ended(os, Main)
  /\ \A t \in Threads : Ended(os, t) /\ os.queue[t] # << >> =>
       WillWake(stack[Main], t) \/ WillWake(stack[exec], t)
  /\ \A t \in Threads \ {exec, Main} : HasNo(stack[t], {"wake"})
  /\ \A t \in Threads \ {exec} : \A i \in DOMAIN stack[t] :
       stack[t][i].fn = "sleepcall" => stack[t][i].obj \notin Threads
  /\ WakesOnTop(os, exec, stack[exec])
  /\ os.running # NULL => NoBatchInWake(stack[exec])
  /\ JoinsTheLiving(os, stack[exec])

LifeInv == IInv /\ LifeOK

-----------------------------------------------------------------------------
(* What the second invariant says of the guest memory.                     *)

(* A wait queue is served in the order of its list.                        *)
Sorted(k, s) == \A i, j \in DOMAIN s : i < j => k.prio[s[i]] <= k.prio[s[j]]

QueuesOrdered(k) == \A q \in Waitables : Sorted(k, k.queue[q])

(* The list of held mutexes and the owner fields tell the same.            *)
HoldersOK(k) ==
  /\ \A t \in Threads : IsInjective(k.held[t])
  /\ \A t \in Threads, m \in Mutexes : m \in ToSet(k.held[t]) <=> k.owner[m] = t
  /\ \A m \in Mutexes : k.owner[m] # NULL => k.state[k.owner[m]] # "NONE"

(* The mutex a thread waits on is the one whose queue it is in, and a      *)
(* suspended waiter is behind every other.                                 *)
WaiterOK(k, t) ==
  /\ \A m \in Mutexes : In(k, t, m) => k.waitsOn[t] = m
  /\ k.state[t] = "WAITING" /\ k.waitsOn[t] # NULL => In(k, t, k.waitsOn[t])
  /\ k.state[t] = "WAITING" /\ k.susp[t] > 0 => k.prio[t] = SuspendedWaitPriority

LocksOK(k) ==
  /\ QueuesOrdered(k)
  /\ HoldersOK(k)
  /\ \A t \in Threads : WaiterOK(k, t)

-----------------------------------------------------------------------------
(* What it says of the calls of a fiber e, with stack s and memory k.      *)

(* The calls that are never left half done when a fiber is switched away.  *)
Transient == {"wake", "sleepcall", "promote", "propagate"}

(* The stack begins with the sleep of a lock that found the mutex taken.   *)
Requests(k, e, s) ==
  /\ s # << >> /\ Head(s).fn = "sleepcall" /\ Head(s).obj \in Mutexes
  /\ Tail(s) # << >> /\ Head(Tail(s)).fn = "lock" /\ Head(Tail(s)).obj = Head(s).obj
  /\ k.owner[Head(s).obj] \notin {NULL, e}
  /\ k.waitsOn[e] = Head(s).obj

CallsOK(k, e, s) ==
  s # << >> =>
    /\ Head(s).fn # "promote" => HasNo(Tail(s), Transient)
    /\ Head(s).fn = "wake" /\ Head(s).obj \in Mutexes => k.owner[Head(s).obj] = NULL
    /\ Head(s).fn = "sleepcall" =>
         IF Head(s).obj \in Mutexes THEN Requests(k, e, s)
         ELSE k.disable > 0 \/ k.waitsOn[e] = NULL
    /\ Head(s).fn = "promote" =>
         Requests(k, e, Tail(s)) /\ HasNo(Tail(Tail(s)), Transient) /\ Head(s).arg = k.prio[e]
    /\ Head(s).fn = "propagate" => Tail(s) # << >> /\ Head(Tail(s)).fn = "resched"

(* A pointer to a mutex waited for is cleared by the lock that set it, and *)
(* a park is undone by the OSSleepTicks that made it.                      *)
FiberOK(k, t, s) ==
  /\ k.waitsOn[t] # NULL => ~HasNo(s, {"lock"})
  /\ t \in k.parks => ~HasNo(s, {"ticks"}) /\ t \in k.timers /\ k.susp[t] > 0

(* A mutex that threads wait for has an owner or is being handed over.     *)
HandedOver(k, s) ==
  \A m \in Mutexes : k.queue[m] # << >> =>
    k.owner[m] # NULL \/ (s # << >> /\ Head(s).fn = "wake" /\ Head(s).obj = m)

-----------------------------------------------------------------------------
(* Priorities.                                                             *)

(* The mutex that a sleep not begun yet is going to wait for.              *)
Asking(s) ==
  IF s = << >> THEN NULL
  ELSE CASE Head(s).fn = "sleepcall" -> Head(s).obj
         [] Head(s).fn = "promote"   -> Head(Tail(s)).obj
         [] OTHER                    -> NULL

(* Thread w waits for mutex m, or is the fiber e that asks for a.          *)
Waits(k, e, a, w, m) == In(k, w, m) \/ (w = e /\ m = a)

(* What the priority of t has to be the least of.                          *)
Claims(k, e, a, t) ==
  {k.base[t]} \cup
  {k.prio[w] : w \in {u \in Threads : \E m \in Mutexes : k.owner[m] = t /\ Waits(k, e, a, u, m)}}

Lower(S, n) == \A c \in S : n <= c

(* The innermost call is about to change the priority of t.                *)
Adjusts(k, s, fn, t) ==
  s # << >> /\ Head(s).fn = fn /\ Head(s).obj = t /\ k.state[t] # "NONE"

(* The innermost call is a lock on a mutex that t owns: after a sleep that *)
(* was refused, t may still have the priority of the fiber e.              *)
Retries(k, e, s, t) ==
  s # << >> /\ Head(s).fn = "lock" /\ k.owner[Head(s).obj] = t /\ t # e

(* The priority of t is the strongest of its claims, up to the turn of a   *)
(* promotion or propagation that has reached t.                            *)
PriorityOK(k, e, s, t) ==
  LET C == Claims(k, e, Asking(s), t) IN
  CASE Adjusts(k, s, "propagate", t) -> TRUE
    [] Adjusts(k, s, "promote", t) ->
         LET n == IF k.prio[t] <= Head(s).arg THEN k.prio[t] ELSE Head(s).arg
         IN  n \in C /\ Lower(C, n)
    [] Retries(k, e, s, t) -> k.prio[t] \in C \cup {k.prio[e]} /\ Lower(C, k.prio[t])
    [] OTHER -> k.prio[t] \in C /\ Lower(C, k.prio[t])

PrioritiesOK(k, e, s) == \A t \in Threads : k.susp[t] = 0 => PriorityOK(k, e, s, t)

-----------------------------------------------------------------------------
(* Who should run.                                                         *)

(* The fiber e runs although a thread of a stronger priority is queued.    *)
Outranked(k, e) == k.state[e] = "RUNNING" /\ \E p \in k.pending : p < k.prio[e]

(* The wake-up of a mutex whose first waiter can run will ask for it.      *)
HandsOver(k, s) ==
  /\ s # << >> /\ Head(s).fn = "wake" /\ Head(s).obj \in Mutexes
  /\ k.queue[Head(s).obj] # << >> /\ k.susp[Head(k.queue[Head(s).obj])] = 0

(* A reschedule is asked for, or is going to be.                           *)
RankOK(k, e, s) == Outranked(k, e) => Asked(k) \/ HandsOver(k, s)

(* Without callbacks the call that is under way ends in SelectThread.      *)
SelectComes(k, e, s) ==
  "callback" \notin Calls =>
    /\ k.disable = 0
    /\ Outranked(k, e) =>
         \/ ~HasNo(s, {"select", "resched"})
         \/ s # << >> /\ Head(s).fn = "wake" /\ Head(s).arg = 1
         \/ HandsOver(k, s)

(* The second inductive invariant: wait queues, mutexes, parks and calls   *)
(* agree, between any two steps of any call.                               *)
LockInv ==
  /\ SyncInstance
  /\ IInv
  /\ LocksOK(os)
  /\ CallsOK(os, exec, stack[exec])
  /\ \A t \in Threads : FiberOK(os, t, stack[t])
  /\ \A t \in Threads \ {exec} : HasNo(stack[t], Transient)
  /\ HandedOver(os, stack[exec])
  /\ os.state[exec] # "NONE"

(* The third: inherited priorities and the running thread agree with them. *)
RankInv ==
  /\ LockInv
  /\ PrioritiesOK(os, exec, stack[exec])
  /\ RankOK(os, exec, stack[exec])
  /\ SelectComes(os, exec, stack[exec])
=============================================================================
