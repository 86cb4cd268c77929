--------------------------- MODULE ThreadLife_proofs ---------------------------
(***************************************************************************)
(* LifeInv is an inductive invariant of GuestScheduler with the whole life *)
(* cycle of threads, and the safety properties that follow from it.        *)
(* First the actions of the life cycle keep IInv, as the other actions do  *)
(* by GuestScheduler_proofs.  Then every action keeps LifeOK: the thread   *)
(* list is right, the main thread does not end, and the joiners of a       *)
(* thread that has ended are awake or will be woken by a fiber that is not *)
(* given up before it has done so.                                         *)
(***************************************************************************)
EXTENDS GuestScheduler_proofs

-----------------------------------------------------------------------------
(* The guest memory when threads begin and end.                            *)

(* A thread that is in no queue may end.                                   *)
LEMMA TerminateOK ==
  ASSUME NEW k, NEW x \in Threads, Loose(k, x), Mortal, NEW j, j = Terminate(k, x)
  PROVE  /\ MemoryOK(j)
         /\ Ended(j, x)
         /\ j.state[x] # "NONE" => j.listed = k.listed
         /\ j.state[x] = "NONE" => j.listed = k.listed \ {x}
         /\ \A t \in Threads \ {x} : j.state[t] = k.state[t]
         /\ j.queue = k.queue /\ j.held = k.held /\ j.resched = k.resched
         /\ j.disable = k.disable /\ j.running = k.running /\ j.current = k.current
<1> DEFINE s  == IF x \in k.detached THEN "NONE" ELSE "MORIBUND"
           st == [k.state EXCEPT ![x] = s]
           li == IF x \in k.detached THEN k.listed \ {x} ELSE k.listed
<1>1. k \in OsMemory /\ ListsOK(k)
  BY DEF Loose, Moving, ListsOK
<1>2. st \in [Threads -> ThreadStates] /\ li \in SUBSET Threads
  BY <1>1 DEF OsMemory, ThreadStates
<1>3. j = [k EXCEPT !.state = st, !.listed = li]
  BY <1>1 DEF Terminate, OsMemory
<1>4. /\ st[x] = s /\ s \in {"NONE", "MORIBUND"}
      /\ \A t \in Threads \ {x} : st[t] = k.state[t]
      /\ s = "NONE" => li = k.listed \ {x}
      /\ s # "NONE" => li = k.listed
  BY <1>1 DEF OsMemory
<1> HIDE DEF s, st, li
<1>5. j \in OsMemory
  BY <1>1, <1>2, <1>3 DEF OsMemory
<1>6. /\ j.state = st /\ j.listed = li
      /\ j.queue = k.queue /\ j.pending = k.pending /\ j.qptr = k.qptr
      /\ j.susp = k.susp /\ j.prio = k.prio /\ j.held = k.held
      /\ j.owner = k.owner /\ j.count = k.count /\ j.resched = k.resched
      /\ j.disable = k.disable /\ j.running = k.running /\ j.current = k.current
  BY <1>1, <1>3 DEF OsMemory
<1>7. OnlyChanges(j, k, x)
  BY <1>1, <1>4, <1>5, <1>6 DEF OnlyChanges, ListsOK
<1>8. Loose(j, x)
  BY <1>7, MovingChanges
<1>9. Ended(j, x)
  BY <1>4, <1>6 DEF Ended, ThreadStateIsTerminated
<1>10. ~Linked(j, x) /\ j.state[x] # "RUNNING"
  BY <1>4, <1>6 DEF Linked
<1>11. MemoryOK(j)
  BY <1>8, <1>9, <1>10, StaysLoose
<1> QED
  BY <1>4, <1>6, <1>9, <1>11

(* A dead thread leaves the thread list.                                   *)
LEMMA ReapOK ==
  ASSUME NEW k, MemoryOK(k), NEW x \in Threads, k.state[x] = "MORIBUND", NEW j, j = Reap(k, x)
  PROVE  /\ MemoryOK(j) /\ Calm(j, k)
         /\ j.state = [k.state EXCEPT ![x] = "NONE"] /\ j.listed = k.listed \ {x}
         /\ j.queue = k.queue /\ j.held = k.held
<1> DEFINE st == [k.state EXCEPT ![x] = "NONE"]
           li == k.listed \ {x}
<1>1. k \in OsMemory /\ ListsOK(k) /\ Mortal
  BY DEF MemoryOK, ListsOK, ThreadOK
<1>2. st \in [Threads -> ThreadStates] /\ li \in SUBSET Threads
  BY <1>1 DEF OsMemory, ThreadStates
<1>3. j = [k EXCEPT !.state = st, !.listed = li]
  BY <1>1 DEF Reap, OsMemory
<1>4. st[x] = "NONE" /\ \A t \in Threads \ {x} : st[t] = k.state[t]
  BY <1>1 DEF OsMemory
<1>5. st = [k.state EXCEPT ![x] = "NONE"] /\ li = k.listed \ {x}
  OBVIOUS
<1> HIDE DEF st, li
<1>6. j \in OsMemory
  BY <1>1, <1>2, <1>3 DEF OsMemory
<1>7. /\ j.state = st /\ j.listed = li
      /\ j.queue = k.queue /\ j.pending = k.pending /\ j.qptr = k.qptr
      /\ j.susp = k.susp /\ j.prio = k.prio /\ j.held = k.held
      /\ j.owner = k.owner /\ j.count = k.count /\ j.resched = k.resched
      /\ j.disable = k.disable /\ j.running = k.running /\ j.current = k.current
  BY <1>1, <1>3 DEF OsMemory
<1>8. Loose(k, x)
  BY StartsToMove DEF Linked
<1>9. OnlyChanges(j, k, x)
  BY <1>1, <1>4, <1>6, <1>7 DEF OnlyChanges, ListsOK
<1>10. Loose(j, x)
  BY <1>8, <1>9, MovingChanges
<1>11. /\ ~Linked(j, x) /\ Ended(j, x)
       /\ j.state[x] # "RUNNING" /\ j.state[x] # "MORIBUND"
  BY <1>4, <1>7 DEF Linked, Ended, ThreadStateIsTerminated
<1>12. MemoryOK(j)
  BY <1>1, <1>10, <1>11, StaysLoose
<1>13. \A t \in Threads : j.state[t] = "RUNNING" <=> k.state[t] = "RUNNING"
  BY <1>4, <1>7
<1> QED
  BY <1>5, <1>7, <1>12, <1>13 DEF Calm, Asked

(* A new thread is suspended, and in no queue.                             *)
LEMMA CreateOK ==
  ASSUME NEW k, MemoryOK(k), NEW x \in Threads, k.state[x] = "NONE", k.queue[x] = << >>,
         NEW d \in BOOLEAN, NEW j, j = Create(k, x, d)
  PROVE  /\ MemoryOK(j) /\ Calm(j, k)
         /\ j.state = [k.state EXCEPT ![x] = "READY"] /\ j.listed = k.listed \cup {x}
         /\ j.queue = k.queue /\ j.held = [k.held EXCEPT ![x] = << >>]
<1> DEFINE st == [k.state EXCEPT ![x] = "READY"]
           su == [k.susp EXCEPT ![x] = 1]
           ba == [k.base EXCEPT ![x] = BasePrio[x]]
           pr == [k.prio EXCEPT ![x] = BasePrio[x]]
           qu == [k.queue EXCEPT ![x] = << >>]
           wo == [k.waitsOn EXCEPT ![x] = NULL]
           he == [k.held EXCEPT ![x] = << >>]
           de == IF d THEN k.detached \cup {x} ELSE k.detached \ {x}
           li == k.listed \cup {x}
<1>1. k \in OsMemory /\ ListsOK(k)
  BY DEF MemoryOK, ListsOK
<1>2. BasePrio[x] \in Prios /\ BasePrio[x] # SuspendedWaitPriority
  BY OsConstants, Pointers
<1>3. /\ st \in [Threads -> ThreadStates] /\ su \in [Threads -> Nat]
      /\ ba \in [Threads -> Prios] /\ pr \in [Threads -> Prios \cup {SuspendedWaitPriority}]
      /\ wo \in [Threads -> Mutexes \cup {NULL}] /\ he \in [Threads -> Seq(Mutexes)]
      /\ de \in SUBSET Threads /\ li \in SUBSET Threads
  BY <1>1, <1>2 DEF OsMemory, ThreadStates
<1>4. qu = k.queue
  BY <1>1 DEF OsMemory, Queues, Waitables
<1>5. j = [k EXCEPT !.state = st, !.susp = su, !.base = ba, !.prio = pr, !.queue = qu,
                    !.waitsOn = wo, !.held = he, !.detached = de, !.listed = li]
  BY <1>1, Zenon DEF Create, OsMemory
<1>6. /\ st[x] = "READY" /\ su[x] = 1 /\ pr[x] = BasePrio[x]
      /\ \A t \in Threads \ {x} :
           st[t] = k.state[t] /\ su[t] = k.susp[t] /\ pr[t] = k.prio[t]
  BY <1>1 DEF OsMemory
<1>7. /\ st = [k.state EXCEPT ![x] = "READY"] /\ li = k.listed \cup {x}
      /\ he = [k.held EXCEPT ![x] = << >>]
  OBVIOUS
<1> HIDE DEF st, su, ba, pr, qu, wo, he, de, li
<1>8. j = [k EXCEPT !.state = st, !.susp = su, !.base = ba, !.prio = pr,
                    !.waitsOn = wo, !.held = he, !.detached = de, !.listed = li]
  BY <1>1, <1>4, <1>5 DEF OsMemory
<1>9. j \in OsMemory
  <2> DEFINE i == [k EXCEPT !.state = st, !.susp = su, !.base = ba, !.prio = pr]
  <2>1. i \in OsMemory
    BY <1>1, <1>3 DEF OsMemory
  <2>2. j = [i EXCEPT !.waitsOn = wo, !.held = he, !.detached = de, !.listed = li]
    BY <1>1, <1>8 DEF OsMemory
  <2> HIDE DEF i
  <2> QED
    BY <1>3, <2>1, <2>2 DEF OsMemory
<1>10. /\ j.state = st /\ j.susp = su /\ j.prio = pr /\ j.listed = li /\ j.held = he
       /\ j.queue = k.queue /\ j.pending = k.pending /\ j.qptr = k.qptr
       /\ j.owner = k.owner /\ j.count = k.count /\ j.resched = k.resched
       /\ j.disable = k.disable /\ j.running = k.running /\ j.current = k.current
  BY <1>1, <1>8 DEF OsMemory
<1>11. Loose(k, x)
  BY StartsToMove DEF Linked
<1>12. OnlyChanges(j, k, x)
  BY <1>1, <1>6, <1>9, <1>10 DEF OnlyChanges, ListsOK
<1>13. Loose(j, x)
  BY <1>11, <1>12, MovingChanges
<1>14. /\ ~Linked(j, x) /\ j.prio[x] # SuspendedWaitPriority
       /\ j.state[x] # "RUNNING" /\ j.state[x] # "MORIBUND"
  BY <1>2, <1>6, <1>10 DEF Linked
<1>15. MemoryOK(j)
  BY <1>13, <1>14, StaysLoose
<1>16. \A t \in Threads : j.state[t] = "RUNNING" <=> k.state[t] = "RUNNING"
  BY <1>6, <1>10
<1> QED
  BY <1>7, <1>10, <1>15, <1>16 DEF Calm, Asked

(* A thread gives up one of the mutexes it holds.                          *)
LEMMA GiveUpOK ==
  ASSUME NEW k, MemoryOK(k), NEW x \in Threads, k.held[x] # << >>, NEW m, m = Head(k.held[x]),
         NEW j, j = [k EXCEPT !.held[x] = Tail(@), !.owner[m] = NULL, !.count[m] = 0]
  PROVE  /\ MemoryOK(j) /\ Calm(j, k) /\ m \in Mutexes
         /\ j.state = k.state /\ j.queue = k.queue /\ j.listed = k.listed
         /\ j.held = [k.held EXCEPT ![x] = Tail(k.held[x])]
<1> DEFINE h == [k.held EXCEPT ![x] = Tail(k.held[x])]
           o == [k.owner EXCEPT ![m] = NULL]
           n == [k.count EXCEPT ![m] = 0]
<1>1. k \in OsMemory /\ ListsOK(k)
  BY DEF MemoryOK, ListsOK
<1>2. m \in Mutexes /\ Tail(k.held[x]) \in Seq(Mutexes)
  BY <1>1 DEF OsMemory
<1>3. /\ h \in [Threads -> Seq(Mutexes)] /\ o \in [Mutexes -> Threads \cup {NULL}]
      /\ n \in [Mutexes -> Nat]
  BY <1>1, <1>2 DEF OsMemory
<1>4. j = [k EXCEPT !.held = h, !.owner = o, !.count = n]
  BY <1>1 DEF OsMemory
<1>5. \A i \in Mutexes : o[i] = NULL <=> n[i] = 0
  BY <1>1 DEF ListsOK, OsMemory
<1>6. h = [k.held EXCEPT ![x] = Tail(k.held[x])]
  OBVIOUS
<1> HIDE DEF h, o, n
<1>7. j \in OsMemory
  BY <1>1, <1>3, <1>4 DEF OsMemory
<1>8. /\ j.queue = k.queue /\ j.pending = k.pending /\ j.qptr = k.qptr
      /\ j.state = k.state /\ j.susp = k.susp /\ j.prio = k.prio /\ j.listed = k.listed
      /\ j.owner = o /\ j.count = n /\ j.held = h /\ j.resched = k.resched
      /\ j.disable = k.disable /\ j.running = k.running /\ j.current = k.current
  BY <1>1, <1>4 DEF OsMemory
<1>9. MemoryOK(j)
  BY <1>5, <1>7, <1>8, QuietChanges
<1> QED
  BY <1>2, <1>6, <1>8, <1>9 DEF Calm, Asked

-----------------------------------------------------------------------------
(* The actions of the life cycle keep IInv.                                *)

LEMMA UnlockAllTurnStep ==
  ASSUME IInv, UnlockAllTurn
  PROVE  IInv'
<1> DEFINE t == Top.obj
           m == Head(os.held[t])
           r == Tail(stack[exec])
           w == WakeCall(m)
           f == Top
<1>1. stack[exec] # << >> /\ f.fn = "unlockall" /\ FrameOK(exec, f) /\ f \in Frames /\ t \in Threads
  BY InsideTop, TopOK DEF UnlockAllTurn, FrameOK
<1>2. /\ ~Idling(os, stack[exec])
      /\ os.state[exec] = "RUNNING" \/ Exiting(os, stack[exec])
  BY <1>1, NotFromIdle DEF IdleCalls
<1>3. {"unlockall", "wake"} \subseteq PlainCalls
  BY DEF PlainCalls, FrameFns
<1>4. stack[exec] \in Seq(Frames) /\ r \in Seq(Frames) /\ Head(stack[exec]) = f
  BY <1>1, TheFiber, Uncons DEF StackOK, Top
<1>5. CASE os.held[t] = << >>
  <2>1. UNCHANGED os /\ Continue(<< >>)
    BY <1>5 DEF UnlockAllTurn
  <2>2. Exiting(os, stack[exec]) => Exiting(os', << >> \o r)
    BY <1>1, <1>4, <2>1, Unchanged, ExitGoesOn
  <2> QED
    BY <1>1, <1>2, <1>3, <2>1, <2>2, NoCalls, Unchanged, Replaces
<1>6. CASE os.held[t] # << >>
  <2>1. /\ os' = [os EXCEPT !.held[t] = Tail(@), !.owner[m] = NULL, !.count[m] = 0]
        /\ Continue(<< w, f >>)
    BY <1>6 DEF UnlockAllTurn
  <2>2. MemoryOK(os') /\ Calm(os', os) /\ m \in Mutexes
    <3> DEFINE n == m
    <3>1. n = Head(os.held[t])
      OBVIOUS
    <3>2. os' = [os EXCEPT !.held[t] = Tail(@), !.owner[n] = NULL, !.count[n] = 0]
      BY <2>1
    <3> HIDE DEF n, t
    <3>3. MemoryOK(os') /\ Calm(os', os) /\ n \in Mutexes
      BY <1>1, <1>6, <3>1, <3>2, TheFiber, GiveUpOK
    <3> QED
      BY <3>3 DEF n
  <2>3. FrameOK(exec, w) /\ w.fn = "wake" /\ w \in Frames /\ w.arg = 0
    <3>1. m \in Waitables
      BY <2>2 DEF Waitables
    <3>2. FrameOK(exec, w) /\ w.fn = "wake"
      BY <3>1, TheFiber, QueueCalls
    <3> QED
      BY <3>2 DEF FrameOK, WakeCall, Frame
  <2> HIDE DEF m, w, f, r
  <2>4. OnlyCalls(exec, << w, f >>, PlainCalls)
    BY <1>1, <1>3, <2>3, TwoCalls
  <2>5. Exiting(os, stack[exec]) => Exiting(os', << w, f >> \o r)
    <3> SUFFICES ASSUME Exiting(os, stack[exec]) PROVE Exiting(os', << w, f >> \o r)
      OBVIOUS
    <3> DEFINE v == << f >> \o r
    <3>1. << f >> \in Seq(Frames) /\ << w >> \in Seq(Frames) /\ v \in Seq(Frames)
      BY <1>1, <1>4, <2>3
    <3>2. Exiting(os', v)
      BY <1>1, <1>4, <2>2, ExitGoesOn DEF r
    <3>3. << w, f >> = << w >> \o << f >>
      BY <1>1, <2>3, Pair
    <3>4. (<< w >> \o << f >>) \o r = << w >> \o v
      BY <1>4, <3>1, ConcatAssociative
    <3> HIDE DEF v
    <3>5. w.fn = "wake" /\ w.arg = 1 => Asked(os')
      BY <2>3
    <3>6. Exiting(os', << w >> \o v)
      BY <2>3, <3>1, <3>2, <3>5, ExitMakes
    <3> QED
      BY <3>3, <3>4, <3>6
  <2> QED
    BY <1>1, <1>2, <1>3, <2>1, <2>2, <2>4, <2>5, Replaces DEF f, r
<1> QED
  BY <1>5, <1>6

(* Only the request for a reschedule changes.                              *)
LEMMA RequestOK ==
  ASSUME NEW k, MemoryOK(k), NEW j, j = [k EXCEPT !.resched = TRUE]
  PROVE  /\ MemoryOK(j) /\ Calm(j, k) /\ Asked(j) /\ j.disable = k.disable
         /\ j.state = k.state /\ j.listed = k.listed /\ j.queue = k.queue /\ j.held = k.held
<1>1. k \in OsMemory /\ \A m \in Mutexes : k.owner[m] = NULL <=> k.count[m] = 0
  BY DEF MemoryOK, ListsOK
<1>2. j \in OsMemory
  BY <1>1 DEF OsMemory
<1>3. /\ j.queue = k.queue /\ j.pending = k.pending /\ j.qptr = k.qptr
      /\ j.state = k.state /\ j.susp = k.susp /\ j.prio = k.prio
      /\ j.owner = k.owner /\ j.count = k.count /\ j.resched = TRUE
      /\ j.listed = k.listed /\ j.held = k.held
      /\ j.disable = k.disable /\ j.running = k.running /\ j.current = k.current
  BY <1>1 DEF OsMemory
<1>4. \A m \in Mutexes : j.owner[m] = NULL <=> j.count[m] = 0
  BY <1>1, <1>3
<1>5. MemoryOK(j)
  BY <1>2, <1>3, <1>4, QuietChanges
<1> QED
  BY <1>3, <1>5 DEF Calm, Asked

LEMMA ExitTailStep ==
  ASSUME IInv, ExitTail
  PROVE  IInv'
<1> DEFINE f == SelectCall(0)
<1>1. stack[exec] # << >> /\ Top.fn = "exit" /\ Continue(<< f >>)
  BY InsideTop DEF ExitTail
<1>2. /\ MemoryOK(os') /\ Calm(os', os) /\ Asked(os') /\ os'.disable = os.disable
  BY TheFiber, RequestOK DEF ExitTail
<1>3. FrameOK(exec, f) /\ f.fn = "select"
  BY TheFiber, SelectCalls
<1> HIDE DEF f
<1>4. OnlyCalls(exec, << f >>, PlainCalls) /\ "exit" \in PlainCalls
      /\ << f >> # << >> /\ Head(<< f >>) = f
  BY <1>3, OneCall DEF PlainCalls, FrameFns
<1>5. /\ ~Idling(os, stack[exec])
      /\ os.state[exec] = "RUNNING" \/ Exiting(os, stack[exec])
  BY <1>1, NotFromIdle DEF IdleCalls
<1>6. Exiting(os, stack[exec]) => Leaving(os', << f >>)
  BY <1>2, <1>3, <1>4 DEF Exiting, Leaving
<1> QED
  BY <1>1, <1>2, <1>4, <1>5, <1>6, Replaces

LEMMA JoinTailStep ==
  ASSUME IInv, JoinTail
  PROVE  IInv'
<1>1. stack[exec] # << >> /\ Top.fn = "join" /\ Top.obj \in Threads /\ Continue(<< >>)
  BY InsideTop, TopOK DEF JoinTail, FrameOK
<1>2. ~Idling(os, stack[exec]) /\ os.state[exec] = "RUNNING"
  BY <1>1, NotFromIdle DEF IdleCalls
<1>3. MemoryOK(os') /\ Calm(os', os)
  BY <1>1, TheFiber, ReapOK, Unchanged DEF JoinTail
<1>4. "join" \in PlainCalls
  BY DEF PlainCalls, FrameFns
<1> QED
  BY <1>1, <1>2, <1>3, <1>4, NoCalls, Replaces

(* The calls of a thread that ends, on its own or by the main thread.      *)
LEMMA EndCalls ==
  ASSUME NEW e, NEW t \in Threads, Mortal
  PROVE  /\ FrameOK(e, Frame("unlockall", t, 0)) /\ Frame("unlockall", t, 0).fn = "unlockall"
         /\ FrameOK(e, WakeCall(t)) /\ WakeCall(t).fn = "wake" /\ WakeCall(t).arg = 0
         /\ WakeCall(t).obj = t
         /\ FrameOK(e, Frame("exit", NULL, 0)) /\ Frame("exit", NULL, 0).fn = "exit"
         /\ FrameOK(e, Frame("join", t, 0)) /\ Frame("join", t, 0).fn = "join"
         /\ FrameOK(e, Frame("sleepcall", t, 0)) /\ Frame("sleepcall", t, 0).fn = "sleepcall"
         /\ Frame("sleepcall", t, 0).obj = t
<1>1. t \in Waitables
  BY DEF Waitables
<1>2. FrameOK(e, Frame("unlockall", t, 0)) /\ Frame("unlockall", t, 0).fn = "unlockall"
  BY <1>1, FrameTypes, SmallNumbers DEF FrameOK, FrameFns
<1>3. /\ FrameOK(e, Frame("wake", t, 0)) /\ Frame("wake", t, 0).fn = "wake"
      /\ Frame("wake", t, 0).obj = t /\ Frame("wake", t, 0).arg = 0
  BY <1>1, FrameTypes, SmallNumbers DEF FrameOK, FrameFns
<1>4. FrameOK(e, Frame("exit", NULL, 0)) /\ Frame("exit", NULL, 0).fn = "exit"
  BY FrameTypes, SmallNumbers DEF FrameOK, FrameFns
<1>5. FrameOK(e, Frame("join", t, 0)) /\ Frame("join", t, 0).fn = "join"
  BY <1>1, FrameTypes, SmallNumbers DEF FrameOK, FrameFns
<1>6. /\ FrameOK(e, Frame("sleepcall", t, 0)) /\ Frame("sleepcall", t, 0).fn = "sleepcall"
      /\ Frame("sleepcall", t, 0).obj = t
  BY <1>1, FrameTypes, SmallNumbers DEF FrameOK, FrameFns
<1> QED
  BY <1>2, <1>3, <1>4, <1>5, <1>6 DEF WakeCall

LEMMA ExitStack ==
  ASSUME NEW e \in Threads, Mortal, NEW s, s = ExitCalls(e)
  PROVE  /\ s \in Seq(Frames) /\ StackOK(e, s) /\ s # << >> /\ Len(s) = 3 /\ DOMAIN s = 1 .. 3
         /\ Head(s) = Frame("unlockall", e, 0)
         /\ s[1] = Frame("unlockall", e, 0) /\ s[2] = WakeCall(e) /\ s[3] = Frame("exit", NULL, 0)
         /\ s[1].fn = "unlockall" /\ s[2].fn = "wake" /\ s[2].arg = 0 /\ s[2].obj = e
         /\ s[3].fn = "exit"
         /\ HasNo(s, {"callback"}) /\ HasNo(s, {"idle"}) /\ Depth(s) = 0
<1> DEFINE f == Frame("unlockall", e, 0)
           g == WakeCall(e)
           h == Frame("exit", NULL, 0)
<1>1. /\ FrameOK(e, f) /\ f.fn = "unlockall"
      /\ FrameOK(e, g) /\ g.fn = "wake" /\ g.arg = 0 /\ g.obj = e
      /\ FrameOK(e, h) /\ h.fn = "exit"
  BY EndCalls
<1>2. s = << f, g, h >>
  BY DEF ExitCalls
<1> HIDE DEF f, g, h
<1>3. f \in Frames /\ g \in Frames /\ h \in Frames
  BY <1>1 DEF FrameOK
<1>4. /\ s \in Seq(Frames) /\ s # << >> /\ Len(s) = 3 /\ DOMAIN s = 1 .. 3
      /\ Head(s) = f /\ s[1] = f /\ s[2] = g /\ s[3] = h
  BY <1>2, <1>3
<1>5. \A i \in DOMAIN s : s[i] \in {f, g, h}
  BY <1>4
<1>6. StackOK(e, s)
  BY <1>1, <1>4, <1>5 DEF StackOK
<1>7. HasNo(s, {"callback"}) /\ HasNo(s, {"idle"})
  BY <1>1, <1>5 DEF HasNo
<1>8. Depth(s) = 0
  BY <1>4, <1>7, BatchesFinite
<1> QED
  BY <1>1, <1>4, <1>6, <1>7, <1>8 DEF f, g, h

(* A thread ends where its own code runs: it holds no mutex and is in no   *)
(* queue.                                                                  *)
LEMMA ExitEnds ==
  ASSUME IInv, OSExitThread
  PROVE  /\ Live(os, exec, stack[exec]) /\ os.state[exec] = "RUNNING" /\ os.running = exec
         /\ stack[exec] = << >> /\ os.disable = 0 /\ exec # Main
         /\ Mortal /\ Managers = {Main} /\ os.held[exec] = << >>
         /\ Loose(os, exec) /\ os' = Terminate(os, exec)
         /\ stack' = [stack EXCEPT ![exec] = ExitCalls(exec)] /\ exec' = exec
<1>1. /\ "exit" \in Calls /\ stack[exec] = << >> /\ exec \notin Managers
      /\ os.held[exec] = << >> \/ "exitHolding" \in Calls
      /\ os' = Terminate(os, exec) /\ Push(ExitCalls(exec))
  BY DEF OSExitThread, ExitCalls
<1>2. Mortal
  BY <1>1 DEF Mortal, SyncCalls
<1>3. Managers = {Main} /\ "exitHolding" \notin Calls
  BY <1>2, TheFiber DEF LifeInstance
<1>4. ~IdleAt(stack[exec])
  BY <1>1 DEF IdleAt
<1>5. Live(os, exec, stack[exec]) /\ os.disable = Depth(stack[exec])
  BY <1>4, TheFiber DEF ExecOK, Idling
<1>6. os.state[exec] = "RUNNING" /\ os.running = exec
  BY <1>1, <1>5, GuestRuns DEF AtGuest, Live
<1>7. os.disable = 0
  <2>1. HasNo(stack[exec], {"callback"})
    BY <1>1 DEF HasNo
  <2> QED
    BY <1>5, <2>1, TheFiber, BatchesFinite DEF StackOK
<1>8. Loose(os, exec)
  BY <1>6, TheFiber, StartsToMove DEF Linked
<1>9. stack' = [stack EXCEPT ![exec] = ExitCalls(exec)] /\ exec' = exec
  <2> DEFINE c == ExitCalls(exec)
  <2>1. c \in Seq(Frames)
    BY <1>2, TheFiber, ExitStack
  <2>2. stack' = [stack EXCEPT ![exec] = c \o stack[exec]] /\ exec' = exec
    BY <1>1 DEF Push
  <2> HIDE DEF c
  <2>3. c \o << >> = c
    BY <2>1, ConcatEmptySeq
  <2> QED
    BY <1>1, <2>2, <2>3 DEF c
<1> QED
  BY <1>1, <1>2, <1>3, <1>5, <1>6, <1>7, <1>8, <1>9

LEMMA ExitThreadStep ==
  ASSUME IInv, OSExitThread
  PROVE  IInv'
<1> DEFINE s == ExitCalls(exec)
<1>1. /\ Live(os, exec, stack[exec]) /\ os.running = exec
      /\ os.disable = 0 /\ Mortal
      /\ Loose(os, exec) /\ os' = Terminate(os, exec)
      /\ stack' = [stack EXCEPT ![exec] = s] /\ exec' = exec
  BY ExitEnds
<1>2. /\ StackOK(exec, s) /\ s # << >> /\ Len(s) = 3 /\ DOMAIN s = 1 .. 3
      /\ s[1].fn = "unlockall" /\ s[2].fn = "wake" /\ s[2].arg = 0 /\ s[3].fn = "exit"
      /\ HasNo(s, {"idle"}) /\ Depth(s) = 0
  BY <1>1, TheFiber, ExitStack
<1> HIDE DEF s
<1>3. /\ MemoryOK(os') /\ Ended(os', exec)
      /\ \A t \in Threads \ {exec} : os'.state[t] = os.state[t]
      /\ os'.disable = os.disable /\ os'.running = os.running /\ os'.current = os.current
  BY <1>1, TheFiber, TerminateOK
<1>4. Exiting(os', s)
  BY <1>1, <1>2, <1>3 DEF Exiting
<1>5. ExecOK(os', exec, s)
  <2>1. \A t \in Threads : os'.state[t] = "RUNNING" => t = os'.running
    BY <1>1, <1>3, TheFiber DEF ExecOK, Ended, ThreadStateIsTerminated
  <2> QED
    BY <1>1, <1>2, <1>3, <1>4, <2>1 DEF ExecOK, Live
<1> QED
  BY <1>1, <1>2, <1>3, <1>5, FiberSteps

(* The fiber goes on with the stack s, and other fibers may be emptied.    *)
LEMMA FiberForks ==
  ASSUME IInv, NEW s, StackOK(exec, s), MemoryOK(os'), ExecOK(os', exec, s),
         stack' \in [Threads -> Seq(Frames)], stack'[exec] = s, exec' = exec,
         \A t \in Threads \ {exec} : stack'[t] = stack[t] \/ stack'[t] = << >>
  PROVE  IInv'
<1>1. exec \in Threads /\ LifeInstance
  BY TheFiber
<1>2. \A t : StackOK(t, << >>) /\ HasNo(<< >>, {"idle", "callback"})
  BY NoCalls DEF OnlyCalls, HasNo
<1>3. \A t \in Threads : StackOK(t, stack'[t])
  BY <1>2, TheFiber
<1>4. \A t \in Threads \ {exec} : HasNo(stack'[t], {"idle", "callback"})
  BY <1>2 DEF IInv, FibersOK
<1>5. FibersOK'
  BY <1>1, <1>3, <1>4 DEF FibersOK
<1>6. ExecOK(os', exec', stack'[exec'])
  OBVIOUS
<1> QED
  BY <1>1, <1>5, <1>6 DEF IInv, LifeInstance, Mortal

(* No wake-up is under way where the guest code of a running thread is.    *)
LEMMA NoWakeAtGuest ==
  ASSUME LifeInv, AtGuest, os.running # NULL
  PROVE  HasNo(stack[exec], {"wake"})
<1> DEFINE s == stack[exec]
<1>1. s \in Seq(Frames) /\ NoBatchInWake(s)
  BY TheFiber DEF LifeInv, LifeOK, StackOK
<1>2. CASE s = << >>
  BY <1>2 DEF HasNo
<1>3. CASE s # << >> /\ Head(s).fn = "callback"
  <2>1. Head(s) = s[1] /\ DOMAIN s = 1 .. Len(s) /\ Len(s) \in Nat /\ Len(s) > 0
    BY <1>1, <1>3
  <2> HIDE DEF s
  <2>2. ASSUME NEW i \in DOMAIN s PROVE s[i].fn # "wake"
    <3>1. CASE i = 1
      BY <1>3, <2>1, <3>1
    <3>2. CASE i # 1
      <4>1. 1 \in DOMAIN s /\ 1 < i
        BY <2>1, <3>2
      <4> QED
        BY <1>1, <1>3, <2>1, <4>1 DEF NoBatchInWake
    <3> QED
      BY <3>1, <3>2
  <2> QED
    BY <2>2 DEF HasNo, s
<1> QED
  BY <1>2, <1>3 DEF AtGuest, Inside

(* The main thread creates the threads, where no wake-up is under way.     *)
LEMMA CreateBegins ==
  ASSUME LifeInv, NEW t \in Threads, NEW d \in BOOLEAN, OSCreateThread(t, d)
  PROVE  /\ Live(os, exec, stack[exec]) /\ os.state[exec] = "RUNNING" /\ exec = Main /\ t # exec
         /\ HasNo(stack[exec], {"wake"})
         /\ os.state[t] = "NONE" /\ os.queue[t] = << >> /\ os' = Create(os, t, d)
         /\ stack' \in [Threads -> Seq(Frames)] /\ stack'[exec] = stack[exec] /\ exec' = exec
         /\ stack'[t] = << >> /\ \A u \in Threads \ {t} : stack'[u] = stack[u]
<1>1. /\ AtGuest /\ "create" \in Calls
      /\ os.running = exec /\ exec \in Managers /\ os.state[t] = "NONE"
      /\ os' = Create(os, t, d)
      /\ stack' = [stack EXCEPT ![t] = << >>] /\ exec' = exec
  BY DEF OSCreateThread, May
<1>2. IInv /\ exec \in Threads /\ os.running # NULL /\ stack \in [Threads -> Seq(Frames)]
  BY <1>1, TheFiber DEF LifeInv
<1>3. exec = Main
  BY <1>1, <1>2, TheFiber DEF LifeInstance, Mortal, SyncCalls
<1>4. Live(os, exec, stack[exec]) /\ os.state[exec] = "RUNNING"
  BY <1>1, <1>2, RunningIsLive, GuestRuns
<1>5. HasNo(stack[exec], {"wake"})
  BY <1>1, <1>2, NoWakeAtGuest
<1>6. os.queue[t] = << >>
  <2>1. ~WillWake(stack[exec], t)
    BY <1>5 DEF WillWake, HasNo
  <2>2. Ended(os, t)
    BY <1>1 DEF Ended, ThreadStateIsTerminated
  <2> QED
    BY <1>3, <2>1, <2>2 DEF LifeInv, LifeOK
<1>7. t # exec
  BY <1>1, <1>4
<1>8. /\ stack' \in [Threads -> Seq(Frames)] /\ stack'[exec] = stack[exec]
      /\ stack'[t] = << >> /\ \A u \in Threads \ {t} : stack'[u] = stack[u]
  BY <1>1, <1>2, <1>7
<1> QED
  BY <1>1, <1>3, <1>4, <1>5, <1>6, <1>7, <1>8

LEMMA CreateThreadStep ==
  ASSUME LifeInv, NEW t \in Threads, NEW d \in BOOLEAN, OSCreateThread(t, d)
  PROVE  IInv'
<1> DEFINE s == stack[exec]
<1>1. /\ IInv /\ Live(os, exec, s) /\ os.state[exec] = "RUNNING"
      /\ os.state[t] = "NONE" /\ os.queue[t] = << >> /\ os' = Create(os, t, d)
      /\ stack' \in [Threads -> Seq(Frames)] /\ stack'[exec] = s /\ exec' = exec
      /\ \A u \in Threads \ {exec} : stack'[u] = stack[u] \/ stack'[u] = << >>
  BY CreateBegins DEF LifeInv
<1>2. MemoryOK(os') /\ Calm(os', os)
  BY <1>1, TheFiber, CreateOK
<1>3. ExecOK(os', exec, s)
  <2>1. StackOK(exec, s) /\ ExecOK(os, exec, s) /\ HasNo(s, {"idle"}) /\ exec \in Threads
    BY <1>1, TheFiber DEF Live
  <2> HIDE DEF s
  <2>2. Idling(os, s) => IdleAt(s)
    BY DEF Idling
  <2> QED
    BY <1>1, <1>2, <2>1, <2>2, CalmExec
<1> QED
  BY <1>1, <1>2, <1>3, TheFiber, FiberForks

(* The main thread cancels the others: the fiber of t is emptied, and that *)
(* of the main thread unlocks the mutexes of t and wakes its joiners.      *)
CancelCalls(t) == << Frame("unlockall", t, 0), WakeCall(t), ReschedCall >>

LEMMA CancelBegins ==
  ASSUME LifeInv, NEW t \in Threads, OSCancelThread(t)
  PROVE  /\ Live(os, exec, stack[exec]) /\ os.state[exec] = "RUNNING" /\ exec = Main /\ t # exec
         /\ HasNo(stack[exec], {"wake"}) /\ Mortal
         /\ MemoryOK(os') /\ Calm(os', os) /\ Ended(os', t) /\ ~Ended(os, t)
         /\ os'.state[t] # "NONE" => os'.listed = os.listed
         /\ os'.state[t] = "NONE" => os'.listed = os.listed \ {t}
         /\ \A u \in Threads \ {t} : os'.state[u] = os.state[u]
         /\ \A q \in Queues : os.queue[q] = << >> => os'.queue[q] = << >>
         /\ OnlyCalls(exec, CancelCalls(t), PlainCalls)
         /\ stack' \in [Threads -> Seq(Frames)] /\ exec' = exec
         /\ stack'[exec] = CancelCalls(t) \o stack[exec] /\ stack'[t] = << >>
         /\ \A u \in Threads \ {exec, t} : stack'[u] = stack[u]
<1> DEFINE cs == CancelCalls(t)
           k  == IF os.state[t] = "READY" /\ os.susp[t] >= 1
                 THEN os ELSE RemoveThreadFromQueue(os, t)
<1>1. /\ AtGuest /\ "cancel" \in Calls
      /\ os.running = exec /\ exec \in Managers /\ t \notin Managers
      /\ ~ThreadStateIsTerminated(os.state[t])
      /\ os' = Terminate(k, t) /\ exec' = exec
      /\ stack' = [stack EXCEPT ![exec] = cs \o @, ![t] = << >>]
  BY DEF OSCancelThread, May, CancelCalls
<1>2. IInv /\ exec \in Threads /\ os.running # NULL /\ stack \in [Threads -> Seq(Frames)]
  BY <1>1, TheFiber DEF LifeInv
<1>3. exec = Main /\ t # exec /\ Mortal
  BY <1>1, <1>2, TheFiber DEF LifeInstance, Mortal, SyncCalls
<1>4. Live(os, exec, stack[exec]) /\ os.state[exec] = "RUNNING"
  BY <1>1, <1>2, RunningIsLive, GuestRuns
<1>5. HasNo(stack[exec], {"wake"})
  BY <1>1, <1>2, NoWakeAtGuest
<1>6. /\ Loose(k, t) /\ Unmoved(k, os) /\ k.listed = os.listed
      /\ \A q \in Queues : os.queue[q] = << >> => k.queue[q] = << >>
  <2>1. MemoryOK(os) /\ os \in OsMemory
    BY <1>2, TheFiber
  <2>2. CASE os.state[t] = "READY" /\ os.susp[t] >= 1
    BY <2>1, <2>2, StartsToMove DEF Linked, Unmoved
  <2>3. CASE ~(os.state[t] = "READY" /\ os.susp[t] >= 1)
    <3>1. k = RemoveThreadFromQueue(os, t)
      BY <2>3
    <3> HIDE DEF k
    <3>2. Loose(k, t) /\ Unmoved(k, os)
      BY <2>1, <3>1, StartsToMove, RemoveLoosens
    <3>3. k.listed = os.listed
      BY <2>1, <3>1 DEF RemoveThreadFromQueue, OsMemory
    <3>4. ASSUME NEW q \in Queues, os.queue[q] = << >> PROVE k.queue[q] = << >>
      <4>1. UnlinkGuestListNode(<< >>, t) = << >>
        BY DEF UnlinkGuestListNode
      <4>2. CASE os.qptr[t] = NULL
        BY <3>1, <3>4, <4>2 DEF RemoveThreadFromQueue
      <4>3. CASE os.qptr[t] # NULL
        <5> DEFINE p == os.qptr[t]
                   rest == UnlinkGuestListNode(os.queue[p], t)
        <5>1. k.queue = [os.queue EXCEPT ![p] = rest] /\ os.queue \in [Queues -> Seq(Threads)]
          BY <2>1, <3>1, <4>3, RemoveFields DEF OsMemory
        <5>2. q = p => rest = << >>
          BY <3>4, <4>1
        <5> HIDE DEF p, rest
        <5> QED
          BY <3>4, <5>1, <5>2
      <4> QED
        BY <4>2, <4>3
    <3> QED
      BY <3>2, <3>3, <3>4
  <2> QED
    BY <2>2, <2>3
<1> HIDE DEF k
<1>7. /\ MemoryOK(os') /\ Ended(os', t)
      /\ os'.state[t] # "NONE" => os'.listed = k.listed
      /\ os'.state[t] = "NONE" => os'.listed = k.listed \ {t}
      /\ \A u \in Threads \ {t} : os'.state[u] = k.state[u]
      /\ os'.queue = k.queue /\ os'.resched = k.resched
      /\ os'.disable = k.disable /\ os'.running = k.running /\ os'.current = k.current
  BY <1>1, <1>3, <1>6, TerminateOK
<1>8. os.state[t] # "RUNNING"
  BY <1>1, <1>2, <1>3, TheFiber DEF ExecOK
<1>9. Calm(os', os)
  BY <1>6, <1>7, <1>8 DEF Calm, Asked, Unmoved, Ended, ThreadStateIsTerminated
<1>10. OnlyCalls(exec, cs, PlainCalls) /\ cs \in Seq(Frames)
  <2> DEFINE f == Frame("unlockall", t, 0)
             g == WakeCall(t)
             h == ReschedCall
  <2>1. /\ FrameOK(exec, f) /\ f.fn = "unlockall" /\ FrameOK(exec, g) /\ g.fn = "wake"
        /\ FrameOK(exec, h) /\ h.fn = "resched"
    BY <1>3, EndCalls, KernelCalls
  <2>2. cs = << f, g, h >>
    BY DEF CancelCalls
  <2> HIDE DEF f, g, h, cs
  <2>3. OnlyCalls(exec, cs, PlainCalls)
    BY <2>1, <2>2, ThreeCalls DEF PlainCalls, FrameFns
  <2> QED
    BY <2>3 DEF OnlyCalls, StackOK
<1> HIDE DEF cs
<1>11. /\ stack' \in [Threads -> Seq(Frames)]
       /\ stack'[exec] = cs \o stack[exec] /\ stack'[t] = << >>
       /\ \A u \in Threads \ {exec, t} : stack'[u] = stack[u]
  <2> DEFINE c == cs \o stack[exec]
  <2>1. c \in Seq(Frames)
    BY <1>2, <1>10, ConcatProperties
  <2>2. stack' = [stack EXCEPT ![exec] = c, ![t] = << >>]
    BY <1>1
  <2> HIDE DEF c
  <2>3. /\ stack' \in [Threads -> Seq(Frames)] /\ stack'[exec] = c /\ stack'[t] = << >>
        /\ \A u \in Threads \ {exec, t} : stack'[u] = stack[u]
    BY <1>2, <1>3, <2>1, <2>2
  <2> QED
    BY <2>3 DEF c
<1> QED
  BY <1>1, <1>3, <1>4, <1>5, <1>6, <1>7, <1>9, <1>10, <1>11
     DEF Unmoved, Ended, cs

LEMMA CancelThreadStep ==
  ASSUME LifeInv, NEW t \in Threads, OSCancelThread(t)
  PROVE  IInv'
<1> DEFINE s  == stack[exec]
           cs == CancelCalls(t)
           u  == cs \o s
<1>1. /\ IInv /\ Live(os, exec, s) /\ os.state[exec] = "RUNNING"
      /\ MemoryOK(os') /\ Calm(os', os) /\ OnlyCalls(exec, cs, PlainCalls)
      /\ stack' \in [Threads -> Seq(Frames)] /\ stack'[exec] = u /\ exec' = exec
      /\ \A v \in Threads \ {exec} : stack'[v] = stack[v] \/ stack'[v] = << >>
  BY CancelBegins DEF LifeInv
<1>2. StackOK(exec, s) /\ ExecOK(os, exec, s) /\ HasNo(s, {"idle"}) /\ exec \in Threads
  BY <1>1, TheFiber DEF Live
<1>3. ~Idling(os, s)
  BY <1>1, TheFiber DEF Live, Idling
<1> HIDE DEF s, cs
<1>4. StackOK(exec, u) /\ Depth(u) = Depth(s) /\ HasNo(u, {"idle"})
  BY <1>1, <1>2, Pushed
<1> HIDE DEF u
<1>5. ExecOK(os', exec, u)
  BY <1>1, <1>2, <1>3, <1>4, CalmExec
<1> QED
  BY <1>1, <1>4, <1>5, FiberForks

LEMMA JoinThreadStep ==
  ASSUME IInv, NEW t \in Threads, OSJoinThread(t)
  PROVE  IInv'
<1> DEFINE f  == Frame("sleepcall", t, 0)
           g  == Frame("join", t, 0)
           cs == IF t \notin os.detached /\ os.state[t] # "MORIBUND" /\ os.queue[t] = << >>
                 THEN << f, g >> ELSE << g >>
<1>1. AtGuest /\ "join" \in Calls /\ os.running = exec /\ Push(cs) /\ UNCHANGED os
  BY DEF OSJoinThread, May
<1>2. Mortal
  BY <1>1 DEF Mortal, SyncCalls
<1>3. ~Idling(os, stack[exec]) /\ (Live(os, exec, stack[exec]) => os.state[exec] = "RUNNING")
  BY <1>1, TheFiber, RunningIsLive, GuestRuns
<1>4. FrameOK(exec, f) /\ f.fn = "sleepcall" /\ FrameOK(exec, g) /\ g.fn = "join"
  BY <1>2, EndCalls
<1> HIDE DEF f, g
<1>5. OnlyCalls(exec, cs, PlainCalls)
  BY <1>4, OneCall, TwoCalls DEF PlainCalls, FrameFns
<1> HIDE DEF cs
<1> QED
  BY <1>1, <1>3, <1>5, Unchanged, Pushes

(* Only the set of detached threads changes.                               *)
LEMMA DetachedOK ==
  ASSUME NEW k, MemoryOK(k), NEW x \in Threads, NEW j, j = [k EXCEPT !.detached = @ \cup {x}]
  PROVE  /\ MemoryOK(j) /\ Calm(j, k)
         /\ j.state = k.state /\ j.listed = k.listed /\ j.queue = k.queue /\ j.held = k.held
<1> DEFINE d == k.detached \cup {x}
<1>1. k \in OsMemory /\ \A m \in Mutexes : k.owner[m] = NULL <=> k.count[m] = 0
  BY DEF MemoryOK, ListsOK
<1>2. d \in SUBSET Threads /\ j = [k EXCEPT !.detached = d]
  BY <1>1 DEF OsMemory
<1> HIDE DEF d
<1>3. j \in OsMemory
  BY <1>1, <1>2 DEF OsMemory
<1>4. /\ j.queue = k.queue /\ j.pending = k.pending /\ j.qptr = k.qptr
      /\ j.state = k.state /\ j.susp = k.susp /\ j.prio = k.prio
      /\ j.owner = k.owner /\ j.count = k.count /\ j.resched = k.resched
      /\ j.listed = k.listed /\ j.held = k.held
      /\ j.disable = k.disable /\ j.running = k.running /\ j.current = k.current
  BY <1>1, <1>2 DEF OsMemory
<1>5. \A m \in Mutexes : j.owner[m] = NULL <=> j.count[m] = 0
  BY <1>1, <1>4
<1>6. MemoryOK(j)
  BY <1>3, <1>4, <1>5, QuietChanges
<1> QED
  BY <1>4, <1>6 DEF Calm, Asked

(* OSDetachThread may reap a dead thread.                                  *)
LEMMA DetachChanges ==
  ASSUME IInv, NEW t \in Threads, OSDetachThread(t)
  PROVE  /\ AtGuest /\ Push(<< WakeCall(t) >>)
         /\ MemoryOK(os') /\ Calm(os', os) /\ os'.queue = os.queue /\ os'.held = os.held
         /\ \/ os'.state = os.state /\ os'.listed = os.listed
            \/ /\ os.state[t] = "MORIBUND"
               /\ os'.state = [os.state EXCEPT ![t] = "NONE"] /\ os'.listed = os.listed \ {t}
<1> DEFINE d == [os EXCEPT !.detached = @ \cup {t}]
<1>1. /\ AtGuest /\ Push(<< WakeCall(t) >>)
      /\ os' = IF os.state[t] = "MORIBUND" THEN Reap(d, t) ELSE d
  BY DEF OSDetachThread, May
<1>2. /\ MemoryOK(d) /\ Calm(d, os)
      /\ d.state = os.state /\ d.listed = os.listed /\ d.queue = os.queue /\ d.held = os.held
  BY TheFiber, DetachedOK
<1> HIDE DEF d
<1>3. CASE os.state[t] = "MORIBUND"
  <2>1. /\ MemoryOK(os') /\ Calm(os', d)
        /\ os'.state = [d.state EXCEPT ![t] = "NONE"] /\ os'.listed = d.listed \ {t}
        /\ os'.queue = d.queue /\ os'.held = d.held
    BY <1>1, <1>2, <1>3, ReapOK
  <2> QED
    BY <1>1, <1>2, <1>3, <2>1, CalmTransitive
<1>4. CASE os.state[t] # "MORIBUND"
  BY <1>1, <1>2, <1>4
<1> QED
  BY <1>3, <1>4

LEMMA DetachThreadStep ==
  ASSUME IInv, NEW t \in Threads, OSDetachThread(t)
  PROVE  IInv'
<1> DEFINE f == WakeCall(t)
<1>1. AtGuest /\ Push(<< f >>) /\ MemoryOK(os') /\ Calm(os', os)
  BY DetachChanges
<1>2. FrameOK(exec, f) /\ f.fn = "wake"
  <2>1. t \in Waitables
    BY DEF Waitables
  <2> QED
    BY <2>1, TheFiber, QueueCalls
<1> HIDE DEF f
<1>3. OnlyCalls(exec, << f >>, PlainCalls) /\ OnlyCalls(exec, << f >>, IdleCalls)
  BY <1>2, OneCall DEF PlainCalls, FrameFns, IdleCalls
<1>4. Live(os, exec, stack[exec]) => os.state[exec] = "RUNNING"
  BY <1>1, GuestRuns
<1> QED
  BY <1>1, <1>3, <1>4, Pushes

(* Every step keeps the first part of the invariant.                       *)
LEMMA FirstPart == LifeInv /\ [Next]_vars => IInv'
<1> SUFFICES ASSUME LifeInv, [Next]_vars PROVE IInv'
  OBVIOUS
<1>0. IInv
  BY DEF LifeInv
<1>1. CASE UNCHANGED vars
  BY <1>0, <1>1, StutteringStep
<1>2. CASE KernelStep
  BY <1>0, <1>2, ProcessSleepTimersStep, SelectReturnsStep, SelectSwitchesStep, SelectIdlesStep,
     IdleEventStep, IdleEndsStep, WakeupThreadQueueStep, SleepBeginsStep, SleepReturnsStep,
     LockTurnStep, PromoteTurnStep, PropagateTurnStep, UnlockAllTurnStep, ReschedTailStep,
     ExitTailStep, TicksTailStep, JoinTailStep, Zenon DEF KernelStep
<1>3. CASE GuestStep
  BY <1>0, <1>3, OneCallSteps, UnlockMutexStep, SuspendThreadStep, ResumeThreadStep,
     SleepTicksStep, BeginCallbacksStep, EndCallbacksStep, CreateThreadStep, ExitThreadStep,
     CancelThreadStep, JoinThreadStep, DetachThreadStep, Zenon DEF GuestStep
<1> QED
  BY <1>1, <1>2, <1>3 DEF Next

-----------------------------------------------------------------------------
(* How a step changes the second part of the invariant.                    *)

(* No thread begins or ends, and no thread joins one that has ended.       *)
SameLives(j, k) ==
  \A t \in Threads :
    /\ (t \in k.listed <=> k.state[t] # "NONE") => (t \in j.listed <=> j.state[t] # "NONE")
    /\ Ended(j, t) <=> Ended(k, t)
    /\ Ended(k, t) /\ k.queue[t] = << >> => j.queue[t] = << >>

LEMMA SameLivesTransitive ==
  ASSUME NEW i, NEW j, NEW k, SameLives(i, j), SameLives(j, k)
  PROVE  SameLives(i, k)
BY DEF SameLives

(* The calls that neither wake, nor begin a sleep or a callback batch.     *)
QuietCalls == FrameFns \ {"wake", "callback", "sleepcall"}

(* The places of the calls cs and of those below.                          *)
LEMMA Places ==
  ASSUME NEW cs \in Seq(Frames), NEW r \in Seq(Frames), NEW u, u = cs \o r
  PROVE  /\ u \in Seq(Frames)
         /\ \A i \in DOMAIN u :
              \/ i \in DOMAIN cs /\ u[i] = cs[i]
              \/ i > Len(cs) /\ i - Len(cs) \in DOMAIN r /\ u[i] = r[i - Len(cs)]
         /\ \A i \in DOMAIN cs : i \in DOMAIN u /\ u[i] = cs[i]
         /\ \A i \in DOMAIN r : i + Len(cs) \in DOMAIN u /\ u[i + Len(cs)] = r[i]
         /\ Len(cs) \in Nat /\ DOMAIN cs = 1 .. Len(cs)
         /\ Len(r) \in Nat /\ DOMAIN r = 1 .. Len(r)
<1>1. /\ u \in Seq(Frames)
      /\ Len(cs) \in Nat /\ Len(r) \in Nat
      /\ DOMAIN cs = 1 .. Len(cs) /\ DOMAIN r = 1 .. Len(r)
      /\ DOMAIN u = 1 .. Len(cs) + Len(r)
      /\ \A i \in 1 .. Len(cs) : u[i] = cs[i]
      /\ \A i \in 1 .. Len(r) : u[i + Len(cs)] = r[i]
      /\ \A i \in 1 .. Len(cs) + Len(r) : i > Len(cs) => i - Len(cs) \in 1 .. Len(r)
  BY Positions
<1>2. ASSUME NEW i \in DOMAIN u, i > Len(cs)
      PROVE  i - Len(cs) \in DOMAIN r /\ u[i] = r[i - Len(cs)]
  <2>1. i - Len(cs) \in 1 .. Len(r) /\ (i - Len(cs)) + Len(cs) = i
    BY <1>1, <1>2
  <2> QED
    BY <1>1, <2>1
<1> QED
  BY <1>1, <1>2

(* The fiber goes on with calls cs above the calls r it was inside.        *)
LEMMA LifeGoesOn ==
  ASSUME LifeInv, SameLives(os', os), os'.running # NULL => os.running # NULL,
         NEW cs \in Seq(Frames), NEW r \in Seq(Frames),
         stack' = [stack EXCEPT ![exec] = cs \o r], exec' = exec,
         \A i \in DOMAIN r : r[i].fn = "sleepcall" => r[i].obj \notin Threads,
         \A i \in DOMAIN cs : cs[i].fn = "sleepcall" /\ cs[i].obj \in Threads =>
           i = 1 /\ ~Ended(os', cs[i].obj),
         exec # Main =>
           \/ HasNo(r, {"wake"}) /\ \A i \in DOMAIN cs : cs[i].fn = "wake" => i = 1
           \/ cs = << >> /\ \A i \in DOMAIN r : r[i].fn = "wake" => i = 1,
         os.running # NULL => NoBatchInWake(r),
         \/ HasNo(cs, {"callback"})
         \/ os.running # NULL => HasNo(cs, {"wake"}) /\ HasNo(r, {"wake"}),
         \A t \in Threads : WillWake(stack[exec], t) /\ os'.queue[t] # << >> =>
           WillWake(cs, t) \/ WillWake(r, t)
  PROVE  LifeOK'
<1> DEFINE u == cs \o r
<1>1. exec \in Threads /\ stack \in [Threads -> Seq(Frames)] /\ Main \in Threads
  BY TheFiber, OsConstants DEF LifeInv
<1>2. stack' = [stack EXCEPT ![exec] = u]
  OBVIOUS
<1> HIDE DEF u
<1>3. /\ u \in Seq(Frames)
      /\ \A i \in DOMAIN u :
           \/ i \in DOMAIN cs /\ u[i] = cs[i]
           \/ i > Len(cs) /\ i - Len(cs) \in DOMAIN r /\ u[i] = r[i - Len(cs)]
      /\ \A i \in DOMAIN cs : i \in DOMAIN u /\ u[i] = cs[i]
      /\ \A i \in DOMAIN r : i + Len(cs) \in DOMAIN u /\ u[i + Len(cs)] = r[i]
      /\ Len(cs) \in Nat /\ DOMAIN cs = 1 .. Len(cs)
      /\ Len(r) \in Nat /\ DOMAIN r = 1 .. Len(r)
  BY Places DEF u
<1>4. stack'[exec] = u /\ \A t \in Threads \ {exec} : stack'[t] = stack[t]
  BY <1>1, <1>2
<1>5. \A t : WillWake(cs, t) \/ WillWake(r, t) => WillWake(u, t)
  BY <1>3 DEF WillWake
<1>6. ThreadListOK'
  BY DEF LifeInv, LifeOK, ThreadListOK, SameLives
<1>7. ~Ended(os', Main)
  BY <1>1 DEF LifeInv, LifeOK, SameLives
<1>8. ASSUME NEW t \in Threads, Ended(os', t), os'.queue[t] # << >>
      PROVE  WillWake(stack'[Main], t) \/ WillWake(stack'[exec], t)
  <2>1. Ended(os, t) /\ os.queue[t] # << >>
    BY <1>8 DEF SameLives
  <2>2. WillWake(stack[Main], t) \/ WillWake(stack[exec], t)
    BY <2>1 DEF LifeInv, LifeOK
  <2>3. CASE WillWake(stack[exec], t)
    BY <1>4, <1>5, <1>8, <2>3
  <2>4. CASE WillWake(stack[Main], t) /\ Main # exec
    BY <1>1, <1>4, <2>4
  <2> QED
    BY <2>2, <2>3, <2>4
<1>9. \A t \in Threads \ {exec, Main} : HasNo(stack'[t], {"wake"})
  BY <1>4 DEF LifeInv, LifeOK
<1>10. \A t \in Threads \ {exec} : \A i \in DOMAIN stack'[t] :
         stack'[t][i].fn = "sleepcall" => stack'[t][i].obj \notin Threads
  BY <1>4 DEF LifeInv, LifeOK
<1>11. WakesOnTop(os', exec, u)
  <2> SUFFICES ASSUME exec # Main PROVE \A i \in DOMAIN u : u[i].fn = "wake" => i = 1
    BY DEF WakesOnTop
  <2>1. CASE HasNo(r, {"wake"}) /\ \A i \in DOMAIN cs : cs[i].fn = "wake" => i = 1
    BY <1>3, <2>1 DEF HasNo
  <2>2. CASE cs = << >> /\ \A i \in DOMAIN r : r[i].fn = "wake" => i = 1
    <3>1. u = r
      BY <2>2, ConcatEmptySeq DEF u
    <3> QED
      BY <2>2, <3>1
  <2> QED
    BY <2>1, <2>2
<1>12. os'.running # NULL => NoBatchInWake(u)
  <2> SUFFICES ASSUME os'.running # NULL, NEW i \in DOMAIN u, NEW j \in DOMAIN u, i < j,
                      u[i].fn = "callback"
               PROVE  u[j].fn # "wake"
    BY DEF NoBatchInWake
  <2>1. CASE HasNo(cs, {"callback"})
    <3>1. i > Len(cs) /\ i - Len(cs) \in DOMAIN r /\ u[i] = r[i - Len(cs)]
      BY <1>3, <2>1 DEF HasNo
    <3>2. i \in Int /\ j \in Int /\ j > Len(cs)
      BY <1>3, <3>1, LenProperties
    <3>3. j - Len(cs) \in DOMAIN r /\ u[j] = r[j - Len(cs)]
      BY <1>3, <3>2
    <3>4. i - Len(cs) < j - Len(cs)
      BY <1>3, <3>2
    <3> QED
      BY <3>1, <3>3, <3>4 DEF NoBatchInWake
  <2>2. CASE HasNo(cs, {"wake"}) /\ HasNo(r, {"wake"})
    BY <1>3, <2>2 DEF HasNo
  <2> QED
    BY <2>1, <2>2
<1>13. JoinsTheLiving(os', u)
  BY <1>3 DEF JoinsTheLiving
<1> QED
  BY <1>4, <1>6, <1>7, <1>8, <1>9, <1>10, <1>11, <1>12, <1>13 DEF LifeOK

(* What the second part of the invariant says of the calls below the       *)
(* innermost one.                                                          *)
LEMMA Below ==
  ASSUME LifeInv, stack[exec] # << >>, NEW r, r = Tail(stack[exec])
  PROVE  /\ r \in Seq(Frames)
         /\ \A i \in DOMAIN r : r[i].fn = "sleepcall" => r[i].obj \notin Threads
         /\ exec # Main =>
              \/ HasNo(r, {"wake"})
              \/ /\ \A i \in DOMAIN r : r[i].fn = "wake" => i = 1
                 /\ Top.fn = "unlockall" /\ Top.obj = exec /\ os.held[exec] = << >>
         /\ os.running # NULL => NoBatchInWake(r)
         /\ \A t : WillWake(stack[exec], t) => (Top.fn = "wake" /\ Top.obj = t) \/ WillWake(r, t)
         /\ \A t : WillWake(r, t) => WillWake(stack[exec], t)
<1> DEFINE s == stack[exec]
<1>1. /\ s \in Seq(Frames) /\ exec \in Threads /\ s # << >>
      /\ JoinsTheLiving(os, s) /\ (os.running # NULL => NoBatchInWake(s)) /\ WakesOnTop(os, exec, s)
  BY TheFiber DEF LifeInv, LifeOK, StackOK
<1>2. s = ExitCalls(exec) => /\ s[2].fn = "wake" /\ s[3].fn = "exit" /\ Len(s) = 3
                             /\ Head(s).fn = "unlockall" /\ Head(s).obj = exec
  <2> SUFFICES ASSUME s = ExitCalls(exec)
               PROVE  /\ s[2].fn = "wake" /\ s[3].fn = "exit" /\ Len(s) = 3
                      /\ Head(s).fn = "unlockall" /\ Head(s).obj = exec
    OBVIOUS
  <2>1. Mortal
    <3>1. s[1].fn = "unlockall"
      BY DEF ExitCalls, Frame
    <3>2. s[1] = Top
      BY <1>1 DEF Top
    <3> QED
      BY <3>1, <3>2, TopOK DEF LifeInv, FrameOK
  <2>2. /\ s[2].fn = "wake" /\ s[3].fn = "exit" /\ Len(s) = 3
        /\ Head(s) = Frame("unlockall", exec, 0)
    BY <1>1, <2>1, ExitStack
  <2> QED
    BY <2>2 DEF Frame
<1>3. Top = Head(s) /\ Top = s[1]
  BY <1>1 DEF Top
<1> HIDE DEF s
<1>4. /\ r \in Seq(Frames) /\ Len(s) \in Nat /\ Len(s) > 0
      /\ DOMAIN s = 1 .. Len(s) /\ DOMAIN r = 1 .. Len(s) - 1
      /\ \A i \in DOMAIN r : r[i] = s[i + 1]
  BY <1>1 DEF s
<1>5. /\ \A i \in DOMAIN r : i + 1 \in DOMAIN s /\ i + 1 > 1 /\ r[i] = s[i + 1]
      /\ \A i \in DOMAIN s : i = 1 \/ (i - 1 \in DOMAIN r /\ r[i - 1] = s[i])
  <2>1. ASSUME NEW i \in DOMAIN s, i # 1 PROVE i - 1 \in DOMAIN r /\ r[i - 1] = s[i]
    <3>1. i - 1 \in DOMAIN r /\ (i - 1) + 1 = i
      BY <1>4, <2>1
    <3> QED
      BY <1>4, <3>1
  <2> QED
    BY <1>4, <2>1
<1>6. \A i \in DOMAIN r : r[i].fn = "sleepcall" => r[i].obj \notin Threads
  BY <1>1, <1>5 DEF JoinsTheLiving
<1>7. ASSUME exec # Main
      PROVE  \/ HasNo(r, {"wake"})
             \/ /\ \A i \in DOMAIN r : r[i].fn = "wake" => i = 1
                /\ Top.fn = "unlockall" /\ Top.obj = exec /\ os.held[exec] = << >>
  <2>1. CASE \A i \in DOMAIN s : s[i].fn = "wake" => i = 1
    BY <1>5, <2>1 DEF HasNo
  <2>2. CASE s = ExitCalls(exec) /\ os.held[exec] = << >>
    <3>1. \A i \in DOMAIN r : i = 1 \/ i = 2
      BY <1>2, <1>4, <2>2
    <3>2. \A i \in DOMAIN r : r[i].fn = "wake" => i = 1
      BY <1>2, <1>4, <2>2, <3>1
    <3> QED
      BY <1>2, <1>3, <2>2, <3>2
  <2> QED
    BY <1>1, <1>7, <2>1, <2>2 DEF WakesOnTop
<1>8. os.running # NULL => NoBatchInWake(r)
  <2> SUFFICES ASSUME NoBatchInWake(s), NEW i \in DOMAIN r, NEW j \in DOMAIN r, i < j,
                      r[i].fn = "callback"
               PROVE  r[j].fn # "wake"
    BY <1>1 DEF NoBatchInWake
  <2>1. i + 1 < j + 1
    BY <1>4
  <2> QED
    BY <1>5, <2>1 DEF NoBatchInWake
<1>9. \A t : WillWake(s, t) => (Top.fn = "wake" /\ Top.obj = t) \/ WillWake(r, t)
  <2> SUFFICES ASSUME NEW t, NEW i \in DOMAIN s, s[i].fn = "wake", s[i].obj = t
               PROVE  (Top.fn = "wake" /\ Top.obj = t) \/ WillWake(r, t)
    BY DEF WillWake
  <2>1. CASE i = 1
    BY <1>3, <2>1
  <2>2. CASE i # 1
    <3>1. i - 1 \in DOMAIN r /\ r[i - 1] = s[i]
      BY <1>5, <2>2
    <3> QED
      BY <3>1 DEF WillWake
  <2> QED
    BY <2>1, <2>2
<1>10. \A t : WillWake(r, t) => WillWake(s, t)
  BY <1>5 DEF WillWake
<1> QED
  BY <1>4, <1>6, <1>7, <1>8, <1>9, <1>10 DEF s

(* The innermost call is replaced, or returns.                             *)
LEMMA LifeContinues ==
  ASSUME LifeInv, SameLives(os', os), os'.running # NULL => os.running # NULL,
         stack[exec] # << >>, NEW cs \in Seq(Frames), Continue(cs), HasNo(cs, {"callback"}),
         \A i \in DOMAIN cs : cs[i].fn = "wake" => i = 1,
         \A i \in DOMAIN cs : cs[i].fn = "sleepcall" => cs[i].obj \notin Threads,
         Top.fn = "unlockall" /\ Top.obj = exec /\ os.held[exec] = << >> => cs = << >>,
         Top.fn = "wake" /\ Top.obj \in Threads /\ os'.queue[Top.obj] # << >> =>
           WillWake(cs, Top.obj)
  PROVE  LifeOK'
<1> DEFINE r == Tail(stack[exec])
<1>1. stack' = [stack EXCEPT ![exec] = cs \o r] /\ exec' = exec
  BY DEF Continue
<1>2. /\ r \in Seq(Frames)
      /\ \A i \in DOMAIN r : r[i].fn = "sleepcall" => r[i].obj \notin Threads
      /\ exec # Main =>
           \/ HasNo(r, {"wake"})
           \/ /\ \A i \in DOMAIN r : r[i].fn = "wake" => i = 1
              /\ Top.fn = "unlockall" /\ Top.obj = exec /\ os.held[exec] = << >>
      /\ os.running # NULL => NoBatchInWake(r)
      /\ \A t : WillWake(stack[exec], t) => (Top.fn = "wake" /\ Top.obj = t) \/ WillWake(r, t)
  BY Below
<1> HIDE DEF r
<1>3. \A t \in Threads : WillWake(stack[exec], t) /\ os'.queue[t] # << >> =>
        WillWake(cs, t) \/ WillWake(r, t)
  BY <1>2
<1>4. exec # Main =>
        \/ HasNo(r, {"wake"}) /\ \A i \in DOMAIN cs : cs[i].fn = "wake" => i = 1
        \/ cs = << >> /\ \A i \in DOMAIN r : r[i].fn = "wake" => i = 1
  BY <1>2
<1> QED
  BY <1>1, <1>2, <1>3, <1>4, LifeGoesOn

LEMMA QuietlyContinues ==
  ASSUME LifeInv, SameLives(os', os), os'.running # NULL => os.running # NULL,
         stack[exec] # << >>, Top.fn \notin {"wake", "unlockall"},
         NEW cs, OnlyCalls(exec, cs, QuietCalls), Continue(cs)
  PROVE  LifeOK'
<1>1. cs \in Seq(Frames)
  BY DEF OnlyCalls, StackOK
<1>2. \A i \in DOMAIN cs : cs[i].fn \notin {"wake", "callback", "sleepcall"}
  BY DEF OnlyCalls, QuietCalls
<1>3. HasNo(cs, {"callback"})
  BY <1>2 DEF HasNo
<1> QED
  BY <1>1, <1>2, <1>3, LifeContinues

(* Calls are made by guest code or the idle loop.                          *)
LEMMA LifePushes ==
  ASSUME LifeInv, SameLives(os', os), os'.running # NULL => os.running # NULL,
         AtGuest \/ Inside("idle"), NEW cs \in Seq(Frames), Push(cs),
         HasNo(cs, {"callback"}) \/ (os.running # NULL => AtGuest /\ HasNo(cs, {"wake"})),
         \A i \in DOMAIN cs : cs[i].fn = "wake" => i = 1,
         \A i \in DOMAIN cs : cs[i].fn = "sleepcall" /\ cs[i].obj \in Threads =>
           i = 1 /\ ~Ended(os', cs[i].obj)
  PROVE  LifeOK'
<1> DEFINE s == stack[exec]
<1>1. stack' = [stack EXCEPT ![exec] = cs \o s] /\ exec' = exec
  BY DEF Push
<1>2. /\ s \in Seq(Frames) /\ exec \in Threads
      /\ JoinsTheLiving(os, s) /\ (os.running # NULL => NoBatchInWake(s)) /\ WakesOnTop(os, exec, s)
  BY TheFiber DEF LifeInv, LifeOK, StackOK
<1>3. s # << >> => s[1].fn \in {"callback", "idle"}
  BY DEF AtGuest, Inside
<1>4. s # << >> => s # ExitCalls(exec)
  BY <1>3 DEF ExitCalls, Frame
<1>5. AtGuest /\ os.running # NULL => HasNo(s, {"wake"})
  BY NoWakeAtGuest
<1> HIDE DEF s
<1>6. \A i \in DOMAIN s : s # << >> /\ 1 \in DOMAIN s
  BY <1>2, LenProperties, EmptySeq
<1>7. \A i \in DOMAIN s : s[i].fn = "sleepcall" => s[i].obj \notin Threads
  BY <1>2, <1>3, <1>6 DEF JoinsTheLiving
<1>8. exec # Main => HasNo(s, {"wake"})
  BY <1>2, <1>3, <1>4, <1>6 DEF WakesOnTop, HasNo
<1>9. \A t \in Threads : WillWake(stack[exec], t) /\ os'.queue[t] # << >> =>
        WillWake(cs, t) \/ WillWake(s, t)
  BY DEF s
<1> QED
  BY <1>1, <1>2, <1>5, <1>7, <1>8, <1>9, LifeGoesOn

-----------------------------------------------------------------------------
(* The helpers of OsThread begin and end no thread.                        *)

LEMMA LivesOn ==
  ASSUME NEW k, NEW j, j.listed = k.listed,
         \A t \in Threads : j.state[t] = k.state[t] \/ (~Ended(j, t) /\ ~Ended(k, t)),
         \A t \in Threads : Ended(k, t) /\ k.queue[t] = << >> => j.queue[t] = << >>
  PROVE  SameLives(j, k)
BY DEF SameLives, Ended, ThreadStateIsTerminated

LEMMA JoinQueues ==
  /\ Threads \subseteq Queues /\ Threads \cap Prios = {}
  /\ Threads \cap WaitQueues = {} /\ Threads \cap Mutexes = {}
BY OsConstants, Pointers DEF Queues, Waitables

LEMMA RemoveLives ==
  ASSUME NEW k \in OsMemory, NEW x \in Threads, NEW j, j = RemoveThreadFromQueue(k, x)
  PROVE  /\ SameLives(j, k) /\ j.listed = k.listed
         /\ \A q \in Queues : k.queue[q] = << >> => j.queue[q] = << >>
<1>1. CASE k.qptr[x] = NULL
  <2>1. j = k
    BY <1>1 DEF RemoveThreadFromQueue
  <2> QED
    BY <2>1 DEF SameLives
<1>2. CASE k.qptr[x] # NULL
  <2> DEFINE q == k.qptr[x]
             rest == UnlinkGuestListNode(k.queue[q], x)
  <2>1. j.listed = k.listed
    BY DEF RemoveThreadFromQueue, OsMemory
  <2>2. j.state = k.state /\ j.queue = [k.queue EXCEPT ![q] = rest]
    <3>1. Unmoved(j, k) /\ j.queue = [k.queue EXCEPT ![q] = rest]
      BY <1>2, RemoveFields
    <3> QED
      BY <3>1 DEF Unmoved
  <2>3. k.queue[q] = << >> => rest = << >>
    BY DEF UnlinkGuestListNode
  <2> HIDE DEF q, rest
  <2>4. \A p \in Queues : k.queue[p] = << >> => j.queue[p] = << >>
    BY <2>2, <2>3 DEF OsMemory
  <2> QED
    BY <2>1, <2>2, <2>4, JoinQueues, LivesOn
<1> QED
  BY <1>1, <1>2

LEMMA InsertLives ==
  ASSUME NEW k \in OsMemory, NEW x \in Threads, NEW q \in Queues, NEW p,
         q \in Threads /\ Ended(k, q) => k.queue[q] # << >>,
         NEW j, j = InsertThreadIntoQueueByPriority(k, q, x, p)
  PROVE  SameLives(j, k)
<1> DEFINE s == k.queue[q]
           n == InsertAt(s, Min({i \in DOMAIN s : k.prio[s[i]] > p} \cup {Len(s) + 1}), x)
<1>1. j = [k EXCEPT !.qptr[x]  = q,
                    !.queue[q] = n,
                    !.pending  = IF q \in Prios THEN @ \cup {q} ELSE @]
  BY DEF InsertThreadIntoQueueByPriority
<1> HIDE DEF n
<1>2. j.listed = k.listed /\ j.state = k.state /\ j.queue = [k.queue EXCEPT ![q] = n]
  BY <1>1 DEF OsMemory
<1>3. \A t \in Threads : t # q => j.queue[t] = k.queue[t]
  BY <1>2, JoinQueues DEF OsMemory
<1> QED
  BY <1>2, <1>3, LivesOn

(* A thread that has not ended moves to a run queue.                       *)
LEMMA RequeueLives ==
  ASSUME NEW k \in OsMemory, NEW x \in Threads, ~Ended(k, x), NEW p \in Prios,
         NEW j, j = Requeue(k, x, p)
  PROVE  SameLives(j, k)
<1> DEFINE st == [k.state EXCEPT ![x] = "READY"]
           pr == [k.prio EXCEPT ![x] = p]
           i  == [k EXCEPT !.state[x] = "READY", !.prio[x] = p, !.resched = TRUE]
<1>1. st \in [Threads -> ThreadStates] /\ pr \in [Threads -> Prios \cup {SuspendedWaitPriority}]
  BY DEF OsMemory, ThreadStates
<1>2. i = [k EXCEPT !.state = st, !.prio = pr, !.resched = TRUE]
  BY DEF OsMemory
<1>3. st[x] = "READY" /\ \A t \in Threads \ {x} : st[t] = k.state[t]
  BY DEF OsMemory
<1>4. j = InsertThreadIntoQueueByPriority(i, p, x, p)
  BY DEF Requeue
<1> HIDE DEF i, st, pr
<1>5. i \in OsMemory /\ i.listed = k.listed /\ i.state = st /\ i.queue = k.queue
  BY <1>1, <1>2 DEF OsMemory
<1>6. p \in Queues /\ p \notin Threads
  BY JoinQueues DEF Queues
<1>7. SameLives(j, i)
  BY <1>4, <1>5, <1>6, InsertLives
<1>8. SameLives(i, k)
  <2>1. ~Ended(i, x)
    BY <1>3, <1>5 DEF Ended, ThreadStateIsTerminated
  <2> QED
    BY <1>3, <1>5, <2>1, LivesOn
<1> QED
  BY <1>7, <1>8, SameLivesTransitive

(* A thread moves within the queue it is in.                               *)
LEMMA RepositionLives ==
  ASSUME NEW k \in OsMemory, NEW x \in Threads, NEW p \in Prios \cup {SuspendedWaitPriority},
         k.qptr[x] # NULL => In(k, x, k.qptr[x]),
         NEW j, j = Reposition(k, x, p)
  PROVE  SameLives(j, k)
<1> DEFINE r == RemoveThreadFromQueue(k, x)
           i == [r EXCEPT !.prio[x] = p]
           q == k.qptr[x]
<1>1. SameLives(r, k) /\ r \in OsMemory
  <2>1. SameLives(r, k)
    BY RemoveLives
  <2>2. CASE q = NULL
    BY <2>1, <2>2 DEF RemoveThreadFromQueue
  <2>3. CASE q # NULL
    BY <2>1, <2>3, RemoveFields
  <2> QED
    BY <2>1, <2>2, <2>3
<1>2. j = IF q = NULL THEN i ELSE InsertThreadIntoQueueByPriority(i, q, x, p)
  BY DEF Reposition
<1> HIDE DEF r
<1>3. i \in OsMemory /\ i.listed = r.listed /\ i.state = r.state /\ i.queue = r.queue
  <2> DEFINE pr == [r.prio EXCEPT ![x] = p]
  <2>1. pr \in [Threads -> Prios \cup {SuspendedWaitPriority}] /\ i = [r EXCEPT !.prio = pr]
    BY <1>1 DEF OsMemory
  <2> HIDE DEF pr
  <2> QED
    BY <1>1, <2>1 DEF OsMemory
<1> HIDE DEF i
<1>4. SameLives(i, r)
  BY <1>3, LivesOn
<1>5. SameLives(i, k)
  BY <1>1, <1>4, SameLivesTransitive
<1>6. CASE q = NULL
  BY <1>2, <1>5, <1>6
<1>7. CASE q # NULL
  <2> DEFINE s == i.queue[q]
             n == InsertAt(s, Min({l \in DOMAIN s : i.prio[s[l]] > p} \cup {Len(s) + 1}), x)
  <2>1. q \in Queues /\ k.queue[q] # << >>
    BY <1>7 DEF OsMemory, In, ToSet
  <2>2. j = [i EXCEPT !.qptr[x]  = q,
                      !.queue[q] = n,
                      !.pending  = IF q \in Prios THEN @ \cup {q} ELSE @]
    BY <1>2, <1>7 DEF InsertThreadIntoQueueByPriority
  <2> HIDE DEF n
  <2>3. j.listed = i.listed /\ j.state = i.state /\ j.queue = [i.queue EXCEPT ![q] = n]
    BY <1>3, <2>2 DEF OsMemory
  <2>4. \A t \in Threads : t # q => j.queue[t] = i.queue[t]
    BY <1>3, <2>3, JoinQueues DEF OsMemory
  <2>5. SameLives(j, k)
    BY <1>5, <2>1, <2>3, <2>4 DEF SameLives, Ended
  <2> QED
    BY <2>5
<1> QED
  BY <1>6, <1>7

(* A thread in the memory of the invariant is in the queue it waits on.    *)
LEMMA InItsQueue ==
  ASSUME NEW k, MemoryOK(k), NEW x \in Threads, Linked(k, x)
  PROVE  k \in OsMemory /\ k.qptr[x] \in Queues /\ In(k, x, k.qptr[x])
BY DEF MemoryOK, ListsOK, ThreadOK

LEMMA SetPriorityLives ==
  ASSUME NEW k, MemoryOK(k), NEW x \in Threads, NEW p \in Prios,
         NEW j, j = SetThreadEffectivePriority(k, x, p)
  PROVE  SameLives(j, k)
<1>1. k \in OsMemory
  BY DEF MemoryOK, ListsOK
<1>2. CASE k.state[x] = "READY"
  <2> DEFINE r == RemoveThreadFromQueue(k, x)
  <2>1. j = Requeue(r, x, p) /\ SameLives(r, k)
    BY <1>1, <1>2, RemoveLives DEF SetThreadEffectivePriority
  <2>2. r \in OsMemory
    BY StartsToMove, RemoveLoosens DEF Loose, Moving, ListsOK
  <2> HIDE DEF r
  <2>3. ~Ended(r, x)
    BY <1>2, <2>1 DEF SameLives, Ended, ThreadStateIsTerminated
  <2> QED
    BY <2>1, <2>2, <2>3, RequeueLives, SameLivesTransitive
<1>3. CASE k.state[x] = "RUNNING"
  <2>1. j = [k EXCEPT !.prio[x] = p, !.resched = TRUE]
    BY <1>3 DEF SetThreadEffectivePriority
  <2>2. j.listed = k.listed /\ j.state = k.state /\ j.queue = k.queue
    BY <1>1, <2>1 DEF OsMemory
  <2> QED
    BY <2>2, LivesOn
<1>4. CASE k.state[x] = "WAITING"
  <2>1. j = Reposition(k, x, p) /\ In(k, x, k.qptr[x])
    BY <1>4, InItsQueue DEF SetThreadEffectivePriority, Linked
  <2> QED
    BY <1>1, <2>1, RepositionLives
<1>5. CASE k.state[x] \notin {"READY", "RUNNING", "WAITING"}
  <2>1. j = k
    BY <1>5 DEF SetThreadEffectivePriority
  <2> QED
    BY <2>1 DEF SameLives
<1> QED
  BY <1>2, <1>3, <1>4, <1>5

LEMMA SuspendLives ==
  ASSUME NEW k, MemoryOK(k), NEW x \in Threads, NEW j, j = Suspend(k, x)
  PROVE  SameLives(j, k)
<1> DEFINE s == [k EXCEPT !.susp[x] = @ + 1]
           n == [k.susp EXCEPT ![x] = k.susp[x] + 1]
<1>1. k \in OsMemory
  BY DEF MemoryOK, ListsOK
<1>2. n \in [Threads -> Nat] /\ s = [k EXCEPT !.susp = n]
  BY <1>1 DEF OsMemory
<1>3. j = IF k.susp[x] # 0 THEN s
          ELSE CASE k.state[x] = "READY"   -> RemoveThreadFromQueue(s, x)
                 [] k.state[x] = "RUNNING" -> [s EXCEPT !.state[x] = "READY", !.resched = TRUE]
                 [] k.state[x] = "WAITING" -> Reposition(s, x, SuspendedWaitPriority)
                 [] OTHER                  -> s
  BY DEF Suspend
<1> HIDE DEF s, n
<1>4. /\ s \in OsMemory /\ s.listed = k.listed /\ s.state = k.state /\ s.queue = k.queue
      /\ s.qptr = k.qptr
  BY <1>1, <1>2 DEF OsMemory
<1>5. SameLives(s, k)
  BY <1>4, LivesOn
<1>6. CASE j = s
  BY <1>5, <1>6
<1>7. CASE j = RemoveThreadFromQueue(s, x)
  BY <1>4, <1>5, <1>7, RemoveLives, SameLivesTransitive
<1>8. CASE k.state[x] = "RUNNING" /\ j = [s EXCEPT !.state[x] = "READY", !.resched = TRUE]
  <2>1. /\ j.listed = s.listed /\ j.queue = s.queue
        /\ j.state = [s.state EXCEPT ![x] = "READY"]
    BY <1>4, <1>8 DEF OsMemory
  <2>2. ~Ended(s, x) /\ ~Ended(j, x) /\ \A t \in Threads \ {x} : j.state[t] = s.state[t]
    BY <1>4, <1>8, <2>1 DEF OsMemory, Ended, ThreadStateIsTerminated
  <2>3. SameLives(j, s)
    BY <2>1, <2>2, LivesOn
  <2> QED
    BY <1>5, <2>3, SameLivesTransitive
<1>9. CASE k.state[x] = "WAITING" /\ j = Reposition(s, x, SuspendedWaitPriority)
  <2>1. In(s, x, s.qptr[x])
    BY <1>4, <1>9, InItsQueue DEF Linked, In
  <2>2. SameLives(j, s)
    BY <1>4, <1>9, <2>1, RepositionLives
  <2> QED
    BY <1>5, <2>2, SameLivesTransitive
<1> QED
  BY <1>3, <1>6, <1>7, <1>8, <1>9

LEMMA ResumeLives ==
  ASSUME NEW k, MemoryOK(k), NEW x \in Threads, NEW j, j = Resume(k, x)
  PROVE  SameLives(j, k)
<1> DEFINE r == [k EXCEPT !.susp[x] = @ - 1]
           c == [r EXCEPT !.timers = @ \ {x}, !.parks = @ \ {x}]
           p == ComputeThreadEffectivePriority(c, x)
           n == [k.susp EXCEPT ![x] = k.susp[x] - 1]
           ti == k.timers \ {x}
           pa == k.parks \ {x}
<1>1. k \in OsMemory
  BY DEF MemoryOK, ListsOK
<1>2. CASE k.susp[x] = 0
  <2>1. j = k
    BY <1>2 DEF Resume
  <2> QED
    BY <2>1 DEF SameLives
<1>3. CASE k.susp[x] # 0
  <2>1. n \in [Threads -> Nat] /\ ti \in SUBSET Threads /\ pa \in SUBSET Threads
    BY <1>1, <1>3 DEF OsMemory
  <2>2. r = [k EXCEPT !.susp = n] /\ c = [k EXCEPT !.susp = n, !.timers = ti, !.parks = pa]
    BY <1>1 DEF OsMemory
  <2>3. j = IF k.susp[x] > 1 THEN r
            ELSE CASE k.state[x] = "WAITING"              -> Reposition(c, x, p)
                   [] k.state[x] \in {"READY", "RUNNING"} -> Requeue(c, x, p)
                   [] OTHER                               -> c
    BY <1>3 DEF Resume
  <2> HIDE DEF r, c, n, ti, pa
  <2>4. /\ r.listed = k.listed /\ r.state = k.state /\ r.queue = k.queue
        /\ c \in OsMemory /\ c.listed = k.listed /\ c.state = k.state /\ c.queue = k.queue
        /\ c.qptr = k.qptr
    BY <1>1, <2>1, <2>2 DEF OsMemory
  <2>5. SameLives(r, k) /\ SameLives(c, k)
    BY <2>4, LivesOn
  <2>6. p \in Prios
    BY <2>4, EffectivePriority
  <2> HIDE DEF p
  <2>7. CASE j = r \/ j = c
    BY <2>5, <2>7
  <2>8. CASE k.state[x] = "WAITING" /\ j = Reposition(c, x, p)
    <3>1. In(c, x, c.qptr[x])
      BY <2>4, <2>8, InItsQueue DEF Linked, In
    <3>2. SameLives(j, c)
      BY <2>4, <2>6, <2>8, <3>1, RepositionLives
    <3> QED
      BY <2>5, <3>2, SameLivesTransitive
  <2>9. CASE k.state[x] \in {"READY", "RUNNING"} /\ j = Requeue(c, x, p)
    <3>1. ~Ended(c, x)
      BY <2>4, <2>9 DEF Ended, ThreadStateIsTerminated
    <3>2. SameLives(j, c)
      BY <2>4, <2>6, <2>9, <3>1, RequeueLives
    <3> QED
      BY <2>5, <3>2, SameLivesTransitive
  <2> QED
    BY <2>3, <2>7, <2>8, <2>9
<1> QED
  BY <1>2, <1>3

LEMMA WakeHeadLives ==
  ASSUME NEW k \in OsMemory, NEW q \in Queues, k.queue[q] # << >>, NEW j, j = WakeHead(k, q)
  PROVE  SameLives(j, k)
<1> DEFINE t == Head(k.queue[q])
           u == [k.queue EXCEPT ![q] = Tail(k.queue[q])]
           p == IF k.prio[t] > MaxPrio THEN MaxPrio ELSE k.prio[t]
           popped == [k EXCEPT !.queue[q] = Tail(@)]
           ready  == [popped EXCEPT !.state[t] = "READY"]
<1>1. t \in Threads
  BY DEF OsMemory
<1>2. popped = [k EXCEPT !.queue = u]
  BY DEF OsMemory
<1>3. j = IF ThreadStateIsTerminated(k.state[t]) THEN [popped EXCEPT !.qptr[t] = NULL]
          ELSE IF k.susp[t] < 1 THEN MarkRunQueuePending(LinkThreadOnRunQueue(ready, t, p), p)
          ELSE ready
  BY DEF WakeHead
<1>4. \A s \in Threads : k.queue[s] = << >> => u[s] = << >>
  BY JoinQueues DEF OsMemory
<1> HIDE DEF t, u, popped
<1>5. /\ popped.listed = k.listed /\ popped.state = k.state /\ popped.queue = u
  BY <1>2 DEF OsMemory
<1>6. CASE ThreadStateIsTerminated(k.state[t])
  <2>1. j.listed = k.listed /\ j.state = k.state /\ j.queue = u
    BY <1>2, <1>3, <1>6 DEF OsMemory
  <2> QED
    BY <1>4, <2>1, LivesOn
<1>7. CASE ~ThreadStateIsTerminated(k.state[t])
  <2>1. /\ ready.listed = k.listed /\ ready.queue = u
        /\ ready.state = [k.state EXCEPT ![t] = "READY"]
    BY <1>2 DEF OsMemory
  <2>2. p \in Prios
    <3>1. k.prio[t] \in Nat
      BY <1>1, Pointers DEF OsMemory
    <3> QED
      BY <3>1, OsConstants DEF Prios
  <2>3. /\ j.listed = k.listed /\ j.state = [k.state EXCEPT ![t] = "READY"]
        /\ j.queue = u \/ j.queue = [u EXCEPT ![p] = Append(u[p], t)]
    <3>1. CASE k.susp[t] < 1
      <4>1. j = [[ready EXCEPT !.queue[p] = Append(@, t), !.qptr[t] = p]
                   EXCEPT !.pending = @ \cup {p}, !.resched = TRUE]
        BY <1>3, <1>7, <3>1 DEF MarkRunQueuePending, LinkThreadOnRunQueue
      <4> HIDE DEF p
      <4> QED
        BY <1>2, <2>1, <4>1 DEF OsMemory
    <3>2. CASE ~(k.susp[t] < 1)
      BY <1>3, <1>7, <2>1, <3>2
    <3> QED
      BY <3>1, <3>2
  <2> HIDE DEF p, ready
  <2>4. \A s \in Threads : j.queue[s] = u[s]
    <3>1. DOMAIN u = Queues
      BY DEF u, OsMemory
    <3> QED
      BY <2>2, <2>3, <3>1, JoinQueues
  <2>5. ~Ended(k, t) /\ ~Ended(j, t) /\ \A s \in Threads \ {t} : j.state[s] = k.state[s]
    BY <1>1, <1>7, <2>3 DEF OsMemory, Ended, ThreadStateIsTerminated
  <2> QED
    BY <1>4, <2>3, <2>4, <2>5, LivesOn
<1> QED
  BY <1>6, <1>7

LEMMA SameFieldsLive ==
  ASSUME NEW k, NEW j, j.listed = k.listed, j.state = k.state, j.queue = k.queue
  PROVE  SameLives(j, k)
BY DEF SameLives, Ended

LEMMA OtherFieldsLive ==
  ASSUME NEW k \in OsMemory, NEW t \in Threads
  PROVE  /\ \A v : SameLives([k EXCEPT !.waitsOn[t] = v], k)
         /\ \A n : SameLives([k EXCEPT !.disable = n], k)
         /\ SameLives([k EXCEPT !.timers = @ \ {t}, !.parks = @ \ {t}], k)
         /\ SameLives([k EXCEPT !.timers = @ \cup {t}, !.parks = @ \cup {t}], k)
         /\ SameLives([k EXCEPT !.running = NULL, !.current = Idle], k)
<1>1. ASSUME NEW v PROVE SameLives([k EXCEPT !.waitsOn[t] = v], k)
  BY SameFieldsLive DEF OsMemory
<1>2. ASSUME NEW n PROVE SameLives([k EXCEPT !.disable = n], k)
  BY SameFieldsLive DEF OsMemory
<1>3. SameLives([k EXCEPT !.timers = @ \ {t}, !.parks = @ \ {t}], k)
  BY SameFieldsLive DEF OsMemory
<1>4. SameLives([k EXCEPT !.timers = @ \cup {t}, !.parks = @ \cup {t}], k)
  BY SameFieldsLive DEF OsMemory
<1>5. SameLives([k EXCEPT !.running = NULL, !.current = Idle], k)
  BY SameFieldsLive DEF OsMemory
<1> QED
  BY <1>1, <1>2, <1>3, <1>4, <1>5

LEMMA AcquireLives ==
  ASSUME NEW k \in OsMemory, NEW x \in Threads, NEW m \in Mutexes, NEW j, j = Acquire(k, m, x)
  PROVE  SameLives(j, k)
<1>1. j.listed = k.listed /\ j.state = k.state /\ j.queue = k.queue
  BY DEF Acquire, OsMemory
<1> QED
  BY <1>1, SameFieldsLive

LEMMA ReleaseLives ==
  ASSUME NEW k \in OsMemory, NEW x \in Threads, NEW m \in Mutexes, NEW j, j = Release(k, m, x)
  PROVE  SameLives(j, k)
<1> DEFINE c == [k EXCEPT !.count[m] = @ - 1]
           r == [c EXCEPT !.owner[m] = NULL, !.held[x] = UnlinkGuestListNode(@, m)]
           p == ComputeThreadEffectivePriority(r, x)
<1>1. j = c \/ j = r \/ j = [r EXCEPT !.prio[x] = p]
  BY DEF Release
<1>2. c.listed = k.listed /\ c.state = k.state /\ c.queue = k.queue
  BY DEF OsMemory
<1>3. r.listed = k.listed /\ r.state = k.state /\ r.queue = k.queue
  BY DEF OsMemory
<1> HIDE DEF p
<1>4. LET i == [r EXCEPT !.prio[x] = p]
      IN  i.listed = k.listed /\ i.state = k.state /\ i.queue = k.queue
  BY DEF OsMemory
<1> HIDE DEF c, r
<1> QED
  BY <1>1, <1>2, <1>3, <1>4, SameFieldsLive

(* The running thread goes to its run queue.                               *)
LEMMA PreemptLives ==
  ASSUME IInv, os.running \in Threads, NEW k, k = Preempted
  PROVE  SameLives(k, os) /\ \A t \in Threads : Ended(k, t) <=> Ended(os, t)
<1> DEFINE x == os.running
           p == os.prio[x]
           qu == [os.queue EXCEPT ![p] = Append(os.queue[p], x)]
<1>1. os \in OsMemory
  BY TheFiber
<1>2. CASE os.state[x] # "RUNNING"
  <2>1. k = os
    BY <1>2 DEF Preempted
  <2> QED
    BY <2>1 DEF SameLives
<1>3. CASE os.state[x] = "RUNNING"
  <2>1. p \notin Threads /\ p \in Queues
    <3>1. os.susp[x] = 0 /\ p \in Prios \cup {SuspendedWaitPriority}
      BY <1>1, <1>3, TheFiber DEF OsMemory, MemoryOK, ThreadOK
    <3>2. p # SuspendedWaitPriority
      BY <1>3, <3>1, TheFiber DEF MemoryOK, ThreadOK, Ended, ThreadStateIsTerminated
    <3> QED
      BY <3>1, <3>2, JoinQueues DEF Queues
  <2>2. k = MarkRunQueuePending(LinkThreadOnRunQueue([os EXCEPT !.state[x] = "READY"], x, p), p)
    BY <1>3 DEF Preempted
  <2> HIDE DEF p
  <2>3. /\ k.listed = os.listed /\ k.queue = qu
        /\ k.state = [os.state EXCEPT ![x] = "READY"]
    BY <1>1, <2>2 DEF MarkRunQueuePending, LinkThreadOnRunQueue, OsMemory
  <2>4. \A t \in Threads : k.queue[t] = os.queue[t]
    BY <1>1, <2>1, <2>3, JoinQueues DEF OsMemory
  <2>5. ~Ended(os, x) /\ ~Ended(k, x) /\ \A t \in Threads \ {x} : k.state[t] = os.state[t]
    BY <1>1, <1>3, <2>3 DEF OsMemory, Ended, ThreadStateIsTerminated
  <2>6. SameLives(k, os)
    BY <2>3, <2>4, <2>5, LivesOn
  <2> QED
    BY <2>6 DEF SameLives
<1> QED
  BY <1>2, <1>3

(* A READY thread takes over.                                              *)
LEMMA StartLives ==
  ASSUME NEW k, MemoryOK(k), k.pending # {}, NEW j, j = Started(k),
         NEW x, x = Head(k.queue[Min(k.pending)])
  PROVE  SameLives(j, k) /\ ~Ended(k, x) /\ x \in Threads
<1> DEFINE p    == Min(k.pending)
           rest == Tail(k.queue[p])
           pe   == IF rest = << >> THEN k.pending \ {p} ELSE k.pending
<1>1. k \in OsMemory /\ x \in Threads
  BY DispatchOK DEF MemoryOK, ListsOK
<1>2. p \in Prios /\ k.queue[p] # << >> /\ p \in Queues /\ p \notin Threads
  <2>1. k.pending \subseteq Prios /\ Prios \subseteq Nat
    BY <1>1, Pointers DEF OsMemory
  <2>2. p \in k.pending
    BY <2>1, LeastElement
  <2> HIDE DEF p
  <2> QED
    BY <2>1, <2>2, JoinQueues DEF MemoryOK, ListsOK, Queues
<1>3. k.state[x] = "READY"
  <2>1. In(k, x, p)
    BY <1>1, <1>2, PoppedList DEF In, OsMemory
  <2> HIDE DEF p
  <2> QED
    BY <1>1, <1>2, <2>1 DEF MemoryOK, ThreadOK
<1>4. /\ j.listed = k.listed /\ j.state = [k.state EXCEPT ![x] = "RUNNING"]
      /\ j.queue = [k.queue EXCEPT ![p] = rest]
  <2>1. j = [k EXCEPT !.queue[p] = rest, !.pending = pe, !.qptr[x] = NULL,
                      !.state[x] = "RUNNING", !.running = x, !.current = x, !.resched = FALSE]
    BY <1>1 DEF Started, OsMemory
  <2> HIDE DEF p, rest, pe
  <2> QED
    BY <1>1, <2>1 DEF OsMemory
<1> HIDE DEF p, rest
<1>5. \A t \in Threads : j.queue[t] = k.queue[t]
  BY <1>1, <1>2, <1>4, JoinQueues DEF OsMemory
<1>6. ~Ended(k, x) /\ ~Ended(j, x) /\ \A t \in Threads \ {x} : j.state[t] = k.state[t]
  BY <1>1, <1>3, <1>4 DEF OsMemory, Ended, ThreadStateIsTerminated
<1> QED
  BY <1>1, <1>4, <1>5, <1>6, LivesOn

-----------------------------------------------------------------------------
(* The kernel's actions keep the second part of the invariant.             *)

LEMMA NothingLives == UNCHANGED os => SameLives(os', os)
BY DEF SameLives, Ended

LEMMA NoQuietCalls ==
  /\ {"select", "resched", "idle", "sleep", "lock", "promote", "propagate"} \subseteq QuietCalls
  /\ {"ticks", "unlockall", "exit", "join"} \subseteq QuietCalls
BY DEF QuietCalls, FrameFns

LEMMA SelectReturnsLives ==
  ASSUME LifeInv, SelectReturns
  PROVE  LifeOK'
<1>1. stack[exec] # << >> /\ Top.fn = "select" /\ Continue(<< >>) /\ UNCHANGED os
  BY InsideTop DEF SelectReturns
<1> QED
  BY <1>1, NothingLives, NoCalls, QuietlyContinues

LEMMA ReschedTailLives ==
  ASSUME LifeInv, ReschedTail
  PROVE  LifeOK'
<1> DEFINE f  == SelectCall(0)
           cs == IF os.resched THEN << f >> ELSE << >>
<1>1. stack[exec] # << >> /\ Top.fn = "resched" /\ Continue(cs) /\ UNCHANGED os
  BY InsideTop DEF ReschedTail
<1>2. FrameOK(exec, f) /\ f.fn \in QuietCalls
  BY TheFiber, SelectCalls, NoQuietCalls DEF LifeInv
<1> HIDE DEF f
<1>3. OnlyCalls(exec, cs, QuietCalls)
  BY <1>2, OneCall, NoCalls
<1> HIDE DEF cs
<1> QED
  BY <1>1, <1>3, NothingLives, QuietlyContinues

LEMMA ProcessSleepTimersLives ==
  ASSUME LifeInv, NEW t \in Threads, ProcessSleepTimers(t)
  PROVE  LifeOK'
<1> DEFINE k == [os EXCEPT !.timers = @ \ {t}, !.parks = @ \ {t}]
           f == [Top EXCEPT !.due = @ \ {t}]
           g == ReschedCall
<1>0. IInv
  BY DEF LifeInv
<1>1. MemoryOK(k) /\ Calm(k, os) /\ k.state = os.state /\ k.susp = os.susp /\ SameLives(k, os)
  BY <1>0, TheFiber, TimerDropped, OtherFieldsLive
<1>2. stack[exec] # << >> /\ Top.fn \in {"idle", "select"}
  BY InsideTop DEF ProcessSleepTimers
<1>3. FrameOK(exec, f) /\ f.fn \in QuietCalls /\ FrameOK(exec, g) /\ g.fn \in QuietCalls
  <2>1. Top \in Frames
    BY <1>0, <1>2, TopOK
  <2>2. f \in Frames /\ f.fn = Top.fn
    BY <2>1 DEF Frames
  <2> HIDE DEF f
  <2> QED
    BY <1>2, <2>2, KernelCalls, NoQuietCalls DEF FrameOK
<1>4. \E cs : OnlyCalls(exec, cs, QuietCalls) /\ Continue(cs) /\ SameLives(os', os) /\ Calm(os', os)
  <2>1. CASE os.state[t] = "READY" /\ os.susp[t] >= 1
    <3>1. os' = Resume(k, t) /\ Continue(Append(AfterResume(k, t), f))
      BY <2>1 DEF ProcessSleepTimers
    <3> HIDE DEF k, f
    <3>2. AfterResume(k, t) = << >> \/ AfterResume(k, t) = << g >>
      BY <1>1, <2>1 DEF AfterResume
    <3> HIDE DEF g
    <3>3. Append(AfterResume(k, t), f) = << f >> \/ Append(AfterResume(k, t), f) = << g, f >>
      BY <1>3, <3>2, AppendedCalls DEF FrameOK
    <3>4. SameLives(os', k) /\ Calm(os', k)
      BY <1>1, <2>1, <3>1, ResumeOK, ResumeLives
    <3>5. SameLives(os', os) /\ Calm(os', os)
      BY <1>1, <3>4, SameLivesTransitive, CalmTransitive
    <3> QED
      BY <1>3, <3>1, <3>3, <3>5, OneCall, TwoCalls
  <2>2. CASE ~(os.state[t] = "READY" /\ os.susp[t] >= 1)
    <3>1. os' = k /\ Continue(<< f >>)
      BY <2>2 DEF ProcessSleepTimers
    <3> HIDE DEF k, f
    <3> QED
      BY <1>1, <1>3, <3>1, OneCall
  <2> QED
    BY <2>1, <2>2
<1> QED
  BY <1>2, <1>4, QuietlyContinues DEF Calm

LEMMA SelectIdlesLives ==
  ASSUME LifeInv, SelectIdles
  PROVE  LifeOK'
<1> DEFINE f == Frame("idle", NULL, 0)
<1>0. IInv
  BY DEF LifeInv
<1>1. /\ stack[exec] # << >> /\ Top.fn = "select" /\ Continue(<< f >>)
      /\ os' = [os EXCEPT !.running = NULL, !.current = Idle]
  BY <1>0, GivesUp, InsideTop DEF SelectIdles
<1>2. FrameOK(exec, f) /\ f.fn \in QuietCalls
  BY KernelCalls, NoQuietCalls
<1> HIDE DEF f
<1>3. OnlyCalls(exec, << f >>, QuietCalls)
  BY <1>2, OneCall
<1>4. SameLives(os', os) /\ os'.running = NULL
  BY <1>0, <1>1, TheFiber, OtherFieldsLive DEF OsMemory
<1> QED
  BY <1>1, <1>3, <1>4, QuietlyContinues

(* A call that wakes is made by the idle loop.                             *)
LEMMA OneWake ==
  ASSUME NEW q \in Waitables, exec \in Threads, NEW cs, cs = << WakeCall(q) >>
  PROVE  /\ cs \in Seq(Frames) /\ HasNo(cs, {"callback"})
         /\ \A i \in DOMAIN cs : i = 1 /\ cs[i].fn = "wake"
         /\ WillWake(cs, q)
<1> DEFINE f == WakeCall(q)
<1>1. f \in Frames /\ f.fn = "wake" /\ f.obj = q
  <2>1. FrameOK(exec, f) /\ f.fn = "wake"
    BY QueueCalls
  <2>2. f.obj = q
    BY DEF WakeCall, Frame
  <2> QED
    BY <2>1, <2>2 DEF FrameOK
<1> HIDE DEF f
<1>2. cs \in Seq(Frames) /\ DOMAIN cs = {1} /\ cs[1] = f
  BY <1>1 DEF f
<1> QED
  BY <1>1, <1>2 DEF HasNo, WillWake

LEMMA IdleEventLives ==
  ASSUME LifeInv, NEW q \in HostQueues, IdleEvent(q)
  PROVE  LifeOK'
<1> DEFINE cs == << WakeCall(q) >>
<1>1. q \in Waitables /\ exec \in Threads
  BY SchedulerConstants, TheFiber DEF Waitables, LifeInv
<1>2. Inside("idle") /\ Push(cs) /\ UNCHANGED os
  BY DEF IdleEvent
<1>3. /\ cs \in Seq(Frames) /\ HasNo(cs, {"callback"})
      /\ \A i \in DOMAIN cs : i = 1 /\ cs[i].fn = "wake"
  BY <1>1, OneWake
<1> HIDE DEF cs
<1> QED
  BY <1>2, <1>3, NothingLives, LifePushes

LEMMA WakeupThreadQueueLives ==
  ASSUME LifeInv, WakeupThreadQueue
  PROVE  LifeOK'
<1> DEFINE q == Top.obj
<1>0. IInv
  BY DEF LifeInv
<1>1. stack[exec] # << >> /\ Top.fn = "wake" /\ Top \in Frames /\ q \in Waitables /\ q \in Queues
  BY <1>0, InsideTop, TopOK DEF WakeupThreadQueue, FrameOK, Queues
<1>2. CASE os.queue[q] # << >>
  <2> DEFINE f == [Top EXCEPT !.arg = IF WakeReschedules(os, q) THEN 1 ELSE @]
  <2>1. os' = WakeHead(os, q) /\ Continue(<< f >>)
    BY <1>2 DEF WakeupThreadQueue
  <2>2. f \in Frames /\ f.fn = "wake" /\ f.obj = q
    <3> HIDE DEF q
    <3> QED
      BY <1>1, SmallNumbers DEF Frames, q
  <2> HIDE DEF f
  <2> DEFINE cs == << f >>
  <2>3. cs \in Seq(Frames) /\ DOMAIN cs = {1} /\ cs[1] = f
    BY <2>2
  <2>4. SameLives(os', os) /\ Calm(os', os)
    <3> HIDE DEF q
    <3> QED
      BY <1>0, <1>1, <1>2, <2>1, TheFiber, WakeHeadLives, WakeHeadOK
  <2>5. Continue(cs)
    BY <2>1
  <2> HIDE DEF cs
  <2>6. HasNo(cs, {"callback"}) /\ WillWake(cs, q) /\ \A i \in DOMAIN cs : i = 1 /\ cs[i].fn = "wake"
    BY <2>2, <2>3 DEF HasNo, WillWake
  <2> QED
    BY <1>1, <2>3, <2>4, <2>5, <2>6, LifeContinues DEF Calm
<1>3. CASE os.queue[q] = << >>
  <2> DEFINE f  == SelectCall(0)
             cs == IF Top.arg = 1 THEN << f >> ELSE << >>
  <2>1. Continue(cs) /\ UNCHANGED os
    BY <1>3 DEF WakeupThreadQueue
  <2>2. FrameOK(exec, f) /\ f.fn = "select"
    BY <1>0, TheFiber, SelectCalls
  <2> HIDE DEF f
  <2>3. OnlyCalls(exec, cs, {"select"})
    BY <2>2, OneCall, NoCalls
  <2> HIDE DEF cs
  <2>4. /\ cs \in Seq(Frames) /\ HasNo(cs, {"callback"})
        /\ \A i \in DOMAIN cs : cs[i].fn = "select"
    BY <2>3 DEF OnlyCalls, StackOK, HasNo
  <2>5. os'.queue[q] = << >>
    BY <1>3, <2>1
  <2> QED
    BY <1>1, <2>1, <2>4, <2>5, NothingLives, LifeContinues
<1> QED
  BY <1>2, <1>3

(* A thread that goes to sleep for the end of another finds it alive.      *)
LEMMA SleepBeginsLives ==
  ASSUME LifeInv, SleepBegins
  PROVE  LifeOK'
<1> DEFINE q  == Top.obj
           w  == [os EXCEPT !.state[exec] = "WAITING", !.resched = TRUE]
           f  == SelectCall(0)
           g  == Frame("sleep", q, exec)
           cs == << f, g >>
           st == [os.state EXCEPT ![exec] = "WAITING"]
<1>0. IInv
  BY DEF LifeInv
<1>1. stack[exec] # << >> /\ Top.fn = "sleepcall" /\ q \in Waitables
  BY <1>0, InsideTop, TopOK DEF SleepBegins, FrameOK
<1>2. os.state[exec] = "RUNNING" /\ os.running = exec /\ exec # NULL /\ exec \in Threads
  BY <1>0, <1>1, NotFromIdle, TheFiber DEF IdleCalls
<1>3. q # Dwc /\ q \in Queues
  BY <1>0, <1>1, TheFiber DEF LifeInstance, Queues
<1>4. CASE os.disable > 0
  <2>1. UNCHANGED os /\ Continue(<< >>)
    BY <1>2, <1>3, <1>4 DEF SleepBegins
  <2> QED
    BY <1>1, <2>1, NothingLives, NoCalls, QuietlyContinues
<1>5. CASE ~(os.disable > 0)
  <2>1. /\ os' = InsertThreadIntoQueueByPriority(w, q, exec, os.prio[exec])
        /\ Continue(cs)
    BY <1>2, <1>5 DEF SleepBegins
  <2>2. OnlyCalls(exec, cs, QuietCalls)
    <3>1. FrameOK(exec, f) /\ f.fn = "select" /\ FrameOK(exec, g) /\ g.fn = "sleep"
      BY <1>0, <1>1, TheFiber, SelectCalls, QueueCalls
    <3> HIDE DEF f, g
    <3> QED
      BY <3>1, TwoCalls, NoQuietCalls
  <2>3. /\ os \in OsMemory /\ st \in [Threads -> ThreadStates] /\ st[exec] = "WAITING"
        /\ \A t \in Threads \ {exec} : st[t] = os.state[t]
    BY <1>0, TheFiber DEF OsMemory, ThreadStates
  <2>4. w = [os EXCEPT !.state = st, !.resched = TRUE]
    BY <2>3 DEF OsMemory
  <2>5. q \in Threads => ~Ended(os, q)
    <3>1. JoinsTheLiving(os, stack[exec]) /\ stack[exec] \in Seq(Frames)
      BY <1>0, TheFiber DEF LifeInv, LifeOK
    <3>2. 1 \in DOMAIN stack[exec] /\ stack[exec][1] = Top
      BY <1>1, <3>1 DEF Top
    <3> QED
      BY <1>1, <3>1, <3>2 DEF JoinsTheLiving
  <2> HIDE DEF w, q, st, cs
  <2>6. w \in OsMemory /\ w.listed = os.listed /\ w.state = st /\ w.queue = os.queue
        /\ w.running = os.running
    BY <2>3, <2>4 DEF OsMemory
  <2>7. ~Ended(os, exec) /\ ~Ended(w, exec)
    BY <1>2, <2>3, <2>6 DEF Ended, ThreadStateIsTerminated
  <2>8. SameLives(w, os)
    BY <2>3, <2>6, <2>7, LivesOn
  <2>9. q \in Threads => ~Ended(w, q)
    BY <2>5, <2>8 DEF SameLives
  <2>10. SameLives(os', w)
    BY <1>2, <1>3, <2>1, <2>6, <2>9, InsertLives
  <2>11. SameLives(os', os)
    BY <2>8, <2>10, SameLivesTransitive
  <2> QED
    BY <1>1, <1>2, <2>1, <2>2, <2>11, QuietlyContinues
<1> QED
  BY <1>4, <1>5

LEMMA SleepReturnsLives ==
  ASSUME LifeInv, SleepReturns
  PROVE  LifeOK'
<1>0. IInv
  BY DEF LifeInv
<1>1. stack[exec] # << >> /\ Top.fn = "sleep" /\ Top.arg = exec
  BY <1>0, InsideTop, TopOK DEF SleepReturns, FrameOK
<1>2. os.state[exec] = "RUNNING"
  BY <1>0, <1>1, NotFromIdle DEF IdleCalls
<1>3. UNCHANGED os /\ Continue(<< >>)
  BY <1>1, <1>2 DEF SleepReturns
<1> QED
  BY <1>1, <1>3, NothingLives, NoCalls, QuietlyContinues

LEMMA TicksTailLives ==
  ASSUME LifeInv, TicksTail
  PROVE  LifeOK'
<1>0. IInv
  BY DEF LifeInv
<1>1. stack[exec] # << >> /\ Top.fn = "ticks"
  BY InsideTop DEF TicksTail
<1>2. os.state[exec] = "RUNNING"
  BY <1>0, <1>1, NotFromIdle DEF IdleCalls
<1>3. os.susp[exec] = 0
  BY <1>0, <1>2, TheFiber DEF MemoryOK, ThreadOK
<1>4. UNCHANGED os /\ Continue(<< >>)
  BY <1>3 DEF TicksTail
<1> QED
  BY <1>1, <1>4, NothingLives, NoCalls, QuietlyContinues

LEMMA LockTurnLives ==
  ASSUME LifeInv, LockTurn
  PROVE  LifeOK'
<1> DEFINE m == Top.obj
           o == os.owner[m]
           k == [os EXCEPT !.waitsOn[exec] = NULL]
           a == Frame("promote", o, os.prio[exec])
           b == Frame("sleepcall", m, 0)
           c == Top
<1>0. IInv
  BY DEF LifeInv
<1>1. /\ stack[exec] # << >> /\ c.fn = "lock" /\ m \in Mutexes /\ FrameOK(exec, c)
  BY <1>0, InsideTop, TopOK DEF LockTurn, FrameOK
<1>2. m \in Waitables /\ m \notin Threads
  BY <1>1, JoinQueues DEF Waitables
<1>3. os \in OsMemory /\ exec \in Threads
  BY <1>0, TheFiber
<1>4. MemoryOK(k) /\ Calm(k, os) /\ k \in OsMemory /\ SameLives(k, os)
  <2>1. MemoryOK(k) /\ Calm(k, os)
    BY <1>0, TheFiber, WaitsOnChanges
  <2>2. SameLives(k, os)
    BY <1>3, OtherFieldsLive
  <2> HIDE DEF k
  <2> QED
    BY <2>1, <2>2 DEF MemoryOK, ListsOK
<1>5. CASE o \in {NULL, exec}
  <2>1. os' = Acquire(k, m, exec) /\ Continue(<< >>)
    BY <1>5 DEF LockTurn
  <2> HIDE DEF k, m
  <2>2. SameLives(os', k) /\ Calm(os', k)
    BY <1>1, <1>3, <1>4, <2>1, AcquireLives, AcquireOK
  <2>3. SameLives(os', os) /\ Calm(os', os)
    BY <1>4, <2>2, SameLivesTransitive, CalmTransitive
  <2> QED
    BY <1>1, <2>1, <2>3, NoCalls, QuietlyContinues DEF Calm
<1>6. CASE o \notin {NULL, exec}
  <2> DEFINE cs == << a, b, c >>
  <2>1. os' = [k EXCEPT !.waitsOn[exec] = m] /\ Continue(cs)
    BY <1>6 DEF LockTurn
  <2>2. FrameOK(exec, a) /\ a.fn = "promote"
    <3>1. o \in Threads \cup {NULL} /\ os.prio[exec] \in Prios \cup {SuspendedWaitPriority}
      BY <1>1, <1>3 DEF OsMemory
    <3>2. os.prio[exec] \in 0 .. MaxPrio + 1
      BY <3>1, OsConstants DEF Prios, SuspendedWaitPriority
    <3> HIDE DEF o
    <3> QED
      BY <3>1, <3>2, OwnerCalls
  <2>3. FrameOK(exec, b) /\ b.fn = "sleepcall" /\ b.obj = m
    <3>1. FrameOK(exec, b) /\ b.fn = "sleepcall"
      BY <1>2, <1>3, QueueCalls
    <3> QED
      BY <3>1 DEF Frame
  <2> HIDE DEF a, b, c, k, m
  <2>4. cs \in Seq(Frames) /\ DOMAIN cs = {1, 2, 3} /\ cs[1] = a /\ cs[2] = b /\ cs[3] = c
    <3>1. a \in Frames /\ b \in Frames /\ c \in Frames
      BY <1>1, <2>2, <2>3 DEF FrameOK
    <3> QED
      BY <3>1
  <2>5. SameLives(os', k) /\ Calm(os', k)
    BY <1>1, <1>3, <1>4, <2>1, WaitsOnChanges, OtherFieldsLive
  <2>6. SameLives(os', os) /\ Calm(os', os)
    BY <1>4, <2>5, SameLivesTransitive, CalmTransitive
  <2> HIDE DEF cs
  <2>7. /\ HasNo(cs, {"callback"}) /\ \A i \in DOMAIN cs : cs[i].fn # "wake"
        /\ \A i \in DOMAIN cs : cs[i].fn = "sleepcall" => cs[i].obj \notin Threads
    BY <1>1, <1>2, <2>2, <2>3, <2>4 DEF HasNo
  <2>8. Top.fn = "lock"
    BY <1>1 DEF c
  <2> QED
    BY <1>1, <2>1, <2>4, <2>6, <2>7, <2>8, LifeContinues DEF Calm
<1> QED
  BY <1>5, <1>6

LEMMA PromoteTurnLives ==
  ASSUME LifeInv, PromoteTurn
  PROVE  LifeOK'
<1> DEFINE t == Top.obj
           p == Top.arg
<1>0. IInv
  BY DEF LifeInv
<1>1. /\ stack[exec] # << >> /\ Top.fn = "promote"
      /\ t \in Threads \cup {NULL} /\ p \in 0 .. MaxPrio + 1
  BY <1>0, InsideTop, TopOK DEF PromoteTurn, FrameOK
<1>2. CASE t = NULL \/ os.susp[t] > 0 \/ os.prio[t] <= p
  <2>1. UNCHANGED os /\ Continue(<< >>)
    BY <1>2 DEF PromoteTurn
  <2> QED
    BY <1>1, <2>1, NothingLives, NoCalls, QuietlyContinues
<1>3. CASE ~(t = NULL \/ os.susp[t] > 0 \/ os.prio[t] <= p)
  <2> DEFINE f == Frame("promote", NextOwner(os, t), p)
  <2>1. os' = SetThreadEffectivePriority(os, t, p) /\ Continue(<< f >>)
    BY <1>3 DEF PromoteTurn
  <2> HIDE DEF t, p
  <2>2. t \in Threads /\ os.susp[t] \in Nat /\ os.prio[t] \in Prios \cup {SuspendedWaitPriority}
    BY <1>0, <1>1, <1>3, TheFiber DEF OsMemory
  <2>3. os.susp[t] = 0 /\ p \in Prios
    BY <1>1, <1>3, <2>2, OsConstants DEF Prios, SuspendedWaitPriority
  <2>4. Calm(os', os) /\ SameLives(os', os)
    BY <1>0, <2>1, <2>2, <2>3, TheFiber, SetPriorityOK, SetPriorityLives
  <2>5. FrameOK(exec, f) /\ f.fn = "promote"
    BY <1>0, <1>1, <2>2, TheFiber, Owners, OwnerCalls
  <2> HIDE DEF f
  <2>6. OnlyCalls(exec, << f >>, QuietCalls)
    BY <2>5, OneCall, NoQuietCalls
  <2> QED
    BY <1>1, <2>1, <2>4, <2>6, QuietlyContinues DEF Calm
<1> QED
  BY <1>2, <1>3

LEMMA PropagateTurnLives ==
  ASSUME LifeInv, PropagateTurn
  PROVE  LifeOK'
<1> DEFINE t == Top.obj
           p == ComputeThreadEffectivePriority(os, t)
<1>0. IInv
  BY DEF LifeInv
<1>1. /\ stack[exec] # << >> /\ Top.fn = "propagate" /\ t \in Threads \cup {NULL}
  BY <1>0, InsideTop, TopOK DEF PropagateTurn, FrameOK
<1>2. CASE t = NULL \/ os.susp[t] > 0 \/ os.prio[t] = p
  <2>1. UNCHANGED os /\ Continue(<< >>)
    BY <1>2 DEF PropagateTurn
  <2> QED
    BY <1>1, <2>1, NothingLives, NoCalls, QuietlyContinues
<1>3. CASE ~(t = NULL \/ os.susp[t] > 0 \/ os.prio[t] = p)
  <2> DEFINE f == Frame("propagate", NextOwner(os, t), 0)
  <2>1. os' = SetThreadEffectivePriority(os, t, p) /\ Continue(<< f >>)
    BY <1>3 DEF PropagateTurn
  <2>2. t \in Threads
    BY <1>1, <1>3
  <2>3. p \in Prios
    BY <1>0, <2>2, TheFiber, EffectivePriority
  <2> HIDE DEF p, t
  <2>4. os.susp[t] = 0
    BY <1>0, <1>3, <2>2, TheFiber DEF OsMemory
  <2>5. Calm(os', os) /\ SameLives(os', os)
    BY <1>0, <2>1, <2>2, <2>3, <2>4, TheFiber, SetPriorityOK, SetPriorityLives
  <2>6. FrameOK(exec, f) /\ f.fn = "propagate"
    BY <1>0, <2>2, SmallNumbers, TheFiber, Owners, OwnerCalls
  <2> HIDE DEF f
  <2>7. OnlyCalls(exec, << f >>, QuietCalls)
    BY <2>6, OneCall, NoQuietCalls
  <2> QED
    BY <1>1, <2>1, <2>5, <2>7, QuietlyContinues DEF Calm
<1> QED
  BY <1>2, <1>3

LEMMA UnlockAllTurnLives ==
  ASSUME LifeInv, UnlockAllTurn
  PROVE  LifeOK'
<1> DEFINE t == Top.obj
           m == Head(os.held[t])
<1>0. IInv
  BY DEF LifeInv
<1>1. /\ stack[exec] # << >> /\ Top.fn = "unlockall" /\ t \in Threads /\ FrameOK(exec, Top)
  BY <1>0, InsideTop, TopOK DEF UnlockAllTurn, FrameOK
<1>2. CASE os.held[t] = << >>
  <2>1. UNCHANGED os /\ Continue(<< >>)
    BY <1>2 DEF UnlockAllTurn
  <2>2. << >> \in Seq(Frames) /\ \A i \in DOMAIN << >> : FALSE
    OBVIOUS
  <2>3. HasNo(<< >>, {"callback"})
    BY DEF HasNo
  <2> QED
    BY <1>1, <2>1, <2>2, <2>3, NothingLives, LifeContinues
<1>3. CASE os.held[t] # << >>
  <2> DEFINE f  == WakeCall(m)
             cs == << f, Top >>
  <2>1. /\ os' = [os EXCEPT !.held[t] = Tail(@), !.owner[m] = NULL, !.count[m] = 0]
        /\ Continue(cs)
    BY <1>3 DEF UnlockAllTurn
  <2>2. /\ Calm(os', os) /\ m \in Mutexes
        /\ os'.state = os.state /\ os'.queue = os.queue /\ os'.listed = os.listed
    <3> DEFINE n == m
    <3>1. MemoryOK(os) /\ n = Head(os.held[t]) /\ t \in Threads
      BY <1>0, <1>1, TheFiber
    <3>2. os' = [os EXCEPT !.held[t] = Tail(@), !.owner[n] = NULL, !.count[n] = 0]
      BY <2>1
    <3> HIDE DEF n, t
    <3>3. Calm(os', os) /\ n \in Mutexes
      BY <1>3, <3>1, <3>2, GiveUpOK
    <3>4. os'.state = os.state /\ os'.queue = os.queue /\ os'.listed = os.listed
      BY <1>0, <3>2, TheFiber DEF OsMemory
    <3> QED
      BY <3>3, <3>4 DEF n
  <2> HIDE DEF m
  <2>3. SameLives(os', os)
    BY <2>2, SameFieldsLive
  <2>4. FrameOK(exec, f) /\ f.fn = "wake"
    BY <1>0, <2>2, TheFiber, QueueCalls DEF Waitables
  <2> HIDE DEF f
  <2>5. cs \in Seq(Frames) /\ DOMAIN cs = {1, 2} /\ cs[1] = f /\ cs[2] = Top
    <3>1. f \in Frames /\ Top \in Frames
      BY <1>1, <2>4 DEF FrameOK
    <3> QED
      BY <3>1
  <2> HIDE DEF cs
  <2>6. /\ HasNo(cs, {"callback"}) /\ \A i \in DOMAIN cs : cs[i].fn = "wake" => i = 1
        /\ \A i \in DOMAIN cs : cs[i].fn # "sleepcall"
    BY <1>1, <2>4, <2>5 DEF HasNo
  <2>7. ~(Top.obj = exec /\ os.held[exec] = << >>)
    BY <1>3
  <2> QED
    BY <1>1, <2>1, <2>2, <2>3, <2>5, <2>6, <2>7, LifeContinues DEF Calm
<1> QED
  BY <1>2, <1>3

LEMMA ExitTailLives ==
  ASSUME LifeInv, ExitTail
  PROVE  LifeOK'
<1> DEFINE f == SelectCall(0)
<1>0. IInv
  BY DEF LifeInv
<1>1. stack[exec] # << >> /\ Top.fn = "exit" /\ Continue(<< f >>)
  BY InsideTop DEF ExitTail
<1>2. /\ Calm(os', os) /\ os'.state = os.state /\ os'.listed = os.listed /\ os'.queue = os.queue
  BY <1>0, TheFiber, RequestOK DEF ExitTail
<1>3. FrameOK(exec, f) /\ f.fn = "select"
  BY <1>0, TheFiber, SelectCalls
<1> HIDE DEF f
<1>4. OnlyCalls(exec, << f >>, QuietCalls)
  BY <1>3, OneCall, NoQuietCalls
<1> QED
  BY <1>1, <1>2, <1>4, SameFieldsLive, QuietlyContinues DEF Calm

(* A dead thread leaves the list.                                          *)
LEMMA ReapLives ==
  ASSUME NEW k, NEW x \in Threads, k \in OsMemory, k.state[x] = "MORIBUND", NEW j,
         j.state = [k.state EXCEPT ![x] = "NONE"], j.listed = k.listed \ {x}, j.queue = k.queue
  PROVE  SameLives(j, k)
<1>1. j.state[x] = "NONE" /\ \A t \in Threads \ {x} : j.state[t] = k.state[t]
  BY DEF OsMemory
<1> QED
  BY <1>1 DEF SameLives, Ended, ThreadStateIsTerminated

LEMMA JoinTailLives ==
  ASSUME LifeInv, JoinTail
  PROVE  LifeOK'
<1> DEFINE t == Top.obj
<1>0. IInv
  BY DEF LifeInv
<1>1. stack[exec] # << >> /\ Top.fn = "join" /\ t \in Threads /\ Continue(<< >>)
  BY <1>0, InsideTop, TopOK DEF JoinTail, FrameOK
<1>2. CASE os.state[t] = "MORIBUND"
  <2>1. os' = Reap(os, t)
    BY <1>2 DEF JoinTail
  <2>2. MemoryOK(os) /\ t \in Threads
    BY <1>0, <1>1, TheFiber
  <2> HIDE DEF t
  <2>3. /\ Calm(os', os) /\ os'.state = [os.state EXCEPT ![t] = "NONE"]
        /\ os'.listed = os.listed \ {t} /\ os'.queue = os.queue
    BY <1>2, <2>1, <2>2, ReapOK
  <2>4. SameLives(os', os)
    BY <1>0, <1>2, <2>2, <2>3, TheFiber, ReapLives
  <2> QED
    BY <1>1, <2>3, <2>4, NoCalls, QuietlyContinues DEF Calm
<1>3. CASE os.state[t] # "MORIBUND"
  <2>1. UNCHANGED os
    BY <1>3 DEF JoinTail
  <2> QED
    BY <1>1, <2>1, NothingLives, NoCalls, QuietlyContinues
<1> QED
  BY <1>2, <1>3

(* The processor goes to another thread: the fiber left behind has no      *)
(* wake-up to finish, unless it is the main thread's.                      *)
LEMMA LifeSwitches ==
  ASSUME LifeInv, NEW k, MemoryOK(k), k.pending # {}, SameLives(k, os),
         stack[exec] # << >>, Top.fn \in {"select", "idle"},
         HasNo(Tail(stack[exec]), {"idle", "callback"}), Dispatch(k)
  PROVE  LifeOK'
<1> DEFINE x == Head(k.queue[Min(k.pending)])
           r == Tail(stack[exec])
           s == IF ThreadStateIsTerminated(k.state[exec]) THEN << >> ELSE r
<1>0. IInv /\ LifeOK
  BY DEF LifeInv
<1>1. os' = Started(k) /\ exec' = x
  BY DEF Dispatch, Started
<1>2. stack' = [stack EXCEPT ![exec] = s]
  BY DEF Dispatch
<1>3. x \in Threads /\ SameLives(os', k)
  BY <1>1, StartLives
<1>4. SameLives(os', os)
  BY <1>3, SameLivesTransitive
<1>5. /\ r \in Seq(Frames)
      /\ \A i \in DOMAIN r : r[i].fn = "sleepcall" => r[i].obj \notin Threads
      /\ exec # Main => HasNo(r, {"wake"})
      /\ \A t : WillWake(stack[exec], t) => WillWake(r, t)
  BY Below
<1>6. exec \in Threads /\ stack \in [Threads -> Seq(Frames)] /\ Main \in Threads
  BY <1>0, TheFiber, OsConstants
<1>7. exec = Main => s = r
  <2>1. ~Ended(k, Main)
    BY <1>0, <1>6 DEF LifeOK, SameLives
  <2> QED
    BY <2>1 DEF Ended
<1>8. s = r \/ s = << >>
  OBVIOUS
<1> HIDE DEF x, r
<1>9. /\ s \in Seq(Frames) /\ HasNo(s, {"idle", "callback"})
      /\ \A i \in DOMAIN s : s[i].fn = "sleepcall" => s[i].obj \notin Threads
      /\ exec # Main => HasNo(s, {"wake"})
  BY <1>5, <1>8 DEF HasNo, r
<1> HIDE DEF s
<1>10. stack'[exec] = s /\ \A t \in Threads \ {exec} : stack'[t] = stack[t]
  BY <1>2, <1>6
<1>11. ThreadListOK'
  BY <1>0, <1>4 DEF LifeOK, ThreadListOK, SameLives
<1>12. ~Ended(os', Main)
  BY <1>0, <1>4, <1>6 DEF LifeOK, SameLives
<1>13. ASSUME NEW t \in Threads, Ended(os', t), os'.queue[t] # << >>
       PROVE  WillWake(stack'[Main], t)
  <2>1. Ended(os, t) /\ os.queue[t] # << >>
    BY <1>4, <1>13 DEF SameLives
  <2>2. WillWake(stack[Main], t) \/ WillWake(stack[exec], t)
    BY <1>0, <2>1 DEF LifeOK
  <2>3. CASE exec = Main
    BY <1>5, <1>7, <1>10, <2>2, <2>3
  <2>4. CASE exec # Main
    <3>1. ~WillWake(r, t)
      BY <1>5, <2>4 DEF WillWake, HasNo
    <3> QED
      BY <1>5, <1>6, <1>10, <2>2, <2>4, <3>1
  <2> QED
    BY <2>3, <2>4
<1>14. ASSUME NEW t \in Threads, t # Main PROVE HasNo(stack'[t], {"wake"})
  BY <1>0, <1>9, <1>10, <1>14 DEF LifeOK
<1>15. ASSUME NEW t \in Threads, NEW i \in DOMAIN stack'[t], stack'[t][i].fn = "sleepcall"
       PROVE  stack'[t][i].obj \notin Threads
  BY <1>0, <1>9, <1>10, <1>15 DEF LifeOK
<1>16. ASSUME NEW t \in Threads PROVE HasNo(stack'[t], {"callback"})
  <2>1. HasNo(stack'[t], {"idle", "callback"})
    BY <1>0, <1>9, <1>10 DEF IInv, FibersOK
  <2> QED
    BY <2>1 DEF HasNo
<1>17. WakesOnTop(os', x, stack'[x])
  BY <1>3, <1>14 DEF WakesOnTop, HasNo
<1>18. NoBatchInWake(stack'[x])
  BY <1>3, <1>16 DEF NoBatchInWake, HasNo
<1>19. JoinsTheLiving(os', stack'[x])
  BY <1>3, <1>15 DEF JoinsTheLiving
<1> QED
  BY <1>1, <1>11, <1>12, <1>13, <1>14, <1>15, <1>17, <1>18, <1>19 DEF LifeOK

LEMMA SelectSwitchesLives ==
  ASSUME LifeInv, SelectSwitches
  PROVE  LifeOK'
<1> DEFINE k == Preempted
<1>0. IInv
  BY DEF LifeInv
<1>1. k.pending # {} /\ Dispatch(k)
  BY DEF SelectSwitches
<1>2. /\ stack[exec] # << >> /\ Top.fn = "select"
      /\ HasNo(Tail(stack[exec]), {"idle", "callback"}) /\ MemoryOK(k)
  BY <1>0, GivesUp, InsideTop DEF SelectSwitches
<1>3. os.running \in Threads
  BY <1>0, TheFiber DEF SelectSwitches, SelectRefused, OsMemory
<1>4. SameLives(k, os)
  BY <1>0, <1>3, PreemptLives
<1> HIDE DEF k
<1> QED
  BY <1>1, <1>2, <1>4, LifeSwitches

LEMMA IdleEndsLives ==
  ASSUME LifeInv, IdleEnds
  PROVE  LifeOK'
<1>0. IInv
  BY DEF LifeInv
<1>1. stack[exec] # << >> /\ Top.fn = "idle" /\ os.pending # {} /\ Dispatch(os)
  BY InsideTop DEF IdleEnds
<1>2. ~HasNo(stack[exec], {"idle"})
  BY <1>0, <1>1, TheFiber, Popped DEF Top
<1>3. Idling(os, stack[exec])
  BY <1>0, <1>2, TheFiber DEF ExecOK, Live
<1>4. HasNo(Tail(stack[exec]), {"idle", "callback"})
  BY <1>0, <1>1, <1>3, TheFiber, Popped DEF Top, Idling
<1>5. MemoryOK(os) /\ SameLives(os, os)
  BY <1>0, TheFiber DEF SameLives
<1> QED
  BY <1>1, <1>4, <1>5, LifeSwitches

(* Every step of the kernel keeps the second part of the invariant.        *)
LEMMA KernelLives ==
  ASSUME LifeInv, KernelStep
  PROVE  LifeOK'
BY ProcessSleepTimersLives, SelectReturnsLives, SelectSwitchesLives, SelectIdlesLives,
   IdleEventLives, IdleEndsLives, WakeupThreadQueueLives, SleepBeginsLives, SleepReturnsLives,
   LockTurnLives, PromoteTurnLives, PropagateTurnLives, UnlockAllTurnLives, ReschedTailLives,
   ExitTailLives, TicksTailLives, JoinTailLives, Zenon DEF KernelStep

-----------------------------------------------------------------------------
(* The calls of guest code keep the second part of the invariant.          *)

LEMMA QuietlyPushes ==
  ASSUME LifeInv, SameLives(os', os), os'.running # NULL => os.running # NULL,
         AtGuest, NEW cs, OnlyCalls(exec, cs, QuietCalls), Push(cs)
  PROVE  LifeOK'
<1>1. cs \in Seq(Frames)
  BY DEF OnlyCalls, StackOK
<1>2. \A i \in DOMAIN cs : cs[i].fn \notin {"wake", "callback", "sleepcall"}
  BY DEF OnlyCalls, QuietCalls
<1>3. HasNo(cs, {"callback"})
  BY <1>2 DEF HasNo
<1> QED
  BY <1>1, <1>2, <1>3, LifePushes

LEMMA OneCallLives ==
  ASSUME LifeInv,
         \/ \E q \in WaitQueues : OSWakeupThread(q) \/ OSSleepThread(q)
         \/ \E m \in Mutexes : OSLockMutex(m)
         \/ OSYieldThread
  PROVE  LifeOK'
<1>0. IInv
  BY DEF LifeInv
<1>1. exec \in Threads /\ os \in OsMemory /\ WaitQueues \subseteq Waitables
  BY <1>0, TheFiber DEF Waitables
<1>2. ASSUME NEW q \in WaitQueues, OSWakeupThread(q) PROVE LifeOK'
  <2> DEFINE cs == << WakeCall(q) >>
  <2>1. AtGuest /\ Push(cs) /\ UNCHANGED os
    BY <1>2 DEF OSWakeupThread, May
  <2>2. /\ cs \in Seq(Frames) /\ HasNo(cs, {"callback"})
        /\ \A i \in DOMAIN cs : i = 1 /\ cs[i].fn = "wake"
    BY <1>1, OneWake
  <2> HIDE DEF cs
  <2> QED
    BY <2>1, <2>2, NothingLives, LifePushes
<1>3. ASSUME NEW q \in WaitQueues, OSSleepThread(q) PROVE LifeOK'
  <2> DEFINE f  == Frame("sleepcall", q, 0)
             cs == << f >>
  <2>1. AtGuest /\ Push(cs) /\ UNCHANGED os
    BY <1>3 DEF OSSleepThread, May
  <2>2. f \in Frames /\ f.fn = "sleepcall" /\ f.obj = q
    <3>1. FrameOK(exec, f) /\ f.fn = "sleepcall"
      BY <1>1, QueueCalls
    <3> QED
      BY <3>1 DEF FrameOK, Frame
  <2> HIDE DEF f
  <2>3. cs \in Seq(Frames) /\ DOMAIN cs = {1} /\ cs[1] = f
    BY <2>2
  <2>4. q \notin Threads
    BY JoinQueues
  <2> HIDE DEF cs
  <2>5. /\ HasNo(cs, {"callback"}) /\ \A i \in DOMAIN cs : cs[i].fn = "wake" => i = 1
        /\ \A i \in DOMAIN cs : cs[i].fn = "sleepcall" => cs[i].obj \notin Threads
    BY <2>2, <2>3, <2>4 DEF HasNo
  <2> QED
    BY <2>1, <2>3, <2>5, NothingLives, LifePushes
<1>4. ASSUME NEW m \in Mutexes, OSLockMutex(m) PROVE LifeOK'
  <2> DEFINE f == Frame("lock", m, 0)
  <2>1. FrameOK(exec, f) /\ f.fn \in QuietCalls
    BY <1>1, QueueCalls, NoQuietCalls DEF Waitables
  <2>2. AtGuest /\ Push(<< f >>) /\ UNCHANGED os
    BY <1>4 DEF OSLockMutex, May
  <2> HIDE DEF f
  <2> QED
    BY <2>1, <2>2, OneCall, NothingLives, QuietlyPushes
<1>5. ASSUME OSYieldThread PROVE LifeOK'
  <2> DEFINE f == SelectCall(1)
  <2>1. FrameOK(exec, f) /\ f.fn \in QuietCalls
    BY <1>1, SelectCalls, NoQuietCalls
  <2>2. AtGuest /\ Push(<< f >>) /\ UNCHANGED os
    BY <1>5 DEF OSYieldThread, May
  <2> HIDE DEF f
  <2> QED
    BY <2>1, <2>2, OneCall, NothingLives, QuietlyPushes
<1> QED
  BY <1>2, <1>3, <1>4, <1>5

LEMMA UnlockMutexLives ==
  ASSUME LifeInv, NEW m \in Mutexes, OSUnlockMutex(m)
  PROVE  LifeOK'
<1> DEFINE w  == << WakeCall(m) >>
           cs == IF os.count[m] = 1 THEN w ELSE << >>
<1>0. IInv
  BY DEF LifeInv
<1>1. /\ AtGuest /\ os.running # NULL /\ os' = Release(os, m, os.running) /\ Push(cs)
  BY DEF OSUnlockMutex, May
<1>2. os.running \in Threads /\ os \in OsMemory /\ exec \in Threads
  BY <1>0, <1>1, TheFiber DEF OsMemory
<1>3. SameLives(os', os)
  BY <1>1, <1>2, ReleaseLives
<1>4. /\ w \in Seq(Frames) /\ HasNo(w, {"callback"})
      /\ \A i \in DOMAIN w : i = 1 /\ w[i].fn = "wake"
  BY <1>2, OneWake DEF Waitables
<1> HIDE DEF w
<1>5. /\ cs \in Seq(Frames) /\ HasNo(cs, {"callback"})
      /\ \A i \in DOMAIN cs : i = 1 /\ cs[i].fn = "wake"
  BY <1>4 DEF HasNo
<1> HIDE DEF cs
<1> QED
  BY <1>1, <1>3, <1>5, LifePushes

LEMMA AfterQuietCalls ==
  ASSUME NEW t \in Threads, os \in OsMemory, NEW cs,
         cs = AfterSuspend(os, t) \/ cs = AfterResume(os, t)
  PROVE  OnlyCalls(exec, cs, QuietCalls)
<1> DEFINE f == Frame("propagate", MutexOwner(os, t), 0)
           g == ReschedCall
<1>1. /\ FrameOK(exec, f) /\ f.fn = "propagate"
      /\ FrameOK(exec, g) /\ g.fn = "resched"
  BY Owners, OwnerCalls, KernelCalls, SmallNumbers
<1>2. cs \in {<< >>, << f, g >>, << g >>}
  BY DEF AfterSuspend, AfterResume
<1> HIDE DEF f, g
<1> QED
  BY <1>1, <1>2, NoQuietCalls, NoCalls, OneCall, TwoCalls

LEMMA SuspendResumeLives ==
  ASSUME LifeInv, NEW t \in Threads, OSSuspendThread(t) \/ OSResumeThread(t)
  PROVE  LifeOK'
<1>0. IInv
  BY DEF LifeInv
<1>1. MemoryOK(os) /\ os \in OsMemory
  BY <1>0, TheFiber
<1>2. CASE OSSuspendThread(t)
  <2> DEFINE cs == AfterSuspend(os, t)
  <2>1. AtGuest /\ os' = Suspend(os, t) /\ Push(cs)
    BY <1>2 DEF OSSuspendThread, May
  <2>2. OnlyCalls(exec, cs, QuietCalls)
    BY <1>1, AfterQuietCalls
  <2> HIDE DEF cs
  <2>3. SameLives(os', os) /\ os'.running = os.running
    BY <1>1, <2>1, SuspendLives, SuspendOK DEF Calm
  <2> QED
    BY <2>1, <2>2, <2>3, QuietlyPushes
<1>3. CASE OSResumeThread(t)
  <2> DEFINE cs == AfterResume(os, t)
  <2>1. AtGuest /\ os' = Resume(os, t) /\ Push(cs) /\ os.state[t] # "NONE"
    BY <1>3 DEF OSResumeThread, May
  <2>2. OnlyCalls(exec, cs, QuietCalls)
    BY <1>1, AfterQuietCalls
  <2> HIDE DEF cs
  <2>3. SameLives(os', os) /\ os'.running = os.running
    BY <1>1, <2>1, ResumeLives, ResumeOK DEF Calm
  <2> QED
    BY <2>1, <2>2, <2>3, QuietlyPushes
<1> QED
  BY <1>2, <1>3

LEMMA SleepTicksLives ==
  ASSUME LifeInv, OSSleepTicks
  PROVE  LifeOK'
<1> DEFINE k  == [os EXCEPT !.timers = @ \cup {exec}, !.parks = @ \cup {exec}]
           a  == AfterSuspend(os, exec)
           g  == Frame("ticks", NULL, 0)
           cs == a \o << g >>
<1>0. IInv
  BY DEF LifeInv
<1>1. AtGuest /\ os.disable = 0 /\ os.current = exec /\ os' = Suspend(k, exec) /\ Push(cs)
  BY DEF OSSleepTicks, May
<1>2. Live(os, exec, stack[exec]) /\ os.running # NULL
  BY <1>0, <1>1, RunningIsLive, TheFiber DEF Live
<1>3. OnlyCalls(exec, cs, QuietCalls)
  <2>1. OnlyCalls(exec, a, QuietCalls)
    BY <1>0, TheFiber, AfterQuietCalls
  <2>2. OnlyCalls(exec, << g >>, QuietCalls)
    BY KernelCalls, OneCall, NoQuietCalls
  <2> HIDE DEF a, g
  <2> DEFINE b == << g >>
  <2>3. a \in Seq(Frames) /\ b \in Seq(Frames) /\ cs = a \o b
    BY <2>1, <2>2 DEF OnlyCalls, StackOK
  <2> HIDE DEF b, cs
  <2>4. /\ cs \in Seq(Frames)
        /\ \A i \in DOMAIN cs :
             \/ i \in DOMAIN a /\ cs[i] = a[i]
             \/ i > Len(a) /\ i - Len(a) \in DOMAIN b /\ cs[i] = b[i - Len(a)]
    BY <2>3, Places
  <2> QED
    BY <2>1, <2>2, <2>4 DEF OnlyCalls, StackOK, b
<1>4. SameLives(os', os)
  <2>1. SameLives(k, os)
    BY <1>0, TheFiber, OtherFieldsLive
  <2>2. MemoryOK(k)
    <3>1. os.timers \cup {exec} \in SUBSET Threads /\ os.parks \cup {exec} \in SUBSET Threads
      BY <1>0, TheFiber DEF OsMemory
    <3>2. k \in OsMemory
      BY <1>0, <3>1, TheFiber DEF OsMemory
    <3>3. /\ k.queue = os.queue /\ k.pending = os.pending /\ k.qptr = os.qptr
          /\ k.state = os.state /\ k.susp = os.susp /\ k.prio = os.prio
          /\ k.owner = os.owner /\ k.count = os.count
      BY <1>0, TheFiber DEF OsMemory
    <3> HIDE DEF k
    <3>4. \A m \in Mutexes : k.owner[m] = NULL <=> k.count[m] = 0
      BY <1>0, <3>3, TheFiber DEF MemoryOK, ListsOK
    <3> QED
      BY <1>0, <3>2, <3>3, <3>4, TheFiber, QuietChanges
  <2> HIDE DEF k
  <2>3. SameLives(os', k)
    BY <1>0, <1>1, <2>2, TheFiber, SuspendLives
  <2> QED
    BY <2>1, <2>3, SameLivesTransitive
<1> HIDE DEF k, cs
<1> QED
  BY <1>1, <1>2, <1>3, <1>4, QuietlyPushes

LEMMA BeginCallbacksLives ==
  ASSUME LifeInv, BeginDeferredGuestCallbacks
  PROVE  LifeOK'
<1> DEFINE f  == Callback
           cs == << f >>
<1>0. IInv
  BY DEF LifeInv
<1>1. (AtGuest \/ Inside("idle")) /\ os' = [os EXCEPT !.disable = os.disable + 1] /\ Push(cs)
  BY DEF BeginDeferredGuestCallbacks
<1>2. f \in Frames /\ f.fn = "callback"
  BY KernelCalls DEF FrameOK
<1> HIDE DEF f
<1>3. cs \in Seq(Frames) /\ DOMAIN cs = {1} /\ cs[1] = f
  BY <1>2
<1> HIDE DEF cs
<1>4. /\ HasNo(cs, {"wake"}) /\ \A i \in DOMAIN cs : cs[i].fn = "callback"
  BY <1>2, <1>3 DEF HasNo
<1>5. SameLives(os', os) /\ os'.running = os.running
  BY <1>0, <1>1, TheFiber, OtherFieldsLive DEF OsMemory
<1>6. os.running # NULL => AtGuest
  <2>1. Inside("idle") => ~HasNo(stack[exec], {"idle"})
    BY <1>0, TheFiber, Popped DEF Inside
  <2> QED
    BY <1>0, <1>1, <2>1, TheFiber, RunningIsLive DEF Live
<1> QED
  BY <1>1, <1>3, <1>4, <1>5, <1>6, LifePushes

LEMMA EndCallbacksLives ==
  ASSUME LifeInv, NEW flush \in BOOLEAN, EndDeferredGuestCallbacks(flush)
  PROVE  LifeOK'
<1> DEFINE f  == ReschedCall
           n  == IF os.disable = 0 THEN 0 ELSE os.disable - 1
           cs == IF flush THEN << f >> ELSE << >>
<1>0. IInv
  BY DEF LifeInv
<1>1. /\ stack[exec] # << >> /\ Top.fn = "callback"
      /\ os' = [os EXCEPT !.disable = n] /\ Continue(cs)
  BY InsideTop DEF EndDeferredGuestCallbacks
<1>2. OnlyCalls(exec, cs, QuietCalls)
  BY KernelCalls, OneCall, NoCalls, NoQuietCalls
<1> HIDE DEF cs, n
<1>3. SameLives(os', os) /\ os'.running = os.running
  BY <1>0, <1>1, TheFiber, OtherFieldsLive DEF OsMemory
<1> QED
  BY <1>1, <1>2, <1>3, QuietlyContinues

-----------------------------------------------------------------------------
(* The life cycle keeps the second part of the invariant.                  *)

LEMMA CreateThreadLives ==
  ASSUME LifeInv, NEW t \in Threads, NEW d \in BOOLEAN, OSCreateThread(t, d)
  PROVE  LifeOK'
<1>1. /\ exec = Main /\ t # exec /\ os.state[t] = "NONE" /\ os.queue[t] = << >>
      /\ os' = Create(os, t, d)
      /\ stack'[exec] = stack[exec] /\ exec' = exec
      /\ stack'[t] = << >> /\ \A u \in Threads \ {t} : stack'[u] = stack[u]
  BY CreateBegins
<1>2. MemoryOK(os) /\ os \in OsMemory /\ Main \in Threads
  BY TheFiber, OsConstants DEF LifeInv
<1>3. /\ Calm(os', os) /\ os'.state = [os.state EXCEPT ![t] = "READY"]
      /\ os'.listed = os.listed \cup {t} /\ os'.queue = os.queue
  <2>1. MemoryOK(os') /\ Calm(os', os)
    BY <1>1, <1>2, CreateOK
  <2>2. /\ os'.state = [os.state EXCEPT ![t] = "READY"]
        /\ os'.listed = os.listed \cup {t} /\ os'.queue = [os.queue EXCEPT ![t] = << >>]
    BY <1>1, <1>2 DEF Create, OsMemory
  <2>3. os.queue = [os.queue EXCEPT ![t] = os.queue[t]]
    BY <1>2 DEF OsMemory
  <2> QED
    BY <1>1, <2>1, <2>2, <2>3
<1>4. \A u \in Threads : os'.state[u] = IF u = t THEN "READY" ELSE os.state[u]
  BY <1>2, <1>3 DEF OsMemory
<1>5. \A u \in Threads : Ended(os', u) => u # t /\ Ended(os, u)
  BY <1>4 DEF Ended, ThreadStateIsTerminated
<1>6. LifeOK
  BY DEF LifeInv
<1>7. ThreadListOK'
  BY <1>2, <1>3, <1>4, <1>6 DEF LifeOK, ThreadListOK
<1>8. ~Ended(os', Main)
  BY <1>2, <1>5, <1>6 DEF LifeOK
<1>9. \A u \in Threads : Ended(os', u) /\ os'.queue[u] # << >> =>
        WillWake(stack'[Main], u) \/ WillWake(stack'[exec], u)
  BY <1>1, <1>3, <1>5, <1>6 DEF LifeOK
<1>10. \A u \in Threads \ {exec, Main} : HasNo(stack'[u], {"wake"})
  BY <1>1, <1>6 DEF LifeOK, HasNo
<1>11. \A u \in Threads \ {exec} : \A i \in DOMAIN stack'[u] :
         stack'[u][i].fn = "sleepcall" => stack'[u][i].obj \notin Threads
  <2> TAKE u \in Threads \ {exec}
  <2>1. CASE u = t
    BY <1>1, <2>1
  <2>2. CASE u # t
    BY <1>1, <1>6, <2>2 DEF LifeOK
  <2> QED
    BY <2>1, <2>2
<1>12. WakesOnTop(os', exec, stack'[exec])
  BY <1>1 DEF WakesOnTop
<1>13. os'.running # NULL => NoBatchInWake(stack'[exec])
  BY <1>1, <1>3, <1>6 DEF LifeOK, Calm
<1>14. JoinsTheLiving(os', stack'[exec])
  BY <1>1, <1>5, <1>6 DEF LifeOK, JoinsTheLiving
<1> QED
  BY <1>1, <1>7, <1>8, <1>9, <1>10, <1>11, <1>12, <1>13, <1>14 DEF LifeOK

(* A thread that ends wakes its joiners after it has let go its mutexes.   *)
LEMMA ExitThreadLives ==
  ASSUME LifeInv, OSExitThread
  PROVE  LifeOK'
<1> DEFINE s == ExitCalls(exec)
<1>0. IInv /\ LifeOK
  BY DEF LifeInv
<1>1. /\ stack[exec] = << >> /\ exec # Main /\ Mortal /\ os.held[exec] = << >>
      /\ os.state[exec] = "RUNNING"
      /\ Loose(os, exec) /\ os' = Terminate(os, exec)
      /\ stack' = [stack EXCEPT ![exec] = s] /\ exec' = exec
  BY <1>0, ExitEnds
<1>2. exec \in Threads /\ stack \in [Threads -> Seq(Frames)] /\ os \in OsMemory /\ Main \in Threads
  BY <1>0, TheFiber, OsConstants
<1>3. /\ DOMAIN s = 1 .. 3 /\ s[1].fn = "unlockall" /\ s[2].fn = "wake" /\ s[2].obj = exec
      /\ s[3].fn = "exit" /\ HasNo(s, {"callback"})
  BY <1>1, <1>2, ExitStack
<1>4. s = ExitCalls(exec)
  OBVIOUS
<1> HIDE DEF s
<1>5. stack'[exec] = s /\ \A u \in Threads \ {exec} : stack'[u] = stack[u]
  BY <1>1, <1>2
<1>6. /\ os'.state[exec] # "NONE" => os'.listed = os.listed
      /\ os'.state[exec] = "NONE" => os'.listed = os.listed \ {exec}
      /\ \A u \in Threads \ {exec} : os'.state[u] = os.state[u]
      /\ os'.queue = os.queue /\ os'.held = os.held
  BY <1>1, <1>2, TerminateOK
<1>7. \A u \in Threads \ {exec} : Ended(os', u) <=> Ended(os, u)
  BY <1>6 DEF Ended
<1>8. ThreadListOK'
  <2> SUFFICES ASSUME NEW u \in Threads PROVE u \in os'.listed <=> os'.state[u] # "NONE"
    BY DEF ThreadListOK
  <2>1. u \in os.listed <=> os.state[u] # "NONE"
    BY <1>0 DEF LifeOK, ThreadListOK
  <2> QED
    BY <1>1, <1>6, <2>1
<1>9. ~Ended(os', Main)
  BY <1>0, <1>1, <1>2, <1>7 DEF LifeOK
<1>10. ASSUME NEW u \in Threads, Ended(os', u), os'.queue[u] # << >>
       PROVE  WillWake(stack'[Main], u) \/ WillWake(stack'[exec], u)
  <2>1. CASE u = exec
    BY <1>3, <1>5, <2>1 DEF WillWake
  <2>2. CASE u # exec
    <3>1. WillWake(stack[Main], u) \/ WillWake(stack[exec], u)
      BY <1>0, <1>6, <1>7, <1>10, <2>2 DEF LifeOK
    <3>2. ~WillWake(stack[exec], u)
      BY <1>1 DEF WillWake
    <3> QED
      BY <1>1, <1>2, <1>5, <3>1, <3>2
  <2> QED
    BY <2>1, <2>2
<1>11. \A u \in Threads \ {exec, Main} : HasNo(stack'[u], {"wake"})
  BY <1>0, <1>5 DEF LifeOK
<1>12. \A u \in Threads \ {exec} : \A i \in DOMAIN stack'[u] :
         stack'[u][i].fn = "sleepcall" => stack'[u][i].obj \notin Threads
  BY <1>0, <1>5 DEF LifeOK
<1>13. WakesOnTop(os', exec, s)
  BY <1>1, <1>4, <1>6 DEF WakesOnTop
<1>14. NoBatchInWake(s)
  BY <1>3 DEF NoBatchInWake, HasNo
<1>15. JoinsTheLiving(os', s)
  <2>1. \A i \in DOMAIN s : s[i].fn \in {"unlockall", "wake", "exit"}
    BY <1>3
  <2> QED
    BY <2>1 DEF JoinsTheLiving
<1> QED
  BY <1>1, <1>5, <1>8, <1>9, <1>10, <1>11, <1>12, <1>13, <1>14, <1>15 DEF LifeOK

(* The calls of a cancellation.                                            *)
LEMMA CancelStack ==
  ASSUME NEW t \in Threads, Mortal, exec \in Threads, NEW cs, cs = CancelCalls(t)
  PROVE  /\ cs \in Seq(Frames) /\ DOMAIN cs = 1 .. 3
         /\ cs[1].fn = "unlockall" /\ cs[2].fn = "wake" /\ cs[2].obj = t /\ cs[3].fn = "resched"
<1> DEFINE f == Frame("unlockall", t, 0)
           g == WakeCall(t)
           h == ReschedCall
<1>1. /\ FrameOK(exec, f) /\ f.fn = "unlockall" /\ FrameOK(exec, g) /\ g.fn = "wake"
      /\ g.obj = t /\ FrameOK(exec, h) /\ h.fn = "resched"
  BY EndCalls, KernelCalls
<1>2. cs = << f, g, h >>
  BY DEF CancelCalls
<1> HIDE DEF f, g, h
<1>3. f \in Frames /\ g \in Frames /\ h \in Frames
  BY <1>1 DEF FrameOK
<1>4. /\ cs \in Seq(Frames) /\ DOMAIN cs = 1 .. 3
      /\ cs[1] = f /\ cs[2] = g /\ cs[3] = h
  BY <1>2, <1>3
<1> QED
  BY <1>1, <1>4

(* The main thread will wake the joiners of the thread it cancels.         *)
LEMMA CancelThreadLives ==
  ASSUME LifeInv, NEW t \in Threads, OSCancelThread(t)
  PROVE  LifeOK'
<1> DEFINE cs == CancelCalls(t)
           r  == stack[exec]
           s  == cs \o r
<1>0. IInv /\ LifeOK
  BY DEF LifeInv
<1>1. /\ exec = Main /\ t # exec /\ HasNo(r, {"wake"}) /\ Mortal
      /\ Calm(os', os) /\ Ended(os', t) /\ ~Ended(os, t)
      /\ os'.state[t] # "NONE" => os'.listed = os.listed
      /\ os'.state[t] = "NONE" => os'.listed = os.listed \ {t}
      /\ \A u \in Threads \ {t} : os'.state[u] = os.state[u]
      /\ \A q \in Queues : os.queue[q] = << >> => os'.queue[q] = << >>
      /\ exec' = exec /\ stack'[exec] = s /\ stack'[t] = << >>
      /\ \A u \in Threads \ {exec, t} : stack'[u] = stack[u]
  BY CancelBegins
<1>2. exec \in Threads /\ Main \in Threads /\ r \in Seq(Frames) /\ AtGuest
  BY <1>0, TheFiber, OsConstants DEF StackOK, OSCancelThread, May
<1>3. /\ cs \in Seq(Frames) /\ DOMAIN cs = 1 .. 3
      /\ cs[1].fn = "unlockall" /\ cs[2].fn = "wake" /\ cs[2].obj = t /\ cs[3].fn = "resched"
  BY <1>1, <1>2, CancelStack
<1>4. JoinsTheLiving(os, r)
  BY <1>0 DEF LifeOK
<1>5. r # << >> => r[1].fn = "callback"
  BY <1>2 DEF AtGuest, Inside
<1>6. r = stack[exec]
  OBVIOUS
<1> HIDE DEF cs, r, s
<1>7. /\ \A i \in DOMAIN s :
           \/ i \in DOMAIN cs /\ s[i] = cs[i]
           \/ i > Len(cs) /\ i - Len(cs) \in DOMAIN r /\ s[i] = r[i - Len(cs)]
      /\ \A i \in DOMAIN cs : i \in DOMAIN s /\ s[i] = cs[i]
      /\ DOMAIN s \subseteq Nat /\ Len(cs) = 3
  <2>1. s = cs \o r
    BY DEF s
  <2>2. /\ s \in Seq(Frames)
        /\ \A i \in DOMAIN s :
             \/ i \in DOMAIN cs /\ s[i] = cs[i]
             \/ i > Len(cs) /\ i - Len(cs) \in DOMAIN r /\ s[i] = r[i - Len(cs)]
        /\ \A i \in DOMAIN cs : i \in DOMAIN s /\ s[i] = cs[i]
    <3>1. cs \in Seq(Frames) /\ r \in Seq(Frames)
      BY <1>2, <1>3
    <3> QED
      BY <2>1, <3>1, Places
  <2>3. DOMAIN s \subseteq Nat /\ Len(cs) = 3
    BY <1>3, <2>2
  <2> QED
    BY <2>2, <2>3
<1>8. \A u \in Threads \ {t} : Ended(os', u) <=> Ended(os, u)
  BY <1>1 DEF Ended
<1>9. ThreadListOK'
  <2> SUFFICES ASSUME NEW u \in Threads PROVE u \in os'.listed <=> os'.state[u] # "NONE"
    BY DEF ThreadListOK
  <2>1. /\ u \in os.listed <=> os.state[u] # "NONE"
        /\ t \in os.listed <=> os.state[t] # "NONE"
    BY <1>0 DEF LifeOK, ThreadListOK
  <2>2. os.state[t] # "NONE"
    BY <1>1 DEF Ended, ThreadStateIsTerminated
  <2> QED
    BY <1>1, <2>1, <2>2
<1>10. ~Ended(os', Main)
  BY <1>0, <1>1, <1>2, <1>8 DEF LifeOK
<1>11. ASSUME NEW u \in Threads, Ended(os', u), os'.queue[u] # << >>
       PROVE  WillWake(stack'[Main], u) \/ WillWake(stack'[exec], u)
  <2>1. CASE u = t
    <3>1. 2 \in DOMAIN s /\ s[2].fn = "wake" /\ s[2].obj = t
      BY <1>3, <1>7
    <3> QED
      BY <1>1, <2>1, <3>1 DEF WillWake
  <2>2. CASE u # t
    <3>1. WillWake(r, u)
      BY <1>0, <1>1, <1>6, <1>8, <1>11, <2>2, JoinQueues DEF LifeOK
    <3> QED
      BY <1>1, <3>1 DEF WillWake, HasNo
  <2> QED
    BY <2>1, <2>2
<1>12. \A u \in Threads \ {exec, Main} : HasNo(stack'[u], {"wake"})
  BY <1>0, <1>1 DEF LifeOK, HasNo
<1>13. \A u \in Threads \ {exec} : \A i \in DOMAIN stack'[u] :
         stack'[u][i].fn = "sleepcall" => stack'[u][i].obj \notin Threads
  <2> TAKE u \in Threads \ {exec}
  <2>1. CASE u = t
    BY <1>1, <2>1
  <2>2. CASE u # t
    BY <1>0, <1>1, <2>2 DEF LifeOK
  <2> QED
    BY <2>1, <2>2
<1>14. WakesOnTop(os', exec, s)
  BY <1>1 DEF WakesOnTop
<1>15. NoBatchInWake(s)
  <2> SUFFICES ASSUME NEW i \in DOMAIN s, NEW j \in DOMAIN s, i < j, s[i].fn = "callback"
               PROVE  s[j].fn # "wake"
    BY DEF NoBatchInWake
  <2>1. i > 3
    BY <1>3, <1>7
  <2>2. j \notin DOMAIN cs
    BY <1>3, <1>7, <2>1
  <2> QED
    BY <1>1, <1>7, <2>2 DEF HasNo
<1>16. JoinsTheLiving(os', s)
  <2> SUFFICES ASSUME NEW i \in DOMAIN s, s[i].fn = "sleepcall" PROVE s[i].obj \notin Threads
    BY DEF JoinsTheLiving
  <2>1. i \notin DOMAIN cs
    BY <1>3, <1>7
  <2>2. i - 3 \in DOMAIN r /\ s[i] = r[i - 3]
    BY <1>7, <2>1
  <2>3. r # << >>
    BY <2>2
  <2>4. r[1].fn = "callback"
    BY <1>5, <2>3
  <2> QED
    BY <1>4, <2>2, <2>4 DEF JoinsTheLiving
<1> QED
  BY <1>1, <1>9, <1>10, <1>11, <1>12, <1>13, <1>14, <1>15, <1>16 DEF LifeOK

(* A thread begins to wait only for one that has not ended.                *)
LEMMA JoinThreadLives ==
  ASSUME LifeInv, NEW t \in Threads, OSJoinThread(t)
  PROVE  LifeOK'
<1> DEFINE f  == Frame("sleepcall", t, 0)
           g  == Frame("join", t, 0)
           cs == IF t \notin os.detached /\ os.state[t] # "MORIBUND" /\ os.queue[t] = << >>
                 THEN << f, g >> ELSE << g >>
<1>1. /\ AtGuest /\ "join" \in Calls /\ os.state[t] # "NONE" /\ Push(cs) /\ UNCHANGED os
  BY DEF OSJoinThread, May
<1>2. Mortal
  BY <1>1 DEF Mortal, SyncCalls
<1>3. /\ f \in Frames /\ f.fn = "sleepcall" /\ f.obj = t
      /\ g \in Frames /\ g.fn = "join"
  BY <1>2, EndCalls DEF FrameOK
<1> HIDE DEF f, g
<1>4. os.state[t] = "MORIBUND" => cs = << g >>
  OBVIOUS
<1>5. cs \in {<< f, g >>, << g >>}
  OBVIOUS
<1> HIDE DEF cs
<1>6. /\ cs \in Seq(Frames) /\ \A i \in DOMAIN cs : cs[i] \in {f, g}
      /\ \A i \in DOMAIN cs : cs[i] = f => i = 1 /\ cs # << g >>
  <2>1. CASE cs = << f, g >>
    BY <1>3, <2>1
  <2>2. CASE cs = << g >>
    BY <1>3, <2>2
  <2> QED
    BY <1>5, <2>1, <2>2
<1>7. HasNo(cs, {"callback"}) /\ \A i \in DOMAIN cs : cs[i].fn # "wake"
  BY <1>3, <1>6 DEF HasNo
<1>8. \A i \in DOMAIN cs : cs[i].fn = "sleepcall" => i = 1 /\ ~Ended(os', cs[i].obj)
  BY <1>1, <1>3, <1>4, <1>6 DEF Ended, ThreadStateIsTerminated
<1> QED
  BY <1>1, <1>6, <1>7, <1>8, NothingLives, LifePushes

LEMMA DetachThreadLives ==
  ASSUME LifeInv, NEW t \in Threads, OSDetachThread(t)
  PROVE  LifeOK'
<1> DEFINE cs == << WakeCall(t) >>
<1>0. IInv
  BY DEF LifeInv
<1>1. /\ AtGuest /\ Push(cs) /\ Calm(os', os) /\ os'.queue = os.queue
      /\ \/ os'.state = os.state /\ os'.listed = os.listed
         \/ /\ os.state[t] = "MORIBUND"
            /\ os'.state = [os.state EXCEPT ![t] = "NONE"] /\ os'.listed = os.listed \ {t}
  BY <1>0, DetachChanges
<1>2. exec \in Threads /\ os \in OsMemory /\ t \in Waitables
  BY <1>0, TheFiber DEF Waitables
<1>3. /\ cs \in Seq(Frames) /\ HasNo(cs, {"callback"})
      /\ \A i \in DOMAIN cs : i = 1 /\ cs[i].fn = "wake"
  BY <1>2, OneWake
<1> HIDE DEF cs
<1>4. SameLives(os', os)
  BY <1>1, <1>2, ReapLives, SameFieldsLive
<1>5. os'.running = os.running
  BY <1>1 DEF Calm
<1> QED
  BY <1>1, <1>3, <1>4, <1>5, LifePushes

(* Every call of guest code keeps the second part of the invariant.        *)
LEMMA GuestLives ==
  ASSUME LifeInv, GuestStep
  PROVE  LifeOK'
BY OneCallLives, UnlockMutexLives, SuspendResumeLives, SleepTicksLives, BeginCallbacksLives,
   EndCallbacksLives, CreateThreadLives, ExitThreadLives, CancelThreadLives, JoinThreadLives,
   DetachThreadLives, Zenon DEF GuestStep

-----------------------------------------------------------------------------
(* The inductive invariant.                                                *)

LEMMA LifeInitial == LifeInstance /\ Init => LifeInv
<1> SUFFICES ASSUME LifeInstance, Init PROVE LifeInv
  OBVIOUS
<1>1. IInv
  BY Initial
<1>2. /\ os.state = [t \in Threads |-> CASE t = Main -> "RUNNING"
                                         [] t \in InitLive \ {Main} -> "READY"
                                         [] OTHER -> "NONE"]
      /\ os.listed = InitLive /\ os.queue = [q \in Queues |-> << >>]
      /\ exec = Main /\ stack = [t \in Threads |-> << >>]
  BY DEF Init
<1>3. Main \in InitLive /\ InitLive \subseteq Threads /\ Main \in Threads
  BY SchedulerConstants
<1>4. ThreadListOK
  BY <1>2, <1>3 DEF ThreadListOK
<1>5. ~Ended(os, Main)
  BY <1>2, <1>3 DEF Ended, ThreadStateIsTerminated
<1>6. \A t \in Threads : os.queue[t] = << >> /\ stack[t] = << >>
  BY <1>2, JoinQueues
<1>7. \A t \in Threads : DOMAIN stack[t] = {}
  BY <1>6
<1>8. /\ \A t \in Threads : HasNo(stack[t], {"wake"})
      /\ WakesOnTop(os, exec, stack[exec]) /\ NoBatchInWake(stack[exec])
      /\ JoinsTheLiving(os, stack[exec])
  BY <1>2, <1>3, <1>7 DEF HasNo, WakesOnTop, NoBatchInWake, JoinsTheLiving
<1> QED
  BY <1>1, <1>4, <1>5, <1>6, <1>7, <1>8 DEF LifeInv, LifeOK

LEMMA LifeInductive == LifeInv /\ [Next]_vars => LifeInv'
<1> SUFFICES ASSUME LifeInv, [Next]_vars PROVE LifeOK'
  BY FirstPart DEF LifeInv
<1>1. CASE UNCHANGED vars
  BY <1>1 DEF LifeInv, LifeOK, ThreadListOK, vars
<1>2. CASE KernelStep
  BY <1>2, KernelLives
<1>3. CASE GuestStep
  BY <1>3, GuestLives
<1> QED
  BY <1>1, <1>2, <1>3 DEF Next

(* Every reachable state, in the middle of every call included, satisfies  *)
(* the invariant, with threads that are created, cancelled, joined,        *)
(* detached and that exit on their own, whatever their number: the queues, *)
(* the thread states and the stacks of runtime/src/hle/os and of           *)
(* fiber_manager.cpp agree, and the joiners of a thread that has ended are *)
(* awake or about to be woken.                                             *)
THEOREM Invariance == LifeInstance => (Spec => []LifeInv)
<1>1. LifeInstance /\ Init => LifeInv
  BY LifeInitial
<1>2. LifeInv /\ [Next]_vars => LifeInv'
  BY LifeInductive
<1> QED
  BY <1>1, <1>2, PTL DEF Spec

-----------------------------------------------------------------------------
(* The safety properties of GuestScheduler, with the life cycle.           *)

(* The guest memory, the executing fiber and the stacks keep their types.  *)
THEOREM TypeCorrectness == LifeInstance => (Spec => []TypeOK)
<1>1. LifeInv => TypeOK
  BY TypesFollow DEF LifeInv
<1> QED
  BY <1>1, Invariance, PTL

(* The pending mask and the run queues that SelectThread reads agree with  *)
(* each other and with the threads in the queues.                          *)
THEOREM RunQueuesConsistent == LifeInstance => (Spec => []RunQueuesOK)
<1>1. LifeInv => RunQueuesOK
  BY RunQueuesFollow DEF LifeInv
<1> QED
  BY <1>1, Invariance, PTL

(* No thread is lost: what is ready is queued, what waits is where its     *)
(* queue pointer says, and only the executing fiber's thread is RUNNING.   *)
THEOREM NoThreadIsLost == LifeInstance => (Spec => []NoThreadLost)
<1>1. LifeInv => NoThreadLost
  BY NoneLostFollows DEF LifeInv
<1> QED
  BY <1>1, Invariance, PTL

(* Guest code outside a callback runs on the fiber of the running thread.  *)
THEOREM ExecAlwaysRunning == LifeInstance => (Spec => []ExecIsRunning)
<1>1. LifeInv => ExecIsRunning
  BY GuestIsRunning DEF LifeInv
<1> QED
  BY <1>1, Invariance, PTL

(* The disable count of the scheduler is the number of callback batches on *)
(* the executing fiber: no fiber is left behind inside one, and the        *)
(* termination of a thread loses none.                                     *)
THEOREM DisableOwned == LifeInstance => (Spec => []DisableBelongsToExec)
<1>1. LifeInv => DisableBelongsToExec
  BY DisableFollows DEF LifeInv
<1> QED
  BY <1>1, Invariance, PTL

(* OSSleepThread never returns to a thread that is still linked as         *)
(* WAITING, a thread that joined another one included.                     *)
THEOREM SleepersAreWoken == LifeInstance => (Spec => []SleepReturnsWoken)
<1>1. LifeInv => SleepReturnsWoken
  BY SleepFollows DEF LifeInv
<1> QED
  BY <1>1, Invariance, PTL

(* The thread list holds exactly the threads that exist: OSExitThread,     *)
(* OSCancelThread, OSJoinThread and OSDetachThread unlink a structure once *)
(* and OSCreateThread links it again.                                      *)
THEOREM ThreadListIsRight == LifeInstance => (Spec => []ThreadListOK)
<1>1. LifeInv => ThreadListOK
  BY DEF LifeInv, LifeOK
<1> QED
  BY <1>1, Invariance, PTL

(* No joiner is forgotten: whoever waits for a thread that has ended will  *)
(* be woken by a call that is under way on the main thread's fiber or on   *)
(* the executing one.                                                      *)
THEOREM JoinersAreWoken == LifeInstance => (Spec => []JoinersWoken)
<1>1. ASSUME LifeInv PROVE JoinersWoken
  <2> SUFFICES ASSUME NEW t \in Threads, Ended(os, t), os.queue[t] # << >>
               PROVE  \E u \in Threads : WillWake(stack[u], t)
    BY DEF JoinersWoken, Ended, WillWake
  <2>1. WillWake(stack[Main], t) \/ WillWake(stack[exec], t)
    BY <1>1 DEF LifeInv, LifeOK
  <2>2. Main \in Threads /\ exec \in Threads
    BY <1>1, OsConstants, TheFiber DEF LifeInv
  <2> QED
    BY <2>1, <2>2
<1> QED
  BY <1>1, Invariance, PTL
=============================================================================
