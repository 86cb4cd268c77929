------------------------ MODULE SchedulerRanks_proofs ------------------------
(***************************************************************************)
(* Proofs about the priorities of GuestScheduler, in every instance        *)
(* without the life-cycle calls and the DWC queue: RankInv of              *)
(* SchedulerInvariant is inductive.  Inherited priorities are those of     *)
(* the strongest waiters, along chains of owners, and nothing stronger     *)
(* than the running thread is kept waiting without a request to            *)
(* reschedule.                                                             *)
(***************************************************************************)
EXTENDS SchedulerLocks_proofs

-----------------------------------------------------------------------------
(* What the priority of a thread has to be the least of.                   *)

Least(C, n) == n \in C /\ Lower(C, n)

Fits(k, e, a, t) == Least(Claims(k, e, a, t), k.prio[t])

(* The priorities fit, but maybe that of o.                                *)
AllFit(k, e, a, o) == \A t \in Threads : t # o /\ k.susp[t] = 0 => Fits(k, e, a, t)

LEMMA LeastOf ==
  ASSUME NEW k, NEW e, NEW a, NEW t \in Threads
  PROVE  \A n : Least(Claims(k, e, a, t), n) <=>
           /\ \/ n = k.base[t]
              \/ \E u \in Threads, m \in Mutexes :
                   k.owner[m] = t /\ Waits(k, e, a, u, m) /\ n = k.prio[u]
           /\ n <= k.base[t]
           /\ \A u \in Threads, m \in Mutexes :
                k.owner[m] = t /\ Waits(k, e, a, u, m) => n <= k.prio[u]
BY DEF Least, Lower, Claims

(* The same threads claim the same.                                        *)
LEMMA SameClaims ==
  ASSUME NEW k, NEW j, NEW d, NEW e, NEW a, NEW b, NEW t \in Threads,
         j.base[t] = k.base[t],
         \A m \in Mutexes : j.owner[m] = t <=> k.owner[m] = t,
         \A u \in Threads, m \in Mutexes : k.owner[m] = t =>
           /\ Waits(j, d, b, u, m) <=> Waits(k, e, a, u, m)
           /\ Waits(k, e, a, u, m) => j.prio[u] = k.prio[u]
  PROVE  Claims(j, d, b, t) = Claims(k, e, a, t)
BY DEF Claims

(* Where no lock asks, the fiber does not matter.                          *)
LEMMA NobodyAsks ==
  ASSUME NEW k, NEW e, NEW a, a \notin Mutexes
  PROVE  /\ \A u, m : m \in Mutexes => (Waits(k, e, a, u, m) <=> In(k, u, m))
         /\ \A d, t : Claims(k, e, a, t) = Claims(k, d, NULL, t)
<1>1. NULL \notin Mutexes
  BY Pointers DEF Queues, Waitables
<1>2. \A d, u, m : m \in Mutexes => /\ Waits(k, e, a, u, m) <=> In(k, u, m)
                                    /\ Waits(k, d, NULL, u, m) <=> In(k, u, m)
  BY <1>1 DEF Waits
<1> QED
  BY <1>2 DEF Claims

(* The first thread of a wait queue is the strongest.                      *)
LEMMA HeadIsStrongest ==
  ASSUME NEW k \in OsMemory, QueuesOrdered(k), NEW q \in Waitables, k.queue[q] # << >>
  PROVE  /\ Head(k.queue[q]) \in Threads /\ In(k, Head(k.queue[q]), q)
         /\ \A u \in Threads : In(k, u, q) => k.prio[Head(k.queue[q])] <= k.prio[u]
<1> DEFINE s == k.queue[q]
<1>1. s \in Seq(Threads) /\ s # << >> /\ Sorted(k, s)
  BY DEF OsMemory, QueuesOrdered, Queues
<1>2. \A u \in Threads : k.prio[u] \in Nat
  BY Pointers DEF OsMemory
<1> HIDE DEF s
<1>3. Head(s) \in Threads /\ Head(s) = s[1] /\ Head(s) \in ToSet(s)
  BY <1>1, PoppedList, HeadTailProperties
<1>4. ASSUME NEW u \in ToSet(s) PROVE k.prio[Head(s)] <= k.prio[u]
  <2>1. PICK i \in DOMAIN s : s[i] = u
    BY DEF ToSet
  <2>2. i \in 1 .. Len(s) /\ Len(s) \in Nat
    BY <1>1, LenProperties
  <2>3. CASE i = 1
    BY <1>2, <1>3, <2>1, <2>3
  <2>4. CASE i # 1
    <3>1. 1 \in DOMAIN s /\ 1 < i
      BY <1>1, <2>2, <2>4, LenProperties
    <3> QED
      BY <1>1, <1>3, <2>1, <3>1 DEF Sorted
  <2> QED
    BY <2>3, <2>4
<1> QED
  BY <1>3, <1>4 DEF In, s

(* What ComputeThreadEffectivePriority reads off the heads of the queues   *)
(* is the strongest claim.                                                 *)
LEMMA EffectiveIsLeast ==
  ASSUME NEW k, NEW r \in OsMemory, NEW e, NEW a, a \notin Mutexes, NEW t \in Threads,
         r.base = k.base, r.prio = k.prio, r.queue = k.queue, QueuesOrdered(r),
         \A m \in Mutexes : m \in ToSet(r.held[t]) <=> k.owner[m] = t
  PROVE  Least(Claims(k, e, a, t), ComputeThreadEffectivePriority(r, t))
<1> DEFINE M == {n \in ToSet(r.held[t]) : r.queue[n] # << >>}
           S == {r.base[t]} \cup {r.prio[Head(r.queue[m])] : m \in M}
           p == Min(S)
<1>1. /\ r.base[t] \in Nat /\ r.held[t] \in Seq(Mutexes)
      /\ \A u \in Threads : r.prio[u] \in Nat
  BY Pointers DEF OsMemory
<1>2. ToSet(r.held[t]) \subseteq Mutexes
  BY <1>1, LenProperties, ElementOfSeq DEF ToSet
<1>3. ASSUME NEW m \in M
      PROVE  /\ m \in Mutexes /\ k.owner[m] = t
             /\ Head(r.queue[m]) \in Threads /\ In(k, Head(r.queue[m]), m)
             /\ \A u \in Threads : In(k, u, m) => r.prio[Head(r.queue[m])] <= r.prio[u]
  <2>1. m \in Mutexes /\ m \in Waitables /\ k.owner[m] = t /\ r.queue[m] # << >>
    BY <1>2 DEF Waitables
  <2>2. Head(r.queue[m]) \in Threads /\ In(r, Head(r.queue[m]), m)
    BY <2>1, HeadIsStrongest
  <2>3. \A u \in Threads : In(r, u, m) => r.prio[Head(r.queue[m])] <= r.prio[u]
    BY <2>1, HeadIsStrongest
  <2> QED
    BY <2>1, <2>2, <2>3 DEF In
<1>4. S \in SUBSET Nat /\ S # {}
  BY <1>1, <1>3
<1> HIDE DEF S
<1>5. p \in S /\ \A n \in S : p <= n
  BY <1>4, LeastElement
<1> HIDE DEF p
<1>6. p = k.base[t] \/ \E u \in Threads, m \in Mutexes : k.owner[m] = t /\ Waits(k, e, a, u, m) /\ p = k.prio[u]
  BY <1>3, <1>5 DEF S, Waits
<1>7. p <= k.base[t]
  BY <1>5 DEF S
<1>8. ASSUME NEW u \in Threads, NEW m \in Mutexes, k.owner[m] = t, Waits(k, e, a, u, m)
      PROVE  p <= k.prio[u]
  <2>1. In(k, u, m)
    BY <1>8, NobodyAsks
  <2>2. m \in ToSet(r.held[t]) /\ m \in Queues
    BY <1>8 DEF Queues, Waitables
  <2>3. r.queue[m] # << >>
    <3>1. In(r, u, m)
      BY <2>1 DEF In
    <3> QED
      BY <2>2, <3>1, SomeoneIn
  <2>4. m \in M
    BY <2>2, <2>3
  <2>5. p <= r.prio[Head(r.queue[m])] /\ r.prio[Head(r.queue[m])] <= r.prio[u]
    BY <1>3, <1>5, <2>1, <2>4 DEF S
  <2>6. p \in Nat /\ r.prio[Head(r.queue[m])] \in Nat /\ r.prio[u] \in Nat
    BY <1>1, <1>3, <1>4, <1>5, <2>4
  <2> QED
    BY <2>5, <2>6
<1>9. ComputeThreadEffectivePriority(r, t) = p
  BY DEF ComputeThreadEffectivePriority, p, S
<1> QED
  BY <1>6, <1>7, <1>8, <1>9, LeastOf

-----------------------------------------------------------------------------
(* The priorities by the innermost call of the fiber.                      *)

LEMMA OpenPriorities ==
  ASSUME NEW k, NEW e, NEW s, PrioritiesOK(k, e, s),
         s = << >> \/ Head(s).fn \notin {"sleepcall", "promote", "propagate", "lock"}
  PROVE  AllFit(k, e, NULL, NULL)
BY DEF PrioritiesOK, PriorityOK, Asking, Adjusts, Retries, AllFit, Fits, Least

LEMMA OpenSleep ==
  ASSUME NEW k, NEW e, NEW s, PrioritiesOK(k, e, s), s # << >>, Head(s).fn = "sleepcall"
  PROVE  AllFit(k, e, Head(s).obj, NULL)
BY DEF PrioritiesOK, PriorityOK, Asking, Adjusts, Retries, AllFit, Fits, Least

LEMMA OpenPropagation ==
  ASSUME NEW k, NEW e, NEW s, PrioritiesOK(k, e, s), s # << >>, Head(s).fn = "propagate"
  PROVE  /\ AllFit(k, e, NULL, Head(s).obj)
         /\ \A t \in Threads : k.state[t] = "NONE" /\ k.susp[t] = 0 => Fits(k, e, NULL, t)
BY DEF PrioritiesOK, PriorityOK, Asking, Adjusts, Retries, AllFit, Fits, Least

(* What a promotion is about to make of the priority of the thread it has  *)
(* reached.                                                                *)
Promoted(k, t, p) == IF k.prio[t] <= p THEN k.prio[t] ELSE p

LEMMA OpenPromotion ==
  ASSUME NEW k, NEW e, NEW s, PrioritiesOK(k, e, s), s # << >>, Head(s).fn = "promote"
  PROVE  LET a == Head(Tail(s)).obj
             o == Head(s).obj
         IN  /\ AllFit(k, e, a, o)
             /\ \A t \in Threads : k.state[t] = "NONE" /\ k.susp[t] = 0 => Fits(k, e, a, t)
             /\ o \in Threads /\ k.susp[o] = 0 /\ k.state[o] # "NONE" =>
                  Least(Claims(k, e, a, o), Promoted(k, o, Head(s).arg))
BY DEF PrioritiesOK, PriorityOK, Asking, Adjusts, Retries, AllFit, Fits, Least, Promoted

LEMMA OpenLock ==
  ASSUME NEW k, NEW e, NEW s, PrioritiesOK(k, e, s), s # << >>, Head(s).fn = "lock",
         NEW t \in Threads, k.susp[t] = 0
  PROVE  /\ Fits(k, e, NULL, t) \/ (k.owner[Head(s).obj] = t /\ t # e)
         /\ k.prio[t] \in Claims(k, e, NULL, t) \cup {k.prio[e]}
         /\ Lower(Claims(k, e, NULL, t), k.prio[t])
BY DEF PrioritiesOK, PriorityOK, Asking, Adjusts, Retries, AllFit, Fits, Least

LEMMA ClosePriorities ==
  ASSUME NEW k, NEW e, NEW s, AllFit(k, e, NULL, NULL),
         s = << >> \/ Head(s).fn \notin {"sleepcall", "promote"}
  PROVE  PrioritiesOK(k, e, s)
<1>1. Asking(s) = NULL /\ \A t : ~Adjusts(k, s, "promote", t)
  BY DEF Asking, Adjusts
<1>2. \A t \in Threads : t # NULL
  BY Pointers
<1> QED
  BY <1>1, <1>2 DEF PrioritiesOK, PriorityOK, AllFit, Fits, Least

LEMMA CloseSleep ==
  ASSUME NEW k, NEW e, NEW s, s # << >>, Head(s).fn = "sleepcall", AllFit(k, e, Head(s).obj, NULL)
  PROVE  PrioritiesOK(k, e, s)
<1>1. \A t \in Threads : t # NULL
  BY Pointers
<1> QED
  BY <1>1 DEF PrioritiesOK, PriorityOK, Asking, Adjusts, Retries, AllFit, Fits, Least

LEMMA ClosePropagation ==
  ASSUME NEW k, NEW e, NEW s, s # << >>, Head(s).fn = "propagate", NEW o, o = Head(s).obj,
         AllFit(k, e, NULL, o), o \in Threads => k.state[o] # "NONE"
  PROVE  PrioritiesOK(k, e, s)
BY DEF PrioritiesOK, PriorityOK, Asking, Adjusts, Retries, AllFit, Fits, Least

LEMMA ClosePromotion ==
  ASSUME NEW k, NEW e, NEW s, s # << >>, Head(s).fn = "promote",
         NEW a, a = Head(Tail(s)).obj, NEW o, o = Head(s).obj, NEW p, p = Head(s).arg,
         AllFit(k, e, a, o),
         o \in Threads /\ k.susp[o] = 0 =>
           k.state[o] # "NONE" /\ Least(Claims(k, e, a, o), Promoted(k, o, p))
  PROVE  PrioritiesOK(k, e, s)
BY DEF PrioritiesOK, PriorityOK, Asking, Adjusts, Retries, AllFit, Fits, Least, Promoted

(* A lock that is made, or that looks again after a refused sleep: the     *)
(* owner may still have the priority of the thread that asks.              *)
LEMMA CloseLock ==
  ASSUME NEW k, NEW e, NEW s, s # << >>, Head(s).fn = "lock", NEW o, o = k.owner[Head(s).obj],
         o # e, AllFit(k, e, NULL, o),
         o \in Threads /\ k.susp[o] = 0 =>
           /\ k.prio[o] \in Claims(k, e, NULL, o) \cup {k.prio[e]}
           /\ Lower(Claims(k, e, NULL, o), k.prio[o])
  PROVE  PrioritiesOK(k, e, s)
BY DEF PrioritiesOK, PriorityOK, Asking, Adjusts, Retries, AllFit, Fits, Least

-----------------------------------------------------------------------------
(* Steps of the guest memory.                                              *)

(* Nobody's priority or claims change.                                     *)
Level(j, k) ==
  /\ j.base = k.base /\ j.owner = k.owner /\ j.prio = k.prio
  /\ \A t \in Threads : j.susp[t] = 0 => k.susp[t] = 0
  /\ \A t \in Threads, m \in Mutexes : k.owner[m] # NULL => (In(j, t, m) <=> In(k, t, m))

LEMMA LevelFits ==
  ASSUME NEW k, NEW j, NEW d, NEW e, NEW o, Level(j, k), AllFit(k, e, NULL, o)
  PROVE  AllFit(j, d, NULL, o)
<1> SUFFICES ASSUME NEW t \in Threads, t # o, j.susp[t] = 0 PROVE Fits(j, d, NULL, t)
  BY DEF AllFit
<1>1. t # NULL /\ NULL \notin Mutexes
  BY Pointers DEF Queues, Waitables
<1>2. Claims(j, d, NULL, t) = Claims(k, e, NULL, t)
  BY <1>1, SameClaims DEF Level, Waits
<1> QED
  BY <1>2 DEF Level, AllFit, Fits

(* The priority of x changes, and nobody else's.                           *)
Moved(j, k, x) ==
  /\ j.base = k.base /\ j.owner = k.owner
  /\ \A t \in Threads : t # x => j.prio[t] = k.prio[t]
  /\ \A t \in Threads, m \in Mutexes : In(j, t, m) <=> In(k, t, m)

(* Thread x waits for mutexes of o only.                                   *)
WaitsFor(k, e, a, x, o) == \A m \in Mutexes : Waits(k, e, a, x, m) => k.owner[m] = o

LEMMA MovedClaims ==
  ASSUME NEW k, NEW j, NEW e, NEW a, NEW x, Moved(j, k, x), NEW o, WaitsFor(k, e, a, x, o),
         NEW t \in Threads, t # o
  PROVE  Claims(j, e, a, t) = Claims(k, e, a, t)
<1>1. j.base[t] = k.base[t] /\ \A m \in Mutexes : j.owner[m] = t <=> k.owner[m] = t
  BY DEF Moved
<1>2. ASSUME NEW u \in Threads, NEW m \in Mutexes, k.owner[m] = t
      PROVE  /\ Waits(j, e, a, u, m) <=> Waits(k, e, a, u, m)
             /\ Waits(k, e, a, u, m) => j.prio[u] = k.prio[u]
  BY <1>2 DEF Moved, Waits, WaitsFor
<1>3. \A u \in Threads, m \in Mutexes : k.owner[m] = t =>
        /\ Waits(j, e, a, u, m) <=> Waits(k, e, a, u, m)
        /\ Waits(k, e, a, u, m) => j.prio[u] = k.prio[u]
  BY <1>2
<1> QED
  BY <1>1, <1>3, SameClaims

LEMMA MovedFits ==
  ASSUME NEW k, NEW j, NEW e, NEW a, NEW x \in Threads, Moved(j, k, x), NEW o, WaitsFor(k, e, a, x, o),
         \A t \in Threads : t # x /\ j.susp[t] = 0 => k.susp[t] = 0,
         AllFit(k, e, a, x),
         x # o /\ j.susp[x] = 0 => Least(Claims(k, e, a, x), j.prio[x])
  PROVE  AllFit(j, e, a, o)
<1> SUFFICES ASSUME NEW t \in Threads, t # o, j.susp[t] = 0 PROVE Fits(j, e, a, t)
  BY DEF AllFit
<1>1. Claims(j, e, a, t) = Claims(k, e, a, t)
  BY MovedClaims
<1>2. CASE t = x
  BY <1>1, <1>2 DEF Fits
<1>3. CASE t # x
  BY <1>1, <1>3 DEF AllFit, Fits, Moved
<1> QED
  BY <1>2, <1>3

(* The only mutex a thread waits for is the one it points to.              *)
LEMMA WaitsForOne ==
  ASSUME NEW k, MemoryOK(k), LocksOK(k), NEW x \in Threads, NEW m \in Mutexes, In(k, x, m)
  PROVE  /\ k.state[x] = "WAITING" /\ k.waitsOn[x] = m /\ m # NULL
         /\ k.owner[m] = NextOwner(k, x) /\ k.owner[m] = MutexOwner(k, x)
<1>1. m \in Waitables /\ m \in Queues /\ m # NULL
  BY Pointers DEF Queues, Waitables
<1>2. k.state[x] = "WAITING" /\ k.waitsOn[x] = m
  BY <1>1 DEF MemoryOK, ThreadOK, LocksOK, WaiterOK
<1> QED
  BY <1>1, <1>2 DEF NextOwner, MutexOwner

(* The owner of a mutex exists.                                            *)
LEMMA OwnersExist ==
  ASSUME NEW k, MemoryOK(k), LocksOK(k), NEW x \in Threads, NEW o \in Threads,
         o = NextOwner(k, x) \/ o = MutexOwner(k, x)
  PROVE  k.state[o] # "NONE"
<1>1. k.waitsOn[x] \in Mutexes \cup {NULL} /\ o # NULL
  BY Pointers DEF MemoryOK, ListsOK, OsMemory
<1>2. k.waitsOn[x] # NULL /\ o = k.owner[k.waitsOn[x]]
  BY <1>1 DEF NextOwner, MutexOwner
<1> QED
  BY <1>1, <1>2 DEF LocksOK, HoldersOK

-----------------------------------------------------------------------------
(* Steps that keep the third invariant.                                    *)

LEMMA TheRanks ==
  ASSUME RankInv
  PROVE  /\ ~Mortal /\ Dwc \notin Queues
         /\ LockInv /\ IInv /\ PrioritiesOK(os, exec, stack[exec])
         /\ RankOK(os, exec, stack[exec]) /\ SelectComes(os, exec, stack[exec])
         /\ MemoryOK(os) /\ os \in OsMemory /\ LocksOK(os) /\ HoldersOK(os) /\ QueuesOrdered(os)
         /\ exec \in Threads /\ stack[exec] \in Seq(Frames) /\ stack \in [Threads -> Seq(Frames)]
         /\ CallsOK(os, exec, stack[exec]) /\ HandedOver(os, stack[exec])
<1>1. LockInv
  BY DEF RankInv
<1> QED
  BY <1>1, TheLocks DEF RankInv

LEMMA RankSteps ==
  ASSUME RankInv, LockInv', NEW u, stack' = [stack EXCEPT ![exec] = u], exec' = exec,
         PrioritiesOK(os', exec, u), RankOK(os', exec, u), SelectComes(os', exec, u)
  PROVE  RankInv'
<1>1. stack'[exec'] = u
  BY TheRanks
<1> QED
  BY <1>1 DEF RankInv

(* A reschedule is on the stack.                                           *)
Ahead(s) == ~HasNo(s, {"select", "resched"})

(* The innermost call is no wake-up.                                       *)
NoWake(s) == s = << >> \/ Head(s).fn # "wake"

(* Whoever outranks e did before, or a reschedule is asked for.            *)
Tamed(j, k, e) ==
  /\ Asked(k) => Asked(j)
  /\ Outranked(j, e) => Outranked(k, e) \/ Asked(j)

LEMMA RankKept ==
  ASSUME NEW j, NEW k, NEW e, NEW s, NEW u, RankOK(k, e, s), NoWake(s), Tamed(j, k, e)
  PROVE  RankOK(j, e, u)
BY DEF RankOK, HandsOver, NoWake, Tamed

(* A reschedule stays on the stack, or is put there, where it is needed.   *)
StaysAhead(j, k, e, u, s) ==
  /\ j.disable = k.disable
  /\ Outranked(j, e) => Ahead(u) \/ (Outranked(k, e) /\ ~Ahead(s))

LEMMA SelectKept ==
  ASSUME NEW j, NEW k, NEW e, NEW s, NEW u, SelectComes(k, e, s), NoWake(s),
         StaysAhead(j, k, e, u, s)
  PROVE  SelectComes(j, e, u)
BY DEF SelectComes, HandsOver, NoWake, StaysAhead, Ahead

(* Nobody is stronger than the fiber, for the priorities and the run       *)
(* queues, in a step that changes neither.                                 *)
LEMMA SameRank ==
  ASSUME NEW j, NEW k, NEW e, j.pending \subseteq k.pending, j.prio[e] = k.prio[e],
         j.state[e] = "RUNNING" => k.state[e] = "RUNNING", Asked(k) => Asked(j)
  PROVE  /\ Outranked(j, e) => Outranked(k, e)
         /\ Tamed(j, k, e)
BY DEF Outranked, Tamed

LEMMA AheadStacks ==
  ASSUME NEW s \in Seq(Frames), s # << >>
  PROVE  /\ Ahead(s) <=> Head(s).fn \in {"select", "resched"} \/ Ahead(Tail(s))
         /\ \A cs \in Seq(Frames) : Ahead(cs \o s) <=> Ahead(cs) \/ Ahead(s)
BY TopAndRest, ConcatFrames DEF Ahead

LEMMA AheadOnTop ==
  /\ ~Ahead(<< >>)
  /\ \A f \in Frames, r \in Seq(Frames) :
       Ahead(<< f >> \o r) <=> f.fn \in {"select", "resched"} \/ Ahead(r)
  /\ \A f, g \in Frames, r \in Seq(Frames) :
       Ahead(<< f, g >> \o r) <=> 
         f.fn \in {"select", "resched"} \/ g.fn \in {"select", "resched"} \/ Ahead(r)
<1>1. ~Ahead(<< >>)
  BY DEF Ahead, HasNo
<1>2. \A f \in Frames, r \in Seq(Frames) :
        Ahead(<< f >> \o r) <=> f.fn \in {"select", "resched"} \/ Ahead(r)
  BY OneOnTop DEF Ahead
<1>3. ASSUME NEW f \in Frames, NEW g \in Frames, NEW r \in Seq(Frames)
      PROVE Ahead(<< f, g >> \o r) <=> 
         f.fn \in {"select", "resched"} \/ g.fn \in {"select", "resched"} \/ Ahead(r)
  BY TwoOnTop DEF Ahead
<1> QED
  BY <1>1, <1>2, <1>3

(* The idle loop runs while no thread is RUNNING.                          *)
LEMMA IdleIsOutranked ==
  ASSUME IInv, Idling(os, stack[exec])
  PROVE  ~Outranked(os, exec) /\ os.state[exec] # "RUNNING"
BY TheFiber DEF ExecOK, Idling, Outranked

LEMMA IdleIdles ==
  ASSUME IInv, Inside("idle")
  PROVE  Idling(os, stack[exec])
<1>1. ~HasNo(stack[exec], {"idle"})
  BY TheFiber, InsideTop, Popped DEF Top
<1> QED
  BY <1>1, TheFiber DEF ExecOK, Live

(* Where no callbacks interfere, guest code runs in the strongest thread.  *)
LEMMA GuestIsStrongest ==
  ASSUME RankInv, AtGuest, "callback" \notin Calls
  PROVE  stack[exec] = << >> /\ ~Outranked(os, exec) /\ os.disable = 0
<1>1. os.disable = 0 /\ os.disable = Depth(stack[exec])
  BY TheRanks, TheFiber DEF SelectComes, ExecOK
<1>2. HasNo(stack[exec], {"callback"})
  BY <1>1, TheRanks, BatchesFinite
<1>3. stack[exec] = << >>
  <2>1. CASE stack[exec] # << >>
    BY <1>2, <2>1, TheRanks, TopAndRest DEF AtGuest, Inside
  <2> QED
    BY <2>1
<1>4. ~Ahead(stack[exec])
  BY <1>3, AheadOnTop
<1> QED
  BY <1>1, <1>3, <1>4, TheRanks DEF SelectComes, HandsOver, Ahead

(* The calls that ask for a priority.                                      *)
Askers == {"sleepcall", "promote"}

LEMMA NoAskers ==
  ASSUME NEW u \in Seq(Frames), HasNo(u, Askers)
  PROVE  u = << >> \/ Head(u).fn \notin {"sleepcall", "promote"}
BY TopAndRest DEF Askers

LEMMA FitSteps ==
  ASSUME RankInv, LockInv', AllFit(os', exec, NULL, NULL),
         NEW u \in Seq(Frames), stack' = [stack EXCEPT ![exec] = u], exec' = exec,
         HasNo(u, Askers), NoWake(stack[exec]), Tamed(os', os, exec),
         StaysAhead(os', os, exec, u, stack[exec])
  PROVE  RankInv'
<1>1. PrioritiesOK(os', exec, u)
  BY NoAskers, ClosePriorities
<1>2. RankOK(os', exec, u) /\ SelectComes(os', exec, u)
  BY TheRanks, RankKept, SelectKept
<1> QED
  BY <1>1, <1>2, RankSteps

LEMMA AtEase ==
  ASSUME RankInv,
         stack[exec] = << >> \/ Top.fn \notin {"sleepcall", "promote", "propagate", "lock"}
  PROVE  AllFit(os, exec, NULL, NULL)
BY TheRanks, OpenPriorities DEF Top

(* The innermost call goes on with the calls cs.                           *)
LEMMA FitContinues ==
  ASSUME RankInv, LockInv', AllFit(os', exec, NULL, NULL),
         stack[exec] # << >>, Top.fn \notin {"promote", "wake"},
         NEW cs \in Seq(Frames), HasNo(cs, Askers), Continue(cs),
         Tamed(os', os, exec), os'.disable = os.disable,
         Outranked(os', exec) =>
           Ahead(cs) \/ (Outranked(os, exec) /\ Top.fn \notin {"select", "resched"})
  PROVE  RankInv'
<1> DEFINE s == stack[exec]
           r == Tail(s)
           u == cs \o r
<1>1. s \in Seq(Frames) /\ s # << >> /\ HasNo(r, Transient) /\ Head(s) = Top
  BY TheRanks, Untouched DEF Top
<1>2. stack' = [stack EXCEPT ![exec] = u] /\ exec' = exec
  BY DEF Continue
<1>3. NoWake(s)
  BY <1>1 DEF NoWake
<1> HIDE DEF s
<1>4. r \in Seq(Frames) /\ (Ahead(s) <=> Top.fn \in {"select", "resched"} \/ Ahead(r))
  BY <1>1, TopAndRest, AheadStacks
<1> HIDE DEF r
<1>5. u \in Seq(Frames) /\ \A fns : HasNo(u, fns) <=> HasNo(cs, fns) /\ HasNo(r, fns)
  BY <1>4, ConcatFrames, Positions
<1>6. HasNo(u, Askers) /\ (Ahead(u) <=> Ahead(cs) \/ Ahead(r))
  <2>1. HasNo(r, Askers)
    BY <1>1 DEF HasNo, Transient, Askers
  <2> QED
    BY <1>5, <2>1 DEF Ahead
<1> HIDE DEF u
<1>7. StaysAhead(os', os, exec, u, s)
  BY <1>4, <1>6 DEF StaysAhead
<1> QED
  BY <1>2, <1>3, <1>5, <1>6, <1>7, FitSteps DEF s

(* Guest code or the idle loop makes the calls cs.                         *)
LEMMA FitPushes ==
  ASSUME RankInv, LockInv', AllFit(os', exec, NULL, NULL), AtGuest \/ Inside("idle"),
         NEW cs \in Seq(Frames), HasNo(cs, Askers), Push(cs),
         Tamed(os', os, exec), os'.disable = os.disable,
         Outranked(os', exec) => Outranked(os, exec) \/ Ahead(cs)
  PROVE  RankInv'
<1> DEFINE s == stack[exec]
           u == cs \o s
<1>1. s \in Seq(Frames) /\ HasNo(s, Transient)
  BY TheRanks, NothingHalfDone
<1>2. stack' = [stack EXCEPT ![exec] = u] /\ exec' = exec
  BY DEF Push
<1>3. NoWake(s)
  BY InsideTop DEF NoWake, AtGuest, Top
<1> HIDE DEF s
<1>4. u \in Seq(Frames) /\ \A fns : HasNo(u, fns) <=> HasNo(cs, fns) /\ HasNo(s, fns)
  BY <1>1, ConcatFrames, Positions
<1>5. HasNo(u, Askers) /\ (Ahead(u) <=> Ahead(cs) \/ Ahead(s))
  <2>1. HasNo(s, Askers)
    BY <1>1 DEF HasNo, Transient, Askers
  <2> QED
    BY <1>4, <2>1 DEF Ahead
<1> HIDE DEF u
<1>6. StaysAhead(os', os, exec, u, s)
  BY <1>5 DEF StaysAhead
<1> QED
  BY <1>2, <1>3, <1>4, <1>5, <1>6, FitSteps DEF s

(* Where guest code or the idle loop goes on, the priorities fit.          *)
LEMMA GuestAtEase ==
  ASSUME RankInv, AtGuest \/ Inside("idle")
  PROVE  AllFit(os, exec, NULL, NULL)
<1>1. stack[exec] = << >> \/ Top.fn \in {"callback", "idle"}
  BY InsideTop DEF AtGuest
<1> QED
  BY <1>1, AtEase

LEMMA LevelKept ==
  ASSUME NEW k, NEW j, Level(j, k), NEW e, AllFit(k, e, NULL, NULL)
  PROVE  AllFit(j, e, NULL, NULL)
BY LevelFits

LEMMA NothingMoves ==
  ASSUME NEW k, NEW e
  PROVE  Level(k, k) /\ Tamed(k, k, e)
BY DEF Level, Tamed

(* The calls an action leaves, none of which asks for a priority.          *)
LEMMA CalmRankCalls ==
  /\ << >> \in Seq(Frames) /\ HasNo(<< >>, Askers) /\ ~Ahead(<< >>)
  /\ \A f \in Frames : f.fn \notin Askers =>
       /\ << f >> \in Seq(Frames) /\ HasNo(<< f >>, Askers)
       /\ Ahead(<< f >>) <=> f.fn \in {"select", "resched"}
  /\ \A f, g \in Frames : f.fn \notin Askers /\ g.fn \notin Askers =>
       /\ << f, g >> \in Seq(Frames) /\ HasNo(<< f, g >>, Askers)
       /\ Ahead(<< f, g >>) <=> f.fn \in {"select", "resched"} \/ g.fn \in {"select", "resched"}
<1>1. << >> \in Seq(Frames) /\ HasNo(<< >>, Askers) /\ ~Ahead(<< >>)
  BY DEF HasNo, Ahead
<1>2. ASSUME NEW f \in Frames, f.fn \notin Askers
      PROVE  /\ << f >> \in Seq(Frames) /\ HasNo(<< f >>, Askers)
             /\ Ahead(<< f >>) <=> f.fn \in {"select", "resched"}
  BY <1>2 DEF HasNo, Ahead
<1>3. ASSUME NEW f \in Frames, NEW g \in Frames, f.fn \notin Askers, g.fn \notin Askers
      PROVE  /\ << f, g >> \in Seq(Frames) /\ HasNo(<< f, g >>, Askers)
             /\ Ahead(<< f, g >>) <=> f.fn \in {"select", "resched"} \/ g.fn \in {"select", "resched"}
  BY <1>3 DEF HasNo, Ahead
<1> QED
  BY <1>1, <1>2, <1>3

-----------------------------------------------------------------------------
(* The actions, one by one.                                                *)

LEMMA SelectReturnsRank ==
  ASSUME RankInv, LockInv', SelectReturns
  PROVE  RankInv'
<1>1. stack[exec] # << >> /\ Top.fn = "select" /\ Continue(<< >>) /\ os' = os
  BY InsideTop DEF SelectReturns
<1>2. AllFit(os, exec, NULL, NULL)
  BY <1>1, AtEase
<1>3. ASSUME Outranked(os, exec) PROVE os.disable > 0
  <2>1. Live(os, exec, stack[exec])
    BY <1>3, TheRanks, TheFiber, IdleIsOutranked DEF ExecOK
  <2>2. os.running = exec /\ os.current = exec /\ exec # NULL
    BY <2>1, TheRanks, TheFiber DEF Live
  <2>3. CASE SelectRefused
    BY <2>2, <2>3 DEF SelectRefused
  <2>4. CASE ~SelectRefused
    <3>1. SelectKeeps
      BY <2>4 DEF SelectReturns
    <3>2. \A p \in os.pending : ~(p < os.prio[exec])
      <4>1. os.prio[exec] \in Nat /\ os.pending \subseteq Nat
        BY TheRanks, Pointers DEF OsMemory
      <4> QED
        BY <2>2, <3>1, <4>1 DEF SelectKeeps
    <3> QED
      BY <1>3, <3>2 DEF Outranked
  <2> QED
    BY <2>3, <2>4
<1> DEFINE r == Tail(stack[exec])
<1>4. /\ stack' = [stack EXCEPT ![exec] = r] /\ exec' = exec
      /\ r \in Seq(Frames) /\ HasNo(r, Transient)
  <2>1. r \in Seq(Frames) /\ HasNo(r, Transient)
    BY <1>1, TheRanks, TopAndRest, Untouched
  <2> QED
    BY <1>1, <2>1, ConcatEmptySeq DEF Continue
<1> HIDE DEF r
<1>5. PrioritiesOK(os', exec, r)
  <2>1. HasNo(r, Askers)
    BY <1>4 DEF HasNo, Transient, Askers
  <2> QED
    BY <1>1, <1>2, <1>4, <2>1, NoAskers, ClosePriorities
<1>6. RankOK(os', exec, r)
  <2>1. NoWake(stack[exec])
    BY <1>1 DEF NoWake, Top
  <2> QED
    BY <1>1, <2>1, TheRanks, NothingMoves, RankKept
<1>7. SelectComes(os', exec, r)
  <2>1. \A n \in Nat : n = 0 => ~(n > 0)
    OBVIOUS
  <2>2. os.disable \in Nat
    BY TheRanks DEF OsMemory
  <2> QED
    BY <1>1, <1>3, <2>1, <2>2, TheRanks DEF SelectComes
<1> QED
  BY <1>4, <1>5, <1>6, <1>7, RankSteps

LEMMA SelectIdlesRank ==
  ASSUME RankInv, LockInv', SelectIdles
  PROVE  RankInv'
<1>1. /\ stack[exec] # << >> /\ Top.fn = "select"
      /\ os' = [os EXCEPT !.running = NULL, !.current = Idle]
      /\ Continue(<< Frame("idle", NULL, 0) >>)
      /\ \A t \in Threads : os.state[t] # "RUNNING"
  <2>1. Preempted = os /\ \A t \in Threads : os.state[t] # "RUNNING"
    BY TheRanks, GivesUp DEF SelectIdles
  <2> QED
    BY <2>1, InsideTop DEF SelectIdles
<1>2. Level(os', os) /\ os'.disable = os.disable /\ ~Outranked(os', exec) /\ (Asked(os) => Asked(os'))
  BY <1>1, TheRanks DEF Level, OsMemory, In, Outranked, Asked
<1>3. AllFit(os', exec, NULL, NULL)
  BY <1>1, <1>2, AtEase, LevelKept
<1>4. Frame("idle", NULL, 0) \in Frames /\ Frame("idle", NULL, 0).fn = "idle"
  BY KernelCalls DEF FrameOK
<1>5. << Frame("idle", NULL, 0) >> \in Seq(Frames) /\ HasNo(<< Frame("idle", NULL, 0) >>, Askers)
  BY <1>4, CalmRankCalls DEF Askers
<1> QED
  BY <1>1, <1>2, <1>3, <1>5, FitContinues DEF Tamed

(* A call is made that asks for no priority, and nothing else happens.     *)
LEMMA CallRank ==
  ASSUME RankInv, LockInv', AtGuest \/ Inside("idle"), UNCHANGED os,
         NEW f \in Frames, f.fn \notin Askers, Push(<< f >>)
  PROVE  RankInv'
<1>1. AllFit(os', exec, NULL, NULL) /\ Tamed(os', os, exec)
  BY GuestAtEase, NothingMoves
<1>2. << f >> \in Seq(Frames) /\ HasNo(<< f >>, Askers)
  BY CalmRankCalls
<1> QED
  BY <1>1, <1>2, FitPushes

LEMMA IdleEventRank ==
  ASSUME RankInv, LockInv', NEW q \in HostQueues, IdleEvent(q)
  PROVE  RankInv'
<1>1. WakeCall(q) \in Frames /\ WakeCall(q).fn = "wake"
  BY SchedulerConstants, TheRanks, QueueCalls DEF Waitables, FrameOK
<1> QED
  BY <1>1, CallRank DEF IdleEvent, Askers

LEMMA WakeupThreadRank ==
  ASSUME RankInv, LockInv', NEW q \in WaitQueues, OSWakeupThread(q)
  PROVE  RankInv'
<1>1. WakeCall(q) \in Frames /\ WakeCall(q).fn = "wake"
  BY TheRanks, QueueCalls DEF Waitables, FrameOK
<1> QED
  BY <1>1, CallRank DEF OSWakeupThread, May, Askers

LEMMA LockMutexRank ==
  ASSUME RankInv, LockInv', NEW m \in Mutexes, OSLockMutex(m)
  PROVE  RankInv'
<1>1. Frame("lock", m, 0) \in Frames /\ Frame("lock", m, 0).fn = "lock"
  BY TheRanks, QueueCalls DEF Waitables, FrameOK
<1> QED
  BY <1>1, CallRank DEF OSLockMutex, May, Askers

LEMMA YieldThreadRank ==
  ASSUME RankInv, LockInv', OSYieldThread
  PROVE  RankInv'
<1>1. SelectCall(1) \in Frames /\ SelectCall(1).fn = "select"
  BY TheRanks, SelectCalls DEF FrameOK
<1> QED
  BY <1>1, CallRank DEF OSYieldThread, May, Askers

(* The sleep of a thread on a queue that is no mutex.                      *)
LEMMA SleepThreadRank ==
  ASSUME RankInv, LockInv', NEW q \in WaitQueues, OSSleepThread(q)
  PROVE  RankInv'
<1> DEFINE s == stack[exec]
           f == Frame("sleepcall", q, 0)
           u == << f >> \o s
<1>1. AtGuest /\ os' = os /\ stack' = [stack EXCEPT ![exec] = u] /\ exec' = exec
  BY DEF OSSleepThread, May, Push
<1>2. f \in Frames /\ f.fn = "sleepcall" /\ f.obj = q
  BY TheRanks, QueueCalls DEF Waitables, FrameOK, Frame
<1>3. q \notin Mutexes
  BY OsConstants
<1>4. s \in Seq(Frames) /\ NoWake(s)
  BY <1>1, TheRanks, InsideTop DEF NoWake, AtGuest, Top
<1> HIDE DEF s, f
<1>5. u # << >> /\ Head(u) = f /\ (Ahead(u) <=> Ahead(s))
  BY <1>2, <1>4, OneOnTop, AheadOnTop
<1>6. AllFit(os, exec, NULL, NULL)
  BY <1>1, GuestAtEase
<1>7. AllFit(os, exec, q, NULL)
  BY <1>3, <1>6, NobodyAsks DEF AllFit, Fits
<1> HIDE DEF u
<1>8. PrioritiesOK(os', exec, u)
  BY <1>1, <1>2, <1>5, <1>7, CloseSleep
<1>9. StaysAhead(os', os, exec, u, s)
  BY <1>1, <1>5 DEF StaysAhead
<1>10. RankOK(os', exec, u) /\ SelectComes(os', exec, u)
  BY <1>1, <1>4, <1>9, TheRanks, NothingMoves, RankKept, SelectKept DEF s
<1> QED
  BY <1>1, <1>8, <1>10, RankSteps

LEMMA ReschedTailRank ==
  ASSUME RankInv, LockInv', ReschedTail
  PROVE  RankInv'
<1> DEFINE cs == IF os.resched THEN << SelectCall(0) >> ELSE << >>
<1>1. stack[exec] # << >> /\ Top.fn = "resched" /\ Continue(cs) /\ os' = os
  BY InsideTop DEF ReschedTail
<1>2. AllFit(os', exec, NULL, NULL) /\ Tamed(os', os, exec)
  BY <1>1, AtEase, NothingMoves
<1>3. SelectCall(0) \in Frames /\ SelectCall(0).fn = "select"
  BY TheRanks, SelectCalls DEF FrameOK
<1>4. cs \in Seq(Frames) /\ HasNo(cs, Askers) /\ (Asked(os) => Ahead(cs))
  <2>1. CASE os.resched = TRUE
    BY <1>3, <2>1, CalmRankCalls DEF Askers
  <2>2. CASE os.resched = FALSE
    BY <2>2, CalmRankCalls DEF Asked
  <2> QED
    BY <2>1, <2>2, TheRanks DEF OsMemory
<1>5. Outranked(os, exec) => Asked(os)
  BY <1>1, TheRanks DEF RankOK, HandsOver, Top
<1> HIDE DEF cs
<1> QED
  BY <1>1, <1>2, <1>4, <1>5, FitContinues

LEMMA SleepReturnsRank ==
  ASSUME RankInv, LockInv', SleepReturns
  PROVE  RankInv'
<1>1. stack[exec] # << >> /\ Top.fn = "sleep" /\ Continue(<< >>)
  BY InsideTop DEF SleepReturns
<1>2. Top.arg = exec /\ os.state[exec] = "RUNNING"
  BY <1>1, TheRanks, TopOK, NotFromIdle DEF FrameOK, IdleCalls
<1>3. os' = os
  BY <1>2 DEF SleepReturns
<1>4. AllFit(os', exec, NULL, NULL) /\ Tamed(os', os, exec)
  BY <1>1, <1>3, AtEase, NothingMoves
<1> QED
  BY <1>1, <1>3, <1>4, CalmRankCalls, FitContinues

LEMMA TicksTailRank ==
  ASSUME RankInv, LockInv', TicksTail
  PROVE  RankInv'
<1>1. stack[exec] # << >> /\ Top.fn = "ticks" /\ Continue(<< >>)
  BY InsideTop DEF TicksTail
<1>2. os.susp[exec] = 0
  <2>1. os.state[exec] = "RUNNING" /\ ThreadOK(os, exec)
    BY <1>1, TheRanks, NotFromIdle DEF IdleCalls, MemoryOK
  <2> QED
    BY <2>1 DEF ThreadOK
<1>3. os' = os
  BY <1>2 DEF TicksTail
<1>4. AllFit(os', exec, NULL, NULL) /\ Tamed(os', os, exec)
  BY <1>1, <1>3, AtEase, NothingMoves
<1> QED
  BY <1>1, <1>3, <1>4, CalmRankCalls, FitContinues

(* Switching to another fiber: nothing pending is stronger than the thread *)
(* that is started.                                                        *)
LEMMA SwitchRank ==
  ASSUME RankInv, LockInv', stack[exec] # << >>, Top.fn \in {"select", "idle"},
         NEW k, MemoryOK(k), k.pending # {}, Steady(k, os), k.disable = os.disable, Dispatch(k)
  PROVE  RankInv'
<1> DEFINE p == Min(k.pending)
           x == Head(k.queue[p])
<1>1. os' = Started(k) /\ exec' = x
  BY DEF Dispatch, Started
<1>2. k.pending \subseteq Nat /\ p \in k.pending /\ \A n \in k.pending : p <= n
  <2>1. k.pending \in SUBSET Nat /\ k.pending # {}
    BY Pointers DEF MemoryOK, ListsOK, OsMemory
  <2> QED
    BY <2>1, LeastElement
<1>3. p \in Prios /\ p \in Queues /\ k.queue[p] # << >> /\ k.queue[p] \in Seq(Threads)
  BY <1>2 DEF MemoryOK, ListsOK, OsMemory, Queues
<1>4. x \in Threads /\ k.prio[x] = p /\ k.susp[x] = 0
  <2> HIDE DEF p
  <2>1. x \in Threads /\ x \in ToSet(k.queue[p])
    BY <1>3, PoppedList, HeadTailProperties
  <2>2. ThreadOK(k, x) /\ In(k, x, p)
    BY <2>1 DEF MemoryOK, In
  <2> QED
    BY <1>3, <2>1, <2>2 DEF ThreadOK
<1>5. Steady(os', os)
  BY <1>1, StartIsSteady, SteadyTransitive
<1>6. os'.disable = os.disable /\ os'.pending \subseteq k.pending /\ os'.prio = k.prio
  <2>1. k \in OsMemory
    BY DEF MemoryOK, ListsOK
  <2> QED
    BY <1>1, <2>1 DEF Started, OsMemory
<1> HIDE DEF x
<1>7. ~Outranked(os', x)
  <2>1. \A n \in os'.pending : ~(n < os'.prio[x])
    <3>1. os'.prio[x] = p /\ p \in Nat /\ \A n \in os'.pending : n \in Nat /\ p <= n
      BY <1>2, <1>4, <1>6
    <3> QED
      BY <3>1
  <2> QED
    BY <2>1 DEF Outranked
<1> HIDE DEF p
<1>8. Level(os', os)
  BY <1>5 DEF Steady, Level, In, Waitables, Queues
<1>9. AllFit(os', x, NULL, NULL)
  <2>1. AllFit(os, exec, NULL, NULL)
    BY AtEase
  <2> QED
    BY <1>8, <2>1, LevelFits
<1>10. HasNo(stack'[x], Askers) /\ stack'[x] \in Seq(Frames)
  <2>1. k.state[exec] # "NONE" /\ k.state[exec] # "MORIBUND"
    <3>1. LockInv
      BY TheRanks
    <3>2. k.state[exec] = os.state[exec] \/ k.state[exec] \in {"READY", "RUNNING"}
      BY TheRanks DEF Steady
    <3> QED
      BY <3>1, <3>2, TheLocks DEF MemoryOK, ThreadOK
  <2>2. stack' = [stack EXCEPT ![exec] = Tail(stack[exec])]
    BY <2>1 DEF Dispatch, ThreadStateIsTerminated
  <2>3. HasNo(Tail(stack[exec]), Transient) /\ Tail(stack[exec]) \in Seq(Frames)
    BY TheRanks, Untouched, TopAndRest
  <2>4. x # exec => HasNo(stack[x], Transient)
    BY <1>4, TheRanks DEF LockInv
  <2>5. HasNo(stack'[x], Transient) /\ stack'[x] \in Seq(Frames)
    BY <1>4, <2>2, <2>3, <2>4, TheRanks
  <2> QED
    BY <2>5 DEF HasNo, Transient, Askers
<1>11. PrioritiesOK(os', x, stack'[x])
  BY <1>9, <1>10, NoAskers, ClosePriorities
<1>12. RankOK(os', x, stack'[x]) /\ SelectComes(os', x, stack'[x])
  BY <1>6, <1>7, TheRanks DEF RankOK, SelectComes
<1> QED
  BY <1>1, <1>11, <1>12 DEF RankInv

LEMMA SelectSwitchesRank ==
  ASSUME RankInv, LockInv', SelectSwitches
  PROVE  RankInv'
<1> DEFINE k == Preempted
<1>1. MemoryOK(k) /\ k.disable = 0
  BY TheRanks, GivesUp DEF SelectSwitches
<1>2. stack[exec] # << >> /\ Top.fn = "select" /\ k.pending # {} /\ Dispatch(k)
  BY InsideTop DEF SelectSwitches
<1>3. Steady(k, os)
  BY TheRanks, PreemptedIsSteady DEF SelectSwitches
<1>4. k.disable = os.disable
  BY TheRanks DEF Preempted, MarkRunQueuePending, LinkThreadOnRunQueue, OsMemory
<1> HIDE DEF k
<1> QED
  BY <1>1, <1>2, <1>3, <1>4, SwitchRank

LEMMA IdleEndsRank ==
  ASSUME RankInv, LockInv', IdleEnds
  PROVE  RankInv'
<1>1. stack[exec] # << >> /\ Top.fn = "idle" /\ os.pending # {} /\ Dispatch(os)
  BY InsideTop DEF IdleEnds
<1>2. Steady(os, os) /\ MemoryOK(os)
  BY TheRanks DEF Steady
<1> QED
  BY <1>1, <1>2, SwitchRank

(* One turn of the loop of WakeupThreadQueue.                              *)
LEMMA WakeupQueueRank ==
  ASSUME RankInv, LockInv', WakeupThreadQueue
  PROVE  RankInv'
<1> DEFINE q == Top.obj
           s == stack[exec]
           r == Tail(s)
           f == [Top EXCEPT !.arg = IF WakeReschedules(os, q) THEN 1 ELSE @]
           x == Head(os.queue[q])
<1>1. /\ s # << >> /\ s \in Seq(Frames) /\ Head(s) = Top /\ Top.fn = "wake" /\ Top \in Frames
      /\ q \in Waitables /\ q \in Queues
      /\ q \in Mutexes => os.owner[q] = NULL
  <2>1. Inside("wake")
    BY DEF WakeupThreadQueue
  <2>2. s # << >> /\ Top.fn = "wake"
    BY <2>1, InsideTop
  <2>3. FrameOK(exec, Top) /\ Top \in Frames
    BY <2>2, TheRanks, TopOK
  <2>4. CallsOK(os, exec, s) /\ s \in Seq(Frames)
    BY TheRanks
  <2> QED
    BY <2>2, <2>3, <2>4 DEF FrameOK, Queues, CallsOK, Top
<1>2. r \in Seq(Frames) /\ HasNo(r, Transient) /\ HasNo(r, Askers) /\ (Ahead(s) <=> Ahead(r))
  <2>1. r \in Seq(Frames) /\ HasNo(r, Transient)
    BY <1>1, TheRanks, Untouched, TopAndRest
  <2>2. HasNo(r, Askers)
    BY <2>1 DEF HasNo, Transient, Askers
  <2> QED
    BY <1>1, <2>1, <2>2, AheadStacks
<1>3. AllFit(os, exec, NULL, NULL)
  BY <1>1, AtEase
<1>4. /\ Outranked(os, exec) => Asked(os) \/ HandsOver(os, s)
      /\ "callback" \notin Calls => os.disable = 0
      /\ "callback" \notin Calls /\ Outranked(os, exec) => Ahead(r) \/ Top.arg = 1 \/ HandsOver(os, s)
  BY <1>1, <1>2, TheRanks DEF RankOK, SelectComes, Ahead
<1>5. CASE os.queue[q] # << >>
  <2>1. /\ os' = WakeHead(os, q) /\ stack' = [stack EXCEPT ![exec] = << f >> \o r] /\ exec' = exec
    BY <1>5 DEF WakeupThreadQueue, Continue
  <2>2. x \in Threads /\ In(os, x, q) /\ os.state[x] = "WAITING"
    BY <1>1, <1>5, TheRanks, WakeHeadEffect
  <2>3. WakeReschedules(os, q) <=> os.susp[x] = 0
    BY <1>1, <1>5, TheRanks, WakeHeadEffect
  <2>4. Woken(os', os, q, x)
    BY <1>1, <1>5, <2>1, TheRanks, WakeHeadEffect
  <2>5. os'.disable = os.disable
    BY <1>1, <1>5, <2>1, TheRanks, WakeHeadOK DEF Calm
  <2>6. /\ f \in Frames /\ f.fn = "wake" /\ (os.susp[x] = 0 => f.arg = 1)
        /\ Top.arg = 1 => f.arg = 1
    BY <1>1, <2>3, SmallNumbers DEF Frames
  <2>7. HandsOver(os, s) => os.susp[x] = 0
    BY <1>1 DEF HandsOver
  <2> DEFINE u == << f >> \o r
  <2> HIDE DEF f, q, x, r, s
  <2>8. u \in Seq(Frames) /\ u # << >> /\ Head(u) = f /\ HasNo(u, Askers) /\ (Ahead(u) <=> Ahead(r))
    BY <1>2, <2>6, OneOnTop, AheadOnTop DEF Askers
  <2> HIDE DEF u
  <2>9. Level(os', os)
    BY <1>1, <2>4, OsConstants DEF Woken, Level, Waitables
  <2>10. PrioritiesOK(os', exec, u)
    BY <1>3, <2>8, <2>9, LevelKept, NoAskers, ClosePriorities
  <2>11. os.susp[x] # 0 => (Outranked(os', exec) => Outranked(os, exec)) /\ (Asked(os') <=> Asked(os))
    <3>1. os'.state[exec] = "RUNNING" => os.state[exec] = "RUNNING"
      BY <2>2, <2>4, TheRanks DEF Woken, OsMemory
    <3> QED
      BY <2>4, <3>1 DEF Woken, Outranked
  <2>12. os.susp[x] = 0 => Asked(os')
    BY <2>4 DEF Woken
  <2>13. RankOK(os', exec, u)
    BY <1>4, <2>7, <2>11, <2>12 DEF RankOK
  <2>14. SelectComes(os', exec, u)
    BY <1>4, <2>5, <2>6, <2>7, <2>8, <2>11 DEF SelectComes, Ahead
  <2> QED
    BY <2>1, <2>10, <2>13, <2>14, RankSteps DEF u
<1>6. CASE os.queue[q] = << >>
  <2> DEFINE cs == IF Top.arg = 1 THEN << SelectCall(0) >> ELSE << >>
             u  == cs \o r
  <2>1. os' = os /\ stack' = [stack EXCEPT ![exec] = u] /\ exec' = exec
    BY <1>6 DEF WakeupThreadQueue, Continue
  <2>2. ~HandsOver(os, s)
    BY <1>1, <1>6 DEF HandsOver
  <2>3. SelectCall(0) \in Frames /\ SelectCall(0).fn = "select"
    BY TheRanks, SelectCalls DEF FrameOK
  <2>4. cs \in Seq(Frames) /\ HasNo(cs, Askers) /\ (Top.arg = 1 => Ahead(cs))
    BY <2>3, CalmRankCalls DEF Askers
  <2> HIDE DEF cs, r, s, q
  <2>5. u \in Seq(Frames) /\ HasNo(u, Askers) /\ (Ahead(u) <=> Ahead(cs) \/ Ahead(r))
    BY <1>2, <2>4, ConcatFrames, Positions DEF Ahead
  <2> HIDE DEF u
  <2>6. PrioritiesOK(os', exec, u)
    BY <1>3, <2>1, <2>5, NoAskers, ClosePriorities
  <2>7. RankOK(os', exec, u) /\ SelectComes(os', exec, u)
    BY <1>4, <2>1, <2>2, <2>4, <2>5 DEF RankOK, SelectComes, Ahead
  <2> QED
    BY <2>1, <2>6, <2>7, RankSteps
<1> QED
  BY <1>5, <1>6

-----------------------------------------------------------------------------
(* What a lock does to the claims.                                         *)

(* The running thread x goes to sleep on the queue it asked for.           *)
LEMMA SleptFits ==
  ASSUME NEW k, NEW j, NEW q \in Waitables, NEW x \in Threads, Slept(j, k, q, x),
         AllFit(k, x, q, NULL)
  PROVE  AllFit(j, x, NULL, NULL)
<1> SUFFICES ASSUME NEW t \in Threads, j.susp[t] = 0 PROVE Fits(j, x, NULL, t)
  BY DEF AllFit
<1>1. t # NULL /\ NULL \notin Mutexes /\ Mutexes \subseteq Waitables
  BY Pointers DEF Queues, Waitables
<1>2. ASSUME NEW u \in Threads, NEW m \in Mutexes
      PROVE  Waits(j, x, NULL, u, m) <=> Waits(k, x, q, u, m)
  BY <1>1 DEF Waits, Slept
<1>3. Claims(j, x, NULL, t) = Claims(k, x, q, t)
  <2>1. j.base[t] = k.base[t] /\ j.owner = k.owner /\ j.prio = k.prio
    BY DEF Slept
  <2> QED
    BY <1>2, <2>1, SameClaims
<1> QED
  BY <1>1, <1>3 DEF AllFit, Fits, Slept

(* A request of e for mutex m of o adds the priority of e to what o's      *)
(* priority has to be the least of, and changes nothing else.              *)
LEMMA RequestClaims ==
  ASSUME NEW k, NEW e \in Threads, NEW m \in Mutexes, NEW o, o = k.owner[m],
         NEW t \in Threads
  PROVE  /\ t # o => Claims(k, e, m, t) = Claims(k, e, NULL, t)
         /\ t = o => Claims(k, e, m, t) = Claims(k, e, NULL, t) \cup {k.prio[e]}
<1>1. NULL \notin Mutexes
  BY Pointers DEF Queues, Waitables
<1>2. ASSUME t # o PROVE Claims(k, e, m, t) = Claims(k, e, NULL, t)
  <2>1. ASSUME NEW u \in Threads, NEW n \in Mutexes, k.owner[n] = t
        PROVE  Waits(k, e, m, u, n) <=> Waits(k, e, NULL, u, n)
    BY <1>1, <1>2, <2>1 DEF Waits
  <2> QED
    BY <2>1 DEF Claims
<1>3. ASSUME t = o PROVE Claims(k, e, m, t) = Claims(k, e, NULL, t) \cup {k.prio[e]}
  <2> DEFINE W(a) == {u \in Threads : \E n \in Mutexes : k.owner[n] = t /\ Waits(k, e, a, u, n)}
  <2>1. W(m) = W(NULL) \cup {e}
    BY <1>1, <1>3 DEF Waits
  <2>2. \A a : Claims(k, e, a, t) = {k.base[t]} \cup {k.prio[w] : w \in W(a)}
    BY DEF Claims
  <2> HIDE DEF W
  <2> QED
    BY <2>1, <2>2
<1> QED
  BY <1>2, <1>3

(* The sleep of a lock was refused.                                        *)
LEMMA RefusedFits ==
  ASSUME NEW k, NEW e \in Threads, NEW m \in Mutexes, NEW o, o = k.owner[m],
         AllFit(k, e, m, NULL)
  PROVE  /\ AllFit(k, e, NULL, o)
         /\ o \in Threads /\ k.susp[o] = 0 =>
              /\ k.prio[o] \in Claims(k, e, NULL, o) \cup {k.prio[e]}
              /\ Lower(Claims(k, e, NULL, o), k.prio[o])
<1>1. \A t \in Threads : t # NULL
  BY Pointers
<1>2. AllFit(k, e, NULL, o)
  BY <1>1, RequestClaims DEF AllFit, Fits
<1>3. ASSUME o \in Threads, k.susp[o] = 0
      PROVE  /\ k.prio[o] \in Claims(k, e, NULL, o) \cup {k.prio[e]}
             /\ Lower(Claims(k, e, NULL, o), k.prio[o])
  <2>1. Least(Claims(k, e, m, o), k.prio[o])
    BY <1>1, <1>3 DEF AllFit, Fits
  <2>2. Claims(k, e, m, o) = Claims(k, e, NULL, o) \cup {k.prio[e]}
    BY <1>3, RequestClaims
  <2> QED
    BY <2>1, <2>2 DEF Least, Lower
<1> QED
  BY <1>2, <1>3

(* A lock asks the owner o of m for its priority.                          *)
LEMMA AskedFits ==
  ASSUME NEW k \in OsMemory, NEW e \in Threads, NEW m \in Mutexes, NEW o, o = k.owner[m],
         AllFit(k, e, NULL, o),
         o \in Threads /\ k.susp[o] = 0 =>
           /\ k.prio[o] \in Claims(k, e, NULL, o) \cup {k.prio[e]}
           /\ Lower(Claims(k, e, NULL, o), k.prio[o])
  PROVE  /\ AllFit(k, e, m, o)
         /\ o \in Threads /\ k.susp[o] = 0 =>
              Least(Claims(k, e, m, o), Promoted(k, o, k.prio[e]))
<1>1. AllFit(k, e, m, o)
  BY RequestClaims DEF AllFit, Fits
<1>2. ASSUME o \in Threads, k.susp[o] = 0
      PROVE  Least(Claims(k, e, m, o), Promoted(k, o, k.prio[e]))
  <2> DEFINE C == Claims(k, e, NULL, o)
             n == k.prio[o]
             p == k.prio[e]
  <2>1. Claims(k, e, m, o) = C \cup {p}
    BY <1>2, RequestClaims
  <2>2. n \in C \cup {p} /\ Lower(C, n)
    BY <1>2
  <2>3. n \in Nat /\ p \in Nat /\ C \subseteq Nat
    <3>1. \A u \in Threads : k.prio[u] \in Nat /\ k.base[u] \in Nat
      BY Pointers DEF OsMemory
    <3> QED
      BY <1>2, <3>1 DEF Claims
  <2> HIDE DEF C, n, p
  <2>4. Promoted(k, o, k.prio[e]) = IF n <= p THEN n ELSE p
    BY DEF Promoted, n, p
  <2>5. CASE n <= p
    BY <2>1, <2>2, <2>3, <2>4, <2>5 DEF Least, Lower
  <2>6. CASE ~(n <= p)
    <3>1. \A c \in C : p <= c
      BY <2>2, <2>3, <2>6 DEF Lower
    <3>2. Least(C \cup {p}, p)
      BY <2>3, <3>1 DEF Least, Lower
    <3>3. Promoted(k, o, k.prio[e]) = p
      BY <2>4, <2>6
    <3> QED
      BY <2>1, <3>2, <3>3
  <2> QED
    BY <2>5, <2>6
<1> QED
  BY <1>1, <1>2

(* A lock that is taken comes with no waiters.                             *)
Takes(j, k, m, x) ==
  /\ j.base = k.base /\ j.prio = k.prio /\ j.queue = k.queue /\ j.susp = k.susp
  /\ \A n \in Mutexes \ {m} : j.owner[n] = k.owner[n]
  /\ j.owner[m] = x
  /\ k.owner[m] = x \/ (k.owner[m] = NULL /\ \A u \in Threads : ~In(k, u, m))

LEMMA AcquiredFits ==
  ASSUME NEW k, NEW j, NEW m \in Mutexes, NEW x \in Threads, NEW e, Takes(j, k, m, x),
         AllFit(k, e, NULL, NULL)
  PROVE  AllFit(j, e, NULL, NULL)
<1> SUFFICES ASSUME NEW t \in Threads, j.susp[t] = 0 PROVE Fits(j, e, NULL, t)
  BY DEF AllFit
<1>1. t # NULL /\ NULL \notin Mutexes
  BY Pointers DEF Queues, Waitables
<1>2. ASSUME NEW u \in Threads, NEW n \in Mutexes
      PROVE  (j.owner[n] = t /\ Waits(j, e, NULL, u, n)) <=> (k.owner[n] = t /\ Waits(k, e, NULL, u, n))
  BY <1>1 DEF Waits, In, Takes
<1>3. Claims(j, e, NULL, t) = Claims(k, e, NULL, t)
  BY <1>2 DEF Claims, Takes
<1> QED
  BY <1>1, <1>3 DEF AllFit, Fits, Takes

(* The body of OSSleepThread up to the switch.                             *)
LEMMA SleepBeginsRank ==
  ASSUME RankInv, LockInv', SleepBegins
  PROVE  RankInv'
<1> DEFINE s == stack[exec]
           r == Tail(s)
           q == Top.obj
<1>1. /\ s # << >> /\ Top.fn = "sleepcall" /\ q \in Waitables
      /\ s \in Seq(Frames) /\ Top = Head(s) /\ Head(s).fn = "sleepcall"
  BY TheRanks, InsideTop, TopOK DEF SleepBegins, FrameOK, Top
<1>2. CallsOK(os, exec, s) /\ NoWake(s) /\ HasNo(r, Transient)
  BY <1>1, TheRanks, Untouched DEF NoWake
<1>3. os.state[exec] = "RUNNING" /\ os.running = exec /\ os.running # NULL
  BY <1>1, TheRanks, TheFiber, NotFromIdle DEF IdleCalls
<1>4. q # Dwc
  BY <1>1, TheRanks DEF Queues
<1>5. AllFit(os, exec, q, NULL)
  BY <1>1, TheRanks, OpenSleep
<1>6. CASE os.disable > 0
  <2>1. os' = os /\ stack' = [stack EXCEPT ![exec] = << >> \o r] /\ exec' = exec
    BY <1>3, <1>4, <1>6, TheRanks DEF SleepBegins, Continue
  <2> HIDE DEF s, q
  <2>2. r \in Seq(Frames)
    BY <1>1, TopAndRest
  <2>3. << >> \o r = r
    BY <2>2, ConcatEmptySeq
  <2>4. "callback" \in Calls
    <3>1. os.disable = 0 => ~(os.disable > 0)
      BY TheRanks DEF OsMemory
    <3> QED
      BY <1>6, <3>1, TheRanks DEF SelectComes
  <2>5. RankOK(os', exec, r) /\ SelectComes(os', exec, r)
    BY <1>2, <2>1, <2>4, TheRanks, NothingMoves, RankKept DEF SelectComes, s
  <2>6. PrioritiesOK(os', exec, r)
    <3>1. CASE q \in Mutexes
      <4> DEFINE o == os.owner[q]
      <4>1. r # << >> /\ Head(r).fn = "lock" /\ Head(r).obj = q /\ o # exec
        BY <1>1, <1>2, <3>1 DEF CallsOK, Requests, q
      <4>2. o = os.owner[q]
        OBVIOUS
      <4> HIDE DEF o
      <4>3. AllFit(os, exec, NULL, o)
        BY <1>5, <3>1, <4>2, TheRanks, RefusedFits
      <4>4. o \in Threads /\ os.susp[o] = 0 =>
              /\ os.prio[o] \in Claims(os, exec, NULL, o) \cup {os.prio[exec]}
              /\ Lower(Claims(os, exec, NULL, o), os.prio[o])
        BY <1>5, <3>1, <4>2, TheRanks, RefusedFits
      <4>5. o = os.owner[Head(r).obj]
        BY <4>1, <4>2
      <4> QED
        BY <2>1, <4>1, <4>3, <4>4, <4>5, CloseLock
    <3>2. CASE q \notin Mutexes
      <4>1. AllFit(os, exec, NULL, NULL)
        BY <1>5, <3>2, NobodyAsks DEF AllFit, Fits
      <4>2. HasNo(r, Askers)
        BY <1>2 DEF HasNo, Transient, Askers
      <4> QED
        BY <2>1, <2>2, <4>1, <4>2, NoAskers, ClosePriorities
    <3> QED
      BY <3>1, <3>2
  <2> QED
    BY <2>1, <2>3, <2>5, <2>6, RankSteps
<1>7. CASE ~(os.disable > 0)
  <2> DEFINE f == SelectCall(0)
             g == Frame("sleep", q, exec)
             w == [os EXCEPT !.state[exec] = "WAITING", !.resched = TRUE]
             u == << f, g >> \o r
  <2>1. /\ os' = InsertThreadIntoQueueByPriority(w, q, exec, os.prio[exec])
        /\ stack' = [stack EXCEPT ![exec] = u] /\ exec' = exec
    BY <1>3, <1>7, TheRanks DEF SleepBegins, Continue
  <2>2. f \in Frames /\ f.fn = "select" /\ g \in Frames /\ g.fn = "sleep"
    BY <1>1, SelectCalls, QueueCalls, TheRanks DEF FrameOK
  <2> HIDE DEF f, g, s, q
  <2>3. r \in Seq(Frames)
    BY <1>1, TopAndRest
  <2> HIDE DEF r
  <2>4. u \in Seq(Frames) /\ HasNo(u, Askers)
    <3>1. HasNo(r, Askers)
      BY <1>2 DEF HasNo, Transient, Askers
    <3>2. f.fn \notin Askers /\ g.fn \notin Askers
      BY <2>2 DEF Askers
    <3>3. u \in Seq(Frames)
      BY <2>2, <2>3, TwoOnTop
    <3>4. HasNo(u, Askers) <=> f.fn \notin Askers /\ g.fn \notin Askers /\ HasNo(r, Askers)
      BY <2>2, <2>3, TwoOnTop
    <3> QED
      BY <3>1, <3>2, <3>3, <3>4
  <2> HIDE DEF u
  <2>5. Slept(os', os, q, exec)
    BY <1>1, <1>3, <2>1, TheRanks, SleepEffect
  <2>6. os'.disable = os.disable
    BY <2>1, TheRanks DEF InsertThreadIntoQueueByPriority, OsMemory
  <2>7. AllFit(os', exec, NULL, NULL)
    BY <1>1, <1>5, <2>5, TheRanks, SleptFits
  <2>8. ~Outranked(os', exec)
    BY <2>5, TheRanks DEF Slept, OsMemory, Outranked
  <2>9. RankOK(os', exec, u) /\ SelectComes(os', exec, u)
    BY <2>6, <2>8, TheRanks DEF RankOK, SelectComes
  <2>10. PrioritiesOK(os', exec, u)
    BY <2>4, <2>7, NoAskers, ClosePriorities
  <2> QED
    BY <2>1, <2>9, <2>10, RankSteps DEF u
<1> QED
  BY <1>6, <1>7

(* One turn of the loop of OSLockMutex.                                    *)
LEMMA LockTurnRank ==
  ASSUME RankInv, LockInv', LockTurn
  PROVE  RankInv'
<1> DEFINE s == stack[exec]
           r == Tail(s)
           c == Top
           m == c.obj
           o == os.owner[m]
           k == [os EXCEPT !.waitsOn[exec] = NULL]
<1>1. /\ s # << >> /\ c.fn = "lock" /\ m \in Mutexes /\ c \in Frames
      /\ s \in Seq(Frames) /\ c = Head(s) /\ Head(s).fn = "lock" /\ Head(s).obj = m
  BY TheRanks, InsideTop, TopOK DEF LockTurn, FrameOK, Top
<1>2. LockInv /\ NoWake(s) /\ HasNo(r, Transient) /\ Owned(os)
  BY <1>1, TheRanks, Untouched DEF NoWake
<1>3. os.state[exec] = "RUNNING"
  BY <1>1, TheRanks, NotFromIdle DEF IdleCalls
<1>4. o \in Threads \cup {NULL} /\ o = os.owner[m]
  BY <1>1, TheRanks DEF OsMemory
<1>5. \A t \in Threads : os.susp[t] = 0 =>
        /\ Fits(os, exec, NULL, t) \/ (t = o /\ t # exec)
        /\ os.prio[t] \in Claims(os, exec, NULL, t) \cup {os.prio[exec]}
        /\ Lower(Claims(os, exec, NULL, t), os.prio[t])
  BY <1>1, TheRanks, OpenLock
<1>6. CASE o \in {NULL, exec}
  <2>1. os' = Acquire(k, m, exec) /\ stack' = [stack EXCEPT ![exec] = << >> \o r] /\ exec' = exec
    BY <1>6 DEF LockTurn, Continue
  <2>2. Points(k, NULL)
    <3>1. NULL \in Mutexes \cup {NULL}
      OBVIOUS
    <3> QED
      BY <1>2, <3>1, PointsEffect
  <2>3. k.disable = os.disable
    BY <2>2 DEF Points
  <2> HIDE DEF k, m, s, c, o
  <2>4. r \in Seq(Frames) /\ (Ahead(s) <=> Ahead(r))
    BY <1>1, TopAndRest, AheadStacks
  <2> HIDE DEF r
  <2>5. << >> \o r = r
    BY <2>4, ConcatEmptySeq
  <2>6. Acquired(os', k, m, exec)
    <3>1. k.owner[m] \in {NULL, exec} /\ k.state[exec] # "NONE" /\ k \in OsMemory /\ HoldersOK(k)
      BY <1>3, <1>4, <1>6, <2>2 DEF Points
    <3> QED
      BY <1>1, <2>1, <3>1, TheRanks, AcquireEffect
  <2>7. /\ os'.queue = os.queue /\ os'.state = os.state /\ os'.susp = os.susp
        /\ os'.prio = os.prio /\ os'.base = os.base /\ os'.pending = os.pending
        /\ os'.owner = [os.owner EXCEPT ![m] = exec]
        /\ Asked(os') <=> Asked(os)
    BY <2>2, <2>6 DEF Points, Acquired
  <2>8. os'.disable = os.disable
    BY <2>1, <2>2, <2>3 DEF Acquire, Points, OsMemory
  <2>9. AllFit(os', exec, NULL, NULL)
    <3>1. AllFit(os, exec, NULL, NULL)
      BY <1>5, <1>6, Pointers DEF AllFit
    <3>2. os.owner[m] = exec \/ (os.owner[m] = NULL /\ \A u \in Threads : ~In(os, u, m))
      <4>1. ASSUME os.owner[m] = NULL PROVE \A u \in Threads : ~In(os, u, m)
        <5>1. os.queue[m] = << >> /\ m \in Queues
          BY <1>1, <1>2, <4>1 DEF Owned, Queues, Waitables
        <5> QED
          BY <5>1, TheRanks, SomeoneIn
      <4> QED
        BY <1>4, <1>6, <4>1
    <3>3. os'.owner[m] = exec /\ \A n \in Mutexes \ {m} : os'.owner[n] = os.owner[n]
      BY <1>1, <2>7, TheRanks DEF OsMemory
    <3>4. Takes(os', os, m, exec)
      BY <2>7, <3>2, <3>3 DEF Takes
    <3> QED
      BY <1>1, <3>1, <3>4, TheRanks, AcquiredFits
  <2>10. HasNo(r, Askers)
    BY <1>2 DEF HasNo, Transient, Askers
  <2>11. PrioritiesOK(os', exec, r)
    BY <2>4, <2>9, <2>10, NoAskers, ClosePriorities
  <2>12. Tamed(os', os, exec) /\ (Outranked(os', exec) => Outranked(os, exec))
    BY <2>7 DEF Tamed, Outranked
  <2>13. RankOK(os', exec, r) /\ SelectComes(os', exec, r)
    <3>1. StaysAhead(os', os, exec, r, s)
      BY <2>4, <2>8, <2>12 DEF StaysAhead
    <3> QED
      BY <1>2, <2>12, <3>1, TheRanks, RankKept, SelectKept DEF s
  <2> QED
    BY <2>1, <2>5, <2>11, <2>13, RankSteps
<1>7. CASE o \notin {NULL, exec}
  <2> DEFINE a == Frame("promote", o, os.prio[exec])
             b == Frame("sleepcall", m, 0)
             v == << b, c >> \o r
             u == << a, b, c >> \o r
  <2>1. os' = [os EXCEPT !.waitsOn[exec] = m] /\ stack' = [stack EXCEPT ![exec] = u] /\ exec' = exec
    <3>1. os' = [k EXCEPT !.waitsOn[exec] = m]
      BY <1>7 DEF LockTurn
    <3>2. [k EXCEPT !.waitsOn[exec] = m] = [os EXCEPT !.waitsOn[exec] = m]
      BY TheRanks DEF OsMemory
    <3> QED
      BY <1>7, <3>1, <3>2 DEF LockTurn, Continue
  <2>2. Points(os', m)
    <3> HIDE DEF c, r, o
    <3>1. Points([os EXCEPT !.waitsOn[exec] = m], m)
      BY <1>1, <1>2, PointsEffect
    <3> QED
      BY <2>1, <3>1
  <2>3. a \in Frames /\ a.fn = "promote" /\ a.arg = os.prio[exec] /\ a.obj = o
    <3>1. os.prio[exec] \in Prios \cup {SuspendedWaitPriority}
      BY TheRanks DEF OsMemory
    <3>2. os.prio[exec] \in 0 .. MaxPrio + 1
      BY <3>1, OsConstants DEF Prios, SuspendedWaitPriority
    <3> HIDE DEF o
    <3> QED
      BY <1>4, <3>2, OwnerCalls DEF FrameOK, Frame
  <2>4. b \in Frames /\ b.fn = "sleepcall" /\ b.obj = m
    <3>1. m \in Waitables
      BY <1>1 DEF Waitables
    <3> QED
      BY <3>1, TheRanks, QueueCalls DEF FrameOK, Frame
  <2> HIDE DEF k, c, a, b, m, s, o
  <2>5. r \in Seq(Frames) /\ (Ahead(s) <=> Ahead(r))
    BY <1>1, TopAndRest, AheadStacks
  <2> HIDE DEF r
  <2>6. v \in Seq(Frames) /\ Head(v) = b /\ (Ahead(v) <=> Ahead(r))
    <3>1. b.fn \notin {"select", "resched"} /\ c.fn \notin {"select", "resched"}
      BY <1>1, <2>4
    <3>2. Head(v) = b
      BY <1>1, <2>4, <2>5, TwoOnTop
    <3>3. v \in Seq(Frames)
      BY <1>1, <2>4, <2>5, TwoOnTop
    <3> QED
      BY <1>1, <2>4, <2>5, <3>1, <3>2, <3>3, AheadOnTop
  <2>7. u = << a >> \o v
    <3>1. a \in Frames /\ b \in Frames /\ c \in Frames /\ r \in Seq(Frames)
      BY <1>1, <2>3, <2>4, <2>5
    <3>2. u = << a >> \o (<< b, c >> \o r)
      <4> HIDE DEF v
      <4> QED
        BY <3>1, ThreeOnTop
    <3> QED
      BY <3>2
  <2> HIDE DEF v, u
  <2>8. /\ u # << >> /\ Head(u) = a /\ Tail(u) = v
        /\ Ahead(u) <=> Ahead(s)
    <3>1. u # << >> /\ Head(u) = a /\ Tail(u) = v
      BY <2>3, <2>6, <2>7, OneOnTop
    <3> QED
      BY <2>3, <2>5, <2>6, <2>7, <3>1, AheadOnTop
  <2>9. AllFit(os, exec, m, o)
    BY <1>1, <1>4, <1>5, TheRanks, AskedFits DEF AllFit
  <2>10. o \in Threads /\ os.susp[o] = 0 =>
           Least(Claims(os, exec, m, o), Promoted(os, o, os.prio[exec]))
    <3>1. AllFit(os, exec, NULL, o)
      BY <1>5 DEF AllFit
    <3> QED
      BY <1>1, <1>4, <1>5, <3>1, TheRanks, AskedFits
  <2>11. /\ os'.queue = os.queue /\ os'.state = os.state /\ os'.susp = os.susp
         /\ os'.prio = os.prio /\ os'.base = os.base /\ os'.pending = os.pending
         /\ os'.owner = os.owner /\ os'.disable = os.disable
         /\ Asked(os') <=> Asked(os)
    BY <2>2 DEF Points
  <2>12. PrioritiesOK(os', exec, u)
    <3>1. \A t : Claims(os', exec, m, t) = Claims(os, exec, m, t)
      BY <2>11 DEF Claims, Waits, In
    <3>2. AllFit(os', exec, m, o)
      BY <2>9, <2>11, <3>1 DEF AllFit, Fits
    <3>3. o \in Threads /\ os'.susp[o] = 0 =>
            /\ os'.state[o] # "NONE"
            /\ Least(Claims(os', exec, m, o), Promoted(os', o, os.prio[exec]))
      <4>1. o \in Threads => os.state[o] # "NONE"
        BY <1>1, <1>4, <1>7, TheRanks DEF HoldersOK
      <4> QED
        BY <2>10, <2>11, <3>1, <4>1 DEF Promoted
    <3>4. Head(u).fn = "promote" /\ m = Head(Tail(u)).obj /\ o = Head(u).obj
          /\ os.prio[exec] = Head(u).arg
      BY <2>3, <2>4, <2>6, <2>8
    <3> QED
      BY <2>8, <3>2, <3>3, <3>4, ClosePromotion
  <2>13. Tamed(os', os, exec) /\ (Outranked(os', exec) => Outranked(os, exec))
    BY <2>11 DEF Tamed, Outranked
  <2>14. RankOK(os', exec, u) /\ SelectComes(os', exec, u)
    <3>1. StaysAhead(os', os, exec, u, s)
      BY <2>8, <2>11, <2>13 DEF StaysAhead
    <3> QED
      BY <1>2, <2>13, <3>1, TheRanks, RankKept, SelectKept DEF s
  <2> QED
    BY <2>1, <2>12, <2>14, RankSteps DEF u
<1> QED
  BY <1>6, <1>7

-----------------------------------------------------------------------------
(* A promotion or propagation makes a turn.                                *)

LEMMA AdjustedMoves ==
  ASSUME NEW k \in OsMemory, NEW j, NEW x \in Threads, NEW p, Adjusted(j, k, x, p)
  PROVE  /\ Moved(j, k, x) /\ j.susp = k.susp /\ j.owner = k.owner /\ j.state = k.state
         /\ k.state[x] # "NONE" => j.prio[x] = p
         /\ k.state[x] = "NONE" => j.prio[x] = k.prio[x]
         /\ \A t \in Threads \ {x} : j.prio[t] = k.prio[t]
<1>1. k.prio \in [Threads -> Prios \cup {SuspendedWaitPriority}]
  BY DEF OsMemory
<1>2. \A t \in Threads \ {x} : j.prio[t] = k.prio[t]
  BY <1>1 DEF Adjusted
<1>3. Moved(j, k, x)
  BY <1>2 DEF Moved, Adjusted, SameLocks, Waitables
<1> QED
  BY <1>1, <1>2, <1>3 DEF Adjusted, SameLocks

(* Whoever x asks next is the only one whose claims x changes.             *)
LEMMA NextIsAsked ==
  ASSUME NEW k, MemoryOK(k), LocksOK(k), NEW x \in Threads, NEW e, NEW a,
         x # e \/ a \notin Mutexes, NEW o, o = NextOwner(k, x) \/ o = MutexOwner(k, x)
  PROVE  WaitsFor(k, e, a, x, o)
<1> SUFFICES ASSUME NEW m \in Mutexes, Waits(k, e, a, x, m) PROVE k.owner[m] = o
  BY DEF WaitsFor
<1>1. In(k, x, m)
  BY DEF Waits
<1> QED
  BY <1>1, WaitsForOne

(* The strength p goes from x to the owner o of the mutex x waits for.     *)
LEMMA PassedOn ==
  ASSUME NEW k \in OsMemory, NEW j, NEW e, NEW a, NEW x \in Threads, NEW o \in Threads,
         NEW p \in Nat, Moved(j, k, x), j.prio[x] = p, p < k.prio[x],
         NEW m \in Mutexes, k.owner[m] = o, In(k, x, m),
         o # x => Least(Claims(k, e, a, o), k.prio[o]),
         o = x => Least(Claims(k, e, a, x), p)
  PROVE  Least(Claims(j, e, a, o), Promoted(j, o, p))
<1> DEFINE W(u) == \E n \in Mutexes : k.owner[n] = o /\ Waits(k, e, a, u, n)
<1>1. \A u \in Threads : W(u) <=> \E n \in Mutexes : j.owner[n] = o /\ Waits(j, e, a, u, n)
  BY DEF Moved, Waits
<1>2. /\ k.base[o] \in Nat /\ \A u \in Threads : k.prio[u] \in Nat
      /\ j.base = k.base /\ \A u \in Threads : u # x => j.prio[u] = k.prio[u]
  BY Pointers DEF OsMemory, Moved
<1>3. W(x)
  BY DEF Waits
<1>4. \A n : Least(Claims(k, e, a, o), n) <=>
        /\ n = k.base[o] \/ \E u \in Threads : W(u) /\ n = k.prio[u]
        /\ n <= k.base[o]
        /\ \A u \in Threads : W(u) => n <= k.prio[u]
  BY DEF Least, Lower, Claims
<1>5. \A n : Least(Claims(j, e, a, o), n) <=>
        /\ n = k.base[o] \/ \E u \in Threads : W(u) /\ n = j.prio[u]
        /\ n <= k.base[o]
        /\ \A u \in Threads : W(u) => n <= j.prio[u]
  <2> HIDE DEF W
  <2> QED
    BY <1>1, <1>2 DEF Least, Lower, Claims
<1> HIDE DEF W
<1>6. CASE o = x
  <2>1. Promoted(j, o, p) = p
    BY <1>6 DEF Promoted
  <2>2. p <= k.base[o] /\ \A u \in Threads : W(u) => p <= k.prio[u]
    BY <1>4, <1>6
  <2>3. \A u \in Threads : W(u) => p <= j.prio[u]
    BY <1>2, <2>2
  <2> QED
    BY <1>3, <1>5, <2>1, <2>2, <2>3
<1>7. CASE o # x
  <2> DEFINE n == k.prio[o]
  <2>1. /\ n \in Nat /\ n <= k.base[o]
        /\ n = k.base[o] \/ \E u \in Threads : W(u) /\ n = k.prio[u]
        /\ \A u \in Threads : W(u) => n <= k.prio[u]
    BY <1>2, <1>4, <1>7
  <2>2. j.prio[o] = n
    BY <1>2, <1>7
  <2> HIDE DEF n
  <2>3. CASE n <= p
    <3>1. Promoted(j, o, p) = n
      BY <2>2, <2>3 DEF Promoted
    <3>2. \A u \in Threads : W(u) => n <= j.prio[u]
      BY <1>2, <2>1, <2>3
    <3>3. n = k.base[o] \/ \E u \in Threads : W(u) /\ n = j.prio[u]
      <4>1. n # k.prio[x]
        BY <1>2, <2>1, <2>3
      <4> QED
        BY <1>2, <2>1, <4>1
    <3> QED
      BY <1>5, <2>1, <3>1, <3>2, <3>3
  <2>4. CASE ~(n <= p)
    <3>1. Promoted(j, o, p) = p
      BY <2>2, <2>4 DEF Promoted
    <3>2. p <= k.base[o]
      BY <1>2, <2>1, <2>4
    <3>3. \A u \in Threads : W(u) => p <= j.prio[u]
      BY <1>2, <2>1, <2>4
    <3> QED
      BY <1>3, <1>5, <3>1, <3>2, <3>3
  <2> QED
    BY <2>3, <2>4
<1> QED
  BY <1>6, <1>7

(* One turn of the loop of PropagateMutexOwnerPriority.                    *)
LEMMA PropagateTurnRank ==
  ASSUME RankInv, LockInv', PropagateTurn
  PROVE  RankInv'
<1> DEFINE s == stack[exec]
           r == Tail(s)
           t == Top.obj
           p == ComputeThreadEffectivePriority(os, t)
<1>1. /\ s # << >> /\ Top.fn = "propagate" /\ t \in Threads \cup {NULL}
      /\ s \in Seq(Frames) /\ Top = Head(s) /\ Head(s).fn = "propagate" /\ Head(s).obj = t
  BY TheRanks, InsideTop, TopOK DEF PropagateTurn, FrameOK, Top
<1>2. LockInv /\ NoWake(s) /\ HasNo(r, Transient) /\ r # << >> /\ Head(r).fn = "resched"
  BY <1>1, TheRanks, Untouched DEF NoWake, CallsOK
<1>3. r \in Seq(Frames)
  <2> HIDE DEF s
  <2> QED
    BY <1>1, TopAndRest
<1>4. Ahead(r)
  <2> HIDE DEF r
  <2> QED
    BY <1>2, <1>3, AheadStacks
<1>5. /\ AllFit(os, exec, NULL, t)
      /\ \A x \in Threads : os.state[x] = "NONE" /\ os.susp[x] = 0 => Fits(os, exec, NULL, x)
  <2>1. AllFit(os, exec, NULL, Head(s).obj)
    BY <1>1, TheRanks, OpenPropagation
  <2>2. \A x \in Threads : os.state[x] = "NONE" /\ os.susp[x] = 0 => Fits(os, exec, NULL, x)
    BY <1>1, TheRanks, OpenPropagation
  <2> QED
    BY <1>1, <2>1, <2>2
<1>6. NULL \notin Mutexes /\ NULL \notin Threads
  BY Pointers DEF Queues, Waitables
<1>7. t \in Threads => Least(Claims(os, exec, NULL, t), p)
  <2> HIDE DEF t
  <2>1. \A x \in Threads, m \in Mutexes : m \in ToSet(os.held[x]) <=> os.owner[m] = x
    BY TheRanks DEF HoldersOK
  <2> QED
    BY <1>6, <2>1, TheRanks, EffectiveIsLeast
<1>8. CASE t = NULL \/ os.susp[t] > 0 \/ os.prio[t] = p
  <2>1. os' = os /\ stack' = [stack EXCEPT ![exec] = << >> \o r] /\ exec' = exec
    BY <1>8 DEF PropagateTurn, Continue
  <2> HIDE DEF s, r, t, p
  <2>2. << >> \o r = r
    BY <1>3, ConcatEmptySeq
  <2>3. AllFit(os, exec, NULL, NULL)
    <3>1. ASSUME t \in Threads, os.susp[t] = 0 PROVE Fits(os, exec, NULL, t)
      <4>1. ~(os.susp[t] > 0) /\ t # NULL
        BY <1>6, <3>1
      <4> QED
        BY <1>7, <1>8, <3>1, <4>1 DEF Fits
    <3> QED
      BY <1>5, <3>1 DEF AllFit
  <2>4. HasNo(r, Askers)
    BY <1>2 DEF HasNo, Transient, Askers
  <2>5. StaysAhead(os', os, exec, r, s)
    BY <1>4, <2>1 DEF StaysAhead
  <2> QED
    BY <1>2, <1>3, <2>1, <2>2, <2>3, <2>4, <2>5, NothingMoves, FitSteps DEF s
<1>9. CASE ~(t = NULL \/ os.susp[t] > 0 \/ os.prio[t] = p)
  <2> DEFINE o == NextOwner(os, t)
             f == Frame("propagate", o, 0)
             u == << f >> \o r
  <2>1. /\ os' = SetThreadEffectivePriority(os, t, p)
        /\ stack' = [stack EXCEPT ![exec] = u] /\ exec' = exec
    BY <1>9 DEF PropagateTurn, Continue
  <2>2. t \in Threads
    BY <1>1, <1>9
  <2>3. p \in Prios
    BY <2>2, TheRanks, EffectivePriority
  <2> HIDE DEF s, t, p, r
  <2>4. os.susp[t] = 0
    BY <1>9, <2>2, TheRanks DEF OsMemory
  <2>5. Adjusted(os', os, t, p)
    BY <2>1, <2>2, <2>3, <2>4, TheRanks, SetPriorityEffect
  <2>6. Calm(os', os)
    BY <2>1, <2>2, <2>3, <2>4, TheRanks, SetPriorityOK
  <2>7. o \in Threads \cup {NULL} /\ o = NextOwner(os, t)
    BY <2>2, TheRanks, Owners
  <2> HIDE DEF o
  <2>8. f \in Frames /\ f.fn = "propagate" /\ f.obj = o
    BY <2>7, SmallNumbers, OwnerCalls DEF FrameOK, Frame
  <2> HIDE DEF f
  <2>9. u \in Seq(Frames) /\ u # << >> /\ Head(u) = f /\ Ahead(u)
    BY <1>3, <1>4, <2>8, OneOnTop, AheadOnTop
  <2> HIDE DEF u
  <2>10. AllFit(os', exec, NULL, o)
    <3>1. WaitsFor(os, exec, NULL, t, o)
      BY <1>6, <2>2, <2>7, TheRanks, NextIsAsked
    <3>2. /\ Moved(os', os, t) /\ os'.susp = os.susp
          /\ os.state[t] # "NONE" => os'.prio[t] = p
          /\ os.state[t] = "NONE" => os'.prio[t] = os.prio[t]
      BY <2>2, <2>5, TheRanks, AdjustedMoves
    <3>3. Least(Claims(os, exec, NULL, t), os'.prio[t])
      BY <1>5, <1>7, <2>2, <2>4, <3>2 DEF Fits
    <3> QED
      BY <1>5, <2>2, <3>1, <3>2, <3>3, MovedFits
  <2>11. o \in Threads => os'.state[o] # "NONE"
    <3>1. o \in Threads => os.state[o] # "NONE"
      BY <2>2, <2>7, TheRanks, OwnersExist
    <3> QED
      BY <2>5, <3>1 DEF Adjusted
  <2>12. PrioritiesOK(os', exec, u)
    BY <2>8, <2>9, <2>10, <2>11, ClosePropagation
  <2>13. Tamed(os', os, exec)
    <3>1. Asked(os) => Asked(os')
      BY <2>6 DEF Calm
    <3>2. ASSUME Outranked(os', exec), ~Asked(os') PROVE Outranked(os, exec)
      <4>1. os.state[t] \notin {"READY", "RUNNING"}
        BY <2>5, <3>2 DEF Adjusted
      <4>2. os'.state = os.state /\ os'.pending = os.pending
        BY <2>5, <4>1 DEF Adjusted
      <4>3. t # exec
        BY <3>2, <4>1, <4>2 DEF Outranked
      <4>4. \A x \in Threads \ {t} : os'.prio[x] = os.prio[x]
        BY <2>2, <2>5, TheRanks, AdjustedMoves
      <4>5. os'.prio[exec] = os.prio[exec]
        BY <4>3, <4>4, TheRanks
      <4> QED
        BY <3>2, <4>2, <4>5 DEF Outranked
    <3> QED
      BY <3>1, <3>2 DEF Tamed
  <2>14. RankOK(os', exec, u) /\ SelectComes(os', exec, u)
    <3>1. StaysAhead(os', os, exec, u, s)
      BY <2>6, <2>9 DEF StaysAhead, Calm
    <3> QED
      BY <1>2, <2>13, <3>1, TheRanks, RankKept, SelectKept DEF s
  <2> QED
    BY <2>1, <2>12, <2>14, RankSteps
<1> QED
  BY <1>8, <1>9

(* One turn of the loop of PromoteThreadPriority.                          *)
LEMMA PromoteTurnRank ==
  ASSUME RankInv, LockInv', PromoteTurn
  PROVE  RankInv'
<1> DEFINE s == stack[exec]
           r == Tail(s)
           t == Top.obj
           p == Top.arg
           a == Head(r).obj
<1>1. /\ s # << >> /\ Top.fn = "promote" /\ t \in Threads \cup {NULL} /\ p \in 0 .. MaxPrio + 1
      /\ s \in Seq(Frames) /\ Top = Head(s) /\ Head(s).fn = "promote"
      /\ Head(s).obj = t /\ Head(s).arg = p
  BY TheRanks, InsideTop, TopOK DEF PromoteTurn, FrameOK, Top
<1>2. LockInv /\ NoWake(s) /\ Requests(os, exec, r) /\ p = os.prio[exec]
  BY <1>1, TheRanks DEF NoWake, CallsOK
<1>3. r # << >> /\ Head(r).fn = "sleepcall" /\ a \in Mutexes
  BY <1>2 DEF Requests
<1>4. r \in Seq(Frames) /\ (Ahead(s) <=> Ahead(r))
  <2> HIDE DEF s
  <2> QED
    BY <1>1, TopAndRest, AheadStacks
<1>5. AllFit(os, exec, a, t)
  BY <1>1, TheRanks, OpenPromotion
<1>6. \A x \in Threads : os.state[x] = "NONE" /\ os.susp[x] = 0 => Fits(os, exec, a, x)
  BY <1>1, TheRanks, OpenPromotion
<1>7. t \in Threads /\ os.susp[t] = 0 /\ os.state[t] # "NONE" =>
        Least(Claims(os, exec, a, t), Promoted(os, t, p))
  BY <1>1, TheRanks, OpenPromotion
<1>8. NULL \notin Threads
  BY Pointers
<1>9. CASE t = NULL \/ os.susp[t] > 0 \/ os.prio[t] <= p
  <2>1. os' = os /\ stack' = [stack EXCEPT ![exec] = << >> \o r] /\ exec' = exec
    BY <1>9 DEF PromoteTurn, Continue
  <2> HIDE DEF s, r, t, p, a
  <2>2. << >> \o r = r
    BY <1>4, ConcatEmptySeq
  <2>3. AllFit(os, exec, a, NULL)
    <3>1. ASSUME t \in Threads, os.susp[t] = 0 PROVE Fits(os, exec, a, t)
      <4>1. ~(os.susp[t] > 0) /\ t # NULL
        BY <1>8, <3>1
      <4>2. Promoted(os, t, p) = os.prio[t]
        BY <1>9, <4>1 DEF Promoted
      <4> QED
        BY <1>6, <1>7, <3>1, <4>2 DEF Fits
    <3> QED
      BY <1>5, <3>1 DEF AllFit
  <2>4. PrioritiesOK(os', exec, r)
    BY <1>3, <2>1, <2>3, CloseSleep DEF a
  <2>5. StaysAhead(os', os, exec, r, s)
    BY <1>4, <2>1 DEF StaysAhead
  <2>6. RankOK(os', exec, r) /\ SelectComes(os', exec, r)
    BY <1>2, <2>1, <2>5, TheRanks, NothingMoves, RankKept, SelectKept DEF s
  <2> QED
    BY <2>1, <2>2, <2>4, <2>6, RankSteps
<1>10. CASE ~(t = NULL \/ os.susp[t] > 0 \/ os.prio[t] <= p)
  <2> DEFINE o == NextOwner(os, t)
             f == Frame("promote", o, p)
             u == << f >> \o r
  <2>1. /\ os' = SetThreadEffectivePriority(os, t, p)
        /\ stack' = [stack EXCEPT ![exec] = u] /\ exec' = exec
    BY <1>10 DEF PromoteTurn, Continue
  <2> HIDE DEF s, t, p, r, a
  <2>2. t \in Threads /\ os.susp[t] \in Nat /\ os.prio[t] \in Prios \cup {SuspendedWaitPriority}
    BY <1>1, <1>10, TheRanks DEF OsMemory
  <2>3. os.susp[t] = 0 /\ p \in Prios /\ t # exec /\ p \in Nat /\ p < os.prio[t]
    BY <1>1, <1>2, <1>10, <2>2, OsConstants DEF Prios, SuspendedWaitPriority
  <2>4. Adjusted(os', os, t, p)
    BY <2>1, <2>2, <2>3, TheRanks, SetPriorityEffect
  <2>5. Calm(os', os)
    BY <2>1, <2>2, <2>3, TheRanks, SetPriorityOK
  <2>6. /\ Moved(os', os, t) /\ os'.susp = os.susp /\ os'.state = os.state
        /\ os.state[t] # "NONE" => os'.prio[t] = p
        /\ os.state[t] = "NONE" => os'.prio[t] = os.prio[t]
    BY <2>2, <2>4, TheRanks, AdjustedMoves
  <2>7. \A x \in Threads \ {t} : os'.prio[x] = os.prio[x]
    BY <2>6 DEF Moved
  <2>8. o \in Threads \cup {NULL} /\ o = NextOwner(os, t)
    BY <2>2, TheRanks, Owners
  <2>9. o \in Threads =>
          /\ os.state[t] = "WAITING"
          /\ \E m \in Mutexes : os.owner[m] = o /\ In(os, t, m)
    <3>1. ASSUME o \in Threads PROVE os.state[t] = "WAITING" /\ os.waitsOn[t] # NULL /\ o = os.owner[os.waitsOn[t]]
      BY <1>8, <3>1 DEF NextOwner
    <3>2. os.waitsOn[t] \in Mutexes \cup {NULL} /\ WaiterOK(os, t)
      BY <2>2, TheRanks DEF OsMemory, LocksOK
    <3> QED
      BY <3>1, <3>2 DEF WaiterOK
  <2>10. o \in Threads => os.state[o] # "NONE"
    BY <2>2, <2>8, TheRanks, OwnersExist
  <2>11. WaitsFor(os, exec, a, t, o)
    BY <2>2, <2>3, <2>8, TheRanks, NextIsAsked
  <2> HIDE DEF o
  <2>12. f \in Frames /\ f.fn = "promote" /\ f.obj = o /\ f.arg = p
    BY <1>1, <2>8, OwnerCalls DEF FrameOK, Frame
  <2> HIDE DEF f
  <2>13. u \in Seq(Frames) /\ u # << >> /\ Head(u) = f /\ Tail(u) = r /\ (Ahead(u) <=> Ahead(r))
    BY <1>4, <2>12, OneOnTop, AheadOnTop
  <2> HIDE DEF u
  <2>14. Promoted(os, t, p) = p
    BY <1>10 DEF Promoted
  <2>15. AllFit(os', exec, a, o)
    <3>1. Least(Claims(os, exec, a, t), os'.prio[t])
      <4>1. CASE os.state[t] = "NONE"
        BY <1>6, <2>2, <2>3, <2>6, <4>1 DEF Fits
      <4>2. CASE os.state[t] # "NONE"
        BY <1>7, <2>2, <2>3, <2>6, <2>14, <4>2
      <4> QED
        BY <4>1, <4>2
    <3> QED
      BY <1>5, <2>2, <2>6, <2>11, <3>1, MovedFits
  <2>16. ASSUME o \in Threads, os'.susp[o] = 0
         PROVE  /\ os'.state[o] # "NONE"
                /\ Least(Claims(os', exec, a, o), Promoted(os', o, p))
    <3>1. os.susp[o] = 0 /\ os.state[t] # "NONE" /\ os'.prio[t] = p
      BY <2>6, <2>9, <2>16
    <3>2. o # t => Least(Claims(os, exec, a, o), os.prio[o])
      BY <1>5, <2>16, <3>1 DEF AllFit, Fits
    <3>3. o = t => Least(Claims(os, exec, a, t), p)
      BY <1>7, <2>2, <2>14, <3>1
    <3>4. PICK m \in Mutexes : os.owner[m] = o /\ In(os, t, m)
      BY <2>9, <2>16
    <3>5. Least(Claims(os', exec, a, o), Promoted(os', o, p))
      BY <2>2, <2>3, <2>6, <2>16, <3>1, <3>2, <3>3, <3>4, TheRanks, PassedOn
    <3> QED
      BY <2>6, <2>10, <2>16, <3>5
  <2>17. PrioritiesOK(os', exec, u)
    <3>1. Head(u).fn = "promote" /\ a = Head(Tail(u)).obj /\ o = Head(u).obj /\ p = Head(u).arg
      BY <2>12, <2>13 DEF a
    <3> QED
      BY <2>13, <2>15, <2>16, <3>1, ClosePromotion
  <2>18. Outranked(os', exec) => Outranked(os, exec)
    <3>1. os'.prio[exec] = os.prio[exec]
      BY <2>3, <2>7, TheRanks
    <3>2. os'.pending \subseteq os.pending \cup {p}
      BY <2>4 DEF Adjusted
    <3>3. ~(p < os.prio[exec])
      BY <1>2, <2>3
    <3> QED
      BY <2>6, <3>1, <3>2, <3>3 DEF Outranked
  <2>19. RankOK(os', exec, u) /\ SelectComes(os', exec, u)
    <3>1. Tamed(os', os, exec)
      BY <2>5, <2>18 DEF Tamed, Calm
    <3>2. StaysAhead(os', os, exec, u, s)
      BY <1>4, <2>5, <2>13, <2>18 DEF StaysAhead, Calm
    <3> QED
      BY <1>2, <3>1, <3>2, TheRanks, RankKept, SelectKept DEF s
  <2> QED
    BY <2>1, <2>17, <2>19, RankSteps DEF u
<1> QED
  BY <1>9, <1>10

(* A callback batch begins or ends: only the disable count changes.        *)
LEMMA BatchRank ==
  ASSUME RankInv, LockInv', "callback" \in Calls, AllFit(os, exec, NULL, NULL),
         NoWake(stack[exec]), NEW n, os' = [os EXCEPT !.disable = n],
         NEW u \in Seq(Frames), HasNo(u, Askers), stack' = [stack EXCEPT ![exec] = u], exec' = exec
  PROVE  RankInv'
<1>1. Level(os', os) /\ Tamed(os', os, exec)
  BY TheRanks DEF Level, Tamed, In, Outranked, Asked, OsMemory
<1>2. PrioritiesOK(os', exec, u)
  BY <1>1, LevelKept, NoAskers, ClosePriorities
<1>3. RankOK(os', exec, u) /\ SelectComes(os', exec, u)
  BY <1>1, TheRanks, RankKept DEF SelectComes
<1> QED
  BY <1>2, <1>3, RankSteps

LEMMA BeginCallbacksRank ==
  ASSUME RankInv, LockInv', BeginDeferredGuestCallbacks
  PROVE  RankInv'
<1> DEFINE f == Callback
           n == os.disable + 1
           s == stack[exec]
           u == << f >> \o s
<1>1. /\ "callback" \in Calls
      /\ AtGuest \/ Inside("idle")
      /\ os' = [os EXCEPT !.disable = n]
      /\ stack' = [stack EXCEPT ![exec] = u] /\ exec' = exec
  BY DEF BeginDeferredGuestCallbacks, Push
<1>2. f \in Frames /\ f.fn \notin Askers
  BY KernelCalls DEF FrameOK, Askers
<1>3. s \in Seq(Frames) /\ HasNo(s, Askers) /\ NoWake(s)
  <2>1. s \in Seq(Frames) /\ HasNo(s, Transient)
    BY <1>1, TheRanks, NothingHalfDone
  <2>2. NoWake(s)
    BY <1>1, InsideTop DEF NoWake, AtGuest, Top
  <2> QED
    BY <2>1, <2>2 DEF HasNo, Transient, Askers
<1>4. AllFit(os, exec, NULL, NULL)
  BY <1>1, GuestAtEase
<1> HIDE DEF f, n, s
<1>5. u \in Seq(Frames) /\ HasNo(u, Askers)
  BY <1>2, <1>3, OneOnTop
<1> HIDE DEF u
<1> QED
  BY <1>1, <1>3, <1>4, <1>5, BatchRank DEF s

LEMMA EndCallbacksRank ==
  ASSUME RankInv, LockInv', NEW flush \in BOOLEAN, EndDeferredGuestCallbacks(flush)
  PROVE  RankInv'
<1> DEFINE f == ReschedCall
           cs == IF flush THEN << f >> ELSE << >>
           n == IF os.disable = 0 THEN 0 ELSE os.disable - 1
           s == stack[exec]
           r == Tail(s)
           u == cs \o r
<1>1. /\ s # << >> /\ Top.fn = "callback" /\ Head(s).fn = "callback"
      /\ os' = [os EXCEPT !.disable = n]
      /\ stack' = [stack EXCEPT ![exec] = u] /\ exec' = exec
  BY InsideTop DEF EndDeferredGuestCallbacks, Continue, Top
<1>2. f \in Frames /\ f.fn \notin Askers
  BY KernelCalls DEF FrameOK, Askers
<1> HIDE DEF f, n
<1>3. cs \in Seq(Frames) /\ HasNo(cs, Askers)
  BY <1>2, CalmRankCalls
<1> HIDE DEF cs
<1>4. s \in Seq(Frames) /\ r \in Seq(Frames) /\ HasNo(r, Askers) /\ NoWake(s)
  <2>1. s \in Seq(Frames) /\ HasNo(r, Transient) /\ r \in Seq(Frames)
    BY <1>1, TheRanks, Untouched, TopAndRest
  <2>2. NoWake(s)
    BY <1>1 DEF NoWake
  <2> QED
    BY <2>1, <2>2 DEF HasNo, Transient, Askers
<1>5. AllFit(os, exec, NULL, NULL)
  BY <1>1, AtEase
<1>6. "callback" \in Calls
  <2>1. SUFFICES ASSUME "callback" \notin Calls PROVE FALSE
    OBVIOUS
  <2>2. os.disable = 0 /\ os.disable = Depth(s)
    BY <2>1, TheRanks, TheFiber DEF SelectComes, ExecOK
  <2> HIDE DEF s
  <2>3. HasNo(s, {"callback"})
    BY <1>4, <2>2, BatchesFinite
  <2>4. Head(s).fn \notin {"callback"}
    BY <1>1, <1>4, <2>3, TopAndRest
  <2> QED
    BY <1>1, <2>4
<1> HIDE DEF s, r
<1>7. u \in Seq(Frames) /\ HasNo(u, Askers)
  BY <1>3, <1>4, ConcatFrames, Positions
<1> HIDE DEF u
<1> QED
  BY <1>1, <1>4, <1>5, <1>6, <1>7, BatchRank DEF s

-----------------------------------------------------------------------------
(* The unlocking of a mutex.                                               *)

(* Mutex m of x becomes free, and x gets the strongest of the claims that  *)
(* are left.                                                               *)
Frees(j, k, m, x) ==
  /\ j.base = k.base /\ j.queue = k.queue /\ j.susp = k.susp
  /\ \A t \in Threads \ {x} : j.prio[t] = k.prio[t]
  /\ \A n \in Mutexes \ {m} : j.owner[n] = k.owner[n]
  /\ j.owner[m] = NULL /\ k.owner[m] = x

LEMMA FreedFits ==
  ASSUME NEW k, NEW j, NEW m \in Mutexes, NEW x \in Threads, Frees(j, k, m, x),
         \A n \in Mutexes : ~In(k, x, n), NEW e, AllFit(k, e, NULL, NULL),
         j.susp[x] = 0 => Fits(j, e, NULL, x)
  PROVE  AllFit(j, e, NULL, NULL)
<1> SUFFICES ASSUME NEW t \in Threads, t # x, j.susp[t] = 0 PROVE Fits(j, e, NULL, t)
  BY DEF AllFit
<1>1. t # NULL /\ NULL \notin Mutexes
  BY Pointers DEF Queues, Waitables
<1>2. ASSUME NEW u \in Threads, NEW n \in Mutexes, k.owner[n] = t
      PROVE  /\ Waits(j, e, NULL, u, n) <=> Waits(k, e, NULL, u, n)
             /\ Waits(k, e, NULL, u, n) => j.prio[u] = k.prio[u]
  BY <1>1 DEF Waits, In, Frees
<1>3. j.base[t] = k.base[t] /\ \A n \in Mutexes : j.owner[n] = t <=> k.owner[n] = t
  BY <1>1 DEF Frees
<1>4. Claims(j, e, NULL, t) = Claims(k, e, NULL, t)
  BY <1>2, <1>3, SameClaims
<1> QED
  BY <1>1, <1>4 DEF AllFit, Fits, Frees

(* A thread whose priority is its base has no stronger claim.              *)
LEMMA NothingInherited ==
  ASSUME NEW k \in OsMemory, NEW j, NEW m \in Mutexes, NEW x \in Threads, Frees(j, k, m, x),
         j.prio = k.prio, NEW e, Fits(k, e, NULL, x), ~(k.prio[x] < k.base[x])
  PROVE  Fits(j, e, NULL, x)
<1>1. k.base[x] \in Nat /\ \A u \in Threads : k.prio[u] \in Nat
  BY Pointers DEF OsMemory
<1>2. NULL \notin Mutexes /\ x # NULL
  BY Pointers DEF Queues, Waitables
<1>3. \A u \in Threads, n \in Mutexes : j.owner[n] = x /\ Waits(j, e, NULL, u, n) =>
        k.owner[n] = x /\ Waits(k, e, NULL, u, n)
  BY <1>2 DEF Waits, In, Frees
<1>4. /\ k.prio[x] <= k.base[x]
      /\ \A u \in Threads, n \in Mutexes :
           k.owner[n] = x /\ Waits(k, e, NULL, u, n) => k.prio[x] <= k.prio[u]
  BY LeastOf DEF Fits
<1>5. k.prio[x] = k.base[x]
  BY <1>1, <1>4
<1>6. /\ j.prio[x] = j.base[x]
      /\ j.prio[x] <= j.base[x]
      /\ \A u \in Threads, n \in Mutexes :
           j.owner[n] = x /\ Waits(j, e, NULL, u, n) => j.prio[x] <= j.prio[u]
  BY <1>1, <1>3, <1>4, <1>5 DEF Frees
<1> QED
  BY <1>6, LeastOf DEF Fits

(* A thread that becomes weaker by what m's waiters had lent it hands m to *)
(* a waiter that can run.                                                  *)
LEMMA FreedHandsOver ==
  ASSUME NEW k, MemoryOK(k), LocksOK(k), NEW j, NEW m \in Mutexes, NEW x \in Threads,
         Frees(j, k, m, x), j.state = k.state, j.pending = k.pending,
         j.prio[x] \in Nat, \A n \in Mutexes : ~In(k, x, n), k.prio[x] < k.base[x],
         Fits(k, x, NULL, x), Fits(j, x, NULL, x), Outranked(j, x)
  PROVE  Outranked(k, x) \/ (k.queue[m] # << >> /\ k.susp[Head(k.queue[m])] = 0)
<1>1. /\ k \in OsMemory /\ QueuesOrdered(k) /\ k.base[x] \in Prios
      /\ \A u \in Threads : k.prio[u] \in Nat
  BY Pointers DEF MemoryOK, ListsOK, LocksOK, OsMemory
<1>2. NULL \notin Mutexes /\ x # NULL
  BY Pointers DEF Queues, Waitables
<1>3. PICK w \in Threads, n \in Mutexes : k.owner[n] = x /\ Waits(k, x, NULL, w, n) /\ k.prio[x] = k.prio[w]
  <2>1. k.prio[x] # k.base[x]
    BY <1>1 DEF Prios
  <2> QED
    BY <2>1, LeastOf DEF Fits
<1>4. In(k, w, n) /\ w # x
  BY <1>2, <1>3 DEF Waits
<1>5. CASE n # m
  <2>1. j.owner[n] = x /\ Waits(j, x, NULL, w, n) /\ j.prio[w] = k.prio[w]
    BY <1>3, <1>4, <1>5 DEF Frees, Waits, In
  <2>2. j.prio[x] <= k.prio[x]
    BY <1>3, <2>1, LeastOf DEF Fits
  <2>3. PICK p \in k.pending : p < j.prio[x] /\ k.state[x] = "RUNNING"
    BY DEF Outranked
  <2>4. p \in Nat
    BY <1>1, Pointers DEF OsMemory
  <2> QED
    BY <1>1, <2>2, <2>3, <2>4 DEF Outranked
<1>6. CASE n = m
  <2> DEFINE h == Head(k.queue[m])
  <2>1. m \in Waitables /\ m \in Queues
    BY DEF Waitables, Queues
  <2>2. k.queue[m] # << >>
    BY <1>1, <1>4, <1>6, <2>1, SomeoneIn
  <2>3. h \in Threads /\ In(k, h, m)
    BY <1>1, <2>1, <2>2, HeadIsStrongest
  <2>4. k.prio[h] <= k.prio[w]
    BY <1>1, <1>4, <1>6, <2>1, <2>2, HeadIsStrongest
  <2>5. k.state[h] = "WAITING" /\ WaiterOK(k, h)
    BY <2>1, <2>3 DEF MemoryOK, ThreadOK, LocksOK
  <2> HIDE DEF h
  <2>6. k.prio[h] # SuspendedWaitPriority
    BY <1>1, <1>3, <2>3, <2>4, OsConstants DEF Prios, SuspendedWaitPriority
  <2>7. k.susp[h] \in Nat /\ ~(k.susp[h] > 0)
    BY <1>1, <2>3, <2>5, <2>6 DEF WaiterOK, OsMemory
  <2>8. k.susp[h] = 0
    BY <2>7
  <2> QED
    BY <2>2, <2>8 DEF h
<1> QED
  BY <1>5, <1>6

(* A mutex is unlocked.                                                    *)
LEMMA UnlockMutexRank ==
  ASSUME RankInv, LockInv', NEW m \in Mutexes, OSUnlockMutex(m)
  PROVE  RankInv'
<1> DEFINE s == stack[exec]
           f == WakeCall(m)
<1>1. /\ AtGuest /\ os.running # NULL /\ os.owner[m] = os.running
      /\ os' = Release(os, m, os.running)
      /\ Push(IF os.count[m] = 1 THEN << f >> ELSE << >>)
  BY DEF OSUnlockMutex, May
<1>2. os.running = exec /\ os.state[exec] = "RUNNING"
  <2>1. Live(os, exec, s)
    BY <1>1, TheRanks, RunningIsLive
  <2> QED
    BY <1>1, <2>1, GuestRuns DEF Live
<1>3. os.susp[exec] = 0
  BY <1>2, TheRanks DEF MemoryOK, ThreadOK
<1>4. AllFit(os, exec, NULL, NULL)
  BY <1>1, GuestAtEase
<1>5. os' \in OsMemory /\ HoldersOK(os')
  BY DEF LockInv, IInv, MemoryOK, ListsOK, LocksOK
<1>6. Released(os', os, m, exec)
  BY <1>1, <1>2, TheRanks, ReleaseEffect
<1>7. os'.disable = os.disable
  BY <1>1, TheRanks DEF Release, OsMemory
<1>8. /\ os'.queue = os.queue /\ os'.state = os.state /\ os'.susp = os.susp
      /\ os'.base = os.base /\ os'.pending = os.pending
      /\ Asked(os') <=> Asked(os)
      /\ \A t \in Threads \ {exec} : os'.prio[t] = os.prio[t]
  <2>1. os.prio \in [Threads -> Prios \cup {SuspendedWaitPriority}]
    BY TheRanks DEF OsMemory
  <2> QED
    BY <1>6, <2>1 DEF Released
<1>9. \A n \in Mutexes : ~In(os, exec, n)
  BY <1>2, TheRanks, WaitersOnly DEF Waitables
<1>10. CASE os.count[m] # 1
  <2>1. Push(<< >>) /\ os'.owner = os.owner /\ os'.prio = os.prio
    BY <1>1, <1>6, <1>10 DEF Released
  <2>2. Level(os', os) /\ Tamed(os', os, exec) /\ (Outranked(os', exec) => Outranked(os, exec))
    BY <1>8, <2>1 DEF Level, In, Tamed, Outranked
  <2>3. AllFit(os', exec, NULL, NULL)
    BY <1>4, <2>2, LevelKept
  <2> QED
    BY <1>1, <1>7, <2>1, <2>2, <2>3, CalmRankCalls, FitPushes
<1>11. CASE os.count[m] = 1
  <2> DEFINE u == << f >> \o s
  <2>1. stack' = [stack EXCEPT ![exec] = u] /\ exec' = exec
    BY <1>1, <1>11 DEF Push
  <2>2. f \in Frames /\ f.fn = "wake" /\ f.obj = m
    <3>1. m \in Waitables
      BY DEF Waitables
    <3> QED
      BY <3>1, QueueCalls, TheRanks DEF FrameOK, WakeCall, Frame
  <2>3. s \in Seq(Frames) /\ HasNo(s, Askers) /\ NoWake(s)
    <3>1. HasNo(s, Transient) /\ s \in Seq(Frames)
      BY <1>1, TheRanks, NothingHalfDone
    <3>2. NoWake(s)
      BY <1>1, InsideTop DEF NoWake, AtGuest, Top
    <3> QED
      BY <3>1, <3>2 DEF HasNo, Transient, Askers
  <2> HIDE DEF f, s
  <2>4. u \in Seq(Frames) /\ u # << >> /\ Head(u) = f /\ HasNo(u, Askers)
    BY <2>2, <2>3, OneOnTop DEF Askers
  <2> HIDE DEF u
  <2>5. Frees(os', os, m, exec)
    <3>1. os'.owner = [os.owner EXCEPT ![m] = NULL]
      BY <1>6, <1>11 DEF Released
    <3>2. os'.owner[m] = NULL /\ \A n \in Mutexes \ {m} : os'.owner[n] = os.owner[n]
      BY <3>1, TheRanks DEF OsMemory
    <3> QED
      BY <1>1, <1>2, <1>8, <3>2 DEF Frees
  <2>6. Fits(os, exec, NULL, exec)
    BY <1>3, <1>4, TheRanks, Pointers DEF AllFit
  <2>7. Fits(os', exec, NULL, exec)
    <3>1. CASE ~(os.prio[exec] < os.base[exec])
      <4>1. os'.prio = os.prio
        BY <1>6, <1>11, <3>1 DEF Released
      <4> QED
        BY <2>5, <2>6, <3>1, <4>1, TheRanks, NothingInherited
    <3>2. CASE os.prio[exec] < os.base[exec]
      <4> DEFINE K == [os' EXCEPT !.prio = os.prio]
      <4>1. PICK r \in OsMemory :
              /\ r.base = os.base /\ r.prio = os.prio /\ r.queue = os.queue /\ r.held = os'.held
              /\ os'.prio = [os.prio EXCEPT ![exec] = ComputeThreadEffectivePriority(r, exec)]
        BY <1>6, <1>11, <3>2 DEF Released
      <4>2. /\ K.base = os.base /\ K.prio = os.prio /\ K.queue = os.queue /\ K.owner = os'.owner
        BY <1>5, <1>8 DEF OsMemory
      <4> HIDE DEF K
      <4>3. QueuesOrdered(r)
        BY <4>1, TheRanks DEF QueuesOrdered, Sorted
      <4>4. \A n \in Mutexes : n \in ToSet(r.held[exec]) <=> K.owner[n] = exec
        BY <1>5, <4>1, <4>2, TheRanks DEF HoldersOK
      <4>5. NULL \notin Mutexes
        BY Pointers DEF Queues, Waitables
      <4>6. r.base = K.base /\ r.prio = K.prio /\ r.queue = K.queue
        BY <4>1, <4>2
      <4>7. Least(Claims(K, exec, NULL, exec), ComputeThreadEffectivePriority(r, exec))
        BY <4>3, <4>4, <4>5, <4>6, TheRanks, EffectiveIsLeast
      <4>8. os'.prio[exec] = ComputeThreadEffectivePriority(r, exec)
        BY <4>1, TheRanks DEF OsMemory
      <4>9. Claims(os', exec, NULL, exec) = Claims(K, exec, NULL, exec)
        <5>1. ASSUME NEW v \in Threads, NEW n \in Mutexes, K.owner[n] = exec
              PROVE  /\ Waits(os', exec, NULL, v, n) <=> Waits(K, exec, NULL, v, n)
                     /\ Waits(K, exec, NULL, v, n) => os'.prio[v] = K.prio[v]
          BY <1>8, <1>9, <4>2, <4>5 DEF Waits, In
        <5>2. os'.base[exec] = K.base[exec] /\ \A n \in Mutexes : os'.owner[n] = exec <=> K.owner[n] = exec
          BY <1>8, <4>2
        <5> QED
          BY <5>1, <5>2, TheRanks, SameClaims
      <4> QED
        BY <4>7, <4>8, <4>9 DEF Fits
    <3> QED
      BY <3>1, <3>2
  <2>8. AllFit(os', exec, NULL, NULL)
    BY <1>4, <1>9, <2>5, <2>7, TheRanks, FreedFits
  <2>9. PrioritiesOK(os', exec, u)
    BY <2>4, <2>8, NoAskers, ClosePriorities
  <2>10. Outranked(os', exec) => Outranked(os, exec) \/ HandsOver(os', u)
    <3>1. CASE ~(os.prio[exec] < os.base[exec])
      <4>1. os'.prio = os.prio
        BY <1>6, <1>11, <3>1 DEF Released
      <4> QED
        BY <1>8, <4>1 DEF Outranked
    <3>2. CASE os.prio[exec] < os.base[exec]
      <4>1. os'.prio[exec] \in Nat
        BY <1>5, Pointers, TheRanks DEF OsMemory
      <4>2. Outranked(os', exec) =>
              Outranked(os, exec) \/ (os.queue[m] # << >> /\ os.susp[Head(os.queue[m])] = 0)
        BY <1>8, <1>9, <2>5, <2>6, <2>7, <3>2, <4>1, TheRanks, FreedHandsOver
      <4> QED
        BY <1>8, <2>2, <2>4, <4>2 DEF HandsOver
    <3> QED
      BY <3>1, <3>2
  <2>11. RankOK(os', exec, u)
    <3>1. Outranked(os, exec) => Asked(os)
      BY <2>3, TheRanks DEF RankOK, HandsOver, NoWake, s
    <3> QED
      BY <1>8, <2>10, <3>1 DEF RankOK
  <2>12. SelectComes(os', exec, u)
    <3>1. "callback" \notin Calls => os.disable = 0 /\ ~Outranked(os, exec)
      BY <1>1, GuestIsStrongest
    <3> QED
      BY <1>7, <2>10, <3>1 DEF SelectComes
  <2> QED
    BY <2>1, <2>9, <2>11, <2>12, RankSteps DEF u
<1> QED
  BY <1>10, <1>11

-----------------------------------------------------------------------------
(* Suspension and resumption.                                              *)

(* The calls left begin a propagation at o, with a reschedule after it.    *)
LEMMA PropagationPushed ==
  ASSUME RankInv, LockInv', AtGuest \/ Inside("idle"), NEW o \in Threads \cup {NULL},
         AllFit(os', exec, NULL, o), o \in Threads => os'.state[o] # "NONE",
         Push(<< Frame("propagate", o, 0), ReschedCall >>),
         Tamed(os', os, exec), os'.disable = os.disable
  PROVE  RankInv'
<1> DEFINE s == stack[exec]
           f == Frame("propagate", o, 0)
           g == ReschedCall
           u == << f, g >> \o s
<1>1. s \in Seq(Frames) /\ NoWake(s)
  BY TheRanks, InsideTop DEF NoWake, AtGuest, Top
<1>2. stack' = [stack EXCEPT ![exec] = u] /\ exec' = exec
  BY DEF Push
<1>3. f \in Frames /\ f.fn = "propagate" /\ f.obj = o /\ g \in Frames /\ g.fn = "resched"
  BY SmallNumbers, OwnerCalls, KernelCalls DEF FrameOK, Frame
<1> HIDE DEF f, g, s
<1>4. u # << >> /\ Head(u) = f
  BY <1>1, <1>3, TwoOnTop
<1>5. Ahead(u)
  BY <1>1, <1>3, AheadOnTop
<1> HIDE DEF u
<1>6. PrioritiesOK(os', exec, u)
  BY <1>3, <1>4, ClosePropagation
<1>7. StaysAhead(os', os, exec, u, s)
  BY <1>5 DEF StaysAhead
<1>8. RankOK(os', exec, u) /\ SelectComes(os', exec, u)
  BY <1>1, <1>7, TheRanks, RankKept, SelectKept DEF s
<1> QED
  BY <1>2, <1>6, <1>8, RankSteps

(* The owner that a suspended or resumed waiter x answers to.              *)
LEMMA OwnerAnswers ==
  ASSUME NEW k, MemoryOK(k), LocksOK(k), NEW x \in Threads, NEW e, NEW o, o = MutexOwner(k, x)
  PROVE  /\ WaitsFor(k, e, NULL, x, o)
         /\ o \in Threads => k.state[o] # "NONE"
<1>1. NULL \notin Mutexes
  BY Pointers DEF Queues, Waitables
<1> QED
  BY <1>1, NextIsAsked, OwnersExist

LEMMA SuspendThreadRank ==
  ASSUME RankInv, LockInv', NEW t \in Threads, OSSuspendThread(t)
  PROVE  RankInv'
<1> DEFINE o == MutexOwner(os, t)
<1>1. AtGuest /\ os' = Suspend(os, t) /\ Push(AfterSuspend(os, t))
  BY DEF OSSuspendThread, May
<1>2. AllFit(os, exec, NULL, NULL)
  BY <1>1, GuestAtEase
<1>3. Suspended(os', os, t)
  BY <1>1, TheRanks, SuspendEffect
<1>4. os'.disable = os.disable /\ (Asked(os) => Asked(os'))
  <2>1. CASE os.state[t] = "RUNNING"
    <3>1. MemoryOK(os)
      BY TheRanks
    <3>2. /\ MemoryOK(os') /\ Asked(os')
          /\ os'.state = [os.state EXCEPT ![t] = "READY"]
          /\ os'.disable = os.disable /\ os'.running = os.running /\ os'.current = os.current
      BY <1>1, <2>1, <3>1, SuspendOK
    <3> QED
      BY <3>2
  <2>2. CASE os.state[t] # "RUNNING"
    <3>1. Calm(os', os)
      BY <1>1, <2>2, TheRanks, SuspendOK
    <3> QED
      BY <3>1 DEF Calm
  <2> QED
    BY <2>1, <2>2
<1>5. os.susp[t] \in Nat /\ os'.susp[t] # 0 /\ \A x \in Threads \ {t} : os'.susp[x] = os.susp[x]
  <2>1. os.susp \in [Threads -> Nat]
    BY TheRanks DEF OsMemory
  <2> QED
    BY <1>3, <2>1 DEF Suspended
<1>6. \A x \in Threads : os'.susp[x] = 0 => x # t /\ os.susp[x] = 0
  BY <1>5
<1>7. os'.state[exec] = "RUNNING" => os.state[exec] = "RUNNING"
  BY <1>3, TheRanks DEF Suspended, OsMemory
<1>8. CASE ~(os.state[t] = "WAITING" /\ os.susp[t] = 0)
  <2>1. Level(os', os) /\ os'.prio = os.prio
    BY <1>3, <1>6, <1>8 DEF Level, Suspended, SameLocks, Waitables
  <2>2. AllFit(os', exec, NULL, NULL)
    BY <1>2, <2>1, LevelKept
  <2>3. Tamed(os', os, exec) /\ (Outranked(os', exec) => Outranked(os, exec))
    BY <1>3, <1>4, <1>7, <2>1, SameRank DEF Suspended
  <2>4. AfterSuspend(os, t) = << >> \/ AfterSuspend(os, t) = << ReschedCall >>
    BY <1>8 DEF AfterSuspend
  <2>5. ReschedCall \in Frames /\ ReschedCall.fn \notin Askers
    BY KernelCalls DEF FrameOK, Askers
  <2>6. AfterSuspend(os, t) \in Seq(Frames) /\ HasNo(AfterSuspend(os, t), Askers)
    BY <2>4, <2>5, CalmRankCalls
  <2> QED
    BY <1>1, <1>4, <2>2, <2>3, <2>6, FitPushes
<1>9. CASE os.state[t] = "WAITING" /\ os.susp[t] = 0
  <2>1. Push(<< Frame("propagate", o, 0), ReschedCall >>)
    BY <1>1, <1>9 DEF AfterSuspend
  <2>2. os'.state = os.state /\ \A x \in Threads \ {t} : os'.prio[x] = os.prio[x]
    BY <1>3, <1>9, TheRanks DEF Suspended, OsMemory
  <2>3. o \in Threads \cup {NULL} /\ o = MutexOwner(os, t)
    BY TheRanks, Owners
  <2> HIDE DEF o
  <2>4. Moved(os', os, t)
    BY <1>3, <2>2 DEF Moved, Suspended, SameLocks, Waitables
  <2>5. WaitsFor(os, exec, NULL, t, o)
    BY <2>3, TheRanks, OwnerAnswers
  <2>6. AllFit(os, exec, NULL, t)
    BY <1>2, Pointers DEF AllFit
  <2>7. AllFit(os', exec, NULL, o)
    BY <1>5, <1>6, <2>4, <2>5, <2>6, MovedFits
  <2>8. o \in Threads => os'.state[o] # "NONE"
    BY <2>2, <2>3, TheRanks, OwnerAnswers
  <2>9. Tamed(os', os, exec)
    <3>1. Outranked(os', exec) => Outranked(os, exec)
      BY <1>3, <1>9, <2>2, TheRanks DEF Suspended, Outranked
    <3> QED
      BY <1>4, <3>1 DEF Tamed
  <2> QED
    BY <1>1, <1>4, <2>1, <2>3, <2>7, <2>8, <2>9, PropagationPushed
<1> QED
  BY <1>8, <1>9

(* The last resume gives a thread the strongest of its claims again.       *)
LEMMA ResumedFits ==
  ASSUME NEW k, MemoryOK(k), LocksOK(k), NEW j, NEW x \in Threads, Resumed(j, k, x),
         k.susp[x] > 0, NEW e, AllFit(k, e, NULL, NULL), NEW o,
         k.susp[x] = 1 => WaitsFor(k, e, NULL, x, o)
  PROVE  AllFit(j, e, NULL, o)
<1>1. k \in OsMemory /\ QueuesOrdered(k) /\ HoldersOK(k)
  BY DEF MemoryOK, ListsOK, LocksOK
<1>2. /\ k.susp[x] \in Nat /\ j.susp[x] = k.susp[x] - 1
      /\ \A t \in Threads \ {x} : j.susp[t] = k.susp[t]
  <2>1. k.susp \in [Threads -> Nat]
    BY <1>1 DEF OsMemory
  <2> QED
    BY <2>1 DEF Resumed
<1>3. CASE k.susp[x] > 1
  <2>1. \A t \in Threads : j.susp[t] = 0 => k.susp[t] = 0
    BY <1>2, <1>3
  <2>2. Level(j, k)
    BY <1>3, <2>1 DEF Level, Resumed, SameLocks, Waitables
  <2>3. AllFit(k, e, NULL, o)
    BY Pointers DEF AllFit
  <2> QED
    BY <2>2, <2>3, LevelFits
<1>4. CASE k.susp[x] = 1
  <2> DEFINE p == ComputeThreadEffectivePriority(k, x)
  <2>1. j.prio[x] = p /\ \A t \in Threads \ {x} : j.prio[t] = k.prio[t]
    BY <1>1, <1>4 DEF Resumed, OsMemory
  <2>2. Moved(j, k, x)
    BY <2>1 DEF Moved, Resumed, SameLocks, Waitables
  <2>3. NULL \notin Mutexes
    BY Pointers DEF Queues, Waitables
  <2>4. Least(Claims(k, e, NULL, x), p)
    BY <1>1, <2>3, EffectiveIsLeast DEF HoldersOK
  <2>5. AllFit(k, e, NULL, x)
    BY Pointers DEF AllFit
  <2> HIDE DEF p
  <2>6. Least(Claims(k, e, NULL, x), j.prio[x])
    BY <2>1, <2>4
  <2> QED
    BY <1>2, <1>4, <2>2, <2>5, <2>6, MovedFits
<1> QED
  BY <1>2, <1>3, <1>4

(* Whoever a resumption makes stronger than the running thread, a          *)
(* reschedule is asked for.                                                *)
LEMMA ResumedTamed ==
  ASSUME NEW k, k \in OsMemory, NEW j, NEW x \in Threads, Resumed(j, k, x), k.susp[x] > 0,
         Calm(j, k), NEW e \in Threads
  PROVE  Tamed(j, k, e)
<1>1. Asked(k) => Asked(j)
  BY DEF Calm
<1>2. CASE k.susp[x] > 1
  BY <1>1, <1>2, SameRank DEF Resumed
<1>3. CASE k.susp[x] = 1
  <2>1. CASE k.state[x] # "WAITING"
    BY <1>1, <1>3, <2>1 DEF Resumed, Tamed
  <2>2. CASE k.state[x] = "WAITING"
    <3>1. e # x => j.prio[e] = k.prio[e]
      BY <1>3 DEF Resumed, OsMemory
    <3>2. j.state = k.state /\ j.pending = k.pending
      BY <1>3, <2>2 DEF Resumed
    <3> QED
      BY <1>1, <2>2, <3>1, <3>2 DEF Outranked, Tamed
  <2> QED
    BY <2>1, <2>2
<1>4. k.susp[x] \in Nat
  BY DEF OsMemory
<1> QED
  BY <1>2, <1>3, <1>4

LEMMA ResumeThreadRank ==
  ASSUME RankInv, LockInv', NEW t \in Threads, OSResumeThread(t)
  PROVE  RankInv'
<1> DEFINE o == MutexOwner(os, t)
<1>1. /\ AtGuest /\ os' = Resume(os, t) /\ Push(AfterResume(os, t))
      /\ os.state[t] # "NONE" /\ os.susp[t] > 0
  BY DEF OSResumeThread, May
<1>2. AllFit(os, exec, NULL, NULL)
  BY <1>1, GuestAtEase
<1>3. Resumed(os', os, t)
  BY <1>1, TheRanks, ResumeEffect
<1>4. Calm(os', os)
  BY <1>1, TheRanks, ResumeOK
<1>5. Tamed(os', os, exec) /\ os'.disable = os.disable
  BY <1>1, <1>3, <1>4, TheRanks, ResumedTamed DEF Calm
<1>6. CASE os.susp[t] = 1 /\ os.state[t] = "WAITING"
  <2>1. Push(<< Frame("propagate", o, 0), ReschedCall >>)
    BY <1>1, <1>6 DEF AfterResume
  <2>2. o \in Threads \cup {NULL} /\ o = MutexOwner(os, t)
    BY TheRanks, Owners
  <2> HIDE DEF o
  <2>3. WaitsFor(os, exec, NULL, t, o)
    BY <2>2, TheRanks, OwnerAnswers
  <2>4. AllFit(os', exec, NULL, o)
    BY <1>1, <1>2, <1>3, <2>3, TheRanks, ResumedFits
  <2>5. o \in Threads => os'.state[o] # "NONE"
    <3>1. o \in Threads => os.state[o] # "NONE"
      BY <2>2, TheRanks, OwnerAnswers
    <3> QED
      BY <1>3, <3>1 DEF Resumed
  <2> QED
    BY <1>1, <1>5, <2>1, <2>2, <2>4, <2>5, PropagationPushed
<1>7. CASE ~(os.susp[t] = 1 /\ os.state[t] = "WAITING")
  <2> DEFINE cs == AfterResume(os, t)
  <2>1. ReschedCall \in Frames /\ ReschedCall.fn = "resched"
    BY KernelCalls DEF FrameOK
  <2>2. cs \in Seq(Frames) /\ HasNo(cs, Askers) /\ (os.susp[t] = 1 => Ahead(cs))
    <3>1. CASE os.susp[t] # 1
      <4>1. cs = << >>
        BY <3>1 DEF AfterResume
      <4> HIDE DEF cs
      <4> QED
        BY <3>1, <4>1, CalmRankCalls
    <3>2. CASE os.susp[t] = 1
      <4>1. cs = << ReschedCall >>
        BY <1>7, <3>2 DEF AfterResume
      <4> HIDE DEF cs
      <4> QED
        BY <2>1, <4>1, CalmRankCalls DEF Askers
    <3> QED
      BY <3>1, <3>2
  <2>3. os.susp[t] = 1 => WaitsFor(os, exec, NULL, t, NULL)
    <3>1. NULL \notin Mutexes
      BY Pointers DEF Queues, Waitables
    <3> QED
      BY <1>7, <3>1, TheRanks, WaitersOnly DEF WaitsFor, Waits, Waitables
  <2>4. AllFit(os', exec, NULL, NULL)
    BY <1>1, <1>2, <1>3, <2>3, TheRanks, ResumedFits
  <2>5. Outranked(os', exec) => Outranked(os, exec) \/ Ahead(cs)
    <3>1. os.susp[t] \in Nat
      BY TheRanks DEF OsMemory
    <3>2. CASE os.susp[t] > 1
      BY <1>3, <3>2 DEF Resumed, Outranked
    <3>3. CASE os.susp[t] = 1
      BY <2>2, <3>3
    <3> QED
      BY <1>1, <3>1, <3>2, <3>3
  <2>6. Push(cs)
    BY <1>1
  <2> HIDE DEF cs
  <2> QED
    BY <1>1, <1>5, <2>2, <2>4, <2>5, <2>6, FitPushes
<1> QED
  BY <1>6, <1>7

(* A sleep timer runs out.                                                 *)
LEMMA ProcessSleepTimersRank ==
  ASSUME RankInv, LockInv', NEW t \in Threads, ProcessSleepTimers(t)
  PROVE  RankInv'
<1> DEFINE k == [os EXCEPT !.timers = @ \ {t}, !.parks = @ \ {t}]
           f == [Top EXCEPT !.due = @ \ {t}]
<1>1. stack[exec] # << >> /\ Top.fn \in {"idle", "select"}
  BY InsideTop DEF ProcessSleepTimers
<1>2. f \in Frames /\ f.fn = Top.fn
  BY <1>1, TheRanks, TopOK DEF Frames
<1>3. MemoryOK(k) /\ Calm(k, os)
  BY TheRanks, TimerDropped
<1>4. /\ k.state = os.state /\ k.susp = os.susp /\ k.prio = os.prio /\ k.base = os.base
      /\ k.queue = os.queue /\ k.pending = os.pending /\ k.resched = os.resched
      /\ k.waitsOn = os.waitsOn /\ k.held = os.held /\ k.owner = os.owner
  BY TheRanks DEF OsMemory
<1>5. os.state[exec] # "RUNNING" \/ Top.fn = "select"
  <2>1. CASE Top.fn = "idle"
    <3>1. Inside("idle")
      BY <1>1, <2>1 DEF Inside, Top
    <3> QED
      BY <3>1, TheRanks, IdleIdles, IdleIsOutranked
  <2> QED
    BY <1>1, <2>1
<1>6. AllFit(os, exec, NULL, NULL)
  BY <1>1, AtEase
<1> HIDE DEF f
<1>7. CASE os.state[t] = "READY" /\ os.susp[t] >= 1
  <2> DEFINE cs == Append(AfterResume(k, t), f)
  <2>1. os' = Resume(k, t) /\ Continue(cs)
    BY <1>7 DEF ProcessSleepTimers, f
  <2> HIDE DEF k
  <2>2. LocksOK(k) /\ k \in OsMemory /\ k.susp[t] > 0 /\ k.state[t] = "READY"
    <3>1. os.susp[t] > 0
      BY <1>7, TheRanks DEF OsMemory
    <3>2. LocksOK(k)
      BY <1>4, TheRanks DEF LocksOK, QueuesOrdered, Sorted, HoldersOK, WaiterOK, In
    <3> QED
      BY <1>3, <1>4, <1>7, <3>1, <3>2 DEF MemoryOK, ListsOK
  <2>3. AllFit(k, exec, NULL, NULL)
    <3>1. Level(k, os)
      BY <1>4 DEF Level, In
    <3> QED
      BY <1>6, <3>1, LevelKept
  <2>4. Resumed(os', k, t)
    BY <1>3, <2>1, <2>2, TheRanks, ResumeEffect DEF LocksOK
  <2>5. Calm(os', k) /\ Calm(os', os)
    <3>1. Calm(os', k)
      BY <1>3, <2>1, <2>2, ResumeOK
    <3> QED
      BY <1>3, <3>1, CalmTransitive
  <2>6. AllFit(os', exec, NULL, NULL)
    <3>1. NULL \notin Mutexes
      BY Pointers DEF Queues, Waitables
    <3>2. WaitsFor(k, exec, NULL, t, NULL)
      BY <1>3, <2>2, <3>1, WaitersOnly DEF WaitsFor, Waits, Waitables
    <3> QED
      BY <1>3, <2>2, <2>3, <2>4, <3>2, ResumedFits
  <2>7. Tamed(os', os, exec)
    <3>1. Tamed(os', k, exec)
      BY <2>2, <2>4, <2>5, TheRanks, ResumedTamed
    <3> QED
      BY <1>4, <3>1 DEF Tamed, Outranked, Asked
  <2>8. cs \in Seq(Frames) /\ HasNo(cs, Askers) /\ (f.fn = "select" => Ahead(cs))
    <3>1. AfterResume(k, t) = << >> \/ AfterResume(k, t) = << ReschedCall >>
      BY <2>2 DEF AfterResume
    <3>2. ReschedCall \in Frames /\ ReschedCall.fn = "resched"
      BY KernelCalls DEF FrameOK
    <3>3. cs = << f >> \/ cs = << ReschedCall, f >>
      <4>1. Append(<< >>, f) = << f >> /\ Append(<< ReschedCall >>, f) = << ReschedCall, f >>
        BY <1>2, <3>2, AppendedCalls
      <4> QED
        BY <3>1, <4>1
    <3> HIDE DEF cs
    <3> QED
      BY <1>1, <1>2, <3>2, <3>3, CalmRankCalls DEF Askers
  <2>9. Outranked(os', exec) => Ahead(cs)
    <3>1. os'.state = os.state
      BY <1>4, <2>4 DEF Resumed
    <3> QED
      BY <1>2, <1>5, <2>8, <3>1 DEF Outranked
  <2> HIDE DEF cs
  <2> QED
    BY <1>1, <2>1, <2>5, <2>6, <2>7, <2>8, <2>9, FitContinues DEF Calm
<1>8. CASE ~(os.state[t] = "READY" /\ os.susp[t] >= 1)
  <2>1. os' = k /\ Continue(<< f >>)
    BY <1>8 DEF ProcessSleepTimers, f
  <2> HIDE DEF k
  <2>2. Level(os', os) /\ Tamed(os', os, exec) /\ (Outranked(os', exec) => Outranked(os, exec))
    BY <1>4, <2>1 DEF Level, In, Tamed, Outranked, Asked
  <2>3. AllFit(os', exec, NULL, NULL)
    BY <1>6, <2>2, LevelKept
  <2>4. << f >> \in Seq(Frames) /\ HasNo(<< f >>, Askers) /\ (f.fn = "select" => Ahead(<< f >>))
    BY <1>1, <1>2, CalmRankCalls DEF Askers
  <2>5. Outranked(os', exec) => Ahead(<< f >>)
    BY <1>2, <1>5, <2>2, <2>4 DEF Outranked
  <2> QED
    BY <1>1, <1>3, <2>1, <2>2, <2>3, <2>4, <2>5, FitContinues DEF Calm
<1> QED
  BY <1>7, <1>8

(* The running thread suspends itself with its timer armed.                *)
LEMMA SleepTicksRank ==
  ASSUME RankInv, LockInv', OSSleepTicks
  PROVE  RankInv'
<1> DEFINE k  == [os EXCEPT !.timers = @ \cup {exec}, !.parks = @ \cup {exec}]
           f  == ReschedCall
           g  == Frame("ticks", NULL, 0)
           cs == AfterSuspend(os, exec) \o << g >>
<1>1. AtGuest /\ os.current = exec /\ os' = Suspend(k, exec) /\ Push(cs)
  BY DEF OSSleepTicks, May
<1>2. os.state[exec] = "RUNNING" /\ os.susp[exec] = 0
  <2>1. os.state[exec] = "RUNNING"
    BY <1>1, TheRanks, RunningIsLive, GuestRuns
  <2> QED
    BY <2>1, TheRanks DEF MemoryOK, ThreadOK
<1>3. f \in Frames /\ f.fn = "resched" /\ g \in Frames /\ g.fn = "ticks"
  BY KernelCalls DEF FrameOK
<1>4. cs = << f, g >>
  <2>1. AfterSuspend(os, exec) = << f >>
    BY <1>2 DEF AfterSuspend
  <2> QED
    BY <1>3, <2>1, Pair
<1> HIDE DEF f, g, cs
<1>5. cs \in Seq(Frames) /\ HasNo(cs, Askers)
  BY <1>3, <1>4, CalmRankCalls DEF Askers
<1>6. /\ k.queue = os.queue /\ k.pending = os.pending /\ k.qptr = os.qptr
      /\ k.state = os.state /\ k.susp = os.susp /\ k.prio = os.prio /\ k.base = os.base
      /\ k.owner = os.owner /\ k.count = os.count /\ k.disable = os.disable
      /\ k \in OsMemory
  <2>1. os.timers \cup {exec} \in SUBSET Threads /\ os.parks \cup {exec} \in SUBSET Threads
    BY TheRanks DEF OsMemory
  <2> QED
    BY <2>1, TheRanks DEF OsMemory
<1> HIDE DEF k
<1>7. MemoryOK(k) /\ QueuesOrdered(k)
  <2>1. \A m \in Mutexes : k.owner[m] = NULL <=> k.count[m] = 0
    BY <1>6, TheRanks DEF MemoryOK, ListsOK
  <2> QED
    BY <1>6, <2>1, TheRanks, QuietChanges DEF QueuesOrdered, Sorted
<1>8. Suspended(os', k, exec)
  BY <1>1, <1>7, TheRanks, SuspendEffect
<1>9. os'.state[exec] # "RUNNING" /\ Asked(os') /\ os'.disable = os.disable
  <2>1. k.state[exec] = "RUNNING" /\ exec \in Threads
    BY <1>2, <1>6, TheRanks
  <2>2. /\ MemoryOK(os') /\ Asked(os')
        /\ os'.state = [k.state EXCEPT ![exec] = "READY"]
        /\ os'.disable = k.disable /\ os'.running = k.running /\ os'.current = k.current
    BY <1>1, <1>7, <2>1, SuspendOK
  <2> QED
    BY <1>6, <2>2, TheRanks DEF OsMemory
<1>10. AllFit(os', exec, NULL, NULL)
  <2>1. \A x \in Threads : os'.susp[x] = 0 => os.susp[x] = 0
    BY <1>2, <1>6, <1>8, TheRanks DEF Suspended, OsMemory
  <2>2. Level(os', os)
    BY <1>2, <1>6, <1>8, <2>1 DEF Suspended, SameLocks, Level, In, Waitables
  <2> QED
    BY <1>1, <2>2, GuestAtEase, LevelKept
<1>11. Tamed(os', os, exec) /\ ~Outranked(os', exec)
  BY <1>9 DEF Tamed, Outranked
<1> QED
  BY <1>1, <1>5, <1>9, <1>10, <1>11, FitPushes

-----------------------------------------------------------------------------
(* The third inductive invariant.                                          *)

LEMMA RanksInductive == RankInv /\ [Next]_vars => RankInv'
<1> SUFFICES ASSUME RankInv, [Next]_vars PROVE RankInv'
  OBVIOUS
<1>1. LockInv' /\ IInv
  BY TheRanks, LocksInductive
<1>2. CASE UNCHANGED vars
  <2>1. UNCHANGED os /\ UNCHANGED stack /\ UNCHANGED exec
    BY <1>2 DEF vars
  <2> QED
    BY <1>1, <2>1 DEF RankInv
<1>3. CASE KernelStep
  BY <1>1, <1>3, ProcessSleepTimersRank, SelectReturnsRank, SelectSwitchesRank,
     SelectIdlesRank, IdleEventRank, IdleEndsRank, WakeupQueueRank, SleepBeginsRank,
     SleepReturnsRank, LockTurnRank, PromoteTurnRank, PropagateTurnRank,
     ReschedTailRank, TicksTailRank, TheRanks, LocksLive, Zenon DEF KernelStep
<1>4. CASE GuestStep
  BY <1>1, <1>4, WakeupThreadRank, SleepThreadRank, LockMutexRank, UnlockMutexRank,
     SuspendThreadRank, ResumeThreadRank, YieldThreadRank, SleepTicksRank,
     BeginCallbacksRank, EndCallbacksRank, TheRanks, LocksLive, Zenon DEF GuestStep
<1> QED
  BY <1>2, <1>3, <1>4 DEF Next

LEMMA RanksInitial == SyncInstance /\ Init => RankInv
<1> SUFFICES ASSUME SyncInstance, Init PROVE RankInv
  OBVIOUS
<1>1. LockInv
  BY LocksInitial
<1>2. /\ os.prio = BasePrio /\ os.base = BasePrio /\ os.pending = {} /\ os.disable = 0
      /\ os.owner = [m \in Mutexes |-> NULL]
      /\ exec = Main /\ Main \in Threads /\ stack = [t \in Threads |-> << >>]
  BY OsConstants DEF Init
<1>3. ASSUME NEW t \in Threads PROVE Fits(os, exec, NULL, t)
  <2>1. \A m \in Mutexes : os.owner[m] # t
    BY <1>2, Pointers
  <2>2. BasePrio[t] \in Nat
    BY OsConstants DEF Prios
  <2> QED
    BY <1>2, <2>1, <2>2, LeastOf DEF Fits
<1>4. PrioritiesOK(os, exec, stack[exec])
  BY <1>2, <1>3, ClosePriorities DEF AllFit
<1>5. ~Outranked(os, exec)
  BY <1>2 DEF Outranked
<1> QED
  BY <1>1, <1>2, <1>4, <1>5 DEF RankInv, RankOK, SelectComes

(* In every instance without the life-cycle calls, between any two steps   *)
(* of any call, inherited priorities are the strongest of what a thread    *)
(* has and is lent, and a stronger thread that is queued has a reschedule  *)
(* asked for it.                                                           *)
THEOREM RanksAgree == SyncInstance => (Spec => []RankInv)
BY RanksInitial, RanksInductive, PTL DEF Spec

(* Once no promotion is under way, the owner of a mutex is at least as     *)
(* strong as every thread that waits for it, however long the chain of     *)
(* owners, unless one of the two is suspended.                             *)
THEOREM PriorityIsInherited == SyncInstance => (Spec => []PriorityInheritance)
<1>1. RankInv => PriorityInheritance
  <2> SUFFICES ASSUME RankInv, ~(Inside("promote") \/ Inside("propagate")),
                      NEW m \in Mutexes, os.owner[m] # NULL, os.susp[os.owner[m]] = 0,
                      NEW w \in ToSet(os.queue[m]), os.susp[w] = 0
               PROVE  os.prio[os.owner[m]] <= os.prio[w]
    BY DEF PriorityInheritance
  <2> DEFINE o == os.owner[m]
             s == stack[exec]
             C == Claims(os, exec, Asking(s), o)
  <2>1. o \in Threads /\ m \in Queues
    BY TheRanks DEF OsMemory, Queues, Waitables
  <2>2. w \in Threads
    <3>1. os.queue[m] \in Seq(Threads)
      BY <2>1, TheRanks DEF OsMemory
    <3> QED
      BY <3>1, LenProperties, ElementOfSeq DEF ToSet
  <2>3. os.prio[w] \in C
    BY <2>2 DEF Claims, Waits, In
  <2>4. PriorityOK(os, exec, s, o)
    BY <2>1, TheRanks DEF PrioritiesOK
  <2> HIDE DEF C
  <2>5. Lower(C, os.prio[o])
    <3>1. ~Adjusts(os, s, "propagate", o) /\ ~Adjusts(os, s, "promote", o)
      BY DEF Adjusts, Inside
    <3> QED
      BY <2>4, <3>1 DEF PriorityOK, C
  <2> QED
    BY <2>3, <2>5 DEF Lower
<1> QED
  BY <1>1, RanksAgree, PTL

(* A weaker thread may run on after a callback batch that did not flush,   *)
(* but only while a reschedule is on record: a request made under the      *)
(* raised disable count is never forgotten.                                *)
THEOREM RescheduleIsRemembered == SyncInstance => (Spec => []RescheduleRemembered)
<1>1. RankInv => RescheduleRemembered
  <2> SUFFICES ASSUME RankInv, AtGuest, os.disable = 0, ~os.resched, NEW p \in os.pending
               PROVE  os.prio[exec] <= p
    BY DEF RescheduleRemembered
  <2>1. ~Asked(os) /\ ~HandsOver(os, stack[exec])
    BY InsideTop DEF Asked, HandsOver, AtGuest, Top
  <2>2. ~Outranked(os, exec)
    BY <2>1, TheRanks DEF RankOK
  <2>3. os.state[exec] = "RUNNING"
    <3>1. IInv => ExecIsRunning
      BY GuestIsRunning
    <3> QED
      BY <3>1, TheRanks DEF ExecIsRunning
  <2>4. os.prio[exec] \in Nat /\ p \in Nat
    BY TheRanks, Pointers DEF OsMemory
  <2> QED
    BY <2>2, <2>3, <2>4 DEF Outranked
<1> QED
  BY <1>1, RanksAgree, PTL

(* Fixed-priority scheduling: in an instance without callbacks, whenever   *)
(* guest code runs nothing runnable is stronger than the running thread.   *)
THEOREM StrongestAlwaysRuns ==
  SyncInstance /\ "callback" \notin Calls => (Spec => []StrongestRuns)
<1> SUFFICES ASSUME SyncInstance, "callback" \notin Calls PROVE Spec => []StrongestRuns
  OBVIOUS
<1>1. RankInv => StrongestRuns
  <2> SUFFICES ASSUME RankInv, AtGuest, os.disable = 0, NEW p \in os.pending
               PROVE  os.prio[exec] <= p
    BY DEF StrongestRuns
  <2>1. ~Outranked(os, exec)
    BY GuestIsStrongest
  <2>2. os.state[exec] = "RUNNING"
    <3>1. IInv => ExecIsRunning
      BY GuestIsRunning
    <3> QED
      BY <3>1, TheRanks DEF ExecIsRunning
  <2>3. os.prio[exec] \in Nat /\ p \in Nat
    BY TheRanks, Pointers DEF OsMemory
  <2> QED
    BY <2>1, <2>2, <2>3 DEF Outranked
<1>2. Spec => []RankInv
  BY RanksAgree
<1> QED
  BY <1>1, <1>2, PTL
=============================================================================
