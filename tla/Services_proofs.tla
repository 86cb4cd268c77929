--------------------------- MODULE Services_proofs ---------------------------
(***************************************************************************)
(* Proofs about MessageQueue for every capacity, set of threads and set of *)
(* messages: the ring stays within its array, no wake-up is lost, and the  *)
(* ring implements the sequence of BoundedFifo.                            *)
(* Proofs about DeferredNetwork for every set of threads and sockets and   *)
(* every bound: a woken thread finds its own answer, a socket its own      *)
(* peer, and an asynchronous request calls back once.                      *)
(* Proofs about AlarmPump for every set of alarms and fibers and every     *)
(* bound: the alarm queue stays in order, and no other thread runs inside  *)
(* a handler, a retrace or a deferred pump.                                *)
(* The services together: MCServices keeps the types of all of them.       *)
(***************************************************************************)
EXTENDS MCServices, SoundCore_proofs, Storage_proofs, Lists_proofs,
        SequenceTheorems, FiniteSetTheorems, TLAPS

-----------------------------------------------------------------------------
(* The pumps of alarms and callbacks, and the retraces.                    *)

\* The frames that hold the scheduler disabled, and those of a retrace.
HoldsOff(frame) == frame.masked \/ frame.at = "handler"
Holding(s) == {i \in DOMAIN s : HoldsOff(s[i])}
Retraces(s) == {i \in DOMAIN s : s[i].at = "retrace"}

\* A frame on the frames below: a handler runs on a pump of alarms, a callback on
\* a drain, which owe it a turn; a pump stands within the bound.
FrameOK(frame, below) ==
  /\ frame.at \in {"alarms", "drain", "retrace"} => Len(below) < MaxNest
  /\ frame.at = "handler" =>
       below # <<>> /\ below[1].at = "alarms" /\ below[1].turns > 0
  /\ frame.at = "callback" =>
       below # <<>> /\ below[1].at = "drain" /\ below[1].turns > 0 /\ ~frame.masked

FramesOK(s) ==
  \A i \in DOMAIN s :
    /\ s[i].at \in {"alarms", "drain", "retrace"} => Len(s) - i < MaxNest
    /\ s[i].at = "handler" =>
         i < Len(s) /\ s[i + 1].at = "alarms" /\ s[i + 1].turns > 0
    /\ s[i].at = "callback" =>
         i < Len(s) /\ s[i + 1].at = "drain" /\ s[i + 1].turns > 0 /\ ~s[i].masked

\* The disable count is that of the frames of the fiber that executes, and a
\* retrace is under way just when it is inside one.
NestingOK ==
  /\ \A f \in Fibers : FramesOK(frames[f])
  /\ disable = Cardinality(Holding(frames[exec]))
  /\ Cardinality(Retraces(frames[exec])) = IF advancing THEN 1 ELSE 0
-----------------------------------------------------------------------------
(* Frames.                                                                 *)

LEMMA Pushed ==
  ASSUME NEW T, NEW s \in Seq(T), NEW x \in T
  PROVE  LET u == <<x>> \o s
         IN  /\ u \in Seq(T) /\ u # <<>> /\ Len(u) = Len(s) + 1
             /\ u[1] = x /\ \A i \in DOMAIN s : u[i + 1] = s[i]
             /\ Head(u) = x /\ Tail(u) = s
  <1> DEFINE u == <<x>> \o s
  <1>1. /\ <<x>> \in Seq(T) /\ Len(<<x>>) = 1 /\ <<x>>[1] = x
    OBVIOUS
  <1>2. /\ u \in Seq(T) /\ Len(u) = 1 + Len(s)
        /\ \A i \in 1..(1 + Len(s)) : u[i] = IF i <= 1 THEN <<x>>[i] ELSE s[i - 1]
    BY <1>1, ConcatProperties
  <1>3. Len(s) \in Nat /\ DOMAIN s = 1..Len(s)
    BY LenProperties
  <1>4. u # <<>> /\ u[1] = x /\ \A i \in DOMAIN s : u[i + 1] = s[i]
    BY <1>1, <1>2, <1>3
  <1>5. Head(u) = x /\ Tail(u) \in Seq(T) /\ Len(Tail(u)) = Len(s)
    BY <1>2, <1>3, <1>4, HeadTailProperties
  <1>6. \A i \in 1..Len(s) : Tail(u)[i] = s[i]
    BY <1>2, <1>3, <1>4, <1>5, HeadTailProperties
  <1>7. Tail(u) = s
    BY <1>3, <1>5, <1>6, SeqEqual
  <1> QED
    BY <1>2, <1>3, <1>4, <1>5, <1>7

LEMMA Split ==
  ASSUME NEW T, NEW s \in Seq(T), s # <<>>
  PROVE  /\ Head(s) \in T /\ Tail(s) \in Seq(T) /\ Head(s) = s[1]
         /\ s = <<Head(s)>> \o Tail(s) /\ Len(s) = Len(Tail(s)) + 1
         /\ \A i \in DOMAIN Tail(s) : Tail(s)[i] = s[i + 1]
  <1>1. /\ Head(s) \in T /\ Tail(s) \in Seq(T) /\ Head(s) = s[1]
        /\ Len(Tail(s)) = Len(s) - 1 /\ \A i \in 1..Len(s) - 1 : Tail(s)[i] = s[i + 1]
    BY HeadTailProperties, LenProperties, EmptySeq
  <1>2. Len(s) \in Nat /\ Len(s) > 0 /\ DOMAIN s = 1..Len(s) /\ DOMAIN Tail(s) = 1..Len(Tail(s))
    BY <1>1, LenProperties, EmptySeq
  <1> DEFINE u == <<Head(s)>> \o Tail(s)
  <1>3. /\ u \in Seq(T) /\ Len(u) = Len(Tail(s)) + 1
        /\ u[1] = Head(s) /\ \A i \in DOMAIN Tail(s) : u[i + 1] = Tail(s)[i]
    BY <1>1, Pushed
  <1>4. \A i \in 1..Len(s) : u[i] = s[i]
    <2> SUFFICES ASSUME NEW i \in 1..Len(s) PROVE u[i] = s[i]
      OBVIOUS
    <2>1. CASE i = 1
      BY <2>1, <1>1, <1>3
    <2>2. CASE i # 1
      <3>1. i - 1 \in DOMAIN Tail(s) /\ (i - 1) + 1 = i /\ i - 1 \in 1..Len(s) - 1
        BY <2>2, <1>1, <1>2
      <3> QED
        BY <3>1, <1>1, <1>3
    <2> QED
      BY <2>1, <2>2
  <1>5. u = s
    BY <1>1, <1>2, <1>3, <1>4, SeqEqual
  <1> QED
    BY <1>1, <1>2, <1>5

\* A set of places moves down by one, under a place at the top or not.
LEMMA ShiftedCount ==
  ASSUME NEW n \in Nat, NEW A \in SUBSET (1..n), NEW top \in BOOLEAN,
         NEW B, B = {i + 1 : i \in A} \cup (IF top THEN {1} ELSE {})
  PROVE  /\ IsFiniteSet(A) /\ IsFiniteSet(B) /\ Cardinality(A) \in Nat
         /\ Cardinality(B) = Cardinality(A) + (IF top THEN 1 ELSE 0)
  <1> DEFINE S == {i + 1 : i \in A}
             f == [i \in A |-> i + 1]
  <1>1. IsFiniteSet(A) /\ Cardinality(A) \in Nat
    <2>1. IsFiniteSet(1..n)
      BY FS_Interval
    <2>2. IsFiniteSet(A)
      BY <2>1, FS_Subset
    <2> QED
      BY <2>2, FS_CardinalityType
  <1>2. f \in Bijection(A, S)
    <2>1. f \in Injection(A, S)
      BY DEF Injection, IsInjective
    <2>2. f \in Surjection(A, S)
      BY DEF Surjection
    <2> QED
      BY <2>1, <2>2 DEF Bijection
  <1>3. IsFiniteSet(S) /\ Cardinality(S) = Cardinality(A)
    BY <1>1, <1>2, FS_Bijection DEF ExistsBijection
  <1>4. 1 \notin S
    OBVIOUS
  <1>5. CASE top
    <2>1. B = S \cup {1}
      BY <1>5
    <2>2. IsFiniteSet(B) /\ Cardinality(B) = Cardinality(S) + 1
      BY <1>3, <1>4, <2>1, FS_AddElement
    <2> QED
      BY <1>1, <1>3, <1>5, <2>2
  <1>6. CASE ~top
    BY <1>1, <1>3, <1>6
  <1> QED
    BY <1>5, <1>6

LEMMA Counts ==
  ASSUME NEW s \in Seq(Frames), NEW x \in Frames
  PROVE  LET u == <<x>> \o s
         IN  /\ Cardinality(Holding(s)) \in Nat /\ Cardinality(Retraces(s)) \in Nat
             /\ Cardinality(Holding(u)) =
                  Cardinality(Holding(s)) + (IF HoldsOff(x) THEN 1 ELSE 0)
             /\ Cardinality(Retraces(u)) =
                  Cardinality(Retraces(s)) + (IF x.at = "retrace" THEN 1 ELSE 0)
  <1> DEFINE u == <<x>> \o s
  <1>1. /\ Len(s) \in Nat /\ DOMAIN s = 1..Len(s) /\ DOMAIN u = 1..Len(s) + 1
        /\ u[1] = x /\ \A i \in DOMAIN s : u[i + 1] = s[i]
    BY Pushed, LenProperties
  <1>2. \A i \in DOMAIN u : i = 1 \/ (i - 1 \in DOMAIN s /\ (i - 1) + 1 = i)
    BY <1>1
  <1> HIDE DEF u
  <1>3. Holding(u) = {i + 1 : i \in Holding(s)} \cup (IF HoldsOff(x) THEN {1} ELSE {})
    BY <1>1, <1>2 DEF Holding
  <1>4. Retraces(u) = {i + 1 : i \in Retraces(s)} \cup (IF x.at = "retrace" THEN {1} ELSE {})
    BY <1>1, <1>2 DEF Retraces
  <1>5. /\ Holding(s) \in SUBSET (1..Len(s)) /\ Retraces(s) \in SUBSET (1..Len(s))
    BY <1>1 DEF Holding, Retraces
  <1>6. HoldsOff(x) \in BOOLEAN /\ (x.at = "retrace") \in BOOLEAN
    BY DEF HoldsOff, Frames
  <1>7. /\ Cardinality(Holding(s)) \in Nat
        /\ Cardinality(Holding(u)) =
             Cardinality(Holding(s)) + (IF HoldsOff(x) THEN 1 ELSE 0)
    BY <1>1, <1>3, <1>5, <1>6, ShiftedCount
  <1>8. /\ Cardinality(Retraces(s)) \in Nat
        /\ Cardinality(Retraces(u)) =
             Cardinality(Retraces(s)) + (IF x.at = "retrace" THEN 1 ELSE 0)
    BY <1>1, <1>4, <1>5, <1>6, ShiftedCount
  <1> QED
    BY <1>7, <1>8 DEF u

LEMMA NoFrames ==
  /\ Cardinality(Holding(<<>>)) = 0 /\ Cardinality(Retraces(<<>>)) = 0
  /\ FramesOK(<<>>)
  BY FS_EmptySet DEF Holding, Retraces, FramesOK

\* Frames without any that hold the scheduler, or of a retrace.
LEMMA CountZero ==
  ASSUME NEW s \in Seq(Frames)
  PROVE  /\ Cardinality(Holding(s)) \in Nat /\ Cardinality(Retraces(s)) \in Nat
         /\ Cardinality(Holding(s)) = 0 <=> \A i \in DOMAIN s : ~HoldsOff(s[i])
         /\ Cardinality(Retraces(s)) = 0 <=> \A i \in DOMAIN s : s[i].at # "retrace"
  <1>1. IsFiniteSet(Holding(s)) /\ IsFiniteSet(Retraces(s))
    <2>1. IsFiniteSet(1..Len(s)) /\ DOMAIN s = 1..Len(s)
      BY FS_Interval, LenProperties
    <2> QED
      BY <2>1, FS_Subset DEF Holding, Retraces
  <1>2. /\ Cardinality(Holding(s)) = 0 <=> Holding(s) = {}
        /\ Cardinality(Retraces(s)) = 0 <=> Retraces(s) = {}
    BY <1>1, FS_EmptySet
  <1> QED
    BY <1>1, <1>2, FS_CardinalityType DEF Holding, Retraces

LEMMA FramesSplit ==
  ASSUME NEW s \in Seq(Frames), NEW x \in Frames
  PROVE  FramesOK(<<x>> \o s) <=> FramesOK(s) /\ FrameOK(x, s)
  <1> DEFINE u == <<x>> \o s
  <1>1. /\ Len(s) \in Nat /\ DOMAIN s = 1..Len(s) /\ DOMAIN u = 1..Len(s) + 1
        /\ Len(u) = Len(s) + 1
        /\ u[1] = x /\ \A i \in DOMAIN s : u[i + 1] = s[i]
    BY Pushed, LenProperties
  <1>2. s = <<>> <=> Len(s) = 0
    BY EmptySeq
  <1> HIDE DEF u
  <1>3. ASSUME FramesOK(u) PROVE FramesOK(s) /\ FrameOK(x, s)
    <2>1. FrameOK(x, s)
      BY <1>1, <1>2, <1>3 DEF FramesOK, FrameOK
    <2>2. ASSUME NEW i \in DOMAIN s
          PROVE  /\ s[i].at \in {"alarms", "drain", "retrace"} => Len(s) - i < MaxNest
                 /\ s[i].at = "handler" =>
                      i < Len(s) /\ s[i + 1].at = "alarms" /\ s[i + 1].turns > 0
                 /\ s[i].at = "callback" =>
                      i < Len(s) /\ s[i + 1].at = "drain" /\ s[i + 1].turns > 0 /\ ~s[i].masked
      <3>0. i \in 1..Len(s) /\ u[i + 1] = s[i]
        BY <1>1
      <3>4. i + 1 \in 1..Len(s) + 1 /\ (Len(s) + 1) - (i + 1) = Len(s) - i
        BY <3>0, <1>1
      <3>1. i + 1 \in DOMAIN u /\ u[i + 1] = s[i] /\ Len(u) - (i + 1) = Len(s) - i
        BY <1>1, <3>0, <3>4
      <3>2. i < Len(s) <=> i + 1 < Len(u)
        BY <1>1
      <3>3. i < Len(s) => u[(i + 1) + 1] = s[i + 1]
        BY <1>1
      <3> QED
        BY <3>1, <3>2, <3>3, <1>3 DEF FramesOK
    <2> QED
      BY <2>1, <2>2 DEF FramesOK
  <1>4. ASSUME FramesOK(s), FrameOK(x, s) PROVE FramesOK(u)
    <2>1. ASSUME NEW i \in DOMAIN u
          PROVE  /\ u[i].at \in {"alarms", "drain", "retrace"} => Len(u) - i < MaxNest
                 /\ u[i].at = "handler" =>
                      i < Len(u) /\ u[i + 1].at = "alarms" /\ u[i + 1].turns > 0
                 /\ u[i].at = "callback" =>
                      i < Len(u) /\ u[i + 1].at = "drain" /\ u[i + 1].turns > 0 /\ ~u[i].masked
      <3>1. CASE i = 1
        <4>1. s # <<>> => 1 \in DOMAIN s /\ 1 < Len(u) /\ u[1 + 1] = s[1]
          BY <1>1, <1>2
        <4> QED
          BY <3>1, <4>1, <1>1, <1>4 DEF FrameOK
      <3>2. CASE i # 1
        <4>0. i \in 1..Len(s) + 1
          BY <1>1
        <4> DEFINE j == i - 1
        <4>1. j \in 1..Len(s) /\ j \in DOMAIN s /\ i = j + 1
          BY <3>2, <1>1, <4>0
        <4> HIDE DEF j
        <4>2. u[i] = s[j] /\ Len(u) - i = Len(s) - j /\ (j < Len(s) <=> i < Len(u))
          BY <4>1, <1>1
        <4>3. j < Len(s) => u[i + 1] = s[j + 1]
          BY <4>1, <1>1
        <4> QED
          BY <4>1, <4>2, <4>3, <1>4 DEF FramesOK
      <3> QED
        BY <3>1, <3>2
    <2> QED
      BY <2>1 DEF FramesOK
  <1> QED
    BY <1>3, <1>4 DEF u
-----------------------------------------------------------------------------
(* Nesting.                                                                *)

FiberStates == {"running", "ready", "event", "retrace"}
SchedulerOK ==
  /\ exec \in Fibers /\ idling \in BOOLEAN /\ resched \in BOOLEAN
  /\ fiber \in [Fibers -> FiberStates]
StackOK ==
  /\ frames \in [Fibers -> Seq(Frames)]
  /\ \A f \in Fibers : Len(frames[f]) <= MaxNest + 1
  /\ disable \in Nat /\ advancing \in BOOLEAN
StackInv == SchedulerOK /\ StackOK /\ NestingOK /\ InterruptsFinish

\* A step after which the frames of the fiber that executed are t.
StacksTo(t) ==
  /\ t \in Seq(Frames) /\ Len(t) <= MaxNest + 1 /\ FramesOK(t)
  /\ frames' = [frames EXCEPT ![exec] = t]
  /\ disable' = Cardinality(Holding(t))
  /\ advancing' \in BOOLEAN
  /\ Cardinality(Retraces(t)) = IF advancing' THEN 1 ELSE 0

LEMMA NestingKept ==
  ASSUME StackInv, NEW t, StacksTo(t), SchedulerOK',
         exec' = exec \/ (disable' = 0 /\ ~advancing')
  PROVE  StackInv'
  <1>1. /\ exec \in Fibers /\ exec' \in Fibers
        /\ frames' \in [Fibers -> Seq(Frames)] /\ frames'[exec] = t
        /\ \A f \in Fibers \ {exec} : frames'[f] = frames[f]
    BY DEF StackInv, StackOK, SchedulerOK, StacksTo
  <1>2. disable' \in Nat
    BY CountZero DEF StacksTo
  <1>3. StackOK'
    BY <1>1, <1>2 DEF StackInv, StackOK, StacksTo
  <1>4. \A f \in Fibers \ {exec} : \A i \in DOMAIN frames[f] :
          ~HoldsOff(frames[f][i]) /\ frames[f][i].at # "retrace"
    BY DEF StackInv, InterruptsFinish, HoldsOff
  <1>5. CASE exec' = exec
    BY <1>1, <1>3, <1>5 DEF StackInv, StackOK, NestingOK, InterruptsFinish, StacksTo
  <1>6. CASE exec' # exec
    <2>1. disable' = 0 /\ ~advancing'
      BY <1>6
    <2>2. \A i \in DOMAIN t : ~HoldsOff(t[i]) /\ t[i].at # "retrace"
      BY <2>1, CountZero DEF StacksTo
    <2>3. \A f \in Fibers : \A i \in DOMAIN frames'[f] :
            ~HoldsOff(frames'[f][i]) /\ frames'[f][i].at # "retrace"
      BY <1>1, <1>4, <2>2
    <2>4. InterruptsFinish'
      BY <2>3 DEF InterruptsFinish, HoldsOff
    <2>5. /\ Cardinality(Holding(frames'[exec'])) = 0
          /\ Cardinality(Retraces(frames'[exec'])) = 0
      BY <1>1, <2>3, CountZero
    <2>6. NestingOK'
      BY <1>1, <2>1, <2>5 DEF NestingOK, StackInv, StacksTo
    <2> QED
      BY <1>3, <2>4, <2>6 DEF StackInv
  <1> QED
    BY <1>5, <1>6

\* What exec's frames are, taken apart.
LEMMA TopFacts ==
  ASSUME StackInv, frames[exec] # <<>>
  PROVE  /\ Top \in Frames /\ Tail(frames[exec]) \in Seq(Frames)
         /\ frames[exec] = <<Top>> \o Tail(frames[exec])
         /\ Len(frames[exec]) = Len(Tail(frames[exec])) + 1
         /\ Len(frames[exec]) <= MaxNest + 1
         /\ FrameOK(Top, Tail(frames[exec])) /\ FramesOK(Tail(frames[exec]))
         /\ disable = Cardinality(Holding(Tail(frames[exec]))) + (IF HoldsOff(Top) THEN 1 ELSE 0)
         /\ Cardinality(Retraces(Tail(frames[exec]))) + (IF Top.at = "retrace" THEN 1 ELSE 0)
              = IF advancing THEN 1 ELSE 0
         /\ Cardinality(Holding(Tail(frames[exec]))) \in Nat
         /\ Cardinality(Retraces(Tail(frames[exec]))) \in Nat
  <1> DEFINE s == frames[exec]
  <1>1. /\ s \in Seq(Frames) /\ Len(s) <= MaxNest + 1 /\ FramesOK(s)
        /\ disable = Cardinality(Holding(s))
        /\ Cardinality(Retraces(s)) = IF advancing THEN 1 ELSE 0
    BY DEF StackInv, StackOK, SchedulerOK, NestingOK
  <1>2. /\ Top \in Frames /\ Tail(s) \in Seq(Frames)
        /\ s = <<Top>> \o Tail(s) /\ Len(s) = Len(Tail(s)) + 1
    BY <1>1, Split DEF Top
  <1>3. FrameOK(Top, Tail(s)) /\ FramesOK(Tail(s))
    BY <1>1, <1>2, FramesSplit
  <1>4. /\ Cardinality(Holding(s)) = Cardinality(Holding(Tail(s))) + (IF HoldsOff(Top) THEN 1 ELSE 0)
        /\ Cardinality(Retraces(s))
             = Cardinality(Retraces(Tail(s))) + (IF Top.at = "retrace" THEN 1 ELSE 0)
        /\ Cardinality(Holding(Tail(s))) \in Nat /\ Cardinality(Retraces(Tail(s))) \in Nat
    BY <1>2, Counts
  <1> QED
    BY <1>1, <1>2, <1>3, <1>4

\* A frame of the same kind in the place of the one on top.
LEMMA SameKind ==
  ASSUME StackInv, frames[exec] # <<>>, NEW y \in Frames,
         HoldsOff(y) <=> HoldsOff(Top), (y.at = "retrace") <=> (Top.at = "retrace"),
         FrameOK(y, Tail(frames[exec]))
  PROVE  LET t == <<y>> \o Tail(frames[exec])
         IN  /\ t \in Seq(Frames) /\ FramesOK(t) /\ Len(t) = Len(frames[exec])
             /\ Cardinality(Holding(t)) = disable
             /\ Cardinality(Retraces(t)) = IF advancing THEN 1 ELSE 0
  <1> DEFINE t == <<y>> \o Tail(frames[exec])
  <1>1. t \in Seq(Frames) /\ Len(t) = Len(Tail(frames[exec])) + 1
    BY TopFacts, Pushed
  <1>2. FramesOK(t)
    BY TopFacts, FramesSplit
  <1>3. /\ Cardinality(Holding(t))
             = Cardinality(Holding(Tail(frames[exec]))) + (IF HoldsOff(y) THEN 1 ELSE 0)
        /\ Cardinality(Retraces(t))
             = Cardinality(Retraces(Tail(frames[exec]))) + (IF y.at = "retrace" THEN 1 ELSE 0)
    BY TopFacts, Counts
  <1> QED
    BY <1>1, <1>2, <1>3, TopFacts

\* The frames of a fiber whose guest code has made a call.
LEMMA CalledFacts ==
  ASSUME StackInv, AtThread \/ AtInterrupt
  PROVE  /\ Called \in Seq(Frames) /\ FramesOK(Called) /\ Len(Called) = Len(frames[exec])
         /\ Cardinality(Holding(Called)) = disable
         /\ Cardinality(Retraces(Called)) = IF advancing THEN 1 ELSE 0
  <1>1. CASE AtThread
    BY <1>1 DEF Called, StackInv, StackOK, SchedulerOK, NestingOK
  <1>2. CASE ~AtThread
    <2> DEFINE y == [Top EXCEPT !.ops = @ - 1]
    <2>1. frames[exec] # <<>> /\ Top.ops > 0
      BY <1>2 DEF AtInterrupt
    <2>2. Top \in Frames
      BY <2>1, TopFacts
    <2>3. Top.ops - 1 \in 0..InterruptOps
      BY <2>1, <2>2, PumpAssumption DEF Frames
    <2>4. y \in Frames /\ y.at = Top.at /\ y.masked = Top.masked
      BY <2>2, <2>3 DEF Frames
    <2>5. FrameOK(y, Tail(frames[exec]))
      BY <2>1, <2>4, TopFacts DEF FrameOK
    <2>6. Called = <<y>> \o Tail(frames[exec])
      BY <1>2 DEF Called
    <2> HIDE DEF y
    <2> QED
      BY <2>1, <2>4, <2>5, <2>6, SameKind DEF HoldsOff
  <1> QED
    BY <1>1, <1>2

\* A call that pushes no frame.
LEMMA QuietCall ==
  ASSUME StackInv, Call(<<>>), UNCHANGED <<disable, advancing>>
  PROVE  StacksTo(Called)
  <1>1. AtThread \/ AtInterrupt
    BY DEF Call
  <1>2. Called \in Seq(Frames) /\ <<>> \o Called = Called
    BY <1>1, CalledFacts, ConcatEmptySeq
  <1>3. frames' = [frames EXCEPT ![exec] = Called]
    BY <1>2 DEF Call
  <1> QED
    BY <1>1, <1>3, CalledFacts DEF StacksTo, StackInv, StackOK, SchedulerOK

LEMMA FrameFacts ==
  ASSUME NEW place \in {"handler", "callback", "retrace", "alarms", "drain"}, NEW masked \in BOOLEAN
  PROVE  /\ Frame(place, masked) \in Frames
         /\ Frame(place, masked).at = place /\ Frame(place, masked).masked = masked
         /\ Frame(place, masked).turns > 0
  BY PumpAssumption DEF Frame, Frames, Interrupts

LEMMA PushKept ==
  ASSUME StackInv, NEW s \in Seq(Frames), FramesOK(s), Len(s) <= MaxNest,
         Cardinality(Holding(s)) = disable,
         Cardinality(Retraces(s)) = IF advancing THEN 1 ELSE 0,
         NEW x \in Frames, FrameOK(x, s),
         frames' = [frames EXCEPT ![exec] = <<x>> \o s],
         disable' = disable + (IF HoldsOff(x) THEN 1 ELSE 0),
         advancing' \in BOOLEAN, advancing' <=> advancing \/ x.at = "retrace",
         ~(advancing /\ x.at = "retrace")
  PROVE  StacksTo(<<x>> \o s)
  <1> DEFINE t == <<x>> \o s
  <1>1. t \in Seq(Frames) /\ Len(t) = Len(s) + 1 /\ Len(s) \in Nat
    BY Pushed, LenProperties
  <1>2. FramesOK(t)
    BY FramesSplit
  <1>3. /\ Cardinality(Holding(t)) = Cardinality(Holding(s)) + (IF HoldsOff(x) THEN 1 ELSE 0)
        /\ Cardinality(Retraces(t)) = Cardinality(Retraces(s)) + (IF x.at = "retrace" THEN 1 ELSE 0)
    BY Counts
  <1>4. Len(t) <= MaxNest + 1
    BY <1>1, PumpAssumption
  <1>5. Cardinality(Retraces(t)) = IF advancing' THEN 1 ELSE 0
    BY <1>3
  <1> HIDE DEF t
  <1> QED
    BY <1>1, <1>2, <1>3, <1>4, <1>5 DEF StacksTo, t

\* Guest code calls a pump, or a turn of the idle loop does.
LEMMA PumpCalled ==
  ASSUME StackInv, NEW place \in {"alarms", "retrace"}, NEW masked \in BOOLEAN,
         \/ Call(<<Frame(place, masked)>>)
         \/ /\ idling /\ frames[exec] = <<>>
            /\ frames' = [frames EXCEPT ![exec] = <<Frame(place, masked)>>],
         disable' = disable + Masks(Frame(place, masked)),
         advancing' \in BOOLEAN, advancing' <=> advancing \/ place = "retrace",
         ~(advancing /\ place = "retrace")
  PROVE  \E t : StacksTo(t)
  <1> DEFINE x == Frame(place, masked)
  <1>1. x \in Frames /\ x.at = place /\ x.masked = masked
    BY FrameFacts
  <1>2. disable' = disable + (IF HoldsOff(x) THEN 1 ELSE 0)
    BY <1>1 DEF HoldsOff, Masks
  <1> HIDE DEF x
  <1>3. CASE Call(<<x>>)
    <2>1. /\ AtThread \/ AtInterrupt
          /\ Len(frames[exec]) < MaxNest /\ frames' = [frames EXCEPT ![exec] = <<x>> \o Called]
      BY <1>3 DEF Call
    <2>2. /\ Called \in Seq(Frames) /\ FramesOK(Called) /\ Len(Called) < MaxNest
          /\ Cardinality(Holding(Called)) = disable
          /\ Cardinality(Retraces(Called)) = IF advancing THEN 1 ELSE 0
      BY <2>1, CalledFacts
    <2>3. FrameOK(x, Called)
      BY <1>1, <2>2 DEF FrameOK
    <2>4. Len(Called) <= MaxNest
      BY <2>2, LenProperties, PumpAssumption
    <2> QED
      BY <1>1, <1>2, <2>1, <2>2, <2>3, <2>4, PushKept
  <1>4. CASE idling /\ frames[exec] = <<>> /\ frames' = [frames EXCEPT ![exec] = <<x>>]
    <2>1. /\ <<>> \in Seq(Frames) /\ Len(<<>>) = 0 /\ <<x>> \o <<>> = <<x>>
      <3>1. <<x>> \in Seq(Frames)
        BY <1>1
      <3> QED
        BY <3>1, ConcatEmptySeq, EmptySeq
    <2>2. /\ disable = 0 /\ ~advancing
      BY <1>4, NoFrames DEF StackInv, StackOK, NestingOK, SchedulerOK
    <2>3. FrameOK(x, <<>>) /\ Len(<<>>) <= MaxNest
      BY <1>1, <2>1, PumpAssumption DEF FrameOK
    <2>4. frames' = [frames EXCEPT ![exec] = <<x>> \o <<>>]
      BY <1>4, <2>1
    <2>5. /\ FramesOK(<<>>) /\ Cardinality(Holding(<<>>)) = disable
          /\ Cardinality(Retraces(<<>>)) = IF advancing THEN 1 ELSE 0
      BY <2>2, NoFrames
    <2>6. StacksTo(<<x>> \o <<>>)
      BY <1>1, <1>2, <2>1, <2>3, <2>4, <2>5, PushKept
    <2> QED
      BY <2>6
  <1> QED
    BY <1>3, <1>4 DEF x

\* The guest code on top returns to its pump.
LEMMA ReturnedFacts ==
  ASSUME StackInv, frames[exec] # <<>>, Top.at \in {"handler", "callback"},
         NEW reschedule \in BOOLEAN, frames' = Returned(reschedule),
         disable' = disable - (IF Top.at = "handler" THEN 1 ELSE 0),
         UNCHANGED advancing
  PROVE  \E t : StacksTo(t)
  <1> DEFINE s == Tail(frames[exec])
             pump == frames[exec][2]
             y == [pump EXCEPT !.turns = @ - 1, !.done = @ \/ reschedule]
             r == Tail(s)
             t == <<y>> \o r
  <1>1. /\ s \in Seq(Frames) /\ FrameOK(Top, s) /\ FramesOK(s)
        /\ Len(frames[exec]) = Len(s) + 1 /\ Len(frames[exec]) <= MaxNest + 1
        /\ disable = Cardinality(Holding(s)) + (IF HoldsOff(Top) THEN 1 ELSE 0)
        /\ Cardinality(Retraces(s)) = IF advancing THEN 1 ELSE 0
        /\ Cardinality(Holding(s)) \in Nat /\ Cardinality(Retraces(s)) \in Nat
        /\ Top \in Frames
    BY TopFacts
  <1>2. /\ s # <<>> /\ s[1].at \in {"alarms", "drain"} /\ s[1].turns > 0
        /\ HoldsOff(Top) <=> Top.at = "handler"
    BY <1>1 DEF FrameOK, HoldsOff
  <1>3. pump = s[1]
    <2>1. frames[exec] \in Seq(Frames)
      BY DEF StackInv, StackOK, SchedulerOK
    <2>2. 1 \in DOMAIN s
      BY <1>1, <1>2, LenProperties, EmptySeq
    <2> QED
      BY <2>1, <2>2, Split
  <1>4. /\ s[1] \in Frames /\ r \in Seq(Frames) /\ s = <<s[1]>> \o r /\ Len(s) = Len(r) + 1
    BY <1>1, <1>2, Split
  <1>5. /\ FramesOK(r) /\ FrameOK(s[1], r)
    BY <1>1, <1>4, FramesSplit
  <1>6. /\ y \in Frames /\ y.at = s[1].at /\ y.masked = s[1].masked
    <2>1. s[1].turns - 1 \in 0..PumpLimit
      <3>1. PumpLimit \in Nat
        BY PumpAssumption
      <3>2. s[1].turns \in 0..PumpLimit
        BY <1>4 DEF Frames
      <3> QED
        BY <1>2, <3>1, <3>2
    <2>2. (s[1].done \/ reschedule) \in BOOLEAN
      OBVIOUS
    <2> QED
      BY <1>3, <1>4, <2>1, <2>2 DEF Frames
  <1> HIDE DEF y, r, pump
  <1>7. FrameOK(y, r)
    BY <1>2, <1>5, <1>6 DEF FrameOK
  <1>8. t \in Seq(Frames) /\ FramesOK(t) /\ Len(t) = Len(s)
    BY <1>4, <1>5, <1>6, <1>7, FramesSplit, Pushed
  <1>9. /\ Cardinality(Holding(t)) = Cardinality(Holding(s))
        /\ Cardinality(Retraces(t)) = Cardinality(Retraces(s))
    <2>1. /\ Cardinality(Holding(t)) = Cardinality(Holding(r)) + (IF HoldsOff(y) THEN 1 ELSE 0)
          /\ Cardinality(Retraces(t)) = Cardinality(Retraces(r)) + (IF y.at = "retrace" THEN 1 ELSE 0)
      BY <1>4, <1>6, Counts
    <2>2. /\ Cardinality(Holding(s)) = Cardinality(Holding(r)) + (IF HoldsOff(s[1]) THEN 1 ELSE 0)
          /\ Cardinality(Retraces(s)) = Cardinality(Retraces(r)) + (IF s[1].at = "retrace" THEN 1 ELSE 0)
      BY <1>4, Counts
    <2>3. HoldsOff(y) <=> HoldsOff(s[1])
      BY <1>6 DEF HoldsOff
    <2> QED
      BY <1>6, <2>1, <2>2, <2>3
  <1>10. frames' = [frames EXCEPT ![exec] = t]
    BY DEF Returned, y, r, pump
  <1> HIDE DEF t
  <1>11. Len(t) <= MaxNest + 1 /\ disable' = Cardinality(Holding(t))
    <2>1. Len(s) \in Nat /\ MaxNest \in Nat
      BY <1>1, PumpAssumption, LenProperties
    <2>2. Len(t) <= MaxNest + 1
      BY <1>1, <1>8, <2>1
    <2>3. disable' = Cardinality(Holding(s))
      BY <1>1, <1>2
    <2> QED
      BY <1>9, <2>2, <2>3
  <1>12. StacksTo(t)
    BY <1>1, <1>8, <1>9, <1>10, <1>11 DEF StacksTo, StackInv, StackOK
  <1> QED
    BY <1>12
-----------------------------------------------------------------------------
(* The scheduler switches only with the scheduler enabled.                 *)

LEMMA SelectFacts ==
  ASSUME SchedulerOK, NEW now \in [Fibers -> FiberStates], NEW count, NEW request \in BOOLEAN,
         SelectThread(now, count, request)
  PROVE  SchedulerOK' /\ (exec' = exec \/ count = 0)
  <1>1. CASE Stay(now, request)
    BY <1>1 DEF Stay, SchedulerOK
  <1>2. CASE count = 0 /\ \E f \in Fibers : Dispatch(f, [now EXCEPT ![exec] = "ready"])
    BY <1>2 DEF Dispatch, SchedulerOK, FiberStates
  <1> QED
    BY <1>1, <1>2 DEF SelectThread

LEMMA RescheduleFacts ==
  ASSUME SchedulerOK, NEW now \in [Fibers -> FiberStates], NEW count, NEW request \in BOOLEAN,
         RunDeferredReschedule(now, count, request)
  PROVE  SchedulerOK' /\ (exec' = exec \/ (count = 0 /\ ~advancing))
  <1>1. CASE Stay(now, request)
    BY <1>1 DEF Stay, SchedulerOK
  <1>2. CASE ~advancing /\ SelectThread(now, count, request)
    BY <1>2, SelectFacts
  <1> QED
    BY <1>1, <1>2 DEF RunDeferredReschedule

LEMMA SleepStack ==
  ASSUME StackInv, frames[exec] = <<>>, UNCHANGED <<frames, disable, advancing>>, SchedulerOK'
  PROVE  StackInv'
  <1>1. disable = 0 /\ ~advancing
    BY NoFrames DEF StackInv, StackOK, NestingOK, SchedulerOK
  <1>2. frames[exec] \in Seq(Frames) /\ FramesOK(frames[exec]) /\ Len(frames[exec]) <= MaxNest + 1
    BY DEF StackInv, StackOK, NestingOK, SchedulerOK
  <1>3. frames' = [frames EXCEPT ![exec] = frames[exec]]
    BY DEF StackInv, StackOK
  <1>4. StacksTo(frames[exec])
    BY <1>1, <1>2, <1>3 DEF StacksTo, StackInv, StackOK, NestingOK
  <1> QED
    BY <1>1, <1>4, NestingKept

-----------------------------------------------------------------------------
(* What each step does to the frames.                                      *)

LEMMA SleepKeeps ==
  ASSUME StackInv, ThreadBlocks \/ IdleEnds
  PROVE  StackInv'
  <1> SUFFICES SchedulerOK'
    BY SleepStack DEF ThreadBlocks, OSSleepThread, IdleEnds, guards
  <1>1. ASSUME NEW on \in {"event", "retrace"}, OSSleepThread(on)
        PROVE  SchedulerOK'
    BY <1>1 DEF OSSleepThread, Dispatch, StackInv, SchedulerOK, FiberStates
  <1>2. CASE IdleEnds
    BY <1>2 DEF IdleEnds, Dispatch, StackInv, SchedulerOK, FiberStates
  <1> QED
    BY <1>1, <1>2 DEF ThreadBlocks

LEMMA HeadChangedKeeps ==
  ASSUME StackInv, NEW headChanged, PPCMtdec(headChanged), UNCHANGED <<schedulerVars, disable>>
  PROVE  StackInv'
  <1>1. SchedulerOK' /\ exec' = exec /\ disable' = disable /\ advancing' = advancing
    BY DEF schedulerVars, StackInv, SchedulerOK, PPCMtdec, guards
  <1>2. CASE Call(<<>>)
    BY <1>1, <1>2, QuietCall, NestingKept
  <1>3. CASE Call(<<Frame("alarms", FALSE)>>)
    <2>1. disable' = disable + Masks(Frame("alarms", FALSE))
      <3>1. Masks(Frame("alarms", FALSE)) = 0
        BY FrameFacts DEF Masks
      <3>2. disable + 0 = disable
        BY DEF StackInv, StackOK
      <3> QED
        BY <1>1, <3>1, <3>2
    <2>2. PICK t : StacksTo(t)
      BY <1>1, <1>3, <2>1, PumpCalled DEF StackInv, StackOK
    <2> QED
      BY <1>1, <2>2, NestingKept
  <1> QED
    BY <1>2, <1>3 DEF PPCMtdec

LEMMA GuestCallKeeps ==
  ASSUME StackInv, GuestCall
  PROVE  StackInv'
  <1>1. ASSUME NEW a \in OSAlarms, NEW ticks \in 0..MaxTicks, OSSetAlarm(a, ticks)
        PROVE  StackInv'
    <2>1. /\ Call(<<>>) /\ UNCHANGED <<disable, advancing>>
          /\ SchedulerOK' /\ exec' = exec
      BY <1>1 DEF OSSetAlarm, Arm, guards, schedulerVars, StackInv, SchedulerOK
    <2> QED
      BY <2>1, QuietCall, NestingKept
  <1>2. ASSUME NEW a \in OSAlarms, NEW ticks \in 0..MaxTicks, OSSetPeriodicAlarm(a, ticks)
        PROVE  StackInv'
    BY <1>2, HeadChangedKeeps DEF OSSetPeriodicAlarm, Arm
  <1>3. ASSUME NEW a \in OSAlarms, OSCancelAlarm(a)
        PROVE  StackInv'
    BY <1>3, HeadChangedKeeps DEF OSCancelAlarm
  <1>4. CASE NandQueueIosCallback
    <2>1. /\ Call(<<>>) /\ UNCHANGED <<disable, advancing>>
          /\ SchedulerOK' /\ exec' = exec
      BY <1>4 DEF NandQueueIosCallback, guards, schedulerVars, StackInv, SchedulerOK
    <2> QED
      BY <2>1, QuietCall, NestingKept
  <1>5. ASSUME NEW f \in Fibers, OSWakeupThread(f)
        PROVE  StackInv'
    <2> DEFINE now == [fiber EXCEPT ![f] = "ready"]
    <2>1. /\ Call(<<>>) /\ WakeupThread(f) /\ UNCHANGED <<disable, advancing>>
      BY <1>5 DEF OSWakeupThread, guards
    <2>2. SchedulerOK /\ now \in [Fibers -> FiberStates]
      BY DEF StackInv, SchedulerOK, FiberStates
    <2>4. IF advancing THEN Stay(now, TRUE) ELSE SelectThread(now, disable, TRUE)
      BY <2>1 DEF WakeupThread
    <2> HIDE DEF now
    <2>3. SchedulerOK' /\ (exec' = exec \/ (disable = 0 /\ ~advancing))
      <3>1. CASE advancing
        BY <2>2, <2>4, <3>1 DEF Stay, SchedulerOK
      <3>2. CASE ~advancing
        <4>1. SelectThread(now, disable, TRUE)
          BY <2>4, <3>2
        <4>2. SchedulerOK' /\ (exec' = exec \/ disable = 0)
          BY <2>2, <4>1 DEF SelectThread, Dispatch, Stay, SchedulerOK, FiberStates
        <4> QED
          BY <3>2, <4>2
      <3> QED
        BY <3>1, <3>2
    <2> QED
      BY <2>1, <2>3, QuietCall, NestingKept
  <1> QED
    BY <1>1, <1>2, <1>3, <1>4, <1>5 DEF GuestCall

LEMMA PumpKeeps ==
  ASSUME StackInv, NEW masked \in BOOLEAN, ProcessAlarmQueue(masked) \/ AdvanceRetrace(masked)
  PROVE  StackInv'
  <1>1. CASE ProcessAlarmQueue(masked)
    <2>1. /\ SchedulerOK' /\ exec' = exec /\ UNCHANGED advancing /\ advancing \in BOOLEAN
          /\ CallPump("alarms", masked)
      BY <1>1 DEF ProcessAlarmQueue, schedulerVars, StackInv, StackOK, SchedulerOK
    <2>2. \E t : StacksTo(t)
      BY <2>1, PumpCalled DEF CallPump
    <2> QED
      BY <2>1, <2>2, NestingKept
  <1>2. CASE AdvanceRetrace(masked)
    <2>1. /\ ~advancing /\ advancing' = TRUE /\ CallPump("retrace", masked)
      BY <1>2 DEF AdvanceRetrace
    <2>2. SchedulerOK' /\ exec' = exec
      BY <1>2 DEF AdvanceRetrace, Stay, StackInv, SchedulerOK, FiberStates
    <2>3. \E t : StacksTo(t)
      BY <2>1, PumpCalled DEF CallPump
    <2> QED
      BY <2>2, <2>3, NestingKept
  <1> QED
    BY <1>1, <1>2

\* A pump runs a handler or a callback.
LEMMA InterruptPushed ==
  ASSUME StackInv, NEW place \in {"handler", "callback"},
         Inside(IF place = "handler" THEN "alarms" ELSE "drain"), Top.turns > 0,
         frames' = [frames EXCEPT ![exec] = <<Frame(place, FALSE)>> \o frames[exec]],
         disable' = disable + (IF place = "handler" THEN 1 ELSE 0),
         UNCHANGED advancing, SchedulerOK', exec' = exec
  PROVE  StackInv'
  <1> DEFINE x == Frame(place, FALSE)
             s == frames[exec]
  <1>1. s # <<>> /\ Top.at = IF place = "handler" THEN "alarms" ELSE "drain"
    BY DEF Inside, Top
  <1>4. /\ x \in Frames /\ x.at = place /\ x.masked = FALSE
    BY FrameFacts
  <1>5. /\ s \in Seq(Frames) /\ FramesOK(s) /\ s[1] = Top
        /\ Cardinality(Holding(s)) = disable
        /\ Cardinality(Retraces(s)) = IF advancing THEN 1 ELSE 0
    BY <1>1, Split DEF Top, StackInv, StackOK, SchedulerOK, NestingOK
  <1>6. Len(s) <= MaxNest
    <2>1. /\ Len(s) = Len(Tail(s)) + 1 /\ Tail(s) \in Seq(Frames) /\ FrameOK(Top, Tail(s))
      BY <1>1, TopFacts
    <2>2. Len(Tail(s)) < MaxNest
      BY <1>1, <2>1 DEF FrameOK
    <2> QED
      BY <2>1, <2>2, LenProperties, PumpAssumption
  <1>7. FrameOK(x, s)
    BY <1>1, <1>4, <1>5 DEF FrameOK
  <1>8. disable' = disable + (IF HoldsOff(x) THEN 1 ELSE 0)
    BY <1>4 DEF HoldsOff
  <1>2. frames' = [frames EXCEPT ![exec] = <<x>> \o s]
    OBVIOUS
  <1> HIDE DEF x, s
  <1>9. StacksTo(<<x>> \o s)
    BY <1>1, <1>2, <1>4, <1>5, <1>6, <1>7, <1>8, PushKept DEF StackInv, StackOK
  <1> QED
    BY <1>9, NestingKept

LEMMA InterruptKeeps ==
  ASSUME StackInv, FireAlarm \/ DispatchNandCallback
  PROVE  StackInv'
  <1>1. CASE FireAlarm
    <2>1. /\ Inside("alarms") /\ Top.turns > 0 /\ disable' = disable + 1
          /\ frames' = [frames EXCEPT ![exec] = <<Frame("handler", FALSE)>> \o frames[exec]]
          /\ UNCHANGED advancing /\ SchedulerOK' /\ exec' = exec
      BY <1>1 DEF FireAlarm, schedulerVars, guards, StackInv, SchedulerOK
    <2> QED
      BY <2>1, InterruptPushed
  <1>2. CASE DispatchNandCallback
    <2>1. /\ Inside("drain") /\ Top.turns > 0 /\ disable' = disable
          /\ frames' = [frames EXCEPT ![exec] = <<Frame("callback", FALSE)>> \o frames[exec]]
          /\ UNCHANGED advancing /\ SchedulerOK' /\ exec' = exec
      BY <1>2 DEF DispatchNandCallback, schedulerVars, guards, StackInv, SchedulerOK
    <2>2. disable' = disable + 0
      BY <2>1 DEF StackInv, StackOK
    <2> QED
      BY <2>1, <2>2, InterruptPushed
  <1> QED
    BY <1>1, <1>2

LEMMA ReturnKeeps ==
  ASSUME StackInv, HandlerReturns \/ CallbackReturns
  PROVE  StackInv'
  <1>1. CASE HandlerReturns
    <2>1. /\ frames[exec] # <<>> /\ Top.at = "handler" /\ disable' = disable - 1
          /\ frames' = Returned(FALSE) /\ UNCHANGED advancing
          /\ RunDeferredReschedule(fiber, disable - 1, resched)
      BY <1>1 DEF HandlerReturns, guards, Inside, Top
    <2>2. PICK t : StacksTo(t)
      BY <2>1, ReturnedFacts
    <2>3. SchedulerOK' /\ (exec' = exec \/ (disable - 1 = 0 /\ ~advancing))
      BY <2>1, RescheduleFacts DEF StackInv, SchedulerOK
    <2> QED
      BY <2>1, <2>2, <2>3, NestingKept
  <1>2. CASE CallbackReturns
    <2>1. /\ frames[exec] # <<>> /\ Top.at = "callback" /\ disable' = disable
          /\ frames' = Returned(TRUE) /\ UNCHANGED advancing
          /\ SchedulerOK' /\ exec' = exec
      BY <1>2 DEF CallbackReturns, guards, Inside, Top, schedulerVars, StackInv, SchedulerOK
    <2>2. disable' = disable - 0
      BY <2>1 DEF StackInv, StackOK
    <2>3. PICK t : StacksTo(t)
      BY <2>1, <2>2, ReturnedFacts
    <2> QED
      BY <2>1, <2>3, NestingKept
  <1> QED
    BY <1>1, <1>2

\* A pump or a retrace takes its frame off.
LEMMA PoppedFacts ==
  ASSUME StackInv, frames[exec] # <<>>, Top.at \in {"alarms", "drain", "retrace"},
         frames' = Popped, disable' = disable - Masks(Top),
         advancing' \in BOOLEAN, advancing' <=> advancing /\ Top.at # "retrace"
  PROVE  StacksTo(Tail(frames[exec])) /\ (disable = 0 => disable' = 0)
  <1> DEFINE s == Tail(frames[exec])
  <1>1. /\ s \in Seq(Frames) /\ FramesOK(s) /\ Len(frames[exec]) = Len(s) + 1
        /\ Len(frames[exec]) <= MaxNest + 1 /\ Len(s) \in Nat
        /\ disable = Cardinality(Holding(s)) + (IF HoldsOff(Top) THEN 1 ELSE 0)
        /\ Cardinality(Retraces(s)) + (IF Top.at = "retrace" THEN 1 ELSE 0)
             = IF advancing THEN 1 ELSE 0
        /\ Cardinality(Holding(s)) \in Nat /\ Cardinality(Retraces(s)) \in Nat
    BY TopFacts, LenProperties
  <1>2. Masks(Top) = IF HoldsOff(Top) THEN 1 ELSE 0
    BY DEF Masks, HoldsOff
  <1>3. disable' = Cardinality(Holding(s)) /\ (disable = 0 => disable' = 0)
    BY <1>1, <1>2
  <1>4. Cardinality(Retraces(s)) = IF advancing' THEN 1 ELSE 0
    BY <1>1
  <1>5. Len(s) <= MaxNest + 1
    BY <1>1, PumpAssumption
  <1>6. frames' = [frames EXCEPT ![exec] = s]
    BY DEF Popped, StackInv, StackOK
  <1> QED
    BY <1>1, <1>3, <1>4, <1>5, <1>6 DEF StacksTo

LEMMA PumpReturns ==
  ASSUME StackInv, frames[exec] # <<>>, Top.at \in {"alarms", "drain"},
         NEW now \in [Fibers -> FiberStates], NEW request \in BOOLEAN, NEW done,
         Return(now, request, done), UNCHANGED advancing
  PROVE  StackInv'
  <1>1. /\ frames' = Popped /\ disable' = disable - Masks(Top)
        /\ RunDeferredReschedule(now, disable, request) \/ Stay(now, request)
    BY DEF Return
  <1>2. StacksTo(Tail(frames[exec])) /\ (disable = 0 => disable' = 0)
    BY <1>1, PoppedFacts DEF StackInv, StackOK
  <1>3. SchedulerOK' /\ (exec' = exec \/ (disable = 0 /\ ~advancing))
    <2>1. CASE RunDeferredReschedule(now, disable, request)
      BY <2>1, RescheduleFacts DEF StackInv
    <2>2. CASE Stay(now, request)
      BY <2>2 DEF Stay, StackInv, SchedulerOK
    <2> QED
      BY <1>1, <2>1, <2>2
  <1> QED
    BY <1>2, <1>3, NestingKept

LEMMA AlarmsDoneKeeps ==
  ASSUME StackInv, AlarmsDone
  PROVE  StackInv'
  <1>1. PICK woken \in SUBSET {f \in Fibers : fiber[f] = "event"} :
          LET now == [f \in Fibers |-> IF f \in woken THEN "ready" ELSE fiber[f]]
              request == resched \/ woken # {}
          IN  IF drainGuard
                THEN Return(now, request, woken # {}) /\ UNCHANGED drainGuard
                ELSE /\ drainGuard' = TRUE
                     /\ frames' = WithTop([Frame("drain", Top.masked) EXCEPT !.done = woken # {}])
                     /\ Stay(now, request) /\ UNCHANGED disable
    BY DEF AlarmsDone
  <1> DEFINE now == [f \in Fibers |-> IF f \in woken THEN "ready" ELSE fiber[f]]
             request == resched \/ woken # {}
             y == [Frame("drain", Top.masked) EXCEPT !.done = woken # {}]
  <1>2. /\ frames[exec] # <<>> /\ Top.at = "alarms" /\ UNCHANGED advancing
    BY DEF AlarmsDone, Inside, Top
  <1>3. now \in [Fibers -> FiberStates] /\ request \in BOOLEAN
    BY DEF StackInv, SchedulerOK, FiberStates
  <1>4. \/ Return(now, request, woken # {})
        \/ frames' = WithTop(y) /\ Stay(now, request) /\ UNCHANGED disable
    BY <1>1
  <1> HIDE DEF now, request
  <1>5. CASE Return(now, request, woken # {})
    BY <1>2, <1>3, <1>5, PumpReturns
  <1>6. CASE frames' = WithTop(y) /\ Stay(now, request) /\ UNCHANGED disable
    <2>1. SchedulerOK' /\ exec' = exec
      BY <1>3, <1>6 DEF Stay, StackInv, SchedulerOK
    <2>2. Top \in Frames /\ FrameOK(Top, Tail(frames[exec])) /\ Len(frames[exec]) <= MaxNest + 1
      BY <1>2, TopFacts
    <2>3. Top.masked \in BOOLEAN
      BY <2>2 DEF Frames
    <2>4. /\ Frame("drain", Top.masked) \in Frames /\ Frame("drain", Top.masked).at = "drain"
          /\ Frame("drain", Top.masked).masked = Top.masked
      BY <2>3, FrameFacts
    <2>5. y \in Frames /\ y.at = "drain" /\ y.masked = Top.masked
      BY <2>4 DEF Frames
    <2>6. frames' = [frames EXCEPT ![exec] = <<y>> \o Tail(frames[exec])]
      BY <1>6 DEF WithTop, StackInv, StackOK
    <2> HIDE DEF y
    <2>7. FrameOK(y, Tail(frames[exec]))
      BY <1>2, <2>2, <2>5 DEF FrameOK
    <2>8. (HoldsOff(y) <=> HoldsOff(Top)) /\ ((y.at = "retrace") <=> (Top.at = "retrace"))
      BY <1>2, <2>5 DEF HoldsOff
    <2> DEFINE t == <<y>> \o Tail(frames[exec])
    <2>9. /\ t \in Seq(Frames) /\ FramesOK(t) /\ Len(t) = Len(frames[exec])
          /\ Cardinality(Holding(t)) = disable
          /\ Cardinality(Retraces(t)) = IF advancing THEN 1 ELSE 0
      BY <1>2, <2>5, <2>7, <2>8, SameKind
    <2> HIDE DEF t
    <2>10. StacksTo(t)
      BY <1>2, <1>6, <2>2, <2>6, <2>9 DEF StacksTo, t, StackInv, StackOK
    <2> QED
      BY <2>1, <2>10, NestingKept
  <1> QED
    BY <1>4, <1>5, <1>6

LEMMA EndDrainKeeps ==
  ASSUME StackInv, EndDrain
  PROVE  StackInv'
  <1>1. /\ frames[exec] # <<>> /\ Top.at = "drain" /\ UNCHANGED advancing
        /\ Return(fiber, resched, Top.done)
    BY DEF EndDrain, Inside, Top
  <1> QED
    BY <1>1, PumpReturns DEF StackInv, SchedulerOK

LEMMA RetraceKeeps ==
  ASSUME StackInv, RetraceReturns
  PROVE  StackInv'
  <1>1. /\ frames[exec] # <<>> /\ Top.at = "retrace" /\ advancing' = FALSE
        /\ frames' = Popped /\ disable' = disable - Masks(Top)
        /\ \/ Stay(fiber, resched)
           \/ Top.masked /\ SelectThread(fiber, disable - 1, resched)
    BY DEF RetraceReturns, Inside, Top
  <1>2. StacksTo(Tail(frames[exec]))
    BY <1>1, PoppedFacts
  <1>3. SchedulerOK' /\ (exec' = exec \/ disable' = 0)
    <2>1. CASE Stay(fiber, resched)
      BY <2>1 DEF Stay, StackInv, SchedulerOK
    <2>2. CASE Top.masked /\ SelectThread(fiber, disable - 1, resched)
      <3>1. SchedulerOK' /\ (exec' = exec \/ disable - 1 = 0)
        <4>1. /\ SchedulerOK /\ fiber \in [Fibers -> FiberStates] /\ resched \in BOOLEAN
          BY DEF StackInv, SchedulerOK
        <4>2. SelectThread(fiber, disable - 1, resched)
          BY <2>2
        <4> QED
          BY <4>1, <4>2 DEF SelectThread, Dispatch, Stay, SchedulerOK, FiberStates
      <3> QED
        BY <1>1, <2>2, <3>1 DEF Masks
    <2> QED
      BY <1>1, <2>1, <2>2
  <1> QED
    BY <1>1, <1>2, <1>3, NestingKept

LEMMA StillKeeps ==
  ASSUME StackInv, Tick \/ UNCHANGED pumpVars
  PROVE  StackInv'
  <1>1. UNCHANGED <<exec, idling, fiber, resched, disable, frames, advancing>>
    BY DEF Tick, pumpVars, schedulerVars, guards
  <1> QED
    BY <1>1 DEF StackInv, SchedulerOK, StackOK, NestingOK, InterruptsFinish

LEMMA StackStep == StackInv /\ [AlarmNext]_pumpVars => StackInv'
  BY SleepKeeps, GuestCallKeeps, PumpKeeps, InterruptKeeps, ReturnKeeps, AlarmsDoneKeeps,
     EndDrainKeeps, RetraceKeeps, StillKeeps
  DEF AlarmNext, PumpStep

LEMMA StackStart == PumpInit => StackInv
  <1> SUFFICES ASSUME PumpInit PROVE StackInv
    OBVIOUS
  <1>1. /\ \A f \in Fibers : frames[f] = <<>>
        /\ frames[exec] = <<>> /\ disable = 0 /\ ~advancing
        /\ <<>> \in Seq(Frames) /\ Len(<<>>) = 0
        /\ frames = [f \in Fibers |-> <<>>]
    BY EmptySeq DEF PumpInit
  <1>2. SchedulerOK
    BY DEF PumpInit, SchedulerOK, FiberStates
  <1>3. StackOK
    <2>1. disable \in Nat /\ advancing \in BOOLEAN /\ MaxNest \in Nat
      BY PumpAssumption DEF PumpInit
    <2>2. \A f \in Fibers : Len(frames[f]) <= MaxNest + 1
      BY <1>1, <2>1
    <2> QED
      BY <1>1, <2>1, <2>2 DEF StackOK
  <1>4. NestingOK
    <2>1. \A f \in Fibers : FramesOK(frames[f])
      BY <1>1, NoFrames
    <2>2. Cardinality(Holding(frames[exec])) = 0 /\ Cardinality(Retraces(frames[exec])) = 0
      BY <1>1, NoFrames
    <2> QED
      BY <1>1, <2>1, <2>2 DEF NestingOK
  <1>5. InterruptsFinish
    BY <1>1 DEF InterruptsFinish
  <1> QED
    BY <1>2, <1>3, <1>4, <1>5 DEF StackInv
-----------------------------------------------------------------------------
(* The alarm queue.                                                        *)

QueueTyped ==
  /\ alarms \in Seq(OSAlarms) /\ left \in [OSAlarms -> 0..MaxTicks]
  /\ periodic \in [OSAlarms -> BOOLEAN] /\ armed \in [OSAlarms -> BOOLEAN]
QueueInv == QueueTyped /\ AlarmsInOrder

\* A queue in the order of the given times, and the alarms in it.
InOrder(list, time) ==
  \A i, j \in DOMAIN list :
    i < j => list[i] # list[j] /\ time[list[i]] <= time[list[j]]
In(a, list) == \E i \in DOMAIN list : list[i] = a

\* An alarm goes before the first that is due later.
LEMMA InsertedInOrder ==
  ASSUME NEW list \in Seq(OSAlarms), left \in [OSAlarms -> 0..MaxTicks],
         InOrder(list, left), NEW a \in OSAlarms, ~In(a, list), NEW ticks \in 0..MaxTicks
  PROVE  LET u == Inserted(a, ticks, list)
         IN  /\ u \in Seq(OSAlarms) /\ InOrder(u, [left EXCEPT ![a] = ticks])
             /\ \A b : In(b, u) <=> In(b, list) \/ b = a
  <1> DEFINE later == {i \in DOMAIN list : ticks < left[list[i]]}
             n == Min(later \cup {Len(list) + 1})
             u == InsertAt(list, n, a)
             time == [left EXCEPT ![a] = ticks]
  <1>1. /\ Len(list) \in Nat /\ DOMAIN list = 1..Len(list)
        /\ \A i \in 1..Len(list) : list[i] \in OSAlarms /\ list[i] # a
    BY LenProperties, ElementOfSeq DEF In
  <1>2. \A i \in 1..Len(list) : left[list[i]] \in Nat /\ time[list[i]] = left[list[i]]
    <2>1. MaxTicks \in Nat
      BY PumpAssumption
    <2> QED
      BY <1>1, <2>1
  <1>3. time[a] = ticks /\ ticks \in Nat
    <2>1. MaxTicks \in Nat
      BY PumpAssumption
    <2> QED
      BY <2>1
  <1>4. \A i, j \in 1..Len(list) :
          i < j => list[i] # list[j] /\ left[list[i]] <= left[list[j]]
    BY <1>1 DEF InOrder
  <1>5. n \in later \cup {Len(list) + 1} /\ \A i \in later : n <= i
    <2>1. later \cup {Len(list) + 1} \in SUBSET Nat /\ later \cup {Len(list) + 1} # {}
      BY <1>1
    <2> QED
      BY <2>1, LeastElement
  <1> HIDE DEF n
  <1>6. n \in 1..Len(list) + 1
    BY <1>1, <1>5
  <1>7. \A i \in 1..Len(list) : i < n => left[list[i]] <= ticks
    BY <1>1, <1>2, <1>3, <1>5, <1>6
  <1>8. \A i \in 1..Len(list) : i >= n => ticks < left[list[i]]
    <2> SUFFICES ASSUME NEW i \in 1..Len(list), i >= n PROVE ticks < left[list[i]]
      OBVIOUS
    <2>1. n \in 1..Len(list) /\ ticks < left[list[n]]
      BY <1>1, <1>5, <1>6
    <2>2. left[list[n]] <= left[list[i]]
      BY <1>2, <1>4, <2>1
    <2> QED
      BY <1>2, <1>3, <2>1, <2>2
  <1>9. /\ u \in Seq(OSAlarms) /\ Len(u) = Len(list) + 1
        /\ \A j \in 1..Len(list) + 1 :
             u[j] = IF j < n THEN list[j] ELSE IF j = n THEN a ELSE list[j - 1]
    BY <1>6, ListWith
  <1> HIDE DEF u, time, later
  <1>10. DOMAIN u = 1..Len(list) + 1
    BY <1>9, LenProperties
  <1>11. ASSUME NEW i \in 1..Len(list) + 1, NEW j \in 1..Len(list) + 1, i < j
         PROVE  u[i] # u[j] /\ time[u[i]] <= time[u[j]]
    <2>1. CASE j < n
      <3>1. i \in 1..Len(list) /\ j \in 1..Len(list) /\ u[i] = list[i] /\ u[j] = list[j]
        BY <1>1, <1>6, <1>9, <1>11, <2>1
      <3> QED
        BY <1>2, <1>4, <1>11, <3>1
    <2>2. CASE j = n
      <3>1. i \in 1..Len(list) /\ i < n /\ u[i] = list[i] /\ u[j] = a
        BY <1>1, <1>6, <1>9, <1>11, <2>2
      <3> QED
        BY <1>1, <1>2, <1>3, <1>7, <3>1
    <2>3. CASE i = n
      <3>1. j - 1 \in 1..Len(list) /\ j - 1 >= n /\ u[i] = a /\ u[j] = list[j - 1]
        BY <1>1, <1>6, <1>9, <1>11, <2>3
      <3>2. ticks < left[list[j - 1]] /\ list[j - 1] # a
            /\ time[list[j - 1]] = left[list[j - 1]] /\ left[list[j - 1]] \in Nat
        BY <1>1, <1>2, <1>8, <3>1
      <3> QED
        BY <1>3, <3>1, <3>2
    <2>4. CASE i < n /\ j > n
      <3>1. i \in 1..Len(list) /\ j - 1 \in 1..Len(list) /\ i < j - 1
            /\ u[i] = list[i] /\ u[j] = list[j - 1]
        BY <1>1, <1>6, <1>9, <1>11, <2>4
      <3> QED
        BY <1>2, <1>4, <3>1
    <2>5. CASE i > n
      <3>1. i - 1 \in 1..Len(list) /\ j - 1 \in 1..Len(list) /\ i - 1 < j - 1
            /\ u[i] = list[i - 1] /\ u[j] = list[j - 1]
        BY <1>1, <1>6, <1>9, <1>11, <2>5
      <3> QED
        BY <1>2, <1>4, <3>1
    <2> QED
      BY <1>1, <1>6, <1>11, <2>1, <2>2, <2>3, <2>4, <2>5
  <1>12. InOrder(u, time)
    BY <1>10, <1>11 DEF InOrder
  <1>13. ASSUME NEW b PROVE In(b, u) <=> In(b, list) \/ b = a
    <2>1. ASSUME NEW j \in 1..Len(list) + 1 PROVE In(u[j], list) \/ u[j] = a
      <3>1. CASE j < n
        BY <1>1, <1>6, <1>9, <3>1 DEF In
      <3>2. CASE j > n
        <4>1. j - 1 \in 1..Len(list) /\ u[j] = list[j - 1]
          BY <1>1, <1>6, <1>9, <3>2
        <4> QED
          BY <1>1, <4>1 DEF In
      <3> QED
        BY <1>1, <1>6, <1>9, <3>1, <3>2
    <2>2. ASSUME NEW j \in 1..Len(list) PROVE In(list[j], u)
      <3>1. CASE j < n
        <4>1. j \in 1..Len(list) + 1 /\ u[j] = list[j]
          BY <1>1, <1>6, <1>9, <3>1
        <4> QED
          BY <1>10, <4>1 DEF In
      <3>2. CASE j >= n
        <4> DEFINE k == j + 1
        <4>2. k \in 1..Len(list) + 1 /\ k > n /\ k - 1 = j
          BY <1>1, <1>6, <3>2
        <4> HIDE DEF k
        <4>1. k \in 1..Len(list) + 1 /\ u[k] = list[j]
          BY <1>1, <1>6, <1>9, <4>2
        <4> QED
          BY <1>10, <4>1 DEF In
      <3> QED
        BY <1>1, <1>6, <3>1, <3>2
    <2>3. In(a, u)
      <3>1. n \in DOMAIN u /\ u[n] = a
        BY <1>6, <1>9, <1>10, <1>1
      <3> QED
        BY <3>1 DEF In
    <2> QED
      BY <1>1, <1>10, <2>1, <2>2, <2>3 DEF In
  <1>14. u = Inserted(a, ticks, list)
    BY DEF Inserted, u, n, later
  <1> QED
    BY <1>9, <1>12, <1>13, <1>14 DEF time

\* An alarm that is taken off leaves the others in order.
LEMMA RemovedInOrder ==
  ASSUME NEW list \in Seq(OSAlarms), NEW n \in DOMAIN list, InOrder(list, left),
         left \in [OSAlarms -> 0..MaxTicks]
  PROVE  LET u == RemoveAt(list, n)
         IN  /\ u \in Seq(OSAlarms) /\ InOrder(u, left)
             /\ \A b : In(b, u) <=> In(b, list) /\ b # list[n]
  <1> DEFINE u == RemoveAt(list, n)
  <1>1. /\ Len(list) \in Nat /\ DOMAIN list = 1..Len(list) /\ n \in 1..Len(list)
    BY LenProperties
  <1>2. \A i, j \in 1..Len(list) :
          i < j => list[i] # list[j] /\ left[list[i]] <= left[list[j]]
    BY <1>1 DEF InOrder
  <1>3. /\ u \in Seq(OSAlarms) /\ Len(u) = Len(list) - 1
        /\ \A j \in 1..Len(list) - 1 : u[j] = IF j < n THEN list[j] ELSE list[j + 1]
    BY ListWithout
  <1> HIDE DEF u
  <1>4. DOMAIN u = 1..Len(list) - 1
    BY <1>3, LenProperties
  <1> DEFINE Source(j) == IF j < n THEN j ELSE j + 1
  <1>5. \A j \in 1..Len(list) - 1 :
          Source(j) \in 1..Len(list) /\ Source(j) # n /\ u[j] = list[Source(j)]
    BY <1>1, <1>3
  <1>6. \A i, j \in 1..Len(list) - 1 : i < j => Source(i) < Source(j)
    BY <1>1
  <1>7. \A k \in 1..Len(list) : k # n => \E j \in 1..Len(list) - 1 : Source(j) = k
    <2> SUFFICES ASSUME NEW k \in 1..Len(list), k # n
                 PROVE  \E j \in 1..Len(list) - 1 : Source(j) = k
      OBVIOUS
    <2>1. CASE k < n
      <3>1. k \in 1..Len(list) - 1 /\ Source(k) = k
        BY <1>1, <2>1
      <3> QED
        BY <3>1
    <2>2. CASE k > n
      <3>1. k - 1 \in 1..Len(list) - 1 /\ Source(k - 1) = k
        BY <1>1, <2>2
      <3> QED
        BY <3>1
    <2> QED
      BY <1>1, <2>1, <2>2
  <1>8. \A i \in 1..Len(list) : i # n => list[i] # list[n]
    BY <1>1, <1>2
  <1> HIDE DEF Source
  <1>9. InOrder(u, left)
    <2> SUFFICES ASSUME NEW i \in 1..Len(list) - 1, NEW j \in 1..Len(list) - 1, i < j
                 PROVE  u[i] # u[j] /\ left[u[i]] <= left[u[j]]
      BY <1>4 DEF InOrder
    <2>1. /\ Source(i) \in 1..Len(list) /\ Source(j) \in 1..Len(list) /\ Source(i) < Source(j)
          /\ u[i] = list[Source(i)] /\ u[j] = list[Source(j)]
      BY <1>5, <1>6
    <2> QED
      BY <1>2, <2>1
  <1>10. \A b : In(b, u) <=> In(b, list) /\ b # list[n]
    BY <1>1, <1>4, <1>5, <1>7, <1>8 DEF In
  <1> QED
    BY <1>3, <1>9, <1>10 DEF u

LEMMA HeadRemoved ==
  ASSUME NEW T, NEW s \in Seq(T), s # <<>>
  PROVE  1 \in DOMAIN s /\ Head(s) = s[1] /\ Tail(s) = RemoveAt(s, 1)
  <1>1. /\ Len(s) \in Nat /\ Len(s) > 0 /\ DOMAIN s = 1..Len(s) /\ 1 \in DOMAIN s
    BY LenProperties, EmptySeq
  <1>2. /\ Tail(s) \in Seq(T) /\ Len(Tail(s)) = Len(s) - 1 /\ Head(s) = s[1]
        /\ \A i \in 1..Len(s) - 1 : Tail(s)[i] = s[i + 1]
    BY HeadTailProperties
  <1>3. /\ RemoveAt(s, 1) \in Seq(T) /\ Len(RemoveAt(s, 1)) = Len(s) - 1
        /\ \A i \in 1..Len(s) - 1 : RemoveAt(s, 1)[i] = s[i + 1]
    <2>1. /\ RemoveAt(s, 1) \in Seq(T) /\ Len(RemoveAt(s, 1)) = Len(s) - 1
          /\ \A i \in 1..Len(s) - 1 : RemoveAt(s, 1)[i] = IF i < 1 THEN s[i] ELSE s[i + 1]
      BY <1>1, ListWithout
    <2>2. \A i \in 1..Len(s) - 1 : ~(i < 1)
      BY <1>1
    <2> QED
      BY <2>1, <2>2, Zenon
  <1> DEFINE r == RemoveAt(s, 1)
  <1> HIDE DEF r
  <1>4. /\ r \in Seq(T) /\ Len(r) = Len(s) - 1 /\ \A i \in 1..Len(s) - 1 : r[i] = s[i + 1]
    BY <1>3 DEF r
  <1>5. Tail(s) = r
    BY <1>1, <1>2, <1>4, SeqEqual
  <1> QED
    BY <1>1, <1>2, <1>5 DEF r

LEMMA ArmKeeps ==
  ASSUME QueueInv, NEW a \in OSAlarms, NEW ticks \in 0..MaxTicks, NEW period \in BOOLEAN,
         Arm(a, ticks, period)
  PROVE  QueueInv'
  <1>1. /\ alarms \in Seq(OSAlarms) /\ left \in [OSAlarms -> 0..MaxTicks]
        /\ InOrder(alarms, left) /\ ~In(a, alarms)
        /\ \A b \in OSAlarms : armed[b] <=> In(b, alarms)
    BY DEF QueueInv, QueueTyped, AlarmsInOrder, InOrder, In, InQueue, Arm
  <1>2. /\ alarms' = Inserted(a, ticks, alarms) /\ left' = [left EXCEPT ![a] = ticks]
        /\ periodic' = [periodic EXCEPT ![a] = period] /\ armed' = [armed EXCEPT ![a] = TRUE]
    BY DEF Arm
  <1>3. /\ alarms' \in Seq(OSAlarms) /\ InOrder(alarms', left')
        /\ \A b : In(b, alarms') <=> In(b, alarms) \/ b = a
    BY <1>1, <1>2, InsertedInOrder
  <1>4. QueueTyped'
    BY <1>2, <1>3 DEF QueueInv, QueueTyped
  <1>5. \A b \in OSAlarms : armed'[b] <=> In(b, alarms')
    BY <1>1, <1>2, <1>3 DEF QueueInv, QueueTyped
  <1> QED
    BY <1>3, <1>4, <1>5 DEF QueueInv, AlarmsInOrder, InOrder, In, InQueue

LEMMA CancelKeeps ==
  ASSUME QueueInv, NEW a \in OSAlarms, OSCancelAlarm(a)
  PROVE  QueueInv'
  <1>1. /\ alarms \in Seq(OSAlarms) /\ left \in [OSAlarms -> 0..MaxTicks]
        /\ InOrder(alarms, left)
        /\ \A b \in OSAlarms : armed[b] <=> In(b, alarms)
    BY DEF QueueInv, QueueTyped, AlarmsInOrder, InOrder, In, InQueue
  <1>2. PICK n \in DOMAIN alarms : alarms[n] = a /\ alarms' = RemoveAt(alarms, n)
    BY DEF OSCancelAlarm
  <1>3. /\ left' = [left EXCEPT ![a] = 0] /\ armed' = [armed EXCEPT ![a] = FALSE]
        /\ periodic' = [periodic EXCEPT ![a] = FALSE]
    BY DEF OSCancelAlarm
  <1>4. /\ alarms' \in Seq(OSAlarms) /\ InOrder(alarms', left)
        /\ \A b : In(b, alarms') <=> In(b, alarms) /\ b # a
    BY <1>1, <1>2, RemovedInOrder
  <1>5. \A i \in DOMAIN alarms' : alarms'[i] \in OSAlarms /\ alarms'[i] # a
    BY <1>4, ElementOfSeq, LenProperties DEF In
  <1>6. InOrder(alarms', left')
    BY <1>1, <1>3, <1>4, <1>5 DEF InOrder
  <1>7. QueueTyped'
    BY <1>3, <1>4, PumpAssumption DEF QueueInv, QueueTyped
  <1>8. \A b \in OSAlarms : armed'[b] <=> In(b, alarms')
    BY <1>1, <1>3, <1>4 DEF QueueInv, QueueTyped
  <1> QED
    BY <1>6, <1>7, <1>8 DEF QueueInv, AlarmsInOrder, InOrder, In, InQueue

LEMMA FireKeeps ==
  ASSUME QueueInv, FireAlarm
  PROVE  QueueInv'
  <1> DEFINE a == Head(alarms)
             rest == Tail(alarms)
  <1>1. /\ alarms \in Seq(OSAlarms) /\ left \in [OSAlarms -> 0..MaxTicks] /\ alarms # <<>>
        /\ InOrder(alarms, left) /\ periodic' = periodic
        /\ \A b \in OSAlarms : armed[b] <=> In(b, alarms)
    BY DEF QueueInv, QueueTyped, AlarmsInOrder, InOrder, In, InQueue, FireAlarm, HeadIsDue
  <1>2. /\ 1 \in DOMAIN alarms /\ a = alarms[1] /\ rest = RemoveAt(alarms, 1)
        /\ a \in OSAlarms /\ In(a, alarms)
    BY <1>1, HeadRemoved, ElementOfSeq, LenProperties DEF In
  <1>3. /\ rest \in Seq(OSAlarms) /\ InOrder(rest, left)
        /\ \A b : In(b, rest) <=> In(b, alarms) /\ b # a
    <2> HIDE DEF a, rest
    <2> QED
      BY <1>1, <1>2, RemovedInOrder
  <1> HIDE DEF a, rest
  <1>4. CASE \E ticks \in 1..MaxTicks : /\ alarms' = Inserted(a, ticks, rest)
                                        /\ left' = [left EXCEPT ![a] = ticks] /\ armed' = armed
    <2>1. PICK ticks \in 1..MaxTicks : /\ alarms' = Inserted(a, ticks, rest)
                                       /\ left' = [left EXCEPT ![a] = ticks]
      BY <1>4
    <2>2. ticks \in 0..MaxTicks /\ ~In(a, rest)
      BY <1>3, PumpAssumption
    <2>3. /\ alarms' \in Seq(OSAlarms) /\ InOrder(alarms', left')
          /\ \A b : In(b, alarms') <=> In(b, rest) \/ b = a
      BY <1>1, <1>2, <1>3, <2>1, <2>2, InsertedInOrder
    <2>4. \A b : In(b, alarms') <=> In(b, alarms)
      BY <1>2, <1>3, <2>3
    <2>5. QueueTyped'
      BY <1>1, <1>4, <2>1, <2>2, <2>3 DEF QueueInv, QueueTyped
    <2>6. \A b \in OSAlarms : armed'[b] <=> In(b, alarms')
      BY <1>1, <1>4, <2>4
    <2> QED
      BY <2>3, <2>5, <2>6 DEF QueueInv, AlarmsInOrder, InOrder, In, InQueue
  <1>5. CASE alarms' = rest /\ armed' = [armed EXCEPT ![a] = FALSE] /\ left' = left
    <2>1. QueueTyped'
      BY <1>1, <1>3, <1>5 DEF QueueInv, QueueTyped
    <2>2. \A b \in OSAlarms : armed'[b] <=> In(b, alarms')
      BY <1>1, <1>3, <1>5 DEF QueueInv, QueueTyped
    <2> QED
      BY <1>3, <1>5, <2>1, <2>2 DEF QueueInv, AlarmsInOrder, InOrder, In, InQueue
  <1> QED
    BY <1>4, <1>5 DEF FireAlarm, a, rest

LEMMA TickKeeps ==
  ASSUME QueueInv, Tick
  PROVE  QueueInv'
  <1>1. /\ alarms \in Seq(OSAlarms) /\ left \in [OSAlarms -> 0..MaxTicks] /\ MaxTicks \in Nat
        /\ \A i \in DOMAIN alarms : alarms[i] \in OSAlarms
    BY PumpAssumption, ElementOfSeq, LenProperties DEF QueueInv, QueueTyped
  <1>2. /\ left' = [a \in OSAlarms |-> IF left[a] > 0 THEN left[a] - 1 ELSE 0]
        /\ alarms' = alarms /\ periodic' = periodic /\ armed' = armed
    BY DEF Tick
  <1>3. \A a \in OSAlarms : left[a] \in 0..MaxTicks /\ left'[a] \in 0..MaxTicks
    BY <1>1, <1>2
  <1>4. \A a, b \in OSAlarms : left[a] <= left[b] => left'[a] <= left'[b]
    BY <1>1, <1>2
  <1> QED
    BY <1>1, <1>2, <1>3, <1>4 DEF QueueInv, QueueTyped, AlarmsInOrder, InQueue

LEMMA QueueStep == QueueInv /\ [AlarmNext]_pumpVars => QueueInv'
  <1> SUFFICES ASSUME QueueInv, [AlarmNext]_pumpVars PROVE QueueInv'
    OBVIOUS
  <1>1. CASE UNCHANGED alarmVars
    BY <1>1 DEF alarmVars, QueueInv, QueueTyped, AlarmsInOrder, InQueue
  <1>2. CASE PumpStep
    BY <1>1, <1>2, FireKeeps
    DEF PumpStep, HandlerReturns, AlarmsDone, DispatchNandCallback, CallbackReturns, EndDrain,
        RetraceReturns
  <1>3. CASE GuestCall
    <2>1. ASSUME NEW a \in OSAlarms, NEW ticks \in 0..MaxTicks,
                 OSSetAlarm(a, ticks) \/ OSSetPeriodicAlarm(a, ticks)
          PROVE  QueueInv'
      BY <2>1, ArmKeeps DEF OSSetAlarm, OSSetPeriodicAlarm
    <2>2. CASE NandQueueIosCallback \/ \E f \in Fibers : OSWakeupThread(f)
      BY <1>1, <2>2 DEF NandQueueIosCallback, OSWakeupThread
    <2> QED
      BY <1>3, <2>1, <2>2, CancelKeeps DEF GuestCall
  <1>4. ASSUME NEW masked \in BOOLEAN, ProcessAlarmQueue(masked) \/ AdvanceRetrace(masked)
        PROVE  QueueInv'
    BY <1>1, <1>4 DEF ProcessAlarmQueue, AdvanceRetrace, CallPump
  <1>5. CASE ThreadBlocks \/ IdleEnds
    BY <1>1, <1>5 DEF ThreadBlocks, OSSleepThread, IdleEnds
  <1>6. CASE UNCHANGED pumpVars
    BY <1>1, <1>6 DEF pumpVars
  <1> QED
    BY <1>2, <1>3, <1>4, <1>5, <1>6, TickKeeps DEF AlarmNext
-----------------------------------------------------------------------------
(* The invariant.                                                          *)

FlagsTyped == {nandCallbacks, alarmGuard, drainGuard} \subseteq BOOLEAN
PumpInv == StackInv /\ QueueInv /\ FlagsTyped

LEMMA QueueStart == PumpInit => QueueInv
  <1> SUFFICES ASSUME PumpInit PROVE QueueInv
    OBVIOUS
  <1>1. alarms = <<>> /\ alarms \in Seq(OSAlarms) /\ Len(alarms) = 0 /\ DOMAIN alarms = {}
    BY EmptySeq, LenProperties DEF PumpInit
  <1>2. 0 \in 0..MaxTicks
    BY PumpAssumption
  <1>3. QueueTyped
    BY <1>1, <1>2 DEF PumpInit, QueueTyped
  <1>4. \A a \in OSAlarms : armed[a] = FALSE
    BY DEF PumpInit
  <1> QED
    BY <1>1, <1>3, <1>4 DEF QueueInv, AlarmsInOrder, InQueue

LEMMA FlagsStep == FlagsTyped /\ [AlarmNext]_pumpVars => FlagsTyped'
  BY DEF FlagsTyped, AlarmNext, pumpVars, guards, PumpStep, FireAlarm, HandlerReturns, AlarmsDone,
         DispatchNandCallback, CallbackReturns, EndDrain, RetraceReturns, ThreadBlocks,
         OSSleepThread, IdleEnds, GuestCall, OSSetAlarm, Arm, OSSetPeriodicAlarm, OSCancelAlarm,
         PPCMtdec, NandQueueIosCallback, OSWakeupThread, Tick, ProcessAlarmQueue, AdvanceRetrace,
         CallPump

LEMMA PumpStart == PumpInit => PumpInv
  BY StackStart, QueueStart DEF PumpInv, FlagsTyped, PumpInit

LEMMA PumpStepKeeps == PumpInv /\ [AlarmNext]_pumpVars => PumpInv'
  BY StackStep, QueueStep, FlagsStep DEF PumpInv

LEMMA PumpInvariant == PumpSpec => []PumpInv
  BY PumpStart, PumpStepKeeps, PTL DEF PumpSpec

LEMMA PumpIsTyped == PumpInv => PumpTypeOK
  BY DEF PumpInv, FlagsTyped, StackInv, SchedulerOK, FiberStates, StackOK, QueueInv, QueueTyped,
         PumpTypeOK

\* ProcessAlarmQueue, NandProcessPendingCallbacks, AdvanceRetrace: pumps nest no
\* deeper than the bound of the calls, no turn is taken beyond maxToProcess, and
\* the disable count never falls below zero.
THEOREM PumpsStayTyped == PumpSpec => []PumpTypeOK
  BY PumpIsTyped, PumpInvariant, PTL

\* OSSetAlarm, OS__SetPeriodicAlarm, ProcessAlarmQueue: the alarm queue stays in
\* the order of the times, and holds just the alarms with a handler, each once.
THEOREM AlarmsStayInOrder == PumpSpec => []AlarmsInOrder
  <1>1. PumpInv => AlarmsInOrder
    BY DEF PumpInv, QueueInv
  <1> QED
    BY <1>1, PumpInvariant, PTL

\* RunDeferredReschedule, ProcessRetracesDeferred, OS_HLE_ProcessAlarmsDeferred:
\* a handler, a retrace and a deferred pump end on the fiber they interrupted
\* before any other fiber runs.
THEOREM InterruptsRunToTheirEnd == PumpSpec => []InterruptsFinish
  <1>1. PumpInv => InterruptsFinish
    BY DEF PumpInv, StackInv
  <1> QED
    BY <1>1, PumpInvariant, PTL

-----------------------------------------------------------------------------
(* The message queue.                                                      *)

(* The index arithmetic of the ring: within two turns, % subtracts at most *)
(* one turn.                                                               *)
LEMMA TwoTurns ==
  ASSUME NEW x \in 0 .. 2 * Capacity - 1
  PROVE  x % Capacity = IF x < Capacity THEN x ELSE x - Capacity
  <1>1. CASE x < Capacity
    BY <1>1, CapacityAssumption
  <1>2. CASE x >= Capacity
    BY <1>2, CapacityAssumption
  <1> QED
    BY <1>1, <1>2, CapacityAssumption

LEMMA WrapAround ==
  ASSUME NEW a \in Slots, NEW j \in Slots
  PROVE  (a + j) % Capacity = IF a + j < Capacity THEN a + j ELSE a + j - Capacity
  <1>1. PICK x \in 0 .. 2 * Capacity - 1 : x = a + j
    BY CapacityAssumption DEF Slots
  <1>2. x % Capacity = IF x < Capacity THEN x ELSE x - Capacity
    BY TwoTurns
  <1> QED
    BY <1>1, <1>2, CapacityAssumption DEF Slots

LEMMA SameSlot ==
  ASSUME NEW a \in Slots
  PROVE  (a + 0) % Capacity = a
  <1>1. a + 0 = a /\ a \in 0 .. 2 * Capacity - 1 /\ a < Capacity
    BY CapacityAssumption DEF Slots
  <1>2. a % Capacity = a
    BY <1>1, TwoTurns
  <1> QED
    BY <1>1, <1>2

(* Offsets from the same slot reach different slots.                       *)
LEMMA DistinctSlots ==
  ASSUME NEW a \in Slots, NEW i \in Slots, NEW j \in Slots, i # j
  PROVE  (a + i) % Capacity # (a + j) % Capacity
  <1>1. /\ (a + i) % Capacity = IF a + i < Capacity THEN a + i ELSE a + i - Capacity
        /\ (a + j) % Capacity = IF a + j < Capacity THEN a + j ELSE a + j - Capacity
    BY WrapAround
  <1>2. a \in Int /\ i \in 0 .. Capacity - 1 /\ j \in 0 .. Capacity - 1 /\ Capacity \in Int
    BY CapacityAssumption DEF Slots
  <1> QED
    BY <1>1, <1>2

(* Counting from the next slot, or from the previous one.                  *)
LEMMA FromNextSlot ==
  ASSUME NEW a \in Slots, NEW j \in Slots, j + 1 \in Slots
  PROVE  /\ (a + 1) % Capacity \in Slots
         /\ (((a + 1) % Capacity) + j) % Capacity = (a + (j + 1)) % Capacity
  <1> DEFINE n == (a + 1) % Capacity
  <1>1. 1 \in Slots /\ n = IF a + 1 < Capacity THEN a + 1 ELSE a + 1 - Capacity
    BY WrapAround, CapacityAssumption DEF Slots
  <1>2. n \in Slots
    BY <1>1, CapacityAssumption DEF Slots
  <1>3. /\ (n + j) % Capacity = IF n + j < Capacity THEN n + j ELSE n + j - Capacity
        /\ (a + (j + 1)) % Capacity =
             IF a + (j + 1) < Capacity THEN a + (j + 1) ELSE a + (j + 1) - Capacity
    BY <1>2, WrapAround
  <1> HIDE DEF n
  <1>4. (n + j) % Capacity = (a + (j + 1)) % Capacity
    BY <1>1, <1>2, <1>3, CapacityAssumption DEF Slots
  <1> QED
    BY <1>2, <1>4 DEF n

LEMMA FromPreviousSlot ==
  ASSUME NEW a \in Slots, NEW j \in Slots, j + 1 \in Slots,
         NEW f, f = IF a = 0 THEN Capacity - 1 ELSE a - 1
  PROVE  f \in Slots /\ (f + (j + 1)) % Capacity = (a + j) % Capacity
  <1>1. f \in Slots
    BY CapacityAssumption DEF Slots
  <1>2. /\ (f + (j + 1)) % Capacity =
             IF f + (j + 1) < Capacity THEN f + (j + 1) ELSE f + (j + 1) - Capacity
        /\ (a + j) % Capacity = IF a + j < Capacity THEN a + j ELSE a + j - Capacity
    BY <1>1, WrapAround
  <1> QED
    BY <1>1, <1>2, CapacityAssumption DEF Slots

(* The ring and the wait queues of an OSMessageQueue keep their types      *)
(* through every operation and cancellation: no send writes outside the    *)
(* message array, and `used' never passes its length.                      *)
THEOREM TypeCorrect == Spec => []TypeOK
  <1>1. Init => TypeOK
    BY CapacityAssumption DEF Init, TypeOK, Slots, Operations, NoCall
  <1>2. ASSUME TypeOK, [Next]_vars PROVE TypeOK'
    <2> USE CapacityAssumption, TypeOK DEF TypeOK, Slots
    <2>1. CASE UNCHANGED vars
      BY <2>1 DEF vars, ring, queues
    <2>2. ASSUME NEW t \in Users, NEW c \in Operations, Enter(t, c) PROVE TypeOK'
      BY <2>2 DEF Enter, ring, queues
    <2>3. ASSUME NEW t \in Users, Send(t) PROVE TypeOK'
      <3>1. call[t].msg \in Messages /\ used < Capacity /\ call' \in [Users -> Operations \cup {NoCall, Cancelled}]
        BY <2>3 DEF Send, MsgQueueIsFull, Operations, NoCall, Cancelled
      <3>2. CASE call[t].op = "send"
        <4>1. MsgQueueEnqueue(call[t].msg)
          BY <2>3, <3>2 DEF Send
        <4>2. array' \in [Slots -> Messages] /\ first' \in Slots /\ used' \in 0 .. Capacity
          BY <3>1, <4>1 DEF MsgQueueEnqueue
        <4> QED
          BY <2>3, <3>1, <4>2 DEF Send
      <3>3. CASE call[t].op # "send"
        <4>1. MsgQueueJam(call[t].msg)
          BY <2>3, <3>3 DEF Send
        <4>2. array' \in [Slots -> Messages] /\ first' \in Slots /\ used' \in 0 .. Capacity
          BY <3>1, <4>1 DEF MsgQueueJam
        <4> QED
          BY <2>3, <3>1, <4>2 DEF Send
      <3> QED
        BY <3>2, <3>3
    <2>4. ASSUME NEW t \in Users, Receive(t) PROVE TypeOK'
      BY <2>4 DEF Receive, MsgQueueDequeue, MsgQueueIsEmpty
    <2>5. ASSUME NEW t \in Users, NotReady(t) PROVE TypeOK'
      BY <2>5 DEF NotReady, ring, queues
    <2>6. ASSUME NEW t \in Users, Cancel(t) PROVE TypeOK'
      BY <2>6 DEF Cancel, ring, queues
    <2> QED
      BY <1>2, <2>1, <2>2, <2>3, <2>4, <2>5, <2>6 DEF Next
  <1> QED
    BY <1>1, <1>2, PTL DEF Spec

(* No thread is left parked on an OSMessageQueue whose operation could go  *)
(* on: MsgQueueOp wakes all of the opposite queue on every success, so not *)
(* even the cancellation of a woken thread can strand another one.         *)
THEOREM NoWakeupIsLost == Spec => []NoLostWakeup
  <1>1. Init => NoLostWakeup
    BY DEF Init, NoLostWakeup
  <1>2. ASSUME TypeOK, NoLostWakeup, [Next]_vars PROVE NoLostWakeup'
    <2> USE CapacityAssumption, TypeOK, NoLostWakeup DEF NoLostWakeup, MsgQueueIsFull, MsgQueueIsEmpty
    <2>1. CASE UNCHANGED vars
      BY <2>1 DEF vars, ring, queues
    <2>2. ASSUME NEW t \in Users, NEW c \in Operations, Enter(t, c) PROVE NoLostWakeup'
      BY <2>2 DEF Enter, ring, queues
    <2>3. ASSUME NEW t \in Users, Send(t) PROVE NoLostWakeup'
      BY <2>3 DEF Send
    <2>4. ASSUME NEW t \in Users, Receive(t) PROVE NoLostWakeup'
      BY <2>4 DEF Receive, TypeOK
    <2>5. ASSUME NEW t \in Users, NotReady(t) PROVE NoLostWakeup'
      BY <2>5 DEF NotReady, ring, queues
    <2>6. ASSUME NEW t \in Users, Cancel(t) PROVE NoLostWakeup'
      BY <2>6 DEF Cancel, ring
    <2> QED
      BY <1>2, <2>1, <2>2, <2>3, <2>4, <2>5, <2>6 DEF Next
  <1> QED
    BY <1>1, <1>2, TypeCorrect, PTL DEF Spec

-----------------------------------------------------------------------------
(* The ring as a sequence.                                                 *)

LEMMA ContentsType ==
  ASSUME TypeOK
  PROVE  /\ Contents \in Seq(Messages)
         /\ Len(Contents) = used
         /\ \A i \in 1 .. used : i - 1 \in Slots /\ Contents[i] = array[(first + (i - 1)) % Capacity]
  BY CapacityAssumption DEF TypeOK, Contents, Slots

(* Two sequences are equal when they have the same length and elements.    *)
LEMMA ContentsAre ==
  ASSUME NEW s \in Seq(Messages), TypeOK', Len(s) = used',
         \A i \in 1 .. used' : s[i] = array'[(first' + (i - 1)) % Capacity]
  PROVE  Contents' = s
  BY DEF TypeOK, Contents

LEMMA EnqueueAppends ==
  ASSUME TypeOK, TypeOK', NEW m \in Messages, ~MsgQueueIsFull, MsgQueueEnqueue(m)
  PROVE  Contents' = Append(Contents, m)
  <1> DEFINE s == Append(Contents, m)
  <1>1. s \in Seq(Messages) /\ Len(s) = used'
    BY ContentsType DEF MsgQueueEnqueue
  <1>2. ASSUME NEW i \in 1 .. used'
        PROVE  s[i] = array'[(first' + (i - 1)) % Capacity]
    <2>1. used \in Slots /\ first \in Slots /\ i - 1 \in Slots
      BY CapacityAssumption DEF TypeOK, Slots, MsgQueueEnqueue, MsgQueueIsFull
    <2>2. CASE i = used + 1
      <3>1. s[i] = m /\ i - 1 = used
        BY <2>1, <2>2, ContentsType DEF Slots
      <3>2. (first + used) % Capacity \in Slots
        BY <2>1, CapacityAssumption DEF Slots
      <3> QED
        BY <3>1, <3>2 DEF TypeOK, MsgQueueEnqueue
    <2>3. CASE i # used + 1
      <3>1. i \in 1 .. used /\ i - 1 # used
        BY <2>3 DEF TypeOK, MsgQueueEnqueue
      <3>2. (first + (i - 1)) % Capacity # (first + used) % Capacity
        BY <2>1, <3>1, DistinctSlots
      <3>3. s[i] = Contents[i]
        BY <3>1, ContentsType
      <3>4. (first + (i - 1)) % Capacity \in Slots
        BY <2>1, CapacityAssumption DEF Slots
      <3> QED
        BY <3>1, <3>2, <3>3, <3>4, ContentsType DEF TypeOK, MsgQueueEnqueue
    <2> QED
      BY <2>2, <2>3
  <1> QED
    BY <1>1, <1>2, ContentsAre

LEMMA JamPrepends ==
  ASSUME TypeOK, TypeOK', NEW m \in Messages, ~MsgQueueIsFull, MsgQueueJam(m)
  PROVE  Contents' = << m >> \o Contents
  <1> DEFINE s == << m >> \o Contents
  <1>0. PICK f \in Slots : /\ f = (IF first = 0 THEN Capacity - 1 ELSE first - 1)
                           /\ first' = f /\ used' = used + 1 /\ array' = [array EXCEPT ![f] = m]
    BY CapacityAssumption DEF TypeOK, Slots, MsgQueueJam
  <1>1. s \in Seq(Messages) /\ Len(s) = used'
    BY <1>0, ContentsType DEF TypeOK
  <1>2. ASSUME NEW i \in 1 .. used'
        PROVE  s[i] = array'[(first' + (i - 1)) % Capacity]
    <2>1. i - 1 \in Slots /\ 0 \in Slots /\ first \in Slots
      BY <1>0, CapacityAssumption DEF TypeOK, Slots, MsgQueueIsFull
    <2>2. (f + 0) % Capacity = f
      BY SameSlot
    <2>3. CASE i = 1
      BY <1>0, <2>2, <2>3, ContentsType DEF TypeOK
    <2>4. CASE i # 1
      <3> DEFINE j == i - 1 - 1
      <3>1. i - 1 \in 1 .. used /\ j \in Slots /\ j + 1 = i - 1 /\ i - 1 # 0
        BY <1>0, <2>1, <2>4, CapacityAssumption DEF TypeOK, Slots
      <3>2. (f + (i - 1)) % Capacity = (first + j) % Capacity
        <4> HIDE DEF j
        <4>1. j + 1 \in Slots
          BY <2>1, <3>1
        <4>2. (f + (j + 1)) % Capacity = (first + j) % Capacity
          BY <1>0, <2>1, <3>1, <4>1, FromPreviousSlot
        <4> QED
          BY <3>1, <4>2
      <3>3. (f + (i - 1)) % Capacity # f
        BY <1>0, <2>1, <2>2, <3>1, DistinctSlots
      <3>4. (f + (i - 1)) % Capacity \in Slots
        BY <1>0, <2>1, CapacityAssumption DEF Slots
      <3>5. s[i] = Contents[i - 1]
        BY <1>0, <3>1, ContentsType DEF TypeOK
      <3> QED
        BY <1>0, <3>1, <3>2, <3>3, <3>4, <3>5, ContentsType DEF TypeOK
    <2> QED
      BY <2>3, <2>4
  <1> QED
    BY <1>1, <1>2, ContentsAre

LEMMA DequeueTakesHead ==
  ASSUME TypeOK, TypeOK', ~MsgQueueIsEmpty, MsgQueueDequeue
  PROVE  Contents # << >> /\ Contents' = Tail(Contents) /\ array[first] = Head(Contents)
  <1>1. Contents # << >> /\ used \in 1 .. Capacity /\ first \in Slots /\ 0 \in Slots
    BY ContentsType, CapacityAssumption DEF TypeOK, Slots, MsgQueueIsEmpty
  <1>2. (first + 0) % Capacity = first
    BY <1>1, SameSlot
  <1>3. array[first] = Head(Contents)
    BY <1>1, <1>2, ContentsType
  <1>4. Tail(Contents) \in Seq(Messages) /\ Len(Tail(Contents)) = used'
    BY <1>1, ContentsType DEF MsgQueueDequeue
  <1>5. ASSUME NEW i \in 1 .. used'
        PROVE  Tail(Contents)[i] = array'[(first' + (i - 1)) % Capacity]
    <2> DEFINE j == i - 1
    <2>1. i + 1 \in 1 .. used /\ (i + 1) - 1 = j + 1 /\ j \in Slots /\ j + 1 \in Slots
      BY <1>1, CapacityAssumption DEF MsgQueueDequeue, Slots
    <2>2. Tail(Contents)[i] = Contents[i + 1]
      BY <1>1, <1>4, <2>1, ContentsType
    <2>3. Contents[i + 1] = array[(first + (j + 1)) % Capacity]
      BY <2>1, ContentsType
    <2> HIDE DEF j
    <2>4. (((first + 1) % Capacity) + j) % Capacity = (first + (j + 1)) % Capacity
      BY <1>1, <2>1, FromNextSlot
    <2> QED
      BY <2>2, <2>3, <2>4 DEF MsgQueueDequeue, j
  <1> QED
    BY <1>1, <1>3, <1>4, <1>5, ContentsAre

(* OSMessageQueue implements BoundedFifo: messages are delivered once, in  *)
(* order, jammed ones first, and at most Capacity of them are held.        *)
THEOREM QueueImplementsFifo == Spec => ImplementsFifo
  <1>1. ASSUME Init PROVE Fifo!Init
    <2>1. TypeOK
      BY <1>1, CapacityAssumption DEF Init, TypeOK, Slots, Operations, NoCall
    <2> QED
      BY <1>1, <2>1, ContentsType DEF Init, Fifo!Init
  <1>2. ASSUME TypeOK, TypeOK', [Next]_vars PROVE [Fifo!Next]_<<Contents, got>>
    <2>1. ASSUME UNCHANGED << ring, got >> PROVE UNCHANGED << Contents, got >>
      BY <2>1 DEF ring, Contents
    <2>2. CASE UNCHANGED vars
      BY <2>1, <2>2 DEF vars
    <2>3. ASSUME NEW t \in Users, NEW c \in Operations, Enter(t, c)
          PROVE  [Fifo!Next]_<<Contents, got>>
      BY <2>1, <2>3 DEF Enter
    <2>4. ASSUME NEW t \in Users, Send(t) PROVE [Fifo!Next]_<<Contents, got>>
      <3> DEFINE m == call[t].msg
      <3>1. m \in Messages /\ Len(Contents) < Capacity /\ UNCHANGED got /\ ~MsgQueueIsFull
        BY <1>2, <2>4, ContentsType, CapacityAssumption
        DEF Send, MsgQueueIsFull, TypeOK, Operations, NoCall, Cancelled
      <3>2. CASE call[t].op = "send"
        <4>1. MsgQueueEnqueue(m)
          BY <2>4, <3>2 DEF Send
        <4>2. Fifo!Put(m)
          BY <1>2, <3>1, <4>1, EnqueueAppends DEF Fifo!Put
        <4> QED
          BY <3>1, <4>2 DEF Fifo!Next
      <3>3. CASE call[t].op # "send"
        <4>1. MsgQueueJam(m)
          BY <2>4, <3>3 DEF Send
        <4>2. Fifo!PutFirst(m)
          BY <1>2, <3>1, <4>1, JamPrepends DEF Fifo!PutFirst
        <4> QED
          BY <3>1, <4>2 DEF Fifo!Next
      <3> QED
        BY <3>2, <3>3
    <2>5. ASSUME NEW t \in Users, Receive(t) PROVE [Fifo!Next]_<<Contents, got>>
      <3>1. Fifo!Take(t)
        BY <1>2, <2>5, DequeueTakesHead DEF Receive, Fifo!Take
      <3> QED
        BY <3>1 DEF Fifo!Next
    <2>6. ASSUME NEW t \in Users, NotReady(t) PROVE [Fifo!Next]_<<Contents, got>>
      BY <2>1, <2>6 DEF NotReady
    <2>7. ASSUME NEW t \in Users, Cancel(t) PROVE [Fifo!Next]_<<Contents, got>>
      BY <2>1, <2>7 DEF Cancel
    <2> QED
      BY <1>2, <2>2, <2>3, <2>4, <2>5, <2>6, <2>7 DEF Next
  <1> QED
    BY <1>1, <1>2, TypeCorrect, PTL DEF Spec, ImplementsFifo, Fifo!Spec

-----------------------------------------------------------------------------
(* The deferred network requests.                                          *)

Waiting(t) == state[t] \in {"waits", "ready"}

\* Tokens are handed out once: to one request, and to one thread that waits for it.
TokensOK ==
  /\ \A w \in work : w.token < nextToken
  /\ \A w, v \in work : w.token = v.token => w = v
  /\ \A t \in Threads : token[t] < nextToken
  /\ \A t \in Threads : Waiting(t) => token[t] # 0
  /\ \A t, u \in Threads : token[t] = token[u] /\ token[t] # 0 => t = u
  /\ \A t \in Threads : state[t] = "waits" => cookie[t] = token[t]

\* A callback is queued once, for a request that is not under way any more and
\* has not called back.
CallbacksOK ==
  /\ \A i \in DOMAIN callbacks : callbacks[i] < nextToken
  /\ \A i \in DOMAIN callbacks : calls[callbacks[i]] = 0
  /\ \A i, j \in DOMAIN callbacks : callbacks[i] = callbacks[j] => i = j
  /\ \A r \in Tokens : r >= nextToken => calls[r] = 0
  /\ \A r \in Tokens : calls[r] \in {0, 1}
  /\ \A w \in work : ~w.sync => calls[w.token] = 0
  /\ \A w \in work, i \in DOMAIN callbacks : ~w.sync => callbacks[i] # w.token

\* A request that is to call back, or has: it is under way, queued, or done.
Accounted(r) ==
  \/ \E w \in work : w.token = r /\ ~w.sync
  \/ \E i \in DOMAIN callbacks : callbacks[i] = r
  \/ calls[r] = 1

\* These are the requests that were made with a callback, no more and no less.
IssuedOK == \A r \in Tokens : r \in issued <=> Accounted(r)

NetInv == NetTypeOK /\ TokensOK /\ CallbacksOK /\ IssuedOK /\ OwnAnswer /\ PeerIsOwn
-----------------------------------------------------------------------------
(* The operations keep the invariant.                                      *)

LEMMA NetInitKeeps == NetInit => NetInv
  BY NetAssumption
  DEF NetInit, NetInv, NetTypeOK, TokensOK, CallbacksOK, IssuedOK, Accounted, OwnAnswer, PeerIsOwn, Waiting, Tokens,
      Generations

\* A request is submitted under a token of its own.
LEMMA InstallFacts ==
  ASSUME NetTypeOK, NEW kind \in Kinds, NEW t \in Threads, NEW s \in Sockets, NEW sync \in BOOLEAN,
         nextToken <= MaxRequests, Install(kind, t, s, sync)
  PROVE  \E w \in Work : work' = work \cup {w} /\ w.token = nextToken /\ w.sync = sync
  <1>1. PICK result \in {"none", "ok", "error"} :
          work' = work \cup
            {[token |-> nextToken, kind |-> kind, thread |-> t, sync |-> sync,
              socket |-> IF kind = "dns" THEN NoSocket ELSE s,
              generation |-> IF kind = "dns" THEN 0 ELSE generation[s],
              result |-> result, expired |-> FALSE]}
    BY DEF Install
  <1> DEFINE w == [token |-> nextToken, kind |-> kind, thread |-> t, sync |-> sync,
                   socket |-> IF kind = "dns" THEN NoSocket ELSE s,
                   generation |-> IF kind = "dns" THEN 0 ELSE generation[s],
                   result |-> result, expired |-> FALSE]
  <1>2. nextToken \in Tokens
    BY NetAssumption DEF NetTypeOK, Tokens
  <1>3. (IF kind = "dns" THEN NoSocket ELSE s) \in Sockets \cup {NoSocket}
    OBVIOUS
  <1>4. (IF kind = "dns" THEN 0 ELSE generation[s]) \in Generations
    BY NetAssumption DEF NetTypeOK, Generations
  <1>5. w \in Work
    BY <1>2, <1>3, <1>4 DEF Work
  <1>6. w.token = nextToken /\ w.sync = sync
    OBVIOUS
  <1> QED
    BY <1>1, <1>5, <1>6

LEMMA StartSyncKeeps ==
  ASSUME NetInv, NEW t \in Threads, NEW kind \in Kinds, NEW s \in Sockets, StartSync(t, kind, s)
  PROVE  NetInv'
  <1>1. /\ state[t] = "runs" /\ nextToken <= MaxRequests /\ nextToken \in Tokens
        /\ cookie' = [cookie EXCEPT ![t] = nextToken] /\ nextToken' = nextToken + 1
        /\ UNCHANGED <<syncResults, generation, nextGeneration, peer, callbacks, processed, issued, calls>>
    BY NetAssumption DEF StartSync, Runs, sockets, callbackQueue, netHistory, NetInv, NetTypeOK, Tokens
  <1>2. CASE /\ Install(kind, t, s, TRUE)
             /\ state' = [state EXCEPT ![t] = "waits"] /\ token' = [token EXCEPT ![t] = nextToken]
    <2>1. PICK w \in Work : work' = work \cup {w} /\ w.token = nextToken /\ w.sync = TRUE
      BY <1>1, <1>2, InstallFacts DEF NetInv
    <2>2. NetTypeOK'
      BY <1>1, <1>2, <2>1, NetAssumption DEF NetInv, NetTypeOK, Tokens
    <2>3. TokensOK'
      BY <1>1, <1>2, <2>1, NetAssumption DEF NetInv, NetTypeOK, TokensOK, Waiting, Tokens, Work
    <2>4. CallbacksOK'
      BY <1>1, <2>1, NetAssumption DEF NetInv, NetTypeOK, CallbacksOK, Tokens, Work
    <2>5. IssuedOK'
      BY <1>1, <2>1 DEF NetInv, IssuedOK, Accounted
    <2> QED
      BY <1>1, <1>2, <2>2, <2>3, <2>4, <2>5 DEF NetInv, NetTypeOK, OwnAnswer, PeerIsOwn
  <1>3. CASE UNCHANGED <<work, state, token>>
    <2>1. NetTypeOK'
      BY <1>1, <1>3, NetAssumption DEF NetInv, NetTypeOK, Tokens
    <2>2. TokensOK'
      BY <1>1, <1>3, NetAssumption DEF NetInv, NetTypeOK, TokensOK, Waiting, Tokens, Work
    <2>3. CallbacksOK'
      BY <1>1, <1>3, NetAssumption DEF NetInv, NetTypeOK, CallbacksOK, Tokens, Work
    <2>4. IssuedOK'
      BY <1>1, <1>3 DEF NetInv, IssuedOK, Accounted
    <2> QED
      BY <1>1, <1>3, <2>1, <2>2, <2>3, <2>4 DEF NetInv, NetTypeOK, OwnAnswer, PeerIsOwn
  <1> QED
    BY <1>2, <1>3 DEF StartSync

LEMMA StartAsyncKeeps ==
  ASSUME NetInv, NEW t \in Threads, NEW kind \in Kinds, NEW s \in Sockets, StartAsync(t, kind, s)
  PROVE  NetInv'
  <1>1. /\ nextToken <= MaxRequests /\ nextToken \in Tokens /\ nextToken' = nextToken + 1
        /\ issued' = issued \cup {nextToken}
        /\ UNCHANGED <<state, token, cookie, syncResults, generation, nextGeneration, peer,
                       processed, calls>>
    BY NetAssumption DEF StartAsync, threads, sockets, NetInv, NetTypeOK, Tokens
  <1>2. calls[nextToken] = 0 /\ \A i \in DOMAIN callbacks : callbacks[i] # nextToken
    BY <1>1, ElementOfSeq, NetAssumption DEF NetInv, NetTypeOK, CallbacksOK, Tokens
  <1>3. CASE Install(kind, t, s, FALSE) /\ UNCHANGED callbacks
    <2>1. PICK w \in Work : work' = work \cup {w} /\ w.token = nextToken /\ w.sync = FALSE
      BY <1>1, <1>3, InstallFacts DEF NetInv
    <2>2. NetTypeOK'
      BY <1>1, <1>3, <2>1, NetAssumption DEF NetInv, NetTypeOK, Tokens
    <2>3. TokensOK'
      BY <1>1, <2>1, NetAssumption DEF NetInv, NetTypeOK, TokensOK, Waiting, Tokens, Work
    <2>4. CallbacksOK'
      BY <1>1, <1>2, <1>3, <2>1, NetAssumption DEF NetInv, NetTypeOK, CallbacksOK, Tokens, Work
    <2>5. IssuedOK'
      BY <1>1, <1>3, <2>1 DEF NetInv, IssuedOK, Accounted
    <2> QED
      BY <1>1, <2>2, <2>3, <2>4, <2>5 DEF NetInv, NetTypeOK, OwnAnswer, PeerIsOwn
  <1>4. CASE callbacks' = Append(callbacks, nextToken) /\ UNCHANGED work
    <2> DEFINE n == Len(callbacks)
    <2>1. /\ callbacks' \in Seq(Tokens) /\ n \in Nat
          /\ DOMAIN callbacks = 1..n /\ DOMAIN callbacks' = 1..(n + 1)
          /\ callbacks'[n + 1] = nextToken
          /\ \A i \in 1..n : callbacks'[i] = callbacks[i]
      <3>1. callbacks \in Seq(Tokens)
        BY DEF NetInv, NetTypeOK
      <3>2. callbacks' \in Seq(Tokens) /\ Len(callbacks') = n + 1
        BY <1>1, <1>4, <3>1, AppendProperties
      <3> QED
        BY <1>1, <1>4, <3>1, <3>2, AppendProperties, LenProperties
    <2>2. \A i \in DOMAIN callbacks' :
            \/ i \in DOMAIN callbacks /\ callbacks'[i] = callbacks[i]
            \/ i = n + 1 /\ callbacks'[i] = nextToken
      BY <2>1
    <2>3. NetTypeOK'
      BY <1>1, <1>4, <2>1, NetAssumption DEF NetInv, NetTypeOK, Tokens
    <2>4. TokensOK'
      BY <1>1, <1>4, NetAssumption DEF NetInv, NetTypeOK, TokensOK, Waiting, Tokens, Work
    <2>5. CallbacksOK'
      <3>1. \A i, j \in DOMAIN callbacks' : callbacks'[i] = callbacks'[j] => i = j
        BY <1>2, <2>2 DEF NetInv, CallbacksOK
      <3>2. \A w \in work, i \in DOMAIN callbacks' : ~w.sync => callbacks'[i] # w.token
        <4>1. \A w \in work : w.token # nextToken
          <5>1. \A w \in work : w.token \in Nat /\ w.token < nextToken
            BY NetAssumption DEF NetInv, NetTypeOK, TokensOK, Work, Tokens
          <5> QED
            BY <1>1, <5>1, NetAssumption DEF Tokens
        <4>2. \A w \in work, i \in DOMAIN callbacks : ~w.sync => callbacks[i] # w.token
          BY DEF NetInv, CallbacksOK
        <4> QED
          BY <2>2, <4>1, <4>2
      <3>3. \A i \in DOMAIN callbacks' : callbacks'[i] < nextToken' /\ calls[callbacks'[i]] = 0
        <4>1. \A i \in DOMAIN callbacks : callbacks[i] \in Tokens
          BY <2>1, ElementOfSeq DEF NetInv, NetTypeOK
        <4>2. \A i \in DOMAIN callbacks : callbacks[i] < nextToken + 1 /\ calls[callbacks[i]] = 0
          BY <1>1, <4>1, NetAssumption DEF NetInv, CallbacksOK, Tokens
        <4>3. nextToken < nextToken + 1 /\ calls[nextToken] = 0
          BY <1>1, <1>2, NetAssumption DEF Tokens
        <4> QED
          BY <1>1, <2>2, <4>2, <4>3
      <3>4. \A r \in Tokens : r >= nextToken' => r >= nextToken
        BY <1>1, NetAssumption DEF Tokens
      <3> QED
        BY <1>1, <1>4, <3>1, <3>2, <3>3, <3>4 DEF NetInv, CallbacksOK
    <2>6. IssuedOK'
      <3> SUFFICES ASSUME NEW r \in Tokens
                   PROVE  r \in issued' <=> Accounted(r)'
        BY DEF IssuedOK
      <3>1. (\E i \in DOMAIN callbacks' : callbacks'[i] = r)
              <=> r = nextToken \/ \E i \in DOMAIN callbacks : callbacks[i] = r
        BY <2>1, <2>2
      <3> QED
        BY <1>1, <1>4, <3>1 DEF NetInv, IssuedOK, Accounted
    <2> QED
      BY <1>1, <1>4, <2>3, <2>4, <2>5, <2>6 DEF NetInv, NetTypeOK, OwnAnswer, PeerIsOwn
  <1> QED
    BY <1>3, <1>4 DEF StartAsync

LEMMA WaitKeeps ==
  ASSUME NetInv, NEW t \in Threads,
         Resume(t) \/ GiveUp(t) \/ CancelAndReuse(t) \/ SleepElsewhere(t)
  PROVE  NetInv'
  <1>1. UNCHANGED <<cookie, nextToken, work, generation, nextGeneration, peer, callbacks, processed, issued, calls>>
    BY DEF Resume, GiveUp, CancelAndReuse, SleepElsewhere, requests, sockets, callbackQueue, netHistory
  <1>2. CallbacksOK' /\ IssuedOK' /\ PeerIsOwn'
    BY <1>1 DEF NetInv, CallbacksOK, IssuedOK, Accounted, PeerIsOwn
  <1>3. CASE Resume(t)
    <2>1. /\ state[t] = "ready" /\ syncResults' = syncResults \ {token[t]}
          /\ state' = [state EXCEPT ![t] = "runs"] /\ token' = [token EXCEPT ![t] = 0]
      BY <1>3 DEF Resume
    <2>2. OwnAnswer'
      BY <2>1 DEF NetInv, NetTypeOK, TokensOK, OwnAnswer, Waiting
    <2> QED
      BY <1>1, <1>2, <2>1, <2>2, NetAssumption DEF NetInv, NetTypeOK, TokensOK, Waiting
  <1>4. CASE GiveUp(t) \/ CancelAndReuse(t)
    <2>1. /\ syncResults' = syncResults
          /\ state' = [state EXCEPT ![t] = "runs"] /\ token' = [token EXCEPT ![t] = 0]
      BY <1>4 DEF GiveUp, CancelAndReuse, requests
    <2> QED
      BY <1>1, <1>2, <2>1, NetAssumption DEF NetInv, NetTypeOK, TokensOK, OwnAnswer, Waiting
  <1>5. CASE SleepElsewhere(t)
    <2>1. /\ UNCHANGED <<token, syncResults>> /\ state[t] \in {"runs", "sleeps"}
          /\ \E new \in {"runs", "sleeps"} : state' = [state EXCEPT ![t] = new]
      BY <1>5 DEF SleepElsewhere, Runs, requests
    <2> QED
      BY <1>1, <1>2, <2>1 DEF NetInv, NetTypeOK, TokensOK, OwnAnswer, Waiting
  <1> QED
    BY <1>3, <1>4, <1>5
\* A change of the requests under way that keeps their tokens.
LEMMA RelabelKeeps ==
  ASSUME NetInv, NEW F \in [work -> Work],
         \A w \in work : F[w].token = w.token /\ F[w].sync = w.sync,
         work' = {F[w] : w \in work}, UNCHANGED <<threads, nextToken, syncResults, callbackQueue, netHistory>>
  PROVE  work' \subseteq Work /\ TokensOK' /\ CallbacksOK' /\ IssuedOK' /\ OwnAnswer'
  <1>1. work' \subseteq Work
    OBVIOUS
  <1>2. /\ UNCHANGED <<state, token, cookie, nextToken, syncResults, callbacks, processed, issued, calls>>
        /\ \A v \in work' : \E w \in work : v = F[w] /\ v.token = w.token /\ (v.sync <=> w.sync)
        /\ \A w \in work : \E v \in work' : v.token = w.token /\ (v.sync <=> w.sync)
    BY DEF threads, callbackQueue, netHistory
  <1>3. \A w, v \in work' : w.token = v.token => w = v
    BY <1>2 DEF NetInv, TokensOK
  <1>4. TokensOK'
    BY <1>2, <1>3 DEF NetInv, TokensOK, Waiting
  <1>5. CallbacksOK'
    BY <1>2 DEF NetInv, CallbacksOK
  <1>6. IssuedOK'
    <2> SUFFICES ASSUME NEW r \in Tokens
                 PROVE  r \in issued' <=> Accounted(r)'
      BY DEF IssuedOK
    <2>1. (\E v \in work' : v.token = r /\ ~v.sync) <=> \E w \in work : w.token = r /\ ~w.sync
      BY <1>2
    <2>2. r \in issued <=> Accounted(r)
      BY DEF NetInv, IssuedOK
    <2> QED
      BY <1>2, <2>1, <2>2 DEF Accounted
  <1> QED
    BY <1>1, <1>2, <1>4, <1>5, <1>6 DEF NetInv, OwnAnswer

LEMMA OpenSocketKeeps ==
  ASSUME NetInv, NEW s \in Sockets, OpenSocket(s)
  PROVE  NetInv'
  <1>1. /\ nextGeneration <= MaxGeneration /\ nextGeneration' = nextGeneration + 1
        /\ generation' = [generation EXCEPT ![s] = nextGeneration]
        /\ peer' = IF generation[s] = 0 THEN peer ELSE [peer EXCEPT ![s] = nextGeneration]
        /\ UNCHANGED <<threads, requests, callbackQueue, netHistory>>
    BY DEF OpenSocket
  <1>2. nextGeneration \in Generations /\ nextGeneration + 1 \in 1..(MaxGeneration + 1)
    BY <1>1, NetAssumption DEF NetInv, NetTypeOK, Generations
  <1>3. PeerIsOwn'
    BY <1>1 DEF NetInv, NetTypeOK, PeerIsOwn
  <1>4. TokensOK' /\ CallbacksOK' /\ IssuedOK' /\ OwnAnswer'
    BY <1>1 DEF NetInv, TokensOK, CallbacksOK, IssuedOK, Accounted, OwnAnswer, Waiting, threads, requests,
       callbackQueue, netHistory
  <1> QED
    BY <1>1, <1>2, <1>3, <1>4 DEF NetInv, NetTypeOK, threads, requests, callbackQueue, netHistory

LEMMA CloseSocketKeeps ==
  ASSUME NetInv, NEW s \in Sockets, CloseSocket(s)
  PROVE  NetInv'
  <1> DEFINE F == [w \in work |-> IF w.kind = "connect" /\ w.socket = s /\ w.result = "none"
                                  THEN [w EXCEPT !.result = "error"] ELSE w]
  <1>1. /\ generation' = [generation EXCEPT ![s] = 0] /\ peer' = [peer EXCEPT ![s] = 0]
        /\ work' = {F[w] : w \in work}
        /\ UNCHANGED <<threads, nextToken, syncResults, nextGeneration, callbackQueue, netHistory>>
    BY DEF CloseSocket
  <1>2. ASSUME NEW w \in work
        PROVE  F[w] \in Work /\ F[w].token = w.token /\ F[w].sync = w.sync
    <2>1. w \in Work
      BY DEF NetInv, NetTypeOK
    <2> QED
      BY <2>1 DEF Work
  <1>3. F \in [work -> Work]
    BY <1>2
  <1> HIDE DEF F
  <1>4. work' \subseteq Work /\ TokensOK' /\ CallbacksOK' /\ IssuedOK' /\ OwnAnswer'
    BY <1>1, <1>2, <1>3, RelabelKeeps
  <1>5. PeerIsOwn' /\ generation' \in [Sockets -> Generations] /\ peer' \in [Sockets -> Generations]
    BY <1>1, NetAssumption DEF NetInv, NetTypeOK, PeerIsOwn, Generations
  <1> QED
    BY <1>1, <1>4, <1>5 DEF NetInv, NetTypeOK, threads, callbackQueue, netHistory

LEMMA ElapseKeeps ==
  ASSUME NetInv, NEW w \in work, Resolve(w) \/ Expire(w)
  PROVE  NetInv'
  <1>1. w \in Work
    BY DEF NetInv, NetTypeOK
  <1>2. PICK v \in Work : /\ work' = (work \ {w}) \cup {v}
                          /\ v.token = w.token /\ v.sync = w.sync
    <2>1. CASE Resolve(w)
      <3>1. PICK result \in {"ok", "error"} :
              work' = (work \ {w}) \cup {[w EXCEPT !.result = result]}
        BY <2>1 DEF Resolve
      <3>2. /\ [w EXCEPT !.result = result] \in Work
            /\ [w EXCEPT !.result = result].token = w.token
            /\ [w EXCEPT !.result = result].sync = w.sync
        BY <1>1 DEF Work
      <3> QED
        BY <3>1, <3>2
    <2>2. CASE Expire(w)
      <3>1. /\ [w EXCEPT !.expired = TRUE] \in Work
            /\ [w EXCEPT !.expired = TRUE].token = w.token
            /\ [w EXCEPT !.expired = TRUE].sync = w.sync
        BY <1>1 DEF Work
      <3> QED
        BY <2>2, <3>1 DEF Expire
    <2> QED
      BY <2>1, <2>2
  <1> DEFINE F == [u \in work |-> IF u = w THEN v ELSE u]
  <1>3. UNCHANGED <<threads, nextToken, syncResults, sockets, callbackQueue, netHistory>>
    BY DEF Resolve, Expire
  <1>4. F \in [work -> Work] /\ \A u \in work : F[u].token = u.token /\ F[u].sync = u.sync
    BY <1>2 DEF NetInv, NetTypeOK
  <1>5. work' = {F[u] : u \in work}
    BY <1>2
  <1> HIDE DEF F
  <1>6. work' \subseteq Work /\ TokensOK' /\ CallbacksOK' /\ IssuedOK' /\ OwnAnswer'
    BY <1>3, <1>4, <1>5, RelabelKeeps
  <1> QED
    BY <1>3, <1>6 DEF NetInv, NetTypeOK, PeerIsOwn, threads, sockets, callbackQueue, netHistory

-----------------------------------------------------------------------------
(* The pump.                                                               *)

\* A list of distinct entries.
LEMMA DistinctOrder ==
  ASSUME NEW S, IsFiniteSet(S), NEW order \in [1..Cardinality(S) -> S],
         S = {order[i] : i \in DOMAIN order}
  PROVE  /\ order \in Seq(S)
         /\ \A i, j \in DOMAIN order : order[i] = order[j] => i = j
  <1>1. Cardinality(S) \in Nat
    BY FS_CardinalityType
  <1>2. IsFiniteSet(1..Cardinality(S)) /\ Cardinality(1..Cardinality(S)) = Cardinality(S)
    <2>1. \A n \in Nat : IsFiniteSet(1..n) /\ Cardinality(1..n) = IF 1 > n THEN 0 ELSE n - 1 + 1
      BY FS_Interval
    <2>2. \A n \in Nat : Cardinality(1..n) = n
      BY <2>1
    <2> QED
      BY <1>1, <2>1, <2>2
  <1>3. order \in Surjection(1..Cardinality(S), S)
    BY DEF Surjection
  <1>4. order \in Injection(1..Cardinality(S), S)
    BY <1>2, <1>3, FS_SurjSameCardinalityImpliesInj
  <1> QED
    BY <1>1, <1>4 DEF Injection, IsInjective

LEMMA RunCallbackKeeps ==
  ASSUME NetInv, RunCallback
  PROVE  NetInv'
  <1>1. /\ callbacks \in Seq(Tokens) /\ callbacks # <<>>
        /\ callbacks' = Tail(callbacks)
        /\ calls' = [calls EXCEPT ![Head(callbacks)] = @ + 1]
        /\ processed' = IF processed = 0 THEN 2 ELSE processed + 1
        /\ processed <= CallbacksPerPump
        /\ UNCHANGED <<threads, requests, sockets, issued>>
    BY DEF RunCallback, NetInv, NetTypeOK
  <1>2. /\ callbacks' \in Seq(Tokens) /\ Len(callbacks') = Len(callbacks) - 1
        /\ Head(callbacks) = callbacks[1] /\ Len(callbacks) \in Nat \ {0}
        /\ \A i \in 1..Len(callbacks') : callbacks'[i] = callbacks[i + 1]
    BY <1>1, HeadTailProperties
  <1>3. /\ DOMAIN callbacks = 1..Len(callbacks) /\ DOMAIN callbacks' = 1..Len(callbacks')
        /\ \A i \in DOMAIN callbacks : callbacks[i] \in Tokens
    BY <1>1, <1>2, LenProperties, ElementOfSeq
  <1>4. /\ 1 \in DOMAIN callbacks
        /\ \A i \in DOMAIN callbacks' : i + 1 \in DOMAIN callbacks /\ i + 1 # 1 /\ callbacks'[i] = callbacks[i + 1]
        /\ \A i, j \in DOMAIN callbacks' : i + 1 = j + 1 => i = j
    BY <1>2, <1>3
  <1>5. /\ calls' \in [Tokens -> Nat]
        /\ \A r \in Tokens : calls'[r] = IF r = callbacks[1] THEN 1 ELSE calls[r]
    <2>1. callbacks[1] \in Tokens /\ calls[callbacks[1]] = 0 /\ calls \in [Tokens -> Nat]
      BY <1>3, <1>4 DEF NetInv, NetTypeOK, CallbacksOK
    <2>2. calls' = [calls EXCEPT ![callbacks[1]] = calls[callbacks[1]] + 1]
      BY <1>1, <1>2
    <2> QED
      BY <2>1, <2>2
  <1>6. CallbacksOK'
    <2> DEFINE head == callbacks[1]
    <2>1. /\ UNCHANGED <<nextToken, work>> /\ calls \in [Tokens -> Nat]
          /\ head \in Tokens /\ head < nextToken
          /\ \A w \in work : w.token \in Tokens
      BY <1>1, <1>3, <1>4 DEF requests, NetInv, NetTypeOK, CallbacksOK, Work
    <2>8. \A w \in work : ~w.sync => head # w.token
      BY <1>4 DEF NetInv, CallbacksOK
    <2>2. \A i \in DOMAIN callbacks' : callbacks'[i] # callbacks[1] /\ callbacks'[i] \in Tokens
      BY <1>3, <1>4 DEF NetInv, CallbacksOK
    <2>3. \A r \in Tokens : calls'[r] = IF r = callbacks[1] THEN 1 ELSE calls[r]
      BY <1>5, <2>1
    <2>4. \A r \in Tokens : r >= nextToken => r # callbacks[1]
      BY <2>1, NetAssumption DEF Tokens, NetInv, NetTypeOK
    <2>5. \A i, j \in DOMAIN callbacks' : callbacks'[i] = callbacks'[j] => i = j
      BY <1>4 DEF NetInv, CallbacksOK
    <2>6. \A w \in work, i \in DOMAIN callbacks' : ~w.sync => callbacks'[i] # w.token
      BY <1>4 DEF NetInv, CallbacksOK
    <2>7. \A i \in DOMAIN callbacks' : callbacks'[i] < nextToken /\ calls[callbacks'[i]] = 0
      BY <1>4 DEF NetInv, CallbacksOK
    <2> QED
      BY <2>1, <2>2, <2>3, <2>4, <2>5, <2>6, <2>7, <2>8 DEF NetInv, CallbacksOK
  <1>8. IssuedOK'
    <2> SUFFICES ASSUME NEW r \in Tokens
                 PROVE  r \in issued' <=> Accounted(r)'
      BY DEF IssuedOK
    <2>1. calls'[r] = IF r = callbacks[1] THEN 1 ELSE calls[r]
      BY <1>5
    <2>2. (\E i \in DOMAIN callbacks : callbacks[i] = r)
            <=> r = callbacks[1] \/ \E i \in DOMAIN callbacks' : callbacks'[i] = r
      <3>1. \A i \in DOMAIN callbacks : i = 1 \/ (i - 1 \in DOMAIN callbacks' /\ callbacks'[i - 1] = callbacks[i])
        BY <1>2, <1>3
      <3> QED
        BY <1>4, <3>1
    <2>3. UNCHANGED <<work, issued>>
      BY <1>1 DEF requests
    <2> QED
      BY <2>1, <2>2, <2>3 DEF NetInv, IssuedOK, Accounted
  <1>7. NetTypeOK'
    <2>1. calls' \in [Tokens -> Nat] /\ processed' \in 0..(CallbacksPerPump + 1)
      BY <1>1, <1>5, NetAssumption DEF NetInv, NetTypeOK
    <2> QED
      BY <1>1, <1>2, <2>1 DEF NetInv, NetTypeOK, threads, requests, sockets
  <1> QED
    BY <1>1, <1>6, <1>7, <1>8 DEF NetInv, TokensOK, OwnAnswer, PeerIsOwn, Waiting, threads, requests, sockets

LEMMA DrainEndsKeeps ==
  ASSUME NetInv, DrainEnds
  PROVE  NetInv'
  BY NetAssumption
  DEF DrainEnds, NetInv, NetTypeOK, TokensOK, CallbacksOK, IssuedOK, Accounted, OwnAnswer, PeerIsOwn, Waiting,
      threads, requests, sockets, netHistory

\* A thread the pump wakes waits for the very request it is woken for.
LEMMA WokenWaits ==
  ASSUME NetInv, NEW w \in work, w.sync,
         NEW result \in Probe(w), result # "none",
         ~(~WaiterIsValid(w) /\ (w.kind = "dns" => w.result # "none"))
  PROVE  state[w.thread] = "waits" /\ token[w.thread] = w.token /\ w.thread \in Threads
  <1>1. w \in Work
    BY DEF NetInv, NetTypeOK
  <1>2. w.kind = "dns" => result = w.result
    BY DEF Probe
  <1>3. WaiterIsValid(w)
    BY <1>2
  <1> QED
    BY <1>1, <1>3 DEF WaiterIsValid, Work, NetInv, TokensOK

\* A connect is taken for a success only while its socket is the one it was for.
LEMMA SuccessIsCurrent ==
  ASSUME NEW w \in work, w.kind = "connect", "ok" \in Probe(w)
  PROVE  SocketIdentityIsCurrent(w)
  <1>1. "ok" \in ProbeConnect(w)
    BY DEF Probe
  <1> QED
    BY <1>1 DEF ProbeConnect

\* Callbacks of requests that leave the list are queued behind the others.
LEMMA QueueingKeeps ==
  ASSUME NetInv, NEW answered \in SUBSET work, \A w \in answered : ~w.sync,
         NEW order \in Seq({w.token : w \in answered}),
         \A i, j \in DOMAIN order : order[i] = order[j] => i = j,
         \A w \in answered : \E i \in DOMAIN order : order[i] = w.token,
         callbacks' = callbacks \o order, work' \subseteq work \ answered,
         \A w \in work \ answered : ~w.sync => w \in work',
         UNCHANGED <<nextToken, issued, calls>>
  PROVE  CallbacksOK' /\ IssuedOK' /\ callbacks' \in Seq(Tokens)
  <1>1. {w.token : w \in answered} \subseteq Tokens
    BY DEF NetInv, NetTypeOK, Work
  <1>2. order \in Seq(Tokens) /\ callbacks \in Seq(Tokens)
    BY <1>1, SeqMonotonic DEF NetInv, NetTypeOK
  <1> DEFINE n == Len(callbacks)
  <1>3. /\ callbacks' \in Seq(Tokens) /\ n \in Nat /\ Len(order) \in Nat
        /\ DOMAIN callbacks = 1..n /\ DOMAIN order = 1..Len(order)
        /\ DOMAIN callbacks' = 1..(n + Len(order))
        /\ \A i \in 1..(n + Len(order)) :
             callbacks'[i] = IF i <= n THEN callbacks[i] ELSE order[i - n]
    <2>1. /\ callbacks \o order \in Seq(Tokens)
          /\ Len(callbacks \o order) = n + Len(order)
          /\ \A i \in 1..(n + Len(order)) :
               (callbacks \o order)[i] = IF i <= n THEN callbacks[i] ELSE order[i - n]
      BY <1>2, ConcatProperties
    <2> QED
      BY <1>2, <2>1, LenProperties
  <1>4. \A i \in DOMAIN order : \E w \in answered : order[i] = w.token
    <2>1. order \in [1..Len(order) -> {w.token : w \in answered}]
      BY LenProperties
    <2> QED
      BY <1>3, <2>1
  <1>5. \A i \in DOMAIN callbacks' :
          \/ i \in DOMAIN callbacks /\ callbacks'[i] = callbacks[i]
          \/ i > n /\ i - n \in DOMAIN order /\ callbacks'[i] = order[i - n]
    BY <1>3
  <1>6. \A i \in DOMAIN order :
          /\ order[i] < nextToken /\ calls[order[i]] = 0
          /\ \A j \in DOMAIN callbacks : callbacks[j] # order[i]
          /\ \A w \in work' : ~w.sync => order[i] # w.token
    <2> TAKE i \in DOMAIN order
    <2>1. PICK w \in answered : order[i] = w.token
      BY <1>4
    <2>2. w \in work /\ ~w.sync
      OBVIOUS
    <2>3. /\ w.token < nextToken /\ calls[w.token] = 0
          /\ \A j \in DOMAIN callbacks : callbacks[j] # w.token
          /\ \A v \in work : w.token = v.token => w = v
      BY <2>2 DEF NetInv, TokensOK, CallbacksOK
    <2>4. \A v \in work' : v \in work /\ v # w
      OBVIOUS
    <2> QED
      BY <2>1, <2>3, <2>4
  <1>7. \A i, j \in DOMAIN callbacks' : callbacks'[i] = callbacks'[j] => i = j
    BY <1>3, <1>5, <1>6 DEF NetInv, CallbacksOK
  <1>8. \A i \in DOMAIN callbacks' :
          /\ callbacks'[i] < nextToken /\ calls[callbacks'[i]] = 0
          /\ \A w \in work' : ~w.sync => callbacks'[i] # w.token
    BY <1>5, <1>6 DEF NetInv, CallbacksOK
  <1>9. IssuedOK'
    <2> SUFFICES ASSUME NEW r \in Tokens
                 PROVE  r \in issued <=> Accounted(r)'
      BY DEF IssuedOK
    <2>1. /\ \A i \in DOMAIN callbacks : i \in DOMAIN callbacks' /\ callbacks'[i] = callbacks[i]
          /\ \A i \in DOMAIN order : n + i \in DOMAIN callbacks' /\ callbacks'[n + i] = order[i]
      BY <1>3
    <2>2. (\E i \in DOMAIN callbacks' : callbacks'[i] = r)
            <=> \/ \E i \in DOMAIN callbacks : callbacks[i] = r
                \/ \E w \in answered : w.token = r
      <3>1. ASSUME NEW i \in DOMAIN callbacks', callbacks'[i] = r
            PROVE  \/ \E j \in DOMAIN callbacks : callbacks[j] = r
                   \/ \E w \in answered : w.token = r
        <4>1. \/ i \in DOMAIN callbacks /\ callbacks[i] = r
              \/ i - n \in DOMAIN order /\ order[i - n] = r
          BY <1>5, <3>1
        <4>2. \A j \in DOMAIN order : order[j] = r => \E w \in answered : w.token = r
          BY <1>4
        <4> QED
          BY <4>1, <4>2
      <3>2. ASSUME NEW w \in answered, w.token = r
            PROVE  \E i \in DOMAIN callbacks' : callbacks'[i] = r
        <4>1. PICK i \in DOMAIN order : order[i] = r
          BY <3>2
        <4> QED
          BY <2>1, <4>1
      <3>3. ASSUME NEW i \in DOMAIN callbacks, callbacks[i] = r
            PROVE  \E j \in DOMAIN callbacks' : callbacks'[j] = r
        BY <2>1, <3>3
      <3> QED
        BY <3>1, <3>2, <3>3
    <2>3. (\E w \in work : w.token = r /\ ~w.sync)
            <=> (\E w \in work' : w.token = r /\ ~w.sync) \/ (\E w \in answered : w.token = r)
      OBVIOUS
    <2> QED
      BY <2>2, <2>3 DEF NetInv, IssuedOK, Accounted
  <1> QED
    BY <1>3, <1>7, <1>8, <1>9 DEF NetInv, CallbacksOK

LEMMA NetPumpKeeps ==
  ASSUME NetInv, ProcessCompletions
  PROVE  NetInv'
  <1>1. PICK reply \in [work -> {"none", "ok", "error"}] :
      LET dropped == {w \in work : /\ w.sync /\ ~WaiterIsValid(w)
                                   /\ w.kind = "dns" => w.result # "none"}
          answered == {w \in work \ dropped : reply[w] # "none"}
          woken == {w.thread : w \in {w \in answered : w.sync}}
          queued == {w.token : w \in {w \in answered : ~w.sync}}
          connected(s) == {w \in answered : w.kind = "connect" /\ w.socket = s /\ reply[w] = "ok"}
      IN  /\ \A w \in work : reply[w] \in Probe(w)
          /\ answered \cup dropped # {}
          /\ work' = Remaining(answered, dropped)
          /\ syncResults' = syncResults \cup {w.token : w \in {w \in answered : w.sync}}
          /\ state' = [t \in Threads |-> IF t \in woken THEN "ready" ELSE state[t]]
          /\ \E order \in [1..Cardinality(queued) -> queued] :
               /\ queued = {order[i] : i \in DOMAIN order}
               /\ callbacks' = callbacks \o order
          /\ peer' = [s \in Sockets |->
                        IF connected(s) = {} THEN peer[s]
                        ELSE (CHOOSE w \in connected(s) : TRUE).generation]
    BY DEF ProcessCompletions
  <1> DEFINE dropped == {w \in work : /\ w.sync /\ ~WaiterIsValid(w)
                                      /\ w.kind = "dns" => w.result # "none"}
             answered == {w \in work \ dropped : reply[w] # "none"}
             waiters == {w \in answered : w.sync}
             callers == {w \in answered : ~w.sync}
             woken == {w.thread : w \in waiters}
             queued == {w.token : w \in callers}
             connected(s) == {w \in answered : w.kind = "connect" /\ w.socket = s /\ reply[w] = "ok"}
  <1>2. /\ \A w \in work : reply[w] \in Probe(w)
        /\ work' = work \ (answered \cup dropped)
        /\ syncResults' = syncResults \cup {w.token : w \in waiters}
        /\ state' = [t \in Threads |-> IF t \in woken THEN "ready" ELSE state[t]]
        /\ \E order \in [1..Cardinality(queued) -> queued] :
             /\ queued = {order[i] : i \in DOMAIN order}
             /\ callbacks' = callbacks \o order
        /\ peer' = [s \in Sockets |->
                      IF connected(s) = {} THEN peer[s]
                      ELSE (CHOOSE w \in connected(s) : TRUE).generation]
    BY <1>1 DEF Remaining
  <1>3. UNCHANGED <<token, cookie, nextToken, generation, nextGeneration, processed, issued, calls>>
    BY DEF ProcessCompletions, netHistory
  <1>4. work \subseteq Work
    BY DEF NetInv, NetTypeOK
  <1>5. \A w \in waiters : state[w.thread] = "waits" /\ token[w.thread] = w.token /\ w.thread \in Threads
    BY <1>2, WokenWaits
  <1>6. \A t \in woken : \E w \in waiters : t = w.thread
    OBVIOUS
  <1>7. OwnAnswer'
    <2>1. ASSUME NEW t \in Threads, state'[t] = "ready" PROVE token[t] \in syncResults'
      <3>1. CASE t \in woken
        BY <1>2, <1>5, <1>6, <3>1
      <3>2. CASE t \notin woken
        BY <1>2, <2>1, <3>2 DEF NetInv, OwnAnswer
      <3> QED
        BY <3>1, <3>2
    <2> QED
      BY <1>3, <2>1 DEF OwnAnswer
  <1>8. TokensOK'
    <2>1. \A t \in Threads : Waiting(t)' => Waiting(t)
      BY <1>2, <1>5, <1>6 DEF Waiting
    <2>2. \A t \in Threads : state'[t] = "waits" => state[t] = "waits"
      BY <1>2
    <2>3. work' \subseteq work
      BY <1>2
    <2> HIDE DEF dropped, answered, waiters, callers, woken, queued, connected
    <2> QED
      BY <1>3, <2>1, <2>2, <2>3 DEF NetInv, TokensOK
  <1>9. PICK order \in [1..Cardinality(queued) -> queued] :
             queued = {order[i] : i \in DOMAIN order} /\ callbacks' = callbacks \o order
    BY <1>2
  <1>10. CallbacksOK' /\ IssuedOK' /\ callbacks' \in Seq(Tokens)
    <2>1. queued \subseteq Tokens
      BY <1>4 DEF Work
    <2>2. IsFiniteSet(queued)
      <3> HIDE DEF queued
      <3>1. 1 \in Int /\ MaxRequests \in Int
        BY NetAssumption
      <3>2. IsFiniteSet(Tokens)
        BY <3>1, FS_Interval DEF Tokens
      <3> QED
        BY <2>1, <3>2, FS_Subset
    <2>3. /\ callers \in SUBSET work /\ (\A w \in callers : ~w.sync) /\ work' \subseteq work \ callers
          /\ \A w \in work \ callers : ~w.sync => w \in work'
      BY <1>2
    <2>4. queued = {w.token : w \in callers}
      OBVIOUS
    <2> HIDE DEF dropped, answered, waiters, callers, woken, queued, connected
    <2>5. order \in Seq(queued) /\ \A i, j \in DOMAIN order : order[i] = order[j] => i = j
      BY <1>9, <2>2, DistinctOrder
    <2>6. \A w \in callers : \E i \in DOMAIN order : order[i] = w.token
      BY <1>9, <2>4
    <2> QED
      BY <1>3, <1>9, <2>3, <2>4, <2>5, <2>6, QueueingKeeps
  <1>11. /\ PeerIsOwn' /\ peer' \in [Sockets -> Generations]
    <2>1. \A s \in Sockets : \A w \in connected(s) : w.generation = generation[s]
      BY <1>2, SuccessIsCurrent DEF SocketIdentityIsCurrent
    <2>2. \A s \in Sockets : peer'[s] \in {peer[s], generation[s]}
      <3> TAKE s \in Sockets
      <3>1. CASE connected(s) = {}
        BY <1>2, <3>1
      <3>2. CASE connected(s) # {}
        <4>1. (CHOOSE w \in connected(s) : TRUE) \in connected(s)
          BY <3>2
        <4> HIDE DEF connected
        <4> QED
          BY <1>2, <2>1, <3>2, <4>1
      <3> QED
        BY <3>1, <3>2
    <2>3. DOMAIN peer' = Sockets /\ peer' = [s \in Sockets |-> peer'[s]]
      BY <1>2
    <2> HIDE DEF dropped, answered, waiters, callers, woken, queued, connected
    <2> QED
      BY <1>3, <2>2, <2>3 DEF NetInv, NetTypeOK, PeerIsOwn
  <1>12. NetTypeOK'
    <2>1. state' \in [Threads -> {"runs", "waits", "ready", "sleeps"}]
      BY <1>2 DEF NetInv, NetTypeOK
    <2>2. work' \subseteq Work /\ syncResults' \subseteq Tokens
      BY <1>2, <1>4 DEF NetInv, NetTypeOK, Work
    <2> QED
      BY <1>3, <1>10, <1>11, <2>1, <2>2 DEF NetInv, NetTypeOK
  <1> QED
    BY <1>7, <1>8, <1>10, <1>11, <1>12 DEF NetInv

LEMMA NetStep ==
  ASSUME NetInv, [NetNext]_dvars
  PROVE  NetInv'
  <1>1. CASE UNCHANGED dvars
    BY <1>1 DEF dvars, threads, requests, sockets, callbackQueue, netHistory, NetInv, NetTypeOK, TokensOK,
       CallbacksOK, IssuedOK, Accounted, OwnAnswer, PeerIsOwn, Waiting
  <1> QED
    BY <1>1, StartSyncKeeps, StartAsyncKeeps, WaitKeeps, OpenSocketKeeps, CloseSocketKeeps,
       ElapseKeeps, NetPumpKeeps, RunCallbackKeeps, DrainEndsKeeps
    DEF NetNext, Pump

\* The requests, sockets and callbacks stay in their types, tokens are handed out
\* once, and the three properties below are kept together.
THEOREM NetInvariant == NetSpec => []NetInv
  BY NetInitKeeps, NetStep, PTL DEF NetSpec

\* DeferredNetworkWaiterIsValid: a thread that finds itself woken has a result
\* under its own token, whoever used its structure and its stack before.
THEOREM WokenByOwnAnswer == NetSpec => []OwnAnswer
  <1>1. NetInv => OwnAnswer
    BY DEF NetInv
  <1> QED
    BY <1>1, NetInvariant, PTL

\* ProbeDeferredConnect: the peer of a socket is the one that socket connected to.
THEOREM PeersAreOwn == NetSpec => []PeerIsOwn
  <1>1. NetInv => PeerIsOwn
    BY DEF NetInv
  <1> QED
    BY <1>1, NetInvariant, PTL

LEMMA AtMostOne ==
  ASSUME NEW S, \A x, y \in S : x = y
  PROVE  Cardinality(S) \in {0, 1} /\ (Cardinality(S) = 0 <=> S = {})
  <1>1. CASE S = {}
    BY <1>1, FS_EmptySet
  <1>2. CASE S # {}
    <2>1. PICK x \in S : S = {x}
      BY <1>2
    <2>2. Cardinality({x}) = 1
      BY FS_Singleton, Zenon
    <2>3. Cardinality(S) = 1
      BY <2>1, <2>2
    <2> QED
      BY <1>2, <2>3
  <1> QED
    BY <1>1, <1>2

\* TryDeferredNetworkAsync, Network_HLE_ProcessCompletions and
\* NandProcessPendingCallbacks: a request with a callback is under way, queued or
\* done, just one of these, from the moment it is made.
THEOREM CallbacksRunOnce == NetSpec => []CallsBackOnce
  <1>1. NetInv => CallsBackOnce
    <2>5. SUFFICES ASSUME NetInv, NEW r \in Tokens
                   PROVE  UnderWay(r) + Queued(r) + calls[r] = IF r \in issued THEN 1 ELSE 0
      BY DEF CallsBackOnce
    <2> DEFINE W == {w \in work : w.token = r /\ ~w.sync}
               Q == {i \in DOMAIN callbacks : callbacks[i] = r}
    <2>1. (\A x, y \in W : x = y) /\ (\A x, y \in Q : x = y)
      BY <2>5 DEF NetInv, TokensOK, CallbacksOK
    <2>2. /\ W # {} => Q = {} /\ calls[r] = 0
          /\ Q # {} => calls[r] = 0
          /\ calls[r] \in {0, 1}
      BY <2>5 DEF NetInv, CallbacksOK
    <2>6. r \in issued <=> W # {} \/ Q # {} \/ calls[r] = 1
      BY <2>5 DEF NetInv, IssuedOK, Accounted
    <2>3. UnderWay(r) = Cardinality(W) /\ Queued(r) = Cardinality(Q)
      BY DEF UnderWay, Queued
    <2> HIDE DEF W, Q
    <2>4. /\ Cardinality(W) \in {0, 1} /\ (Cardinality(W) = 0 <=> W = {})
          /\ Cardinality(Q) \in {0, 1} /\ (Cardinality(Q) = 0 <=> Q = {})
      BY <2>1, AtMostOne
    <2> QED
      BY <2>2, <2>3, <2>4, <2>6
  <1> QED
    BY <1>1, NetInvariant, PTL

-----------------------------------------------------------------------------
(* The services together.                                                  *)

ServicesInv == SoundTypeInv /\ NandInv /\ NetInv /\ PumpInv /\ DownloadInv

LEMMA ServicesStep ==
  ServicesInv /\ [ServicesNext]_<<focus, vars, svars, nvars, dvars, pumpVars, downloadVars>>
    => ServicesInv'
<1>1. [ServicesNext]_<<focus, vars, svars, nvars, dvars, pumpVars, downloadVars>> =>
        /\ [SoundStep]_svars /\ [NandNext]_nvars /\ [NetNext]_dvars
        /\ [AlarmNext]_pumpVars /\ [DownloadNext]_downloadVars
  BY Zenon DEF ServicesNext
<1> QED
  BY <1>1, SoundTypesStay, NandStep, NetStep, PumpStepKeeps, DownloadStepKeeps, Zenon DEF ServicesInv

\* Whichever service moves, the places, flags, counts and lists of all of them
\* keep their ranges (SoundThreadMain, CommitSafeTemp, ProcessNetworkCallbacks,
\* ProcessAlarmQueue, Job::Run).
THEOREM ServicesStayTyped == ServicesSpec => []ServicesTypeOK
<1>1. ServicesInit => ServicesInv
  BY SoundTypesInitial, InitKeeps, NetInitKeeps, PumpStart, DownloadInitKeeps, Zenon
  DEF ServicesInit, ServicesInv
<1>2. ServicesInv => ServicesTypeOK
  BY SoundIsTyped, PumpIsTyped, DownloadIsTyped, Zenon DEF ServicesInv, ServicesTypeOK, NandInv, NetInv
<1> QED
  BY <1>1, <1>2, ServicesStep, PTL DEF ServicesSpec
=============================================================================
