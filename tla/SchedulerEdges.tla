--------------------------- MODULE SchedulerEdges ---------------------------
(***************************************************************************)
(* A way into the scheduler that bypasses its own calls: the entry         *)
(* function of a guest thread returns, and GuestFiberManager::FiberProc    *)
(* finishes the thread on its own.                                         *)
(***************************************************************************)
EXTENDS GuestScheduler

(* WakeGuestThreadsOnQueueNoSwitch, one thread: as WakeHead, except that a *)
(* suspended thread loses its queue pointer.                               *)
WakeHeadNoSwitch(k, q) ==
  LET t == Head(k.queue[q])
      w == WakeHead(k, q)
  IN  IF k.susp[t] >= 1 THEN [w EXCEPT !.qptr[t] = NULL] ELSE w

WakeAllNoSwitch(k, q) ==
  FoldLeft(LAMBDA acc, t : WakeHeadNoSwitch(acc, q), k, k.queue[q])

(* The entry function of a guest thread returns: the thread is finished,   *)
(* its joiners are woken, no thread is running any more, and control goes  *)
(* to the scheduler fiber, which is the fiber of the default thread.       *)
FiberReturns ==
  /\ stack[exec] = << >>
  /\ exec \notin Managers
  /\ LET gone == RemoveThreadFromQueue(os, exec)
         dead == [gone EXCEPT !.state[exec] = IF exec \in os.detached THEN "NONE" ELSE "MORIBUND"]
     IN  os' = [WakeAllNoSwitch(dead, exec) EXCEPT
                  !.running = IF @ = exec THEN NULL ELSE @,
                  !.current = IF @ = exec THEN NULL ELSE @,
                  !.resched = TRUE]
  /\ exec' = Main
  /\ UNCHANGED stack

ReturnSpec == Init /\ [][Next \/ FiberReturns]_vars
=============================================================================
