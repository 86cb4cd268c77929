-------------------------- MODULE MCGuestScheduler --------------------------
(* Instances of GuestScheduler, with its inductive invariant, for TLC.     *)
EXTENDS SchedulerInvariant

CONSTANTS main, a, b

(* main and a share the middle priority, b is stronger than both.          *)
MCBasePrio == [t \in Threads |-> IF t = b THEN 0 ELSE 1]
MCPrioBelow == [t \in Threads |-> IF t = b THEN 0 ELSE IF t = main THEN 1 ELSE 2]
=============================================================================
