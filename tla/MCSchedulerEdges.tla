-------------------------- MODULE MCSchedulerEdges --------------------------
(* Instances of SchedulerEdges for TLC.                                    *)
EXTENDS SchedulerEdges

CONSTANTS main, a, b

(* main and a share the middle priority, b is stronger than both.          *)
MCBasePrio == [t \in Threads |-> IF t = b THEN 0 ELSE 1]
=============================================================================
