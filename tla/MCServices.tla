----------------------------- MODULE MCServices -----------------------------
(***************************************************************************)
(* The services around the scheduler, for TLC: the message queue, the      *)
(* sound thread, a NAND file, the deferred network requests, the pump of   *)
(* alarms, callbacks and retraces, and the download of a pack.  Their      *)
(* models share no variable, so one at a time moves (`focus') and all      *)
(* behaviours of each are checked.                                         *)
(***************************************************************************)
EXTENDS MessageQueue, SoundCore, NandStorage, DeferredNetwork, AlarmPump,
        RetroRewindDownload

VARIABLE focus

Services == {"queue", "sound", "nand", "net", "pump", "download"}

\* The services that do not move start in one state.
ServicesInit ==
  /\ focus \in Services
  /\ Init /\ SoundInit /\ NandInit /\ NetInit /\ PumpInit /\ DownloadInit
  /\ focus # "queue" => LET m == CHOOSE m \in Messages : TRUE
                        IN  array = [s \in Slots |-> m] /\ got = [t \in Users |-> m]
  /\ focus # "nand" => platform = (CHOOSE p \in Platforms : TRUE) /\ file = NoFile
  /\ focus # "pump" => exec = (CHOOSE f \in Fibers : TRUE)
  /\ focus # "download" => ~disk.target.there

ServicesNext ==
  /\ UNCHANGED focus
  /\ \/ focus = "queue" /\ Next /\ UNCHANGED <<svars, nvars, dvars, pumpVars, downloadVars>>
     \/ focus = "sound" /\ SoundStep /\ UNCHANGED <<vars, nvars, dvars, pumpVars, downloadVars>>
     \/ focus = "nand" /\ NandNext /\ UNCHANGED <<vars, svars, dvars, pumpVars, downloadVars>>
     \/ focus = "net" /\ NetNext /\ UNCHANGED <<vars, svars, nvars, pumpVars, downloadVars>>
     \/ focus = "pump" /\ AlarmNext /\ UNCHANGED <<vars, svars, nvars, dvars, downloadVars>>
     \/ focus = "download" /\ DownloadNext /\ UNCHANGED <<vars, svars, nvars, dvars, pumpVars>>

\* SoundFairness, NetFairness and PumpFairness.
ServicesFairness ==
  /\ WF_svars(focus = "sound" /\ SoundNext)
  /\ WF_svars(focus = "sound" /\ MainWaits)
  /\ SF_svars(focus = "sound" /\ UNCHANGED soundSide /\ ParkIfAsked)
  /\ WF_dvars(focus = "net" /\ Pump)
  /\ WF_dvars(focus = "net" /\ Elapse)
  /\ WF_pumpVars(focus = "pump" /\ PumpStep)
  /\ SF_pumpVars(focus = "pump" /\ ThreadBlocks)

ServicesSpec ==
  ServicesInit /\ [][ServicesNext]_<<focus, vars, svars, nvars, dvars, pumpVars, downloadVars>> /\ ServicesFairness

\* The handles, files, flags, places and counts of the services stay in their
\* types: the queue of block messages within its capacity, the count of callbacks
\* of a drain within its limit, every list free of foreign entries.
ServicesTypeOK == SoundTypeOK /\ NandTypeOK /\ NetTypeOK /\ PumpTypeOK
                    /\ DownloadTypeOK
=============================================================================
