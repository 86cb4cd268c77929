------------------------ MODULE RetroRewindDownload ------------------------
(***************************************************************************)
(* The download of the Retro Rewind pack (Job::Run of                      *)
(* retro_rewind_download.cpp).  The full archive is unpacked into a        *)
(* directory beside the pack, which takes the pack's place at the end; a   *)
(* pack that is only behind gets the update archives unpacked over it.  A  *)
(* state file in the directory worked in lets the next run go on where     *)
(* the last one stopped, or was killed.                                    *)
(*                                                                         *)
(* A pack is its Code.pul, its version.txt and one file ("course") for     *)
(* all the others; a file is the release it came with, or Bad when it is   *)
(* missing or cut short.  Removing a file or a directory does not fail,    *)
(* and is one step.                                                        *)
(***************************************************************************)
EXTENDS Naturals, Sequences, SequencesExt

CONSTANTS
  CodePlace,       \* where in an archive Code.pul stands, 1 for first
  InstalledPacks,  \* the releases that may be installed before the first run
  MaxFailures      \* kMaxFailuresInARow


VARIABLES disk, job
downloadVars == <<disk, job>>

Latest == "6.13.4"
Bad == "bad"
Releases == {"6.13.0", "6.13.1", "6.13.2", "6.13.3", Latest, Bad}

ASSUME DownloadAssumption ==
  /\ {CodePlace, MaxFailures} \subseteq Nat \ {0}
  /\ InstalledPacks \subseteq Releases \ {Bad}

PackFiles == {"code", "version", "course"}
Archives == {"full", "6.13.3.zip", "6.13.4.zip"}
Updates == << "6.13.3.zip", "6.13.4.zip" >>
UpdateFrom == << [code |-> "6.13.1", versions |-> {"6.13.1"}],
                 [code |-> "6.13.3", versions |-> Releases] >>

\* What the archives hold: their version.txt lags behind.
Unpacked ==
  [a \in Archives |->
     CASE a = "full" -> [course |-> "6.13.3", version |-> "6.13.3", code |-> Latest]
       [] a = "6.13.3.zip" -> [course |-> "6.13.3", version |-> "6.13.2", code |-> "6.13.3"]
       [] OTHER -> [version |-> "6.13.3", code |-> Latest]]

Entries(a) ==
  LET others == IF a = "6.13.4.zip" THEN << "version" >> ELSE << "course", "version" >>
  IN  InsertAt(others, IF CodePlace > Len(others) THEN Len(others) + 1 ELSE CodePlace, "code")

\* The state file: an archive and the entry to go on with; there may be none,
\* or one that was cut short and cannot be read.
NoState == [archive |-> "none", next |-> 1]
CutState == [archive |-> "cut", next |-> 1]
States == [archive : Archives, next : 1..4] \cup {NoState, CutState}

Dir(files) == [there |-> TRUE, has |-> files, state |-> NoState]
Empty == Dir([f \in PackFiles |-> Bad])
NoDir == [Empty EXCEPT !.there = FALSE]

\* 6.13.0 and 6.13.1 share their Code.pul.
Pack(r) ==
  Dir([code |-> IF r = "6.13.0" THEN "6.13.1" ELSE r, version |-> r,
       course |-> IF r \in {"6.13.0", "6.13.1"} THEN r ELSE "6.13.3"])

NoRun == [at |-> "idle", stages |-> <<>>, work |-> "partial", index |-> 1,
         failures |-> 0, saved |-> NoState, result |-> "none"]

DownloadInit ==
  /\ disk \in [target : {NoDir} \cup {Pack(r) : r \in InstalledPacks},
               partial : {NoDir}, old : {NoDir}]
  /\ job = NoRun

At(place) == job' = [job EXCEPT !.at = place]
Ends(result) == job' = [NoRun EXCEPT !.result = result]

WorkDir == disk[job.work]
Archive == Head(job.stages)

\* saveState does not look at the outcome: nothing, or half of it, may be written.
StateFiles(next) == {[archive |-> Archive, next |-> next], CutState, WorkDir.state}

----------------------------------------------------------------------------
(* A run begins. *)

\* Mutant: an older pack gets only the newest update.
UpdatesFor_NewestOnly(pack) ==
  IF pack.has.code \in {UpdateFrom[i].code : i \in DOMAIN UpdateFrom} \cup {Latest}
  THEN << Last(Updates) >> ELSE <<>>

\* The updates after a pack's own game code; none, when it is not one of those.
UpdatesFor(pack) ==
  IF pack.has.code = Latest
  THEN IF pack.has.version # Latest \/ pack.state # NoState
       THEN << Last(Updates) >> ELSE <<>>
  ELSE LET fits == {i \in DOMAIN Updates : /\ pack.has.code = UpdateFrom[i].code
                                           /\ pack.has.version \in UpdateFrom[i].versions}
       IN  IF fits = {} THEN <<>> ELSE SubSeq(Updates, Min(fits), Len(Updates))

Stages ==
  IF disk.partial.there \/ UpdatesFor(disk.target) = <<>>
  THEN << "full" >> ELSE UpdatesFor(disk.target)

\* An interrupted run continues in the archive it was in.
StagesLeft(stages, saved) ==
  LET later == {i \in 2..Len(stages) : stages[i] = saved.archive}
  IN  IF later = {} THEN stages ELSE SubSeq(stages, Min(later), Len(stages))

StartRun ==
  /\ job.at = "idle"
  /\ LET work == IF Stages = << "full" >> THEN "partial" ELSE "target"
         saved == disk[work].state
     IN  job' = [NoRun EXCEPT !.at = "table", !.work = work, !.saved = saved,
                             !.stages = StagesLeft(Stages, saved)]
  /\ UNCHANGED disk

----------------------------------------------------------------------------
(* The archives, one after the other. *)

\* Mutant: the state of another archive counts.
FirstEntry_AnyArchive == IF job.saved.next <= Len(Entries(Archive)) THEN job.saved.next ELSE 1

FirstEntry == IF job.saved.archive = Archive THEN job.saved.next ELSE 1

StartsClean == Archive = "full" /\ FirstEntry = 1

\* No server, a table that changed, a cancellation, a directory that cannot be made.
TableFails ==
  /\ job.at = "table"
  /\ Ends("error")
  /\ \/ UNCHANGED disk
     \/ StartsClean /\ disk' = [disk EXCEPT !.partial = NoDir]

OpenArchive ==
  /\ job.at = "table"
  /\ job' = [job EXCEPT !.at = "stream", !.index = FirstEntry, !.failures = 0,
                         !.saved = NoState]
  /\ disk' = IF StartsClean THEN [disk EXCEPT !.partial = Empty] ELSE disk

Streaming == job.at = "stream" /\ job.index <= Len(Entries(Archive))
Entry == Entries(Archive)[job.index]

\* The state is saved every few megabytes.
UnpackEntry ==
  /\ Streaming
  /\ \E state \in StateFiles(job.index + 1) :
       disk' = [disk EXCEPT ![job.work].has[Entry] = Unpacked[Archive][Entry],
                            ![job.work].state = state]
  /\ job' = [job EXCEPT !.index = @ + 1, !.failures = 0]

\* Mutant: the entry that failed counts as done.
EntryFails_SavesNext ==
  /\ Streaming
  /\ \E state \in StateFiles(job.index + 1) :
       disk' = [disk EXCEPT ![job.work].has[Entry] = Bad, ![job.work].state = state]
  /\ Ends("error")

\* A file that was begun is removed.  The run gives up when the card is full,
\* the archive changed, it is cancelled, or the connection keeps dropping.
EntryFails ==
  /\ Streaming
  /\ \E now \in {WorkDir.has[Entry], Bad}, state \in StateFiles(job.index) :
       disk' = [disk EXCEPT ![job.work].has[Entry] = now, ![job.work].state = state]
  /\ \/ Ends("error")
     \/ /\ job.failures + 1 < MaxFailures
        /\ job' = [job EXCEPT !.failures = @ + 1]

EndArchive ==
  /\ job.at = "stream" /\ ~Streaming
  /\ \E state \in StateFiles(job.index) : disk' = [disk EXCEPT ![job.work].state = state]
  /\ IF Len(job.stages) = 1
     THEN At("check")
     ELSE job' = [job EXCEPT !.at = "table", !.stages = Tail(@)]

----------------------------------------------------------------------------
(* The pack goes live. *)

HasPinnedCode(pack) == pack.has.code = Latest

CheckCode ==
  /\ job.at = "check"
  /\ IF HasPinnedCode(WorkDir)
     THEN At("stamp") /\ disk' = [disk EXCEPT ![job.work].state = NoState]
     ELSE Ends("error") /\ UNCHANGED disk

StampVersion ==
  /\ job.at = "stamp"
  /\ \E v \in {Latest, WorkDir.has.version} : disk' = [disk EXCEPT ![job.work].has.version = v]
  /\ IF job.work = "target" THEN Ends("ok") ELSE At("clear")

ClearOld ==
  /\ job.at = "clear"
  /\ disk' = [disk EXCEPT !.old = NoDir]
  /\ At("aside")

StepAside ==
  /\ job.at = "aside"
  /\ \/ ~disk.target.there /\ At("live") /\ UNCHANGED disk
     \/ /\ disk.target.there /\ At("live")
        /\ disk' = [disk EXCEPT !.old = disk.target, !.target = NoDir]
     \/ disk.target.there /\ Ends("error") /\ UNCHANGED disk

\* When the rename fails the old pack is put back, if that rename does not fail.
GoLive ==
  /\ job.at = "live"
  /\ \/ At("tidy") /\ disk' = [disk EXCEPT !.target = disk.partial, !.partial = NoDir]
     \/ Ends("error") /\ UNCHANGED disk
     \/ /\ disk.old.there /\ Ends("error")
        /\ disk' = [disk EXCEPT !.target = disk.old, !.old = NoDir]

Tidy ==
  /\ job.at = "tidy"
  /\ disk' = [disk EXCEPT !.old = NoDir]
  /\ Ends("ok")

\* The program is killed, or the console switched off, with a file half written.
Killed ==
  /\ job.at # "idle"
  /\ Ends("none")
  /\ \/ UNCHANGED disk
     \/ Streaming /\ disk' = [disk EXCEPT ![job.work].has[Entry] = Bad]
     \/ job.at = "stream" /\ disk' = [disk EXCEPT ![job.work].state = CutState]
     \/ job.at = "stamp" /\ disk' = [disk EXCEPT ![job.work].has.version = Bad]

DownloadNext ==
  \/ StartRun \/ TableFails \/ OpenArchive \/ UnpackEntry \/ EntryFails \/ EndArchive
  \/ CheckCode \/ StampVersion \/ ClearOld \/ StepAside \/ GoLive \/ Tidy
  \/ Killed

DownloadSpec == DownloadInit /\ [][DownloadNext]_downloadVars

----------------------------------------------------------------------------
DownloadTypeOK ==
  /\ disk \in [{"target", "partial", "old"} ->
                 [there : BOOLEAN, has : [PackFiles -> Releases], state : States]]
  /\ job.at \in {"idle", "table", "stream", "check", "stamp", "clear", "aside", "live", "tidy"}
  /\ job.index \in 1..4 /\ job.failures < MaxFailures

Whole(pack) ==
  /\ pack.there /\ pack.has.code = Latest
  /\ pack.has.course = Unpacked.full.course

\* A run that reports success leaves a whole pack of the latest release, however
\* often it, and the runs before it, failed or were killed on the way.
FinishedIsWhole == job.result = "ok" => Whole(disk.target)

\* The entries a run does not unpack, because an earlier run did, are all there.
SkippedIsThere ==
  job.at = "stream" =>
    \A i \in 1..job.index - 1 :
      LET f == Entries(Archive)[i] IN WorkDir.has[f] = Unpacked[Archive][f]

\* A full download lets the installed pack, and the copy that steps aside, be
\* until the new one is whole.
OldPackStays ==
  [][ \A d \in {"target", "old"} :
        job.work = "partial" /\ disk'[d] # disk[d] =>
          Whole(disk.partial) \/ Whole(disk.target) ]_disk
=============================================================================
