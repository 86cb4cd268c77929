---------------------------- MODULE NandStorage ----------------------------
(***************************************************************************)
(* One file of the NAND (runtime/src/hle/storage): its handles, the        *)
(* scratch copy a writer works on, and the close that publishes it.  The   *)
(* program may end, or the power fail, between any two host calls of a     *)
(* close; the other operations are one step, since all they leave behind   *)
(* is a scratch file, which the next open discards.                        *)
(*                                                                         *)
(* The host's file system is external: what a path holds now, and what it  *)
(* may hold after a loss of power.  Contents are two parts, each of an     *)
(* old or a new value.                                                     *)
(***************************************************************************)
CONSTANTS Clients,   \* NANDFileInfo structures and IOS descriptors of the guest
          Platforms  \* of the builds: "posix", "windows", "switch"

VARIABLES
  platform,
  file, temp,        \* what the file and its scratch file hold
  tempSynced,        \* the scratch file survives a loss of power as it is
  onDisk,            \* what the file may hold after a loss of power
  handle, flag,      \* of a client: g_fileHandles, NANDFileInfo::openFlag
  commit,            \* CommitAndCloseFd under way: its client, next call, old file
  answer, bare       \* history: see AtomicFile

fileSystem == <<file, temp, tempSynced, onDisk>>
history == <<answer, bare>>
nvars == <<platform, fileSystem, handle, flag, commit, history>>

Parts == {1, 2}
FileContents == [Parts -> {0, 1}]
Blank == [p \in Parts |-> 0]
NoFile == <<>>
Flags == {"none", "open", "safe", "ios"}
NoHandle == [at |-> "nowhere", writable |-> FALSE, shadow |-> FALSE]
Handles == [at : {"file", "temp", "gone"}, writable : BOOLEAN, shadow : BOOLEAN]
HostCalls == {"flushOnly", "flush", "remove", "rename", "syncDir", "discard"}
NoCommit == [by |-> "nobody", next |-> "none", kept |-> NoFile]

NandInit ==
  /\ platform \in Platforms
  /\ file \in {NoFile, Blank} /\ temp = NoFile /\ tempSynced = FALSE
  /\ onDisk = {file}
  /\ handle = [c \in Clients |-> NoHandle]
  /\ flag = [c \in Clients |-> "none"]
  /\ commit = NoCommit
  /\ answer = "none" /\ bare = FALSE

Live(c) == handle[c] # NoHandle
Idle == commit = NoCommit

\* What a loss of power may make of a file some pages of which were written back.
Torn(contents) == {x \in FileContents : \A p \in Parts : x[p] \in {0, contents[p]}}

\* ... of a file that is changed in place: nothing is promised.
Anything == FileContents \cup {NoFile}

\* The handles, with those on a path that is removed now on a nameless file.
Unlinked(path) ==
  [c \in Clients |-> IF handle[c].at = path THEN [handle[c] EXCEPT !.at = "gone"]
                     ELSE handle[c]]

-----------------------------------------------------------------------------
(* Opening.                                                                *)

\* AllocateFd, and the open flag of the guest's structure.
AllocateFd(c, table, at, writable, shadow, newFlag) ==
  /\ handle' = [table EXCEPT ![c] = [at |-> at, writable |-> writable, shadow |-> shadow]]
  /\ flag' = [flag EXCEPT ![c] = newFlag]

\* Mutant: a handle on the scratch file does not count.
IsHostPathOpen_NotShadows == \E c \in Clients : Live(c) /\ ~handle[c].shadow

\* IsHostPathOpen.  A handle counts under the path it was opened with, or the one
\* it commits to, whatever became of the file.
IsHostPathOpen == \E c \in Clients : Live(c)

\* DiscardStaleSafeTemp, the copy of the original and the open of the copy.
OpenShadow(c, newFlag) ==
  /\ file # NoFile
  /\ temp' = file /\ tempSynced' = FALSE
  /\ AllocateFd(c, Unlinked("temp"), "temp", TRUE, TRUE, newFlag)
  /\ UNCHANGED <<file, onDisk, history>>

\* One of those calls failed: a scratch file that could not be removed is there still.
ShadowFails ==
  /\ file # NoFile
  /\ temp' \in {temp, NoFile} /\ UNCHANGED <<tempSynced, file, onDisk>>

OpenForReading(c, newFlag) ==
  /\ file # NoFile
  /\ AllocateFd(c, handle, "file", FALSE, FALSE, newFlag)
  /\ UNCHANGED <<fileSystem, history>>

\* fopen of the file itself for writing.
OpenInPlace(c, newFlag) ==
  /\ AllocateFd(c, handle, "file", TRUE, FALSE, newFlag)
  /\ bare' = TRUE
  /\ UNCHANGED answer

\* Missing files are created in place.
NANDOpen(c) ==
  /\ Idle /\ ~Live(c)
  /\ \/ OpenForReading(c, "open")
     \/ ~IsHostPathOpen /\ OpenShadow(c, "open")
     \/ ~IsHostPathOpen /\ ShadowFails /\ OpenInPlace(c, "open")
     \/ /\ file # NoFile /\ IsHostPathOpen
        /\ OpenInPlace(c, "open") /\ UNCHANGED fileSystem
     \/ /\ file = NoFile
        /\ file' = Blank /\ onDisk' = Anything
        /\ OpenInPlace(c, "open") /\ UNCHANGED <<temp, tempSynced>>
  /\ UNCHANGED <<platform, commit>>

\* A safe open for writing comes when no other shadow of the file is open: the
\* guest's discipline, which the code does not test.
NANDSafeOpen(c) ==
  /\ Idle /\ ~Live(c)
  /\ \/ OpenForReading(c, "safe")
     \/ /\ \A d \in Clients : ~handle[d].shadow
        /\ \/ OpenShadow(c, "safe")
           \/ ShadowFails /\ UNCHANGED <<handle, flag, history>>
  /\ UNCHANGED <<platform, commit>>

\* NAND_IOS_Open: never creates, never a shadow.
IOSOpen(c) ==
  /\ Idle /\ ~Live(c) /\ file # NoFile
  /\ \/ OpenForReading(c, "ios")
     \/ OpenInPlace(c, "ios") /\ UNCHANGED fileSystem
  /\ UNCHANGED <<platform, commit>>

-----------------------------------------------------------------------------
(* Writing, creating, removing.                                            *)

\* NANDWrite and NAND_IOS_Write of the new value of a part, with the fflush: the
\* host has the data, its disk not yet.
Write(c, p) ==
  /\ Idle /\ handle[c].writable
  /\ \/ /\ handle[c].at = "temp"
        /\ temp' = [temp EXCEPT ![p] = 1] /\ tempSynced' = FALSE
        /\ UNCHANGED <<file, onDisk, bare>>
     \/ /\ handle[c].at = "file"
        /\ file' = [file EXCEPT ![p] = 1]
        /\ onDisk' = Anything /\ bare' = TRUE
        /\ UNCHANGED <<temp, tempSynced>>
     \/ handle[c].at = "gone" /\ UNCHANGED <<fileSystem, bare>>
  /\ UNCHANGED <<platform, handle, flag, commit, answer>>

\* A change of the file that goes round every handle.
ChangeFile(contents) ==
  /\ Idle
  /\ file' = contents /\ onDisk' = Anything /\ bare' = TRUE
  /\ UNCHANGED <<platform, temp, tempSynced, flag, commit, answer>>

\* NANDCreate of a missing file; ISFS CREATEFILE empties an existing one.
CreateFile == ChangeFile(Blank) /\ UNCHANGED handle

\* NANDDelete, ISFS DELETE; NANDMove and ISFS RENAME of the file elsewhere.
RemoveFile == file # NoFile /\ ChangeFile(NoFile) /\ handle' = Unlinked("file")

-----------------------------------------------------------------------------
(* Closing.                                                                *)

\* NAND_IOS_Close, and a close of a handle that only read.
PlainClose(c) ==
  /\ Idle /\ Live(c)
  /\ ~handle[c].writable \/ flag[c] = "ios"
  /\ handle' = [handle EXCEPT ![c] = NoHandle]
  /\ flag' = [flag EXCEPT ![c] = "none"]
  /\ UNCHANGED <<platform, fileSystem, commit, history>>

\* CommitAndCloseFd, from NANDClose and NANDSafeClose (each on its own kind of
\* open): the handle leaves the table before anything else is tried.
CommitAndCloseFd(c) ==
  /\ Idle /\ handle[c].writable /\ flag[c] \in {"open", "safe"}
  /\ handle' = [handle EXCEPT ![c] = NoHandle]
  /\ commit' = [by |-> c, kept |-> file,
                next |-> IF handle[c].shadow THEN "flush" ELSE "flushOnly"]
  /\ answer' = "none"
  /\ UNCHANGED <<platform, fileSystem, flag, bare>>

\* The close is answered; an error leaves the open flag, without a handle to it.
Answer(ok) ==
  /\ commit' = NoCommit
  /\ flag' = IF ok THEN [flag EXCEPT ![commit.by] = "none"] ELSE flag
  /\ answer' = IF ok THEN "ok" ELSE "error"

\* NANDClose again after an error: there is no handle, the answer is OK.
CloseAgain(c) ==
  /\ Idle /\ ~Live(c) /\ flag[c] = "open"
  /\ flag' = [flag EXCEPT ![c] = "none"]
  /\ UNCHANGED <<platform, fileSystem, handle, commit, history>>

Continue(place) ==
  /\ commit' = [commit EXCEPT !.next = place]
  /\ UNCHANGED <<platform, flag, history>>

\* A writable handle that was no shadow: fflush and fsync, then the answer.
FlushInPlace ==
  /\ commit.next = "flushOnly"
  /\ UNCHANGED <<platform, fileSystem, handle, bare>>
  /\ \E ok \in BOOLEAN : Answer(ok)

\* AtomicReplaceHostFile begins.
Replace == IF platform = "switch" THEN "remove" ELSE "rename"

\* Mutant: the scratch file is published before it is on the disk.
FlushFileToDisk_OnlyBuffers ==
  /\ commit.next = "flush"
  /\ Continue(Replace) \/ Continue("discard")
  /\ UNCHANGED <<fileSystem, handle>>

FlushFileToDisk ==
  /\ commit.next = "flush"
  /\ \/ Continue(Replace) /\ tempSynced' = TRUE
     \/ Continue("discard") /\ UNCHANGED tempSynced
  /\ UNCHANGED <<file, temp, onDisk, handle>>

\* std::remove on the Switch; its result is not looked at.
RemoveTarget ==
  /\ commit.next = "remove"
  /\ \/ /\ file' = NoFile /\ onDisk' = onDisk \cup {NoFile}
        /\ handle' = Unlinked("file")
     \/ UNCHANGED <<file, onDisk, handle>>
  /\ Continue("rename")
  /\ UNCHANGED <<temp, tempSynced>>

\* The rename itself; on the Switch never onto an existing file.
Rename ==
  /\ commit.next = "rename"
  /\ \/ /\ platform = "switch" => file = NoFile
        /\ file' = temp /\ temp' = NoFile
        /\ onDisk' = onDisk \cup (IF tempSynced THEN {temp} ELSE Torn(temp))
        /\ handle' = Unlinked("file")
        /\ Continue("syncDir")
     \/ Continue("discard") /\ UNCHANGED <<file, temp, onDisk, handle>>
  /\ UNCHANGED tempSynced

InPlaceWriter == \E c \in Clients : handle[c].writable /\ ~handle[c].shadow

\* The directory entry is on the disk, or MoveFileEx has written through.  That
\* the host can sync the directory is assumed: the code does not look at it.
SyncDirectory ==
  /\ commit.next = "syncDir"
  /\ onDisk' = {file} /\ bare' = (bare /\ InPlaceWriter)
  /\ UNCHANGED <<platform, file, temp, tempSynced, handle>>
  /\ Answer(TRUE)

\* A flush or a rename failed: the scratch file is dropped, the close answers an error.
DiscardScratch ==
  /\ commit.next = "discard"
  /\ temp' \in {NoFile, temp}
  /\ UNCHANGED <<platform, file, tempSynced, onDisk, handle, bare>>
  /\ Answer(FALSE)

-----------------------------------------------------------------------------
(* The program ends, or the power fails; then it starts again.             *)

Restart ==
  /\ handle' = [c \in Clients |-> NoHandle]
  /\ flag' = [c \in Clients |-> "none"]
  /\ commit' = NoCommit
  /\ UNCHANGED <<platform, history>>

Crash == Restart /\ UNCHANGED fileSystem

PowerLoss ==
  /\ Restart
  /\ file' \in onDisk /\ onDisk' = {file'}
  /\ temp' \in {NoFile, Blank} /\ tempSynced' = FALSE

Committing ==
  \/ FlushInPlace \/ FlushFileToDisk \/ RemoveTarget \/ Rename \/ SyncDirectory
  \/ DiscardScratch

NandNext ==
  \/ \E c \in Clients :
       \/ NANDOpen(c) \/ NANDSafeOpen(c) \/ IOSOpen(c)
       \/ \E p \in Parts : Write(c, p)
       \/ PlainClose(c) \/ CommitAndCloseFd(c) \/ CloseAgain(c)
  \/ CreateFile \/ RemoveFile
  \/ Committing
  \/ Crash \/ PowerLoss

NandSpec == NandInit /\ [][NandNext]_nvars

-----------------------------------------------------------------------------
NandTypeOK ==
  /\ platform \in Platforms
  /\ {file, temp} \cup onDisk \subseteq Anything
  /\ {tempSynced, bare} \subseteq BOOLEAN
  /\ handle \in [Clients -> Handles \cup {NoHandle}]
  /\ flag \in [Clients -> Flags]
  /\ commit = NoCommit \/
       commit \in [by : Clients, next : HostCalls, kept : Anything]
  /\ answer \in {"none", "ok", "error"}

\* The scratch file is there as long as a shadow handle or a commit that will
\* publish it is, and it has that one writer: what one close publishes is never
\* what another writer has put in the scratch file, or lacks it.
ScratchIsOwn ==
  /\ \A c \in Clients : handle[c].shadow => handle[c].at = "temp" /\ temp # NoFile
  /\ \A c, d \in Clients : handle[c].at = "temp" /\ handle[d].at = "temp" => c = d
  /\ commit.next \in {"flush", "remove", "rename"} =>
       temp # NoFile /\ \A c \in Clients : handle[c].at # "temp"

Draft ==
  IF (\E c \in Clients : handle[c].shadow) \/ commit.next \in {"flush", "remove", "rename"}
    THEN temp
  ELSE IF commit.next = "syncDir" THEN file ELSE NoFile

Promised == INSTANCE AtomicFile
  WITH Contents <- FileContents, value <- file, kept <- onDisk, draft <- Draft,
       atomic <- (platform # "switch")

\* The close, its failures, the end of the program and a loss of power at every
\* point keep what AtomicFile promises.
ImplementsAtomicFile == Promised!ASpec

\* "On any failure the shadow is dropped and the original is left exactly as it
\* was" (the comment of CommitAndCloseFd).
OriginalKept == commit.next = "discard" => file = commit.kept
=============================================================================
