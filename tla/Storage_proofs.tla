--------------------------- MODULE Storage_proofs ---------------------------
(***************************************************************************)
(* Proofs about what is kept on the card.  NandStorage, for every set of   *)
(* clients and every platform: a scratch file has one writer, and the      *)
(* close of a shadow keeps what AtomicFile promises, whatever fails and    *)
(* whenever the power does.  RetroRewindDownload, for every order of the   *)
(* archives' entries and every pack to begin with: an interrupted run goes *)
(* on where its files end, and a run that reports success leaves a whole   *)
(* pack.                                                                   *)
(***************************************************************************)
EXTENDS NandStorage, RetroRewindDownload, Lists_proofs, TLAPS

-----------------------------------------------------------------------------
(* A NAND file.                                                            *)

Shadow(c) == handle[c].shadow

\* A handle is on the scratch file exactly when it is a shadow, and there is
\* one shadow; it is closed by a commit, not by a plain close.
ShadowsOK ==
  /\ \A c \in Clients : Shadow(c) <=> handle[c].at = "temp"
  /\ \A c \in Clients : Shadow(c) => handle[c].writable /\ flag[c] # "ios"
  /\ \A c \in Clients : Shadow(c) => temp # NoFile
  /\ \A c, d \in Clients : Shadow(c) /\ Shadow(d) => c = d

\* A handle on the file is on the one that is there now.
HandlePlacesOK == \A c \in Clients : handle[c].at = "file" => file # NoFile

\* A client that can write the file itself is remembered.
BareOK ==
  /\ \A c \in Clients : handle[c].writable /\ ~Shadow(c) => bare
  /\ commit.next = "flushOnly" => bare

\* What has been done before each host call of a commit.
CommitOK ==
  /\ commit.next \in {"flush", "remove", "rename", "syncDir", "discard"} =>
       \A c \in Clients : ~Shadow(c)
  /\ commit.next \in {"flush", "remove", "rename"} => temp # NoFile
  /\ commit.next \in {"remove", "rename"} => tempSynced
  /\ commit.next = "remove" => platform = "switch"
  /\ commit.next = "syncDir" => file # NoFile

NandInv == NandTypeOK /\ HandlePlacesOK /\ ShadowsOK /\ BareOK /\ CommitOK

-----------------------------------------------------------------------------
(* Facts about the data.                                                   *)

LEMMA ContentsAreFiles ==
  /\ Blank \in FileContents
  /\ \A x \in FileContents : x # NoFile
  /\ \A x \in FileContents, p \in Parts : [x EXCEPT ![p] = 1] \in FileContents
  <1>1. \A x \in FileContents : DOMAIN x = Parts
    BY DEF FileContents
  <1>2. DOMAIN NoFile = {} /\ 1 \in Parts
    BY DEF NoFile, Parts
  <1> QED
    BY <1>1, <1>2 DEF FileContents, Blank

LEMMA HandleRecords ==
  /\ ~NoHandle.writable /\ ~NoHandle.shadow /\ NoHandle.at = "nowhere"
  /\ NoHandle \notin Handles
  /\ \A h \in Handles : h.at \in {"file", "temp", "gone"} /\ h.writable \in BOOLEAN /\ h.shadow \in BOOLEAN
  /\ NoCommit.next = "none"
  BY DEF NoHandle, Handles, NoCommit

\* Unlinking changes the place of the handles on a path, nothing else.
LEMMA UnlinkedHandles ==
  ASSUME handle \in [Clients -> Handles \cup {NoHandle}], NEW path \in {"file", "temp"}
  PROVE  /\ Unlinked(path) \in [Clients -> Handles \cup {NoHandle}]
         /\ \A c \in Clients :
              /\ Unlinked(path)[c].shadow = handle[c].shadow
              /\ Unlinked(path)[c].writable = handle[c].writable
              /\ Unlinked(path)[c].at = IF handle[c].at = path THEN "gone" ELSE handle[c].at
  BY HandleRecords DEF Unlinked, Handles, NoHandle

-----------------------------------------------------------------------------
(* The operations keep the invariant.                                      *)

LEMMA InitKeeps == NandInit => NandInv
  BY ContentsAreFiles, HandleRecords
  DEF NandInit, NandInv, NandTypeOK, HandlePlacesOK, ShadowsOK, BareOK, CommitOK, Shadow, Anything, Flags

LEMMA OpenForReadingKeeps ==
  ASSUME NandInv, NEW c \in Clients, NEW newFlag \in {"open", "safe", "ios"},
         Idle, ~Live(c), OpenForReading(c, newFlag), UNCHANGED <<platform, commit>>
  PROVE  NandInv'
  BY ContentsAreFiles, HandleRecords
  DEF NandInv, NandTypeOK, HandlePlacesOK, ShadowsOK, BareOK, CommitOK, Shadow, Handles, Flags, Idle,
      OpenForReading, AllocateFd, fileSystem, history

LEMMA OpenInPlaceKeeps ==
  ASSUME NandInv, NEW c \in Clients, NEW newFlag \in {"open", "ios"},
         Idle, ~Live(c), OpenInPlace(c, newFlag), UNCHANGED <<platform, commit>>,
         {file', temp'} \cup onDisk' \subseteq Anything, tempSynced' \in BOOLEAN,
         file' # NoFile, temp' = temp \/ \A d \in Clients : ~Shadow(d)
  PROVE  NandInv'
  BY ContentsAreFiles, HandleRecords
  DEF NandInv, NandTypeOK, HandlePlacesOK, ShadowsOK, BareOK, CommitOK, Shadow, Handles, Flags, Idle,
      OpenInPlace, AllocateFd

LEMMA OpenShadowKeeps ==
  ASSUME NandInv, NEW c \in Clients, NEW newFlag \in {"open", "safe"},
         Idle, ~Live(c), \A d \in Clients : ~Shadow(d),
         OpenShadow(c, newFlag), UNCHANGED <<platform, commit>>
  PROVE  NandInv'
  <1>1. \A d \in Clients : handle[d].at # "temp"
    BY DEF NandInv, ShadowsOK
  <1>2. handle = [d \in Clients |-> handle[d]]
    BY DEF NandInv, NandTypeOK
  <1>3. Unlinked("temp") = handle
    BY <1>1, <1>2 DEF Unlinked
  <1>4. /\ handle' = [handle EXCEPT ![c] = [at |-> "temp", writable |-> TRUE, shadow |-> TRUE]]
        /\ flag' = [flag EXCEPT ![c] = newFlag]
        /\ temp' = file /\ file # NoFile /\ tempSynced' = FALSE
        /\ UNCHANGED <<platform, file, onDisk, commit, answer, bare>>
    BY <1>3 DEF OpenShadow, AllocateFd, history
  <1>5. NandTypeOK'
    BY <1>4, HandleRecords DEF NandInv, NandTypeOK, Handles, Flags
  <1> QED
    BY <1>1, <1>4, <1>5, HandleRecords
    DEF NandInv, NandTypeOK, HandlePlacesOK, ShadowsOK, BareOK, CommitOK, Shadow, Idle

LEMMA OpenKeeps ==
  ASSUME NandInv, NEW c \in Clients, NANDOpen(c) \/ NANDSafeOpen(c) \/ IOSOpen(c)
  PROVE  NandInv'
  <1> USE DEF fileSystem, history
  <1>1. (~IsHostPathOpen => \A d \in Clients : ~Live(d)) /\ \A d \in Clients : Shadow(d) => Live(d)
    BY HandleRecords DEF IsHostPathOpen, Live, Shadow
  <1>2. {file, temp} \cup onDisk \subseteq Anything /\ tempSynced \in BOOLEAN
    BY DEF NandInv, NandTypeOK
  <1>3. Idle /\ ~Live(c) /\ UNCHANGED <<platform, commit>>
    BY DEF NANDOpen, NANDSafeOpen, IOSOpen
  <1>4. ASSUME NEW f \in {"open", "safe", "ios"}, OpenForReading(c, f) PROVE NandInv'
    BY <1>3, <1>4, OpenForReadingKeeps
  <1>5. ASSUME ShadowFails, \A d \in Clients : ~Shadow(d)
        PROVE  /\ {file', temp'} \cup onDisk' \subseteq Anything /\ tempSynced' \in BOOLEAN
               /\ file' # NoFile
               /\ UNCHANGED <<handle, flag, history>> => NandInv'
    BY <1>2, <1>3, <1>5, HandleRecords
    DEF ShadowFails, Anything, NandInv, NandTypeOK, HandlePlacesOK, ShadowsOK, BareOK, CommitOK, Shadow, Idle
  <1>6. CASE NANDOpen(c)
    <2>1. CASE ~IsHostPathOpen /\ OpenShadow(c, "open")
      BY <1>1, <1>3, <2>1, OpenShadowKeeps
    <2>2. CASE ~IsHostPathOpen /\ ShadowFails /\ OpenInPlace(c, "open")
      BY <1>1, <1>3, <1>5, <2>2, OpenInPlaceKeeps
    <2>3. CASE file # NoFile /\ OpenInPlace(c, "open") /\ UNCHANGED fileSystem
      BY <1>2, <1>3, <2>3, OpenInPlaceKeeps
    <2>4. CASE /\ file' = Blank /\ onDisk' = Anything
               /\ OpenInPlace(c, "open") /\ UNCHANGED <<temp, tempSynced>>
      <3>1. /\ {file', temp'} \cup onDisk' \subseteq Anything /\ tempSynced' \in BOOLEAN
            /\ file' # NoFile
        BY <1>2, <2>4, ContentsAreFiles DEF Anything
      <3> QED
        BY <1>3, <2>4, <3>1, OpenInPlaceKeeps
    <2> QED
      BY <1>4, <1>6, <2>1, <2>2, <2>3, <2>4 DEF NANDOpen
  <1>7. CASE NANDSafeOpen(c)
    <2>1. CASE OpenShadow(c, "safe") /\ \A d \in Clients : ~Shadow(d)
      BY <1>3, <2>1, OpenShadowKeeps
    <2> QED
      BY <1>4, <1>5, <1>7, <2>1 DEF NANDSafeOpen, Shadow
  <1>8. CASE IOSOpen(c)
    <2>1. CASE file # NoFile /\ OpenInPlace(c, "ios") /\ UNCHANGED fileSystem
      BY <1>2, <1>3, <2>1, OpenInPlaceKeeps
    <2> QED
      BY <1>4, <1>8, <2>1 DEF IOSOpen
  <1> QED
    BY <1>6, <1>7, <1>8

LEMMA WriteKeeps ==
  ASSUME NandInv, NEW c \in Clients, NEW p \in Parts, Write(c, p)
  PROVE  NandInv'
  <1>1. CASE handle[c].at = "temp"
    <2>1. temp \in FileContents /\ temp' = [temp EXCEPT ![p] = 1]
      BY <1>1 DEF NandInv, NandTypeOK, ShadowsOK, Anything, Write
    <2>2. temp' \in FileContents /\ temp' # NoFile
      BY <2>1, ContentsAreFiles
    <2>3. /\ tempSynced' = FALSE /\ commit = NoCommit
          /\ UNCHANGED <<platform, file, onDisk, handle, flag, commit, answer, bare>>
      BY <1>1 DEF Write, Idle
    <2> QED
      BY <2>2, <2>3, HandleRecords
      DEF NandInv, NandTypeOK, HandlePlacesOK, ShadowsOK, BareOK, CommitOK, Shadow, Anything
  <1>2. CASE handle[c].at = "file"
    <2>1. file \in FileContents /\ file' = [file EXCEPT ![p] = 1] /\ onDisk' = Anything
      BY <1>2 DEF NandInv, NandTypeOK, HandlePlacesOK, Anything, Write
    <2>2. file' \in FileContents /\ file' # NoFile
      BY <2>1, ContentsAreFiles
    <2> QED
      BY <1>2, <2>1, <2>2, HandleRecords
      DEF NandInv, NandTypeOK, HandlePlacesOK, ShadowsOK, BareOK, CommitOK, Shadow, Write, Anything, Idle
  <1>3. CASE handle[c].at = "gone"
    BY <1>3, HandleRecords
    DEF NandInv, NandTypeOK, HandlePlacesOK, ShadowsOK, BareOK, CommitOK, Shadow, Write, fileSystem
  <1> QED
    BY <1>1, <1>2, <1>3 DEF Write

LEMMA ChangeFileKeeps ==
  ASSUME NandInv, CreateFile \/ RemoveFile
  PROVE  NandInv'
  <1>1. /\ commit = NoCommit /\ UNCHANGED <<platform, temp, tempSynced, flag, commit, answer>>
        /\ file' \in {Blank, NoFile} /\ onDisk' = Anything /\ bare'
    BY DEF CreateFile, RemoveFile, ChangeFile, Idle
  <1>2. CASE CreateFile
    <2>1. file' = Blank /\ handle' = handle
      BY <1>2 DEF CreateFile, ChangeFile
    <2> QED
      BY <1>1, <2>1, ContentsAreFiles, HandleRecords
      DEF NandInv, NandTypeOK, HandlePlacesOK, ShadowsOK, BareOK, CommitOK, Shadow, Anything
  <1>3. CASE RemoveFile
    <2>1. file' = NoFile /\ handle' = Unlinked("file")
      BY <1>3 DEF RemoveFile, ChangeFile
    <2> QED
      BY <1>1, <2>1, UnlinkedHandles, HandleRecords
      DEF NandInv, NandTypeOK, HandlePlacesOK, ShadowsOK, BareOK, CommitOK, Shadow, Anything
  <1> QED
    BY <1>2, <1>3

LEMMA CloseKeeps ==
  ASSUME NandInv, NEW c \in Clients, PlainClose(c) \/ CommitAndCloseFd(c) \/ CloseAgain(c)
  PROVE  NandInv'
  <1>1. CASE PlainClose(c)
    BY <1>1, HandleRecords
    DEF NandInv, NandTypeOK, HandlePlacesOK, ShadowsOK, BareOK, CommitOK, Shadow, PlainClose, Idle, Flags,
        fileSystem, history
  <1>2. CASE CommitAndCloseFd(c)
    <2>1. /\ handle' = [handle EXCEPT ![c] = NoHandle]
          /\ commit' = [by |-> c, kept |-> file, next |-> IF Shadow(c) THEN "flush" ELSE "flushOnly"]
          /\ answer' = "none" /\ handle[c].writable
          /\ UNCHANGED <<platform, file, temp, tempSynced, onDisk, flag, bare>>
      BY <1>2 DEF CommitAndCloseFd, Shadow, fileSystem
    <2>2. NandTypeOK'
      BY <2>1, HandleRecords DEF NandInv, NandTypeOK, HostCalls
    <2> QED
      BY <2>1, <2>2, HandleRecords
      DEF NandInv, NandTypeOK, HandlePlacesOK, ShadowsOK, BareOK, CommitOK, Shadow
  <1>3. CASE CloseAgain(c)
    BY <1>3, HandleRecords
    DEF NandInv, NandTypeOK, HandlePlacesOK, ShadowsOK, BareOK, CommitOK, Shadow, CloseAgain, Idle, Flags,
        fileSystem, history
  <1> QED
    BY <1>1, <1>2, <1>3

\* The client of a commit under way, and the record with another next call.
LEMMA CommitRecords ==
  ASSUME NandInv, commit.next # "none"
  PROVE  /\ commit # NoCommit /\ commit.by \in Clients /\ commit.next \in HostCalls
         /\ \A place \in HostCalls :
              /\ [commit EXCEPT !.next = place] \in [by : Clients, next : HostCalls, kept : Anything]
              /\ [commit EXCEPT !.next = place].next = place
  BY HandleRecords DEF NandInv, NandTypeOK, NoCommit

\* A commit is answered.
LEMMA AnswerKeeps ==
  ASSUME NandInv, commit.next # "none", NEW ok \in BOOLEAN, Answer(ok),
         {file', temp'} \cup onDisk' \subseteq Anything, UNCHANGED <<platform, tempSynced, file, handle>>,
         bare' \in BOOLEAN, \A c \in Clients : handle[c].writable /\ ~Shadow(c) => bare',
         temp' = temp \/ \A c \in Clients : ~Shadow(c)
  PROVE  NandInv'
  <1>1. /\ commit' = NoCommit /\ answer' \in {"ok", "error"}
        /\ flag' = flag \/ flag' = [flag EXCEPT ![commit.by] = "none"]
    BY DEF Answer
  <1>2. NandTypeOK'
    BY <1>1, CommitRecords DEF NandInv, NandTypeOK, Flags
  <1>3. \A c \in Clients : flag'[c] \in {flag[c], "none"}
    BY <1>1, CommitRecords DEF NandInv, NandTypeOK, Flags
  <1> QED
    BY <1>1, <1>2, <1>3, HandleRecords
    DEF NandInv, NandTypeOK, HandlePlacesOK, ShadowsOK, BareOK, CommitOK, Shadow
LEMMA FlushKeeps ==
  ASSUME NandInv, FlushInPlace \/ FlushFileToDisk
  PROVE  NandInv'
  <1>1. CASE FlushInPlace
    <2>1. PICK ok \in BOOLEAN : Answer(ok)
      BY <1>1 DEF FlushInPlace
    <2>2. /\ commit.next # "none" /\ UNCHANGED <<platform, tempSynced, file, handle, bare, temp>>
          /\ {file', temp'} \cup onDisk' \subseteq Anything
      BY <1>1 DEF FlushInPlace, fileSystem, NandInv, NandTypeOK
    <2> QED
      BY <2>1, <2>2, AnswerKeeps DEF NandInv, NandTypeOK, BareOK
  <1>2. CASE FlushFileToDisk
    <2>1. PICK place \in {Replace, "discard"} :
             /\ commit' = [commit EXCEPT !.next = place]
             /\ place # "discard" => tempSynced'
             /\ tempSynced' \in {TRUE, tempSynced}
             /\ UNCHANGED <<platform, file, temp, onDisk, handle, flag, answer, bare>>
      BY <1>2 DEF FlushFileToDisk, Continue, history
    <2>2. Replace \in {"remove", "rename"} /\ (Replace = "remove" => platform = "switch")
      BY DEF Replace
    <2>3. commit.next = "flush" /\ place \in HostCalls
      BY <1>2, <2>2 DEF FlushFileToDisk, HostCalls
    <2>4. commit'.next = place /\ commit' \in [by : Clients, next : HostCalls, kept : Anything]
      BY <2>1, <2>3, CommitRecords
    <2> QED
      BY <2>1, <2>2, <2>3, <2>4
      DEF NandInv, NandTypeOK, HandlePlacesOK, ShadowsOK, BareOK, CommitOK, Shadow
  <1> QED
    BY <1>1, <1>2

LEMMA RemoveTargetKeeps ==
  ASSUME NandInv, RemoveTarget
  PROVE  NandInv'
  <1>1. /\ commit.next = "remove" /\ commit' = [commit EXCEPT !.next = "rename"]
        /\ UNCHANGED <<platform, temp, tempSynced, flag, answer, bare>>
    BY DEF RemoveTarget, Continue, history
  <1>2. commit'.next = "rename" /\ commit' \in [by : Clients, next : HostCalls, kept : Anything]
    BY <1>1, CommitRecords DEF HostCalls
  <1>3. CASE file' = NoFile /\ onDisk' = onDisk \cup {NoFile} /\ handle' = Unlinked("file")
    BY <1>1, <1>2, <1>3, UnlinkedHandles, HandleRecords
    DEF NandInv, NandTypeOK, HandlePlacesOK, ShadowsOK, BareOK, CommitOK, Shadow, Anything
  <1>4. CASE UNCHANGED <<file, onDisk, handle>>
    BY <1>1, <1>2, <1>4
    DEF NandInv, NandTypeOK, HandlePlacesOK, ShadowsOK, BareOK, CommitOK, Shadow
  <1> QED
    BY <1>3, <1>4 DEF RemoveTarget

LEMMA RenameKeeps ==
  ASSUME NandInv, Rename
  PROVE  NandInv'
  <1>1. /\ commit.next = "rename" /\ temp # NoFile /\ tempSynced
        /\ UNCHANGED <<platform, tempSynced, flag, answer, bare>>
    BY DEF Rename, Continue, history, NandInv, CommitOK
  <1>2. ASSUME NEW place \in {"syncDir", "discard"}, commit' = [commit EXCEPT !.next = place]
        PROVE  commit'.next = place /\ commit' \in [by : Clients, next : HostCalls, kept : Anything]
    BY <1>1, <1>2, CommitRecords DEF HostCalls
  <1>3. CASE /\ file' = temp /\ temp' = NoFile /\ onDisk' = onDisk \cup {temp}
             /\ handle' = Unlinked("file") /\ commit' = [commit EXCEPT !.next = "syncDir"]
    BY <1>1, <1>2, <1>3, UnlinkedHandles, HandleRecords
    DEF NandInv, NandTypeOK, HandlePlacesOK, ShadowsOK, BareOK, CommitOK, Shadow, Anything
  <1>4. CASE commit' = [commit EXCEPT !.next = "discard"] /\ UNCHANGED <<file, temp, onDisk, handle>>
    BY <1>1, <1>2, <1>4
    DEF NandInv, NandTypeOK, HandlePlacesOK, ShadowsOK, BareOK, CommitOK, Shadow
  <1> QED
    BY <1>1, <1>3, <1>4 DEF Rename, Continue

LEMMA CommitEndKeeps ==
  ASSUME NandInv, SyncDirectory \/ DiscardScratch
  PROVE  NandInv'
  <1>1. CASE SyncDirectory
    <2>1. /\ commit.next = "syncDir" /\ onDisk' = {file} /\ bare' = (bare /\ InPlaceWriter)
          /\ UNCHANGED <<platform, file, temp, tempSynced, handle>> /\ Answer(TRUE)
      BY <1>1 DEF SyncDirectory
    <2>2. /\ {file', temp'} \cup onDisk' \subseteq Anything
          /\ bare' \in BOOLEAN /\ \A c \in Clients : handle[c].writable /\ ~Shadow(c) => bare'
      BY <2>1 DEF NandInv, NandTypeOK, BareOK, InPlaceWriter, Shadow
    <2> QED
      BY <2>1, <2>2, AnswerKeeps
  <1>2. CASE DiscardScratch
    <2>1. /\ commit.next = "discard" /\ temp' \in {NoFile, temp}
          /\ UNCHANGED <<platform, file, tempSynced, onDisk, handle, bare>> /\ Answer(FALSE)
      BY <1>2 DEF DiscardScratch
    <2>2. \A c \in Clients : ~Shadow(c)
      BY <2>1 DEF NandInv, CommitOK
    <2>3. {file', temp'} \cup onDisk' \subseteq Anything
      BY <2>1 DEF NandInv, NandTypeOK, Anything
    <2> QED
      BY <2>1, <2>2, <2>3, AnswerKeeps DEF NandInv, NandTypeOK, BareOK
  <1> QED
    BY <1>1, <1>2

LEMMA RestartKeeps ==
  ASSUME NandInv, Crash \/ PowerLoss
  PROVE  NandInv'
  <1>1. /\ handle' = [c \in Clients |-> NoHandle] /\ flag' = [c \in Clients |-> "none"]
        /\ commit' = NoCommit /\ UNCHANGED <<platform, answer, bare>>
    BY DEF Crash, PowerLoss, Restart, history
  <1>2. {file', temp'} \cup onDisk' \subseteq Anything /\ tempSynced' \in BOOLEAN
    BY ContentsAreFiles DEF Crash, PowerLoss, fileSystem, NandInv, NandTypeOK, Anything
  <1> QED
    BY <1>1, <1>2, HandleRecords
    DEF NandInv, NandTypeOK, HandlePlacesOK, ShadowsOK, BareOK, CommitOK, Shadow, Flags

LEMMA NandStep ==
  ASSUME NandInv, [NandNext]_nvars
  PROVE  NandInv'
  <1>1. CASE UNCHANGED nvars
    BY <1>1 DEF nvars, fileSystem, history, NandInv, NandTypeOK, HandlePlacesOK, ShadowsOK, BareOK, CommitOK, Shadow
  <1> QED
    BY <1>1, OpenKeeps, WriteKeeps, ChangeFileKeeps, CloseKeeps, FlushKeeps, RemoveTargetKeeps,
       RenameKeeps, CommitEndKeeps, RestartKeeps
    DEF NandNext, Committing

\* The files, the handles and the commit under way stay in their types, and the
\* facts that make the close right hold throughout.
THEOREM NandInvariant == NandSpec => []NandInv
  BY InitKeeps, NandStep, PTL DEF NandSpec

\* The scratch file of a shadow is written by that shadow alone and is there
\* until the close publishes it (DiscardStaleSafeTemp and IsHostPathOpen).
THEOREM OneWriter == NandSpec => []ScratchIsOwn
  <1>1. NandInv => ScratchIsOwn
    BY DEF NandInv, ShadowsOK, CommitOK, ScratchIsOwn, Shadow
  <1> QED
    BY <1>1, NandInvariant, PTL
-----------------------------------------------------------------------------
(* The refinement: what each operation is to AtomicFile.                   *)

LEMMA DraftWithShadow ==
  ASSUME NandInv, NEW c \in Clients, Shadow(c)
  PROVE  Draft = temp /\ temp \in FileContents /\ temp # NoFile
  BY DEF Draft, Shadow, NandInv, ShadowsOK, NandTypeOK, Anything

LEMMA DraftWithoutShadow ==
  ASSUME \A c \in Clients : ~Shadow(c)
  PROVE  Draft = IF commit.next \in {"flush", "remove", "rename"} THEN temp
                 ELSE IF commit.next = "syncDir" THEN file ELSE NoFile
  BY DEF Draft, Shadow

\* Without a new shadow, commit or scratch file the draft stays as it is.
LEMMA DraftSame ==
  ASSUME \A c \in Clients : Shadow(c)' <=> Shadow(c), UNCHANGED commit, UNCHANGED <<temp, file>>
  PROVE  UNCHANGED Draft
  BY DEF Draft, Shadow

\* No operation but a commit is under way.
LEMMA IdleDraft ==
  ASSUME Idle
  PROVE  Draft = IF \E c \in Clients : Shadow(c) THEN temp ELSE NoFile
  BY HandleRecords DEF Draft, Idle, Shadow

AbstractStep == [Promised!Promise]_(Promised!avars)

LEMMA BareStep ==
  ASSUME bare', UNCHANGED platform
  PROVE  AbstractStep
  BY DEF AbstractStep, Promised!Promise

LEMMA StutterStep ==
  ASSUME UNCHANGED <<file, onDisk, Draft, answer, bare, platform>>
  PROVE  AbstractStep
  BY DEF AbstractStep, Promised!avars

LEMMA OpenRefines ==
  ASSUME NandInv, NandInv', NEW c \in Clients, NANDOpen(c) \/ NANDSafeOpen(c) \/ IOSOpen(c)
  PROVE  AbstractStep
  <1>1. Idle /\ ~Live(c) /\ UNCHANGED <<platform, commit>> /\ Idle'
    BY DEF NANDOpen, NANDSafeOpen, IOSOpen, Idle
  <1>2. (~IsHostPathOpen => \A d \in Clients : ~Live(d)) /\ \A d \in Clients : Shadow(d) => Live(d)
    BY HandleRecords DEF IsHostPathOpen, Live, Shadow
  <1>3. ASSUME NEW f \in {"open", "safe", "ios"}, OpenForReading(c, f) PROVE AbstractStep
    <2>1. \A d \in Clients : Shadow(d)' <=> Shadow(d)
      BY <1>1, <1>3, HandleRecords
      DEF OpenForReading, AllocateFd, Shadow, Live, NandInv, NandTypeOK
    <2> QED
      BY <1>1, <1>3, <2>1, DraftSame, StutterStep DEF OpenForReading, fileSystem, history
  <1>4. ASSUME NEW f \in {"open", "safe"}, OpenShadow(c, f), \A d \in Clients : ~Shadow(d)
        PROVE  AbstractStep
    <2>1. Draft = NoFile /\ file # NoFile /\ UNCHANGED <<file, onDisk, answer, bare>> /\ temp' = file
      BY <1>1, <1>4, IdleDraft DEF OpenShadow, history
    <2>2. handle' \in [Clients -> Handles \cup {NoHandle}] /\ handle'[c].shadow
      BY <1>4 DEF OpenShadow, AllocateFd, NandInv, NandTypeOK, Unlinked
    <2>3. Draft' = file
      BY <2>1, <2>2 DEF Draft
    <2> QED
      BY <1>1, <2>1, <2>3 DEF AbstractStep, Promised!Promise, Promised!ANext, Promised!Begin
  <1>5. ASSUME ShadowFails, UNCHANGED <<handle, flag, history>>, \A d \in Clients : ~Shadow(d)
        PROVE  AbstractStep
    <2>1. Draft = NoFile /\ Draft' = NoFile
      BY <1>1, <1>5, IdleDraft, HandleRecords DEF Draft, Shadow, Idle
    <2> QED
      BY <1>1, <1>5, <2>1, StutterStep DEF ShadowFails, history
  <1>6. ASSUME NEW f \in {"open", "ios"}, OpenInPlace(c, f) PROVE AbstractStep
    BY <1>1, <1>6, BareStep DEF OpenInPlace
  <1> QED
    BY <1>2, <1>3, <1>4, <1>5, <1>6 DEF NANDOpen, NANDSafeOpen, IOSOpen, Shadow

LEMMA WriteRefines ==
  ASSUME NandInv, NandInv', NEW c \in Clients, NEW p \in Parts, Write(c, p)
  PROVE  AbstractStep
  <1>1. CASE handle[c].at = "temp"
    <2>1. /\ Shadow(c) /\ UNCHANGED <<platform, file, onDisk, handle, answer, bare>>
      BY <1>1 DEF Write, NandInv, ShadowsOK
    <2>2. Draft # NoFile
      BY <2>1, DraftWithShadow
    <2>3. Shadow(c)'
      BY <2>1 DEF Shadow
    <2>4. Draft' = temp' /\ temp' \in FileContents
      BY <2>3 DEF Draft, Shadow, NandInv, ShadowsOK, NandTypeOK, Anything
    <2> QED
      BY <2>1, <2>2, <2>4 DEF AbstractStep, Promised!Promise, Promised!ANext, Promised!Write
  <1>2. CASE handle[c].at = "file"
    BY <1>2, BareStep DEF Write
  <1>3. CASE handle[c].at = "gone"
    BY <1>3, DraftSame, StutterStep DEF Write, fileSystem, Shadow
  <1> QED
    BY <1>1, <1>2, <1>3 DEF Write

LEMMA CloseRefines ==
  ASSUME NandInv, NandInv', NEW c \in Clients,
         PlainClose(c) \/ CommitAndCloseFd(c) \/ CloseAgain(c)
  PROVE  AbstractStep
  <1>1. CASE PlainClose(c)
    <2>1. \A d \in Clients : Shadow(d)' <=> Shadow(d)
      BY <1>1, HandleRecords DEF PlainClose, Shadow, NandInv, NandTypeOK, ShadowsOK
    <2> QED
      BY <1>1, <2>1, DraftSame, StutterStep DEF PlainClose, fileSystem, history
  <1>2. CASE CommitAndCloseFd(c) /\ Shadow(c)
    <2>1. Draft = temp /\ Draft # NoFile
      BY <1>2, DraftWithShadow
    <2>2. commit'.next = "flush" /\ answer' = "none" /\ UNCHANGED <<platform, file, temp, onDisk, bare>>
      BY <1>2 DEF CommitAndCloseFd, Shadow, fileSystem
    <2>3. Draft' = temp
      BY <2>2 DEF Draft
    <2> QED
      BY <2>1, <2>2, <2>3 DEF AbstractStep, Promised!Promise, Promised!ANext, Promised!Commit
  <1>3. CASE CommitAndCloseFd(c) /\ ~Shadow(c)
    BY <1>3, BareStep DEF CommitAndCloseFd, NandInv, BareOK
  <1>4. CASE CloseAgain(c)
    BY <1>4, DraftSame, StutterStep DEF CloseAgain, fileSystem, history, Shadow
  <1> QED
    BY <1>1, <1>2, <1>3, <1>4

LEMMA CommitRefines ==
  ASSUME NandInv, NandInv', Committing
  PROVE  AbstractStep
  <1> USE DEF AbstractStep, Promised!Promise, Promised!ANext
  <1>1. CASE FlushInPlace
    BY <1>1, BareStep DEF FlushInPlace, NandInv, BareOK
  <1>2. CASE FlushFileToDisk /\ commit'.next # "discard"
    <2>1. Draft = temp
      BY <1>2 DEF Draft, FlushFileToDisk
    <2>2. commit'.next \in {"remove", "rename"} /\ UNCHANGED <<platform, file, temp, onDisk, answer, bare>>
      BY <1>2, CommitRecords DEF FlushFileToDisk, Continue, Replace, HostCalls, history
    <2>3. Draft' = temp
      BY <2>2 DEF Draft
    <2> QED
      BY <2>1, <2>2, <2>3, StutterStep
  <1>3. CASE (FlushFileToDisk \/ Rename) /\ commit'.next = "discard"
    <2>1. UNCHANGED <<platform, file, onDisk, answer, bare>>
      BY <1>3, CommitRecords DEF FlushFileToDisk, Rename, Continue, history, HostCalls
    <2>2. Draft' = NoFile
      BY <1>3 DEF Draft, Shadow, NandInv, CommitOK
    <2> QED
      BY <2>1, <2>2 DEF Promised!Abandon
  <1>4. CASE RemoveTarget
    <2>1. /\ Draft = temp /\ temp # NoFile /\ platform = "switch"
          /\ UNCHANGED <<platform, temp, answer, bare>> /\ commit'.next = "rename"
      BY <1>4, CommitRecords DEF Draft, RemoveTarget, Continue, history, HostCalls, NandInv, CommitOK
    <2>2. Draft' = temp
      BY <2>1 DEF Draft
    <2>3. CASE file' = NoFile /\ onDisk' = onDisk \cup {NoFile}
      BY <2>1, <2>2, <2>3 DEF Promised!Missing
    <2>4. CASE UNCHANGED <<file, onDisk>>
      BY <2>1, <2>2, <2>4, StutterStep
    <2> QED
      BY <1>4, <2>3, <2>4 DEF RemoveTarget
  <1>5. CASE Rename /\ commit'.next # "discard"
    <2>1. /\ Draft = temp /\ temp # NoFile /\ tempSynced
          /\ UNCHANGED <<platform, answer, bare>>
      BY <1>5 DEF Draft, Rename, Continue, history, NandInv, CommitOK
    <2>2. file' = temp /\ onDisk' = onDisk \cup {temp} /\ commit'.next = "syncDir"
      BY <1>5, <2>1, CommitRecords DEF Rename, Continue, HostCalls
    <2>3. Draft' = file'
      BY <2>2 DEF Draft, Shadow, NandInv, CommitOK
    <2> QED
      BY <2>1, <2>2, <2>3 DEF Promised!Publish
  <1>6. CASE SyncDirectory
    <2>1. /\ Draft = file /\ file # NoFile
          /\ UNCHANGED <<platform, file, handle>> /\ onDisk' = {file} /\ bare' \in {FALSE, bare}
      BY <1>6 DEF SyncDirectory, Draft, Shadow, NandInv, CommitOK, NandTypeOK
    <2>2. Draft' = NoFile /\ answer' = "ok"
      BY <1>6, HandleRecords DEF SyncDirectory, Answer, Draft, Shadow, NandInv, CommitOK
    <2> QED
      BY <2>1, <2>2 DEF Promised!Acknowledge
  <1>7. CASE DiscardScratch
    <2>1. /\ UNCHANGED <<platform, file, onDisk, bare>>
          /\ Draft' = NoFile /\ answer' = "error"
      BY <1>7, HandleRecords DEF DiscardScratch, Answer, Draft, Shadow, NandInv, CommitOK
    <2> QED
      BY <2>1 DEF Promised!Abandon
  <1> QED
    BY <1>1, <1>2, <1>3, <1>4, <1>5, <1>6, <1>7 DEF Committing

LEMMA RestartRefines ==
  ASSUME Crash \/ PowerLoss
  PROVE  AbstractStep
  <1>1. Draft' = NoFile /\ UNCHANGED <<platform, answer, bare>>
    BY HandleRecords DEF Crash, PowerLoss, Restart, history, Draft
  <1>2. CASE Crash
    BY <1>1, <1>2 DEF Crash, fileSystem, AbstractStep, Promised!Promise, Promised!ANext, Promised!Abandon
  <1>3. CASE PowerLoss
    BY <1>1, <1>3 DEF PowerLoss, AbstractStep, Promised!Promise, Promised!ANext, Promised!PowerLoss
  <1> QED
    BY <1>2, <1>3

\* The open, write and close of a NAND file, their failures, the end of the
\* program and a loss of power at every point implement AtomicFile.
THEOREM NandImplementsAtomicFile == NandSpec => ImplementsAtomicFile
  <1>1. NandInit => Promised!AInit
    BY ContentsAreFiles, HandleRecords DEF NandInit, Promised!AInit, Draft
  <1>2. ASSUME NandInv, NandInv', [NandNext]_nvars PROVE AbstractStep
    <2>1. CASE UNCHANGED nvars
      BY <2>1, DraftSame, StutterStep DEF nvars, fileSystem, history, Shadow
    <2>2. CASE CreateFile \/ RemoveFile
      BY <2>2, BareStep DEF CreateFile, RemoveFile, ChangeFile
    <2> QED
      BY <1>2, <2>1, <2>2, OpenRefines, WriteRefines, CloseRefines, CommitRefines, RestartRefines
      DEF NandNext
  <1> QED
    BY <1>1, <1>2, NandInvariant, PTL DEF NandSpec, ImplementsAtomicFile, Promised!ASpec, AbstractStep

-----------------------------------------------------------------------------
(* The download of a pack.                                                 *)

\* The files of the entries before place i.
Before(a, i) == {Entries(a)[n] : n \in 1 .. i - 1}
Holds(pack, a, i) == \A f \in Before(a, i) : pack.has[f] = Unpacked[a][f]

\* What a run that goes on with archive a skips is there.
Resumes(pack, a) ==
  pack.state.archive = a =>
    pack.state.next <= Len(Entries(a)) + 1 /\ Holds(pack, a, pack.state.next)

\* Code.pul comes last, or there is no pack that needs both updates.
CourseFirst == CodePlace >= 2 \/ "6.13.1" \notin InstalledPacks

\* The installed pack, and the one that stepped aside.
PackOK(pack) ==
  /\ pack.there \/ pack = NoDir
  /\ pack.state.archive # "full"
  /\ pack.state.archive = "6.13.4.zip" => pack.has.code # "6.13.1"
  /\ Resumes(pack, "6.13.4.zip")
  /\ pack.has.code = "6.13.1" => Resumes(pack, "6.13.3.zip")
  /\ pack.has.version = "6.13.1" => "6.13.1" \in InstalledPacks
  /\ CourseFirst /\ pack.has.code \in {"6.13.3", Latest} => pack.has.course = "6.13.3"

\* The directory of a full download.
PartialOK(pack) ==
  /\ pack.there \/ pack = NoDir
  /\ pack.state.archive \in {"none", "cut", "full"}
  /\ Resumes(pack, "full")
  /\ pack.has.version # "6.13.1"

FullRun == job.work = "partial" /\ job.stages = << "full" >>
UpdateRun == job.work = "target" /\ job.stages \in {Updates, << Last(Updates) >>}

\* Before an archive is opened.
TableOK ==
  job.at = "table" =>
    /\ WorkDir.state.archive = Archive => job.saved = WorkDir.state
    /\ job.saved.archive = Archive =>
         /\ WorkDir.there /\ job.saved.next <= Len(Entries(Archive)) + 1
         /\ Holds(WorkDir, Archive, job.saved.next)
    /\ Archive = "6.13.3.zip" => WorkDir.has.code = "6.13.1"

\* While it is unpacked.
StreamOK ==
  job.at = "stream" =>
    /\ WorkDir.there /\ job.saved = NoState
    /\ job.index <= Len(Entries(Archive)) + 1
    /\ Holds(WorkDir, Archive, job.index)
    /\ WorkDir.state.archive = Archive => WorkDir.state.next <= job.index
    /\ Archive = "6.13.3.zip" /\ "code" \notin Before(Archive, job.index) =>
         WorkDir.has.code \in {"6.13.1", Bad}

Updatable(pack) ==
  /\ Archive = "6.13.3.zip" => pack.state.archive # "6.13.4.zip"
  /\ Archive = "6.13.4.zip" => pack.has.code # "6.13.1" /\ (CourseFirst => pack.has.course = "6.13.3")

UpdateOK ==
  job.at # "idle" /\ job.work = "target" =>
    /\ disk.target.there
    /\ Archive = "6.13.3.zip" => "6.13.1" \in InstalledPacks
    /\ Updatable(disk.target)

\* After the last archive.
GoingLiveOK ==
  /\ job.at \in {"check", "stamp"} =>
       /\ Len(job.stages) = 1 /\ WorkDir.there
       /\ job.work = "partial" => WorkDir.has.course = "6.13.3"
  /\ job.at = "stamp" => WorkDir.has.code = Latest /\ WorkDir.state = NoState
  /\ job.at \in {"clear", "aside", "live", "tidy"} => job.work = "partial"
  /\ job.at \in {"clear", "aside", "live"} => Whole(disk.partial) /\ disk.partial.state = NoState
  /\ job.at = "live" => ~disk.target.there
  /\ job.at = "tidy" => Whole(disk.target)

Finished ==
  job.result = "ok" => job.at = "idle" /\ (CourseFirst => Whole(disk.target))

Dirs == {"target", "partial", "old"}
DirRecords == [there : BOOLEAN, has : [PackFiles -> Releases], state : States]
JobRecords ==
  [at : {"idle", "table", "stream", "check", "stamp", "clear", "aside", "live", "tidy"},
   stages : {<< >>, << "full" >>, Updates, << Last(Updates) >>}, work : {"target", "partial"},
   index : 1 .. 4, failures : 0 .. MaxFailures - 1, saved : States,
   result : {"none", "ok", "error"}]

DisksOK ==
  /\ disk \in [Dirs -> DirRecords]
  /\ PackOK(disk.target) /\ PackOK(disk.old) /\ PartialOK(disk.partial)

JobOK ==
  /\ job \in JobRecords
  /\ job.at # "idle" => FullRun \/ UpdateRun
  /\ TableOK /\ StreamOK /\ UpdateOK /\ GoingLiveOK /\ Finished

DownloadInv == DisksOK /\ JobOK

-----------------------------------------------------------------------------
(* Facts about the data.                                                   *)

LEMMA ArchiveFiles ==
  /\ Unpacked["full"] = [course |-> "6.13.3", version |-> "6.13.3", code |-> Latest]
  /\ Unpacked["6.13.3.zip"] = [course |-> "6.13.3", version |-> "6.13.2", code |-> "6.13.3"]
  /\ Unpacked["6.13.4.zip"] = [version |-> "6.13.3", code |-> Latest]
  /\ Unpacked.full.course = "6.13.3"
  /\ \A a \in Archives : /\ DOMAIN Unpacked[a] = PackFiles \ (IF a = "6.13.4.zip" THEN {"course"} ELSE {})
                         /\ \A f \in DOMAIN Unpacked[a] : Unpacked[a][f] \in Releases \ {Bad, "6.13.1"}
BY DEF Unpacked, Archives, Releases, Latest, Bad, PackFiles

\* An archive holds each of its files once, Code.pul where CodePlace puts it.
LEMMA EntriesList ==
  ASSUME NEW a \in Archives
  PROVE  /\ Entries(a) \in Seq(PackFiles)
         /\ Len(Entries(a)) = IF a = "6.13.4.zip" THEN 2 ELSE 3
         /\ IsInjective(Entries(a))
         /\ ToSet(Entries(a)) = DOMAIN Unpacked[a]
         /\ CodePlace >= 2 /\ a # "6.13.4.zip" => Entries(a)[1] = "course"
<1> DEFINE others == IF a = "6.13.4.zip" THEN << "version" >> ELSE << "course", "version" >>
           place == IF CodePlace > Len(others) THEN Len(others) + 1 ELSE CodePlace
<1>1. /\ others \in Seq(PackFiles)
      /\ Len(others) = IF a = "6.13.4.zip" THEN 1 ELSE 2
      /\ others[1] = IF a = "6.13.4.zip" THEN "version" ELSE "course"
  <2>1. CASE a = "6.13.4.zip"
    <3>1. others = << "version" >>
      BY <2>1
    <3> QED
      BY <3>1, <2>1 DEF PackFiles
  <2>2. CASE a # "6.13.4.zip"
    <3>1. others = << "course", "version" >>
      BY <2>2
    <3> QED
      BY <3>1, <2>2 DEF PackFiles
  <2> QED
    BY <2>1, <2>2
<1>2. ToSet(others) = DOMAIN Unpacked[a] \ {"code"} /\ IsInjective(others)
  <2>1. CASE a = "6.13.4.zip"
    <3>1. others = << "version" >>
      BY <2>1
    <3> QED
      BY <3>1, <2>1, ArchiveFiles DEF ToSet, IsInjective, PackFiles
  <2>2. CASE a # "6.13.4.zip"
    <3>1. others = << "course", "version" >>
      BY <2>2
    <3>2. DOMAIN others = {1, 2}
      BY <3>1
    <3>3. ToSet(others) = {"course", "version"}
      BY <3>1, <3>2 DEF ToSet
    <3>4. IsInjective(others)
      BY <3>1, <3>2 DEF IsInjective
    <3> QED
      BY <3>3, <3>4, <2>2, ArchiveFiles DEF PackFiles
  <2> QED
    BY <2>1, <2>2
<1>3. Entries(a) = InsertAt(others, place, "code")
  BY DEF Entries
<1> HIDE DEF others
<1>4. place \in 1 .. Len(others) + 1 /\ (CodePlace >= 2 /\ a # "6.13.4.zip" => place >= 2)
  <2>1. CodePlace \in Nat /\ CodePlace >= 1
    BY DownloadAssumption
  <2>2. Len(others) \in Nat /\ (a # "6.13.4.zip" => Len(others) = 2)
    BY <1>1
  <2> QED
    BY <2>1, <2>2
<1> HIDE DEF place
<1>5. "code" \in PackFiles /\ "code" \in DOMAIN Unpacked[a] /\ "code" \notin ToSet(others)
  BY <1>2, ArchiveFiles DEF PackFiles
<1>6. /\ Entries(a) \in Seq(PackFiles) /\ Len(Entries(a)) = Len(others) + 1
      /\ \A j \in 1 .. Len(others) + 1 :
           Entries(a)[j] = IF j < place THEN others[j] ELSE IF j = place THEN "code" ELSE others[j - 1]
      /\ ToSet(Entries(a)) = ToSet(others) \cup {"code"}
      /\ IsInjective(Entries(a))
  <2>1. /\ others \in Seq(PackFiles) /\ place \in 1 .. Len(others) + 1
        /\ "code" \in PackFiles /\ IsInjective(others) /\ "code" \notin ToSet(others)
    BY <1>1, <1>2, <1>4, <1>5
  <2> DEFINE u == InsertAt(others, place, "code")
  <2>2. /\ u \in Seq(PackFiles) /\ Len(u) = Len(others) + 1
        /\ \A j \in 1 .. Len(others) + 1 :
             u[j] = IF j < place THEN others[j] ELSE IF j = place THEN "code" ELSE others[j - 1]
        /\ ToSet(u) = ToSet(others) \cup {"code"}
        /\ IsInjective(u)
    BY <2>1, ListWith
  <2>3. Entries(a) = u
    BY <1>3
  <2> HIDE DEF u
  <2> QED
    BY <2>2, <2>3
<1>7. CodePlace >= 2 /\ a # "6.13.4.zip" => Entries(a)[1] = "course"
  <2>1. 1 \in 1 .. Len(others) + 1
    BY <1>4
  <2> QED
    BY <2>1, <1>1, <1>4, <1>6
<1>8. Len(Entries(a)) = IF a = "6.13.4.zip" THEN 2 ELSE 3
  BY <1>1, <1>6
<1>9. ToSet(Entries(a)) = DOMAIN Unpacked[a]
  BY <1>2, <1>5, <1>6
<1> QED
  BY <1>6, <1>7, <1>8, <1>9

\* The files before a place: each entry adds its own, the last one completes them.
LEMMA EntriesBefore ==
  ASSUME NEW a \in Archives
  PROVE  /\ Before(a, 1) = {}
         /\ \A i \in 1 .. Len(Entries(a)) :
              /\ Entries(a)[i] \in PackFiles /\ Entries(a)[i] \in DOMAIN Unpacked[a]
              /\ Entries(a)[i] \notin Before(a, i)
              /\ Before(a, i + 1) = Before(a, i) \cup {Entries(a)[i]}
         /\ \A i, j \in Nat : i <= j => Before(a, i) \subseteq Before(a, j)
         /\ \A i \in 1 .. Len(Entries(a)) + 1 : Before(a, i) \subseteq DOMAIN Unpacked[a]
         /\ Before(a, Len(Entries(a)) + 1) = DOMAIN Unpacked[a]
<1>1. Len(Entries(a)) \in Nat /\ DOMAIN Entries(a) = 1 .. Len(Entries(a))
  BY EntriesList, LenProperties
<1>2. Before(a, 1) = {}
  BY DEF Before
<1>3. ASSUME NEW i \in 1 .. Len(Entries(a))
      PROVE  /\ Entries(a)[i] \in PackFiles /\ Entries(a)[i] \in DOMAIN Unpacked[a]
             /\ Entries(a)[i] \notin Before(a, i)
             /\ Before(a, i + 1) = Before(a, i) \cup {Entries(a)[i]}
  <2>1. Entries(a)[i] \in DOMAIN Unpacked[a]
    BY <1>1, EntriesList DEF ToSet
  <2>2. Entries(a)[i] \in PackFiles
    BY <2>1, ArchiveFiles
  <2>3. Entries(a)[i] \notin Before(a, i)
    BY <1>1, EntriesList DEF Before, IsInjective
  <2>4. \A n : n \in 1 .. (i + 1) - 1 <=> n \in 1 .. i - 1 \/ n = i
    BY <1>1
  <2>5. Before(a, i + 1) = Before(a, i) \cup {Entries(a)[i]}
    BY <2>4 DEF Before
  <2> QED
    BY <2>1, <2>2, <2>3, <2>5
<1>4. ASSUME NEW i \in Nat, NEW j \in Nat, i <= j
      PROVE  Before(a, i) \subseteq Before(a, j)
  BY <1>4 DEF Before
<1>5. Before(a, Len(Entries(a)) + 1) = DOMAIN Unpacked[a]
  <2>1. (Len(Entries(a)) + 1) - 1 = Len(Entries(a))
    BY <1>1
  <2> QED
    BY <1>1, <2>1, EntriesList DEF Before, ToSet
<1>6. ASSUME NEW i \in 1 .. Len(Entries(a)) + 1
      PROVE  Before(a, i) \subseteq DOMAIN Unpacked[a]
  BY <1>1, <1>4, <1>5
<1> QED
  BY <1>2, <1>3, <1>4, <1>5, <1>6

\* With Code.pul in the last places the others are unpacked when it is.
LEMMA CodeAfterCourse ==
  ASSUME CodePlace >= 2, NEW i \in 1 .. Len(Entries("6.13.3.zip"))
  PROVE  /\ Entries("6.13.3.zip")[i] = "code" => "course" \in Before("6.13.3.zip", i)
         /\ Entries("6.13.3.zip")[i] = "course" => "code" \notin Before("6.13.3.zip", i)
<1> DEFINE e == Entries("6.13.3.zip")
<1>1. "6.13.3.zip" \in Archives
  BY DEF Archives
<1>2. /\ e \in Seq(PackFiles) /\ Len(e) = 3 /\ IsInjective(e) /\ e[1] = "course"
  BY <1>1, EntriesList
<1>3. DOMAIN e = 1 .. 3
  BY <1>2, LenProperties
<1> HIDE DEF e
<1>4. i \in 1 .. 3
  BY <1>2 DEF e
<1>5. e[i] = "code" => \E n \in 1 .. i - 1 : "course" = e[n]
  <2> SUFFICES ASSUME e[i] = "code" PROVE 1 \in 1 .. i - 1
    BY <1>2
  <2> QED
    BY <1>2, <1>4
<1>6. e[i] = "course" => i = 1
  BY <1>2, <1>3, <1>4 DEF IsInjective
<1> QED
  BY <1>5, <1>6 DEF Before, e

\* The updates a pack gets, and those an interrupted run has left.
LEMMA UpdateLists ==
  /\ Updates \in Seq(Archives) /\ Len(Updates) = 2
  /\ Updates[1] = "6.13.3.zip" /\ Updates[2] = "6.13.4.zip" /\ Last(Updates) = "6.13.4.zip"
  /\ Head(Updates) = "6.13.3.zip" /\ Tail(Updates) = << Last(Updates) >>
  /\ SubSeq(Updates, 1, Len(Updates)) = Updates
  /\ SubSeq(Updates, 2, Len(Updates)) = << Last(Updates) >>
<1>1. Updates = << "6.13.3.zip", "6.13.4.zip" >> /\ Len(Updates) = 2
  BY DEF Updates
<1>2. Updates \in Seq(Archives)
  BY <1>1 DEF Archives
<1>3. Last(Updates) = "6.13.4.zip" /\ Head(Updates) = "6.13.3.zip" /\ Tail(Updates) = << Last(Updates) >>
  BY <1>1 DEF Last
<1>4. SubSeq(Updates, 1, 2) = Updates /\ SubSeq(Updates, 2, 2) = << Last(Updates) >>
  <2>1. /\ SubSeq(Updates, 1, 2) \in Seq(Archives) /\ Len(SubSeq(Updates, 1, 2)) = 2
        /\ \A i \in 1 .. 2 : SubSeq(Updates, 1, 2)[i] = Updates[i]
    <3>1. \A i \in 1 .. 2 : Updates[i] \in Archives
      BY <1>1 DEF Archives
    <3>2. /\ SubSeq(Updates, 1, 2) \in Seq(Archives)
          /\ Len(SubSeq(Updates, 1, 2)) = IF 1 <= 2 THEN 2 - 1 + 1 ELSE 0
          /\ \A i \in 1 .. 2 - 1 + 1 : SubSeq(Updates, 1, 2)[i] = Updates[1 + i - 1]
      BY <3>1, SubSeqProperties
    <3> QED
      BY <3>2
  <2>2. SubSeq(Updates, 1, 2) = Updates
    BY <1>1, <1>2, <2>1, SeqEqual
  <2>3. SubSeq(Updates, 2, 2) = << Last(Updates) >>
    <3>1. \A i \in 2 .. 2 : Updates[i] \in Archives
      BY <1>1 DEF Archives
    <3>2. /\ SubSeq(Updates, 2, 2) \in Seq(Archives)
          /\ Len(SubSeq(Updates, 2, 2)) = IF 2 <= 2 THEN 2 - 2 + 1 ELSE 0
          /\ \A i \in 1 .. 2 - 2 + 1 : SubSeq(Updates, 2, 2)[i] = Updates[2 + i - 1]
      BY <3>1, SubSeqProperties
    <3>3. /\ Len(SubSeq(Updates, 2, 2)) = 1
          /\ SubSeq(Updates, 2, 2)[1] = "6.13.4.zip"
      BY <3>2, <1>1
    <3>4. << Last(Updates) >> \in Seq(Archives) /\ Len(<< Last(Updates) >>) = 1
          /\ << Last(Updates) >>[1] = "6.13.4.zip"
      BY <1>3 DEF Archives
    <3> DEFINE newest == SubSeq(Updates, 2, 2)
    <3>5. newest \in Seq(Archives) /\ Len(newest) = 1 /\ newest[1] = "6.13.4.zip"
      BY <3>2, <3>3
    <3> HIDE DEF newest
    <3>6. \A i \in 1 .. Len(newest) : newest[i] = << Last(Updates) >>[i]
      BY <3>4, <3>5
    <3>7. newest = << Last(Updates) >>
      BY <3>4, <3>5, <3>6, SeqEqual
    <3> QED
      BY <3>7 DEF newest
  <2> QED
    BY <2>2, <2>3
<1> QED
  BY <1>1, <1>2, <1>3, <1>4

LEMMA UpdatesForPack ==
  ASSUME NEW pack \in DirRecords
  PROVE  /\ UpdatesFor(pack) \in {<< >>, Updates, << Last(Updates) >>}
         /\ UpdatesFor(pack) = Updates => pack.has.code = "6.13.1" /\ pack.has.version = "6.13.1"
         /\ UpdatesFor(pack) = << Last(Updates) >> => pack.has.code \in {"6.13.3", Latest}
<1>1. << Last(Updates) >> # Updates /\ << Last(Updates) >> # << >> /\ Updates # << >>
  BY DEF Updates, Last
<1>2. CASE pack.has.code = Latest
  <2>1. UpdatesFor(pack) \in {<< Last(Updates) >>, << >>}
    BY <1>2 DEF UpdatesFor
  <2> QED
    BY <1>1, <1>2, <2>1
<1>3. CASE pack.has.code # Latest
  <2> DEFINE fits == {i \in DOMAIN Updates : /\ pack.has.code = UpdateFrom[i].code
                                             /\ pack.has.version \in UpdateFrom[i].versions}
  <2>1. UpdatesFor(pack) = IF fits = {} THEN << >> ELSE SubSeq(Updates, Min(fits), Len(Updates))
    BY <1>3 DEF UpdatesFor
  <2>2. /\ 1 \in fits <=> pack.has.code = "6.13.1" /\ pack.has.version = "6.13.1"
        /\ 2 \in fits => pack.has.code = "6.13.3"
        /\ fits \subseteq {1, 2}
    BY DEF Updates, UpdateFrom
  <2>3. fits # {} => Min(fits) \in fits
    <3>1. fits \in SUBSET Nat
      BY <2>2
    <3> HIDE DEF fits
    <3> QED
      BY <3>1, LeastElement
  <2> HIDE DEF fits
  <2>4. CASE fits = {}
    BY <1>1, <2>1, <2>4
  <2>5. CASE fits # {} /\ Min(fits) = 1
    BY <1>1, <2>1, <2>2, <2>3, <2>5, UpdateLists
  <2>6. CASE fits # {} /\ Min(fits) = 2
    BY <1>1, <2>1, <2>2, <2>3, <2>6, UpdateLists
  <2> QED
    BY <2>2, <2>3, <2>4, <2>5, <2>6
<1> QED
  BY <1>2, <1>3

LEMMA StagesOfUpdate ==
  ASSUME NEW saved
  PROVE  /\ StagesLeft(Updates, saved) =
              IF saved.archive = "6.13.4.zip" THEN << Last(Updates) >> ELSE Updates
         /\ \A a \in Archives : StagesLeft(<< a >>, saved) = << a >>
<1>1. ASSUME NEW a \in Archives
      PROVE  StagesLeft(<< a >>, saved) = << a >>
  BY DEF StagesLeft
<1> DEFINE later == {i \in 2 .. Len(Updates) : Updates[i] = saved.archive}
<1>2. StagesLeft(Updates, saved) = IF later = {} THEN Updates ELSE SubSeq(Updates, Min(later), Len(Updates))
  BY DEF StagesLeft
<1>3. later = IF saved.archive = "6.13.4.zip" THEN {2} ELSE {}
  BY UpdateLists
<1>4. Min({2}) = 2
  <2>1. {2} \in SUBSET Nat
    OBVIOUS
  <2> QED
    BY <2>1, LeastElement
<1> QED
  BY <1>1, <1>2, <1>3, <1>4, UpdateLists

LEMMA StateRecords ==
  /\ NoState \in States /\ CutState \in States
  /\ NoState.archive = "none" /\ CutState.archive = "cut"
  /\ \A a \in Archives, n \in 1 .. 4 : [archive |-> a, next |-> n] \in States
  /\ \A s \in States : s.next \in 1 .. 4 /\ s.archive \in Archives \cup {"none", "cut"}
BY DEF NoState, CutState, States

LEMMA PackRecords ==
  /\ NoDir \in DirRecords /\ Empty \in DirRecords
  /\ NoDir.state = NoState /\ ~NoDir.there /\ \A f \in PackFiles : NoDir.has[f] = Bad
  /\ Empty.state = NoState /\ Empty.there /\ \A f \in PackFiles : Empty.has[f] = Bad
  /\ \A r \in InstalledPacks :
       Pack(r) \in DirRecords /\ Pack(r).there /\ Pack(r).state = NoState
<1>1. Bad \in Releases /\ \A f \in PackFiles : [g \in PackFiles |-> Bad][f] = Bad
  BY DEF Releases
<1>2. [f \in PackFiles |-> Bad] \in [PackFiles -> Releases]
  BY <1>1
<1>3. /\ Empty \in DirRecords
      /\ Empty.state = NoState /\ Empty.there /\ \A f \in PackFiles : Empty.has[f] = Bad
  BY <1>1, <1>2, StateRecords DEF Empty, Dir, DirRecords
<1>4. NoDir \in [there : BOOLEAN, has : {[f \in PackFiles |-> Bad]}, state : {NoState}] /\ ~NoDir.there
  <2> DEFINE files == [f \in PackFiles |-> Bad]
  <2>1. Empty \in [there : BOOLEAN, has : {files}, state : {NoState}]
    BY DEF Empty, Dir
  <2> HIDE DEF files
  <2>2. NoDir \in [there : BOOLEAN, has : {files}, state : {NoState}] /\ ~NoDir.there
    BY <2>1 DEF NoDir
  <2> QED
    BY <2>2 DEF files
<1>5. /\ NoDir \in DirRecords
      /\ NoDir.state = NoState /\ ~NoDir.there /\ \A f \in PackFiles : NoDir.has[f] = Bad
  BY <1>1, <1>2, <1>4, StateRecords DEF DirRecords
<1>6. ASSUME NEW r \in InstalledPacks
      PROVE  Pack(r) \in DirRecords /\ Pack(r).there /\ Pack(r).state = NoState
  <2>1. r \in Releases
    BY DownloadAssumption
  <2>2. [code |-> IF r = "6.13.0" THEN "6.13.1" ELSE r, version |-> r,
         course |-> IF r \in {"6.13.0", "6.13.1"} THEN r ELSE "6.13.3"] \in [PackFiles -> Releases]
    BY <2>1 DEF PackFiles, Releases
  <2> QED
    BY <2>2, StateRecords DEF Pack, Dir, DirRecords
<1> QED
  BY <1>3, <1>5, <1>6

LEMMA FreshPacks ==
  /\ PackOK(NoDir) /\ PartialOK(NoDir) /\ PartialOK(Empty)
  /\ \A r \in InstalledPacks : PackOK(Pack(r))
<1>1. {"code", "version", "course"} = PackFiles
  BY DEF PackFiles
<1>2. PartialOK(NoDir) /\ PartialOK(Empty)
  BY <1>1, PackRecords, StateRecords DEF PartialOK, Resumes, Bad
<1>3. PackOK(NoDir)
  BY <1>1, PackRecords, StateRecords DEF PackOK, Resumes, Bad, Latest
<1>4. ASSUME NEW r \in InstalledPacks
      PROVE  PackOK(Pack(r))
  <2>1. r \in Releases \ {Bad}
    BY DownloadAssumption
  <2>2. /\ Pack(r).has.version = r
        /\ Pack(r).has.code = IF r = "6.13.0" THEN "6.13.1" ELSE r
        /\ Pack(r).has.course = IF r \in {"6.13.0", "6.13.1"} THEN r ELSE "6.13.3"
    BY DEF Pack, Dir
  <2> QED
    BY <2>1, <2>2, PackRecords, StateRecords DEF PackOK, Resumes, Releases, Latest
<1> QED
  BY <1>2, <1>3, <1>4

\* A file of a directory and its state file are written, or one of them.
Written(d, w, f, v, s) == [d EXCEPT ![w].has[f] = v, ![w].state = s]
FileWritten(d, w, f, v) == [d EXCEPT ![w].has[f] = v]
StateWritten(d, w, s) == [d EXCEPT ![w].state = s]

LEMMA WrittenDisk ==
  ASSUME NEW d \in [Dirs -> DirRecords], NEW w \in Dirs,
         NEW f \in PackFiles, NEW v \in Releases, NEW s \in States, NEW e,
         \/ e = Written(d, w, f, v, s)
         \/ e = FileWritten(d, w, f, v) /\ s = d[w].state
         \/ e = StateWritten(d, w, s) /\ v = d[w].has[f]
  PROVE  /\ e \in [Dirs -> DirRecords]
         /\ e[w].there = d[w].there /\ e[w].state = s
         /\ e[w].has[f] = v /\ \A g \in PackFiles \ {f} : e[w].has[g] = d[w].has[g]
         /\ \A x \in Dirs \ {w} : e[x] = d[x]
<1> DEFINE q == [there |-> d[w].there, has |-> [d[w].has EXCEPT ![f] = v], state |-> s]
<1>1. d[w] \in DirRecords
  OBVIOUS
<1>2. d[w] = [there |-> d[w].there, has |-> d[w].has, state |-> d[w].state]
      /\ d[w].has \in [PackFiles -> Releases] /\ d[w].there \in BOOLEAN /\ d[w].state \in States
  BY <1>1 DEF DirRecords
<1>3. q \in DirRecords
  BY <1>2 DEF DirRecords
<1>4. [d[w].has EXCEPT ![f] = d[w].has[f]] = d[w].has
  BY <1>2
<1>5. e = [d EXCEPT ![w] = q]
  <2>1. CASE e = Written(d, w, f, v, s)
    BY <2>1, <1>2 DEF Written
  <2>2. CASE e = FileWritten(d, w, f, v) /\ s = d[w].state
    BY <2>2, <1>2 DEF FileWritten
  <2>3. CASE e = StateWritten(d, w, s) /\ v = d[w].has[f]
    BY <2>3, <1>2, <1>4 DEF StateWritten
  <2> QED
    BY <2>1, <2>2, <2>3
<1>6. /\ q.there = d[w].there /\ q.state = s /\ q.has[f] = v
      /\ \A g \in PackFiles \ {f} : q.has[g] = d[w].has[g]
  BY <1>2
<1> HIDE DEF q
<1>7. e[w] = q /\ \A x \in Dirs \ {w} : e[x] = d[x]
  BY <1>5
<1>8. e \in [Dirs -> DirRecords]
  BY <1>3, <1>5
<1> QED
  BY <1>6, <1>7, <1>8

LEMMA StateFileWritten ==
  ASSUME NEW d \in [Dirs -> DirRecords], NEW w \in Dirs, NEW s \in States
  PROVE  /\ StateWritten(d, w, s) \in [Dirs -> DirRecords]
         /\ (StateWritten(d, w, s)[w].there <=> d[w].there) /\ StateWritten(d, w, s)[w].state = s
         /\ \A g \in PackFiles : StateWritten(d, w, s)[w].has[g] = d[w].has[g]
         /\ \A x \in Dirs \ {w} : StateWritten(d, w, s)[x] = d[x]
<1> DEFINE e == StateWritten(d, w, s)
<1> DEFINE f == "code"
           v == d[w].has[f]
<1>1. f \in PackFiles
  BY DEF PackFiles
<1>2. v \in Releases
  BY <1>1 DEF DirRecords
<1>3. \/ e = Written(d, w, f, v, s)
      \/ e = FileWritten(d, w, f, v) /\ s = d[w].state
      \/ e = StateWritten(d, w, s) /\ v = d[w].has[f]
  OBVIOUS
<1>4. v = d[w].has[f]
  OBVIOUS
<1> HIDE DEF e, f, v
<1>5. /\ e \in [Dirs -> DirRecords]
      /\ e[w].there = d[w].there /\ e[w].state = s
      /\ e[w].has[f] = v /\ \A g \in PackFiles \ {f} : e[w].has[g] = d[w].has[g]
      /\ \A x \in Dirs \ {w} : e[x] = d[x]
  BY <1>1, <1>2, <1>3, WrittenDisk
<1> QED
  BY <1>4, <1>5 DEF e

LEMMA VersionWritten ==
  ASSUME NEW d \in [Dirs -> DirRecords], NEW w \in Dirs, NEW v \in Releases
  PROVE  /\ FileWritten(d, w, "version", v) \in [Dirs -> DirRecords]
         /\ (FileWritten(d, w, "version", v)[w].there <=> d[w].there)
         /\ FileWritten(d, w, "version", v)[w].state = d[w].state
         /\ FileWritten(d, w, "version", v)[w].has.version = v /\ FileWritten(d, w, "version", v)[w].has.code = d[w].has.code
         /\ FileWritten(d, w, "version", v)[w].has.course = d[w].has.course
         /\ \A x \in Dirs \ {w} : FileWritten(d, w, "version", v)[x] = d[x]
<1> DEFINE e == FileWritten(d, w, "version", v)
<1> DEFINE f == "version"
           s == d[w].state
<1>1. f \in PackFiles /\ "code" \in PackFiles \ {f} /\ "course" \in PackFiles \ {f}
  BY DEF PackFiles
<1>2. s \in States
  BY DEF DirRecords
<1>3. \/ e = Written(d, w, f, v, s)
      \/ e = FileWritten(d, w, f, v) /\ s = d[w].state
      \/ e = StateWritten(d, w, s) /\ v = d[w].has[f]
  OBVIOUS
<1>4. s = d[w].state /\ f = "version"
  OBVIOUS
<1> HIDE DEF e, f, s
<1>5. /\ e \in [Dirs -> DirRecords]
      /\ e[w].there = d[w].there /\ e[w].state = s
      /\ e[w].has[f] = v /\ \A g \in PackFiles \ {f} : e[w].has[g] = d[w].has[g]
      /\ \A x \in Dirs \ {w} : e[x] = d[x]
  BY <1>1, <1>2, <1>3, WrittenDisk
<1> QED
  BY <1>1, <1>4, <1>5 DEF e

-----------------------------------------------------------------------------
(* The parts of a run.                                                     *)

LEMMA ArchiveOfRun ==
  /\ FullRun => Archive = "full" /\ Archive \in Archives /\ Len(job.stages) = 1
  /\ UpdateRun => /\ Archive \in {"6.13.3.zip", "6.13.4.zip"} /\ Archive \in Archives
                  /\ job.stages = IF Archive = "6.13.3.zip" THEN Updates ELSE << Last(Updates) >>
                  /\ Len(job.stages) = IF Archive = "6.13.3.zip" THEN 2 ELSE 1
<1>1. Head(<< "full" >>) = "full" /\ Len(<< "full" >>) = 1
  OBVIOUS
<1>2. Head(<< Last(Updates) >>) = Last(Updates) /\ Len(<< Last(Updates) >>) = 1
  OBVIOUS
<1> QED
  BY <1>1, <1>2, UpdateLists DEF FullRun, UpdateRun, Archive, Archives

LEMMA NoRunRecord ==
  /\ NoRun \in JobRecords
  /\ NoRun.at = "idle" /\ NoRun.result = "none" /\ NoRun.index = 1 /\ NoRun.failures = 0
  /\ NoRun.saved = NoState /\ NoRun.work = "partial"
  /\ \A r \in {"none", "ok", "error"} :
       /\ [NoRun EXCEPT !.result = r] \in JobRecords
       /\ [NoRun EXCEPT !.result = r].at = "idle" /\ [NoRun EXCEPT !.result = r].result = r
<1>1. 0 \in 0 .. MaxFailures - 1
  BY DownloadAssumption
<1> QED
  BY <1>1, StateRecords DEF NoRun, JobRecords

LEMMA EndedRun ==
  ASSUME NEW r \in {"none", "ok", "error"}, Ends(r),
         r = "ok" => (CourseFirst => Whole(disk.target)')
  PROVE  JobOK'
<1>1. job' \in JobRecords /\ job'.at = "idle" /\ job'.result = r
  BY NoRunRecord DEF Ends
<1>2. TableOK' /\ StreamOK' /\ UpdateOK' /\ GoingLiveOK'
  BY <1>1 DEF TableOK, StreamOK, UpdateOK, Updatable, GoingLiveOK
<1>3. Finished'
  BY <1>1 DEF Finished, CourseFirst
<1> QED
  BY <1>1, <1>2, <1>3 DEF JobOK

LEMMA DownloadInitKeeps == DownloadInit => DownloadInv
<1> SUFFICES ASSUME DownloadInit PROVE DownloadInv
  OBVIOUS
<1>1. /\ disk.target = NoDir \/ \E r \in InstalledPacks : disk.target = Pack(r)
      /\ disk.partial = NoDir /\ disk.old = NoDir
      /\ disk \in [target : {NoDir} \cup {Pack(r) : r \in InstalledPacks}, partial : {NoDir}, old : {NoDir}]
      /\ job = NoRun
  BY DEF DownloadInit
<1>2. disk \in [Dirs -> DirRecords]
  BY <1>1, PackRecords DEF Dirs
<1>3. DisksOK
  BY <1>1, <1>2, FreshPacks DEF DisksOK
<1>4. JobOK
  BY <1>1, NoRunRecord DEF JobOK, TableOK, StreamOK, UpdateOK, Updatable, GoingLiveOK, Finished
<1> QED
  BY <1>3, <1>4 DEF DownloadInv

LEMMA StartRunKeeps == DownloadInv /\ StartRun => DownloadInv'
<1> SUFFICES ASSUME DownloadInv, StartRun PROVE DownloadInv'
  OBVIOUS
<1>1. DisksOK /\ DisksOK'
  BY DEF DownloadInv, DisksOK, StartRun
<1>2. PICK work \in {"partial", "target"} :
        /\ work = IF Stages = << "full" >> THEN "partial" ELSE "target"
        /\ job' = [NoRun EXCEPT !.at = "table", !.work = work, !.saved = disk[work].state,
                                !.stages = StagesLeft(Stages, disk[work].state)]
  BY DEF StartRun
<1>3. disk' = disk /\ disk.target \in DirRecords /\ disk.partial \in DirRecords
  BY <1>1 DEF StartRun, DisksOK, Dirs
<1>4. /\ job'.at = "table" /\ job'.work = work /\ job'.saved = disk[work].state
      /\ job'.stages = StagesLeft(Stages, disk[work].state)
      /\ job'.index = 1 /\ job'.failures = 0 /\ job'.result = "none"
  BY <1>2, NoRunRecord DEF JobRecords
<1>5. disk[work].state \in States
  BY <1>3 DEF DirRecords
<1>6. job' \in JobRecords <=> job'.stages \in {<< >>, << "full" >>, Updates, << Last(Updates) >>}
  BY <1>2, <1>4, <1>5, NoRunRecord DEF JobRecords
<1>7. CASE work = "partial"
  <2>1. Stages = << "full" >>
    BY <1>2, <1>7
  <2>2. job'.stages = << "full" >>
    BY <1>4, <2>1, StagesOfUpdate DEF Archives
  <2>3. FullRun' /\ (Archive = "full")'
    BY <1>4, <1>7, <2>2 DEF FullRun, Archive
  <2>4. WorkDir' = disk.partial
    BY <1>3, <1>4, <1>7 DEF WorkDir
  <2>5. TableOK'
    BY <1>1, <1>4, <1>7, <2>3, <2>4, PackRecords, StateRecords
       DEF TableOK, DisksOK, PartialOK, Resumes
  <2> QED
    BY <1>1, <1>4, <1>6, <1>7, <2>2, <2>3, <2>5
       DEF DownloadInv, JobOK, StreamOK, UpdateOK, Updatable, GoingLiveOK, Finished
<1>8. CASE work = "target"
  <2>1. Stages = UpdatesFor(disk.target) /\ UpdatesFor(disk.target) # << >>
    BY <1>2, <1>8 DEF Stages
  <2>2. /\ Stages \in {Updates, << Last(Updates) >>}
        /\ Stages = Updates => disk.target.has.code = "6.13.1" /\ disk.target.has.version = "6.13.1"
        /\ Stages = << Last(Updates) >> => disk.target.has.code \in {"6.13.3", Latest}
    BY <1>3, <2>1, UpdatesForPack
  <2>3. PackOK(disk.target)
    BY <1>1 DEF DisksOK
  <2>4. job'.stages = Stages
    <3>1. Last(Updates) = "6.13.4.zip" /\ "6.13.4.zip" \in Archives
      BY UpdateLists DEF Archives
    <3>2. CASE Stages = << Last(Updates) >>
      BY <1>4, <3>1, <3>2, StagesOfUpdate
    <3>3. CASE Stages = Updates
      <4>1. disk.target.state.archive # "6.13.4.zip"
        BY <2>2, <2>3, <3>3 DEF PackOK
      <4> QED
        BY <1>4, <1>8, <4>1, <3>3, StagesOfUpdate
    <3> QED
      BY <2>2, <3>2, <3>3
  <2>5. UpdateRun'
    BY <1>4, <1>8, <2>2, <2>4 DEF UpdateRun
  <2>6. /\ Archive' = "6.13.3.zip" => disk.target.has.code = "6.13.1" /\ disk.target.has.version = "6.13.1"
        /\ Archive' = "6.13.4.zip" => disk.target.has.code \in {"6.13.3", Latest}
        /\ Archive' \in {"6.13.3.zip", "6.13.4.zip"}
    <3>1. Archive' = Head(Stages) /\ Head(<< Last(Updates) >>) = Last(Updates)
      BY <2>4 DEF Archive
    <3> QED
      BY <2>2, <3>1, UpdateLists
  <2>7. disk.target.there
    <3>1. disk.target.has.code \in {"6.13.1", "6.13.3", Latest}
      BY <2>2
    <3>2. disk.target # NoDir
      BY <3>1, PackRecords DEF PackFiles, Bad, Latest
    <3> QED
      BY <2>3, <3>2 DEF PackOK
  <2>8. WorkDir' = disk.target
    BY <1>3, <1>4, <1>8 DEF WorkDir
  <2>9. TableOK'
    <3>1. WorkDir'.state.archive = Archive' => Resumes(disk.target, Archive')
      BY <2>3, <2>6, <2>8 DEF PackOK
    <3> QED
      BY <1>4, <1>8, <2>6, <2>7, <2>8, <3>1 DEF TableOK, Resumes, Holds, Before
  <2>10. UpdateOK'
    BY <1>3, <1>4, <2>2, <2>3, <2>6, <2>7, <2>8 DEF UpdateOK, Updatable, PackOK, CourseFirst, Latest
  <2> QED
    BY <1>1, <1>4, <1>6, <1>8, <2>2, <2>4, <2>5, <2>9, <2>10
       DEF DownloadInv, JobOK, StreamOK, GoingLiveOK, Finished
<1> QED
  BY <1>7, <1>8

LEMMA TableFailsKeeps == DownloadInv /\ TableFails => DownloadInv'
<1> SUFFICES ASSUME DownloadInv, TableFails PROVE DownloadInv'
  OBVIOUS
<1>1. DisksOK'
  <2>1. DisksOK
    BY DEF DownloadInv
  <2>2. disk' = disk \/ disk' = [disk EXCEPT !.partial = NoDir]
    BY DEF TableFails
  <2>3. disk' \in [Dirs -> DirRecords] /\ disk'.target = disk.target /\ disk'.old = disk.old
        /\ (disk'.partial = disk.partial \/ disk'.partial = NoDir)
    BY <2>1, <2>2, PackRecords DEF DisksOK, Dirs
  <2> QED
    BY <2>1, <2>3, FreshPacks DEF DisksOK
<1>2. JobOK'
  BY EndedRun DEF TableFails
<1> QED
  BY <1>1, <1>2 DEF DownloadInv

LEMMA OpenArchiveKeeps == DownloadInv /\ OpenArchive => DownloadInv'
<1> SUFFICES ASSUME DownloadInv, OpenArchive PROVE DownloadInv'
  OBVIOUS
<1>1. DisksOK /\ JobOK /\ job \in JobRecords /\ (FullRun \/ UpdateRun) /\ job.at = "table"
  BY DEF DownloadInv, JobOK, OpenArchive
<1>2. /\ job' = [job EXCEPT !.at = "stream", !.index = FirstEntry, !.failures = 0, !.saved = NoState]
      /\ disk' = IF StartsClean THEN [disk EXCEPT !.partial = Empty] ELSE disk
  BY DEF OpenArchive
<1>3. Archive \in Archives
  BY <1>1, ArchiveOfRun
<1>4. job.saved \in States /\ disk \in [Dirs -> DirRecords]
  BY <1>1 DEF JobRecords, DisksOK
<1>5. FirstEntry \in 1 .. 4
  BY <1>4, StateRecords DEF FirstEntry
<1>6. /\ job' \in JobRecords /\ job'.at = "stream" /\ job'.work = job.work /\ job'.stages = job.stages
      /\ job'.index = FirstEntry /\ job'.result = job.result /\ job'.saved = NoState
  <2>1. 0 \in 0 .. MaxFailures - 1
    BY DownloadAssumption
  <2> QED
    BY <1>1, <1>2, <1>5, <2>1, StateRecords DEF JobRecords
<1>7. Archive' = Archive /\ FullRun' = FullRun /\ UpdateRun' = UpdateRun
  BY <1>6 DEF Archive, FullRun, UpdateRun
<1>8. /\ disk' \in [Dirs -> DirRecords]
      /\ disk'.target = disk.target /\ disk'.old = disk.old
      /\ disk'.partial = IF StartsClean THEN Empty ELSE disk.partial
  BY <1>2, <1>4, PackRecords DEF Dirs
<1>9. DisksOK'
  BY <1>1, <1>8, FreshPacks DEF DisksOK
<1>10. StreamOK'
  <2>1. Len(Entries(Archive)) \in Nat
    BY <1>3, EntriesList
  <2>2. Before(Archive, 1) = {}
    BY <1>3, EntriesBefore
  <2>3. TableOK
    BY <1>1 DEF JobOK
  <2>4. CASE StartsClean
    <3>1. job.work = "partial" /\ Archive = "full" /\ FirstEntry = 1
      BY <2>4, <1>1, ArchiveOfRun DEF StartsClean, FullRun, UpdateRun
    <3>2. WorkDir' = Empty
      BY <1>6, <1>8, <2>4, <3>1 DEF WorkDir
    <3> QED
      BY <1>6, <1>7, <2>1, <2>2, <3>1, <3>2, PackRecords, StateRecords DEF StreamOK, Holds
  <2>5. CASE ~StartsClean
    <3>1. WorkDir' = WorkDir
      BY <1>1, <1>2, <1>6, <2>5 DEF WorkDir
    <3>2. CASE job.saved.archive = Archive
      <4>1. FirstEntry = job.saved.next
        BY <3>2 DEF FirstEntry
      <4>2. /\ WorkDir.there /\ job.saved.next <= Len(Entries(Archive)) + 1
            /\ Holds(WorkDir, Archive, job.saved.next)
            /\ WorkDir.state.archive = Archive => WorkDir.state.next = job.saved.next
            /\ Archive = "6.13.3.zip" => WorkDir.has.code = "6.13.1"
        BY <1>1, <2>3, <3>2 DEF TableOK
      <4> QED
        BY <1>4, <1>6, <1>7, <3>1, <4>1, <4>2, StateRecords DEF StreamOK, Holds, Before
    <3>3. CASE job.saved.archive # Archive
      <4>1. FirstEntry = 1
        BY <3>3 DEF FirstEntry
      <4>2. WorkDir.there
        <5>1. Archive # "full"
          BY <2>5, <4>1 DEF StartsClean
        <5>2. job.work = "target"
          BY <1>1, <5>1, ArchiveOfRun DEF UpdateRun
        <5> QED
          BY <1>1, <5>2 DEF JobOK, UpdateOK, Updatable, WorkDir
      <4>3. /\ WorkDir.state.archive # Archive
            /\ Archive = "6.13.3.zip" => WorkDir.has.code = "6.13.1"
        BY <1>1, <2>3, <3>3 DEF TableOK
      <4> QED
        BY <1>6, <1>7, <2>1, <2>2, <3>1, <4>1, <4>2, <4>3 DEF StreamOK, Holds
    <3> QED
      BY <3>2, <3>3
  <2> QED
    BY <2>4, <2>5
<1>11. UpdateOK'
  BY <1>1, <1>6, <1>7, <1>8 DEF JobOK, UpdateOK, Updatable
<1> QED
  BY <1>1, <1>6, <1>7, <1>9, <1>10, <1>11
     DEF DownloadInv, JobOK, TableOK, GoingLiveOK, Finished

LEMMA StreamFacts ==
  ASSUME DownloadInv, Streaming
  PROVE  /\ job \in JobRecords /\ job.work \in {"target", "partial"} /\ (FullRun \/ UpdateRun)
         /\ disk \in [Dirs -> DirRecords] /\ WorkDir \in DirRecords /\ WorkDir.there
         /\ Archive \in Archives /\ Len(Entries(Archive)) \in {2, 3}
         /\ job.index \in 1 .. Len(Entries(Archive))
         /\ Entry \in PackFiles /\ Entry \in DOMAIN Unpacked[Archive]
         /\ Entry \notin Before(Archive, job.index)
         /\ Before(Archive, job.index + 1) = Before(Archive, job.index) \cup {Entry}
         /\ Unpacked[Archive][Entry] \in Releases \ {Bad, "6.13.1"}
<1>1. /\ job \in JobRecords /\ (FullRun \/ UpdateRun) /\ disk \in [Dirs -> DirRecords] /\ StreamOK
      /\ job.at = "stream" /\ job.index <= Len(Entries(Archive))
  BY DEF DownloadInv, DisksOK, JobOK, Streaming
<1>2. job.work \in {"target", "partial"} /\ job.index \in 1 .. 4
  BY <1>1 DEF JobRecords
<1>3. WorkDir \in DirRecords /\ WorkDir.there
  BY <1>1, <1>2 DEF WorkDir, StreamOK, Dirs
<1>4. Archive \in Archives
  BY <1>1, ArchiveOfRun
<1>5. Len(Entries(Archive)) \in {2, 3}
  BY <1>4, EntriesList
<1>6. job.index \in 1 .. Len(Entries(Archive))
  BY <1>1, <1>2, <1>5
<1>7. /\ Entry \in PackFiles /\ Entry \in DOMAIN Unpacked[Archive]
      /\ Entry \notin Before(Archive, job.index)
      /\ Before(Archive, job.index + 1) = Before(Archive, job.index) \cup {Entry}
  BY <1>4, <1>6, EntriesBefore DEF Entry
<1>8. Unpacked[Archive][Entry] \in Releases \ {Bad, "6.13.1"}
  BY <1>4, <1>7, ArchiveFiles
<1> QED
  BY <1>1, <1>2, <1>3, <1>4, <1>5, <1>6, <1>7, <1>8

\* An entry that is written, whole (then n is the next entry) or not: the
\* directory stays one that a run can go on with at n.
LEMMA WrittenEntry ==
  ASSUME DownloadInv, Streaming,
         NEW v, NEW n, NEW s \in StateFiles(n),
         \/ n = job.index + 1 /\ v = Unpacked[Archive][Entry]
         \/ n = job.index /\ v \in {WorkDir.has[Entry], Bad},
         \/ disk' = Written(disk, job.work, Entry, v, s)
         \/ disk' = FileWritten(disk, job.work, Entry, v) /\ s = WorkDir.state
         \/ disk' = StateWritten(disk, job.work, s) /\ v = WorkDir.has[Entry]
  PROVE  /\ DisksOK'
         /\ disk'[job.work].there
         /\ n \in 1 .. Len(Entries(Archive)) + 1
         /\ Holds(disk'[job.work], Archive, n)
         /\ disk'[job.work].state.archive = Archive => disk'[job.work].state.next <= n
         /\ Archive = "6.13.3.zip" /\ "code" \notin Before(Archive, n) =>
              disk'[job.work].has.code \in {"6.13.1", Bad}
         /\ job.work = "target" => Updatable(disk'.target)
<1> DEFINE old == disk[job.work]
           new == disk'[job.work]
<1>1. /\ job \in JobRecords /\ job.work \in {"target", "partial"} /\ (FullRun \/ UpdateRun)
      /\ disk \in [Dirs -> DirRecords] /\ old \in DirRecords /\ old.there
      /\ Archive \in Archives /\ Len(Entries(Archive)) \in {2, 3}
      /\ job.index \in 1 .. Len(Entries(Archive))
      /\ Entry \in PackFiles /\ Entry \in DOMAIN Unpacked[Archive]
      /\ Entry \notin Before(Archive, job.index)
      /\ Before(Archive, job.index + 1) = Before(Archive, job.index) \cup {Entry}
      /\ Unpacked[Archive][Entry] \in Releases \ {Bad, "6.13.1"}
  BY StreamFacts DEF WorkDir
<1>2. n \in 1 .. Len(Entries(Archive)) + 1 /\ n \in 1 .. 4 /\ job.index \in Nat /\ job.index <= n
  <2>1. n = job.index + 1 \/ n = job.index
    OBVIOUS
  <2> DEFINE l == Len(Entries(Archive))
             i == job.index
  <2>2. l \in {2, 3} /\ i \in 1 .. l
    BY <1>1
  <2>3. n = i + 1 \/ n = i
    BY <2>1
  <2> HIDE DEF l, i
  <2>4. n \in 1 .. l + 1 /\ n \in 1 .. 4 /\ i \in Nat /\ i <= n
    BY <2>2, <2>3
  <2> QED
    BY <2>4 DEF l, i
<1>3. v \in Releases
  BY <1>1 DEF WorkDir, DirRecords, Releases
<1>4. /\ s \in States
      /\ s.archive = Archive => s = old.state \/ s.next = n
      /\ s.archive # Archive => s.archive = "cut" \/ s = old.state
  <2>1. s \in {[archive |-> Archive, next |-> n], CutState, old.state}
    BY DEF StateFiles, WorkDir
  <2>2. old.state \in States
    BY <1>1 DEF DirRecords
  <2>3. CASE s = [archive |-> Archive, next |-> n]
    <3>1. s \in States
      BY <1>1, <1>2, <2>3, StateRecords
    <3>2. s.archive = Archive /\ s.next = n
      BY <2>3
    <3> QED
      BY <3>1, <3>2
  <2>4. CASE s = CutState
    <3>1. s \in States /\ s.archive = "cut" /\ "cut" \notin Archives
      BY <2>4, StateRecords DEF Archives
    <3> QED
      BY <1>1, <3>1
  <2>5. CASE s = old.state
    BY <2>2, <2>5
  <2> QED
    BY <2>1, <2>3, <2>4, <2>5
<1>5. /\ disk' \in [Dirs -> DirRecords]
      /\ new.there /\ new.state = s
      /\ new.has[Entry] = v /\ \A g \in PackFiles \ {Entry} : new.has[g] = old.has[g]
      /\ \A x \in Dirs \ {job.work} : disk'[x] = disk[x]
  <2>1. job.work \in Dirs
    BY <1>1 DEF Dirs
  <2>2. \/ disk' = Written(disk, job.work, Entry, v, s)
        \/ disk' = FileWritten(disk, job.work, Entry, v) /\ s = disk[job.work].state
        \/ disk' = StateWritten(disk, job.work, s) /\ v = disk[job.work].has[Entry]
    BY DEF WorkDir
  <2>3. disk \in [Dirs -> DirRecords] /\ Entry \in PackFiles /\ v \in Releases /\ s \in States
    BY <1>1, <1>3, <1>4
  <2> DEFINE w == job.work
             f == Entry
             d == disk
             e == disk'
  <2>4. /\ d \in [Dirs -> DirRecords] /\ w \in Dirs /\ f \in PackFiles /\ v \in Releases /\ s \in States
        /\ \/ e = Written(d, w, f, v, s)
           \/ e = FileWritten(d, w, f, v) /\ s = d[w].state
           \/ e = StateWritten(d, w, s) /\ v = d[w].has[f]
    BY <2>1, <2>2, <2>3
  <2>5. d[w].there
    BY <1>1
  <2> HIDE DEF w, f, d, e
  <2>6. /\ e \in [Dirs -> DirRecords]
        /\ e[w].there = d[w].there /\ e[w].state = s
        /\ e[w].has[f] = v /\ \A g \in PackFiles \ {f} : e[w].has[g] = d[w].has[g]
        /\ \A x \in Dirs \ {w} : e[x] = d[x]
    BY <2>4, WrittenDisk
  <2> QED
    BY <2>5, <2>6 DEF w, f, d, e
<1>6. /\ Holds(old, Archive, job.index)
      /\ old.state.archive = Archive => old.state.next <= job.index
      /\ Archive = "6.13.3.zip" /\ "code" \notin Before(Archive, job.index) => old.has.code \in {"6.13.1", Bad}
  BY DEF DownloadInv, JobOK, StreamOK, Streaming, WorkDir
<1>7. \A i \in 1 .. Len(Entries(Archive)) + 1 : Before(Archive, i) \subseteq PackFiles
  BY <1>1, EntriesBefore, ArchiveFiles
<1> HIDE DEF old, new
<1>8. Holds(new, Archive, n)
  <2>1. Holds(new, Archive, job.index)
    BY <1>1, <1>5, <1>6, <1>7 DEF Holds
  <2>2. CASE n = job.index + 1 /\ v = Unpacked[Archive][Entry]
    BY <1>1, <1>5, <2>1, <2>2 DEF Holds
  <2> QED
    BY <2>1, <2>2
<1>9. new.state.archive = Archive => new.state.next <= n
  BY <1>2, <1>4, <1>5, <1>6, StateRecords
<1>10. new.state.archive = Archive =>
         new.state.next <= Len(Entries(Archive)) + 1 /\ Holds(new, Archive, new.state.next)
  <2> SUFFICES ASSUME new.state.archive = Archive
               PROVE  new.state.next <= Len(Entries(Archive)) + 1 /\ Holds(new, Archive, new.state.next)
    OBVIOUS
  <2>1. new.state.next \in Nat /\ new.state.next <= n
    BY <1>4, <1>5, <1>9, StateRecords
  <2>2. Before(Archive, new.state.next) \subseteq Before(Archive, n)
    BY <1>1, <1>2, <2>1, EntriesBefore
  <2> QED
    BY <1>1, <1>2, <1>8, <2>1, <2>2 DEF Holds
<1>11. Archive = "6.13.3.zip" /\ "code" \notin Before(Archive, n) => new.has.code \in {"6.13.1", Bad}
  <2> SUFFICES ASSUME Archive = "6.13.3.zip", "code" \notin Before(Archive, n)
               PROVE  new.has.code \in {"6.13.1", Bad}
    OBVIOUS
  <2>1. "code" \in PackFiles /\ "code" \notin Before(Archive, job.index)
    <3>1. Before(Archive, job.index) \subseteq Before(Archive, n)
      BY <1>1, <1>2, EntriesBefore
    <3> QED
      BY <3>1 DEF PackFiles
  <2>2. CASE Entry = "code"
    <3>1. n = job.index
      BY <1>1, <2>2
    <3>2. v \in {old.has.code, Bad}
      BY <3>1, <1>1, <2>2 DEF WorkDir, old
    <3> QED
      BY <1>5, <1>6, <2>1, <2>2, <3>2
  <2>3. CASE Entry # "code"
    BY <1>5, <1>6, <2>1, <2>3
  <2> QED
    BY <2>2, <2>3
<1>12. v \in {old.has[Entry], Bad, Unpacked[Archive][Entry]}
  BY DEF WorkDir, old
<1>13. CASE job.work = "partial"
  <2>1. Archive = "full"
    BY <1>1, <1>13, ArchiveOfRun DEF UpdateRun
  <2>2. PartialOK(old) /\ PackOK(disk.target) /\ PackOK(disk.old)
    BY <1>13 DEF DownloadInv, DisksOK, old
  <2>3. new.has.version # "6.13.1"
    <3>1. "version" \in PackFiles
      BY DEF PackFiles
    <3> QED
      BY <1>1, <1>5, <1>12, <2>2, <3>1 DEF PartialOK, Bad
  <2>5. PartialOK(new)
    BY <1>4, <1>5, <1>10, <2>1, <2>2, <2>3 DEF PartialOK, Resumes
  <2>4. DisksOK'
    BY <1>5, <1>13, <2>2, <2>5 DEF DisksOK, Dirs, new
  <2> QED
    BY <1>2, <1>5, <1>8, <1>9, <1>11, <1>13, <2>4 DEF new
<1>14. CASE job.work = "target"
  <2>1. Archive \in {"6.13.3.zip", "6.13.4.zip"}
    BY <1>1, <1>14, ArchiveOfRun DEF FullRun
  <2>2. PartialOK(disk.partial) /\ PackOK(old) /\ PackOK(disk.old)
    BY <1>14 DEF DownloadInv, DisksOK, old
  <2>3. /\ Archive = "6.13.3.zip" => "6.13.1" \in InstalledPacks /\ old.state.archive # "6.13.4.zip"
        /\ Archive = "6.13.4.zip" => old.has.code # "6.13.1" /\ (CourseFirst => old.has.course = "6.13.3")
    BY <1>14 DEF DownloadInv, JobOK, UpdateOK, Updatable, Streaming, old
  <2>4. Archive = "6.13.3.zip" => new.state.archive # "6.13.4.zip"
    BY <1>4, <1>5, <2>3
  <2>5. Archive = "6.13.4.zip" => new.has.code # "6.13.1" /\ (CourseFirst => new.has.course = "6.13.3")
    <3> SUFFICES ASSUME Archive = "6.13.4.zip"
                 PROVE  new.has.code # "6.13.1" /\ (CourseFirst => new.has.course = "6.13.3")
      OBVIOUS
    <3>1. Entry # "course"
      BY <1>1, ArchiveFiles
    <3>2. "code" \in PackFiles /\ "course" \in PackFiles
      BY DEF PackFiles
    <3> QED
      BY <1>1, <1>5, <1>12, <2>3, <3>1, <3>2 DEF Bad
  <2>6. new.has.version = "6.13.1" => "6.13.1" \in InstalledPacks
    <3>1. "version" \in PackFiles
      BY DEF PackFiles
    <3> QED
      BY <1>1, <1>5, <1>12, <2>2, <3>1 DEF PackOK, Bad
  <2>7. CourseFirst /\ new.has.code \in {"6.13.3", Latest} => new.has.course = "6.13.3"
    <3> SUFFICES ASSUME CourseFirst, new.has.code \in {"6.13.3", Latest}, Archive = "6.13.3.zip"
                 PROVE  new.has.course = "6.13.3"
      BY <2>1, <2>5
    <3>1. CodePlace >= 2
      BY <2>3 DEF CourseFirst
    <3>2. "code" \in PackFiles /\ "course" \in PackFiles /\ "version" \in PackFiles
          /\ PackFiles = {"code", "course", "version"}
      BY DEF PackFiles
    <3>3. CASE Entry = "code"
      <4>1. "course" \in Before(Archive, job.index)
        BY <1>1, <3>1, <3>3, CodeAfterCourse DEF Entry
      <4>2. old.has.course = "6.13.3"
        BY <1>6, <4>1, ArchiveFiles DEF Holds
      <4> QED
        BY <1>5, <3>2, <3>3, <4>2
    <3>4. CASE Entry = "course"
      <4>1. "code" \notin Before(Archive, job.index)
        BY <1>1, <3>1, <3>4, CodeAfterCourse DEF Entry
      <4>2. old.has.code \in {"6.13.1", Bad}
        BY <1>6, <4>1
      <4> QED
        BY <1>5, <3>2, <3>4, <4>2 DEF Bad, Latest
    <3>5. CASE Entry = "version"
      BY <1>5, <2>2, <3>2, <3>5 DEF PackOK
    <3> QED
      BY <1>1, <3>2, <3>3, <3>4, <3>5
  <2>8. /\ new.state.archive # "full"
        /\ new.state.archive = "6.13.4.zip" => new.has.code # "6.13.1"
        /\ Resumes(new, "6.13.4.zip")
        /\ new.has.code = "6.13.1" => Resumes(new, "6.13.3.zip")
    <3>1. new.state.archive # "full"
      BY <1>4, <1>5, <2>1, <2>2 DEF PackOK
    <3>2. CASE Archive = "6.13.3.zip"
      BY <1>10, <2>4, <3>1, <3>2 DEF Resumes
    <3>3. CASE Archive = "6.13.4.zip"
      BY <1>10, <2>5, <3>1, <3>3 DEF Resumes
    <3> QED
      BY <2>1, <3>1, <3>2, <3>3
  <2>9. PackOK(new)
    BY <1>5, <2>6, <2>7, <2>8 DEF PackOK
  <2>10. DisksOK'
    BY <1>5, <1>14, <2>2, <2>9 DEF DisksOK, Dirs, new
  <2> QED
    BY <1>2, <1>5, <1>8, <1>9, <1>11, <1>14, <2>4, <2>5, <2>10 DEF new, Updatable
<1> QED
  BY <1>1, <1>13, <1>14

\* The archive is unpacked further.
LEMMA RunGoesOn ==
  ASSUME DownloadInv, Streaming, DisksOK',
         job' \in JobRecords, job'.at = "stream", job'.work = job.work, job'.stages = job.stages,
         job'.result = job.result, job'.saved = job.saved,
         disk'[job.work].there,
         job'.index \in 1 .. Len(Entries(Archive)) + 1,
         Holds(disk'[job.work], Archive, job'.index),
         disk'[job.work].state.archive = Archive => disk'[job.work].state.next <= job'.index,
         Archive = "6.13.3.zip" /\ "code" \notin Before(Archive, job'.index) =>
           disk'[job.work].has.code \in {"6.13.1", Bad},
         job.work = "target" => Updatable(disk'.target)
  PROVE  DownloadInv'
<1>1. Archive' = Archive /\ FullRun' = FullRun /\ UpdateRun' = UpdateRun /\ WorkDir' = disk'[job.work]
  BY DEF Archive, FullRun, UpdateRun, WorkDir
<1>2. JobOK /\ StreamOK /\ UpdateOK /\ Finished /\ job.at = "stream"
  BY DEF DownloadInv, JobOK, Streaming
<1>3. job'.index <= Len(Entries(Archive)) + 1
  BY StreamFacts
<1>4. StreamOK'
  BY <1>1, <1>2, <1>3 DEF StreamOK, Holds, Before
<1>5. UpdateOK'
  BY <1>1, <1>2 DEF UpdateOK, Updatable, CourseFirst
<1> QED
  BY <1>1, <1>2, <1>4, <1>5 DEF DownloadInv, JobOK, TableOK, GoingLiveOK, Finished

LEMMA UnpackEntryKeeps == DownloadInv /\ UnpackEntry => DownloadInv'
<1> SUFFICES ASSUME DownloadInv, UnpackEntry PROVE DownloadInv'
  OBVIOUS
<1>1. Streaming /\ JobOK
  BY DEF UnpackEntry, DownloadInv
<1>2. PICK s \in StateFiles(job.index + 1) :
        disk' = Written(disk, job.work, Entry, Unpacked[Archive][Entry], s)
  BY DEF UnpackEntry, Written
<1>3. job' = [job EXCEPT !.index = job.index + 1, !.failures = 0]
  BY DEF UnpackEntry
<1>4. /\ DisksOK'
      /\ disk'[job.work].there
      /\ job.index + 1 \in 1 .. Len(Entries(Archive)) + 1
      /\ Holds(disk'[job.work], Archive, job.index + 1)
      /\ disk'[job.work].state.archive = Archive => disk'[job.work].state.next <= job.index + 1
      /\ Archive = "6.13.3.zip" /\ "code" \notin Before(Archive, job.index + 1) =>
           disk'[job.work].has.code \in {"6.13.1", Bad}
      /\ job.work = "target" => Updatable(disk'.target)
  BY <1>1, <1>2, WrittenEntry
<1>5. /\ job \in JobRecords /\ (FullRun \/ UpdateRun) /\ Len(Entries(Archive)) \in {2, 3}
      /\ job.index \in 1 .. Len(Entries(Archive))
  BY <1>1, StreamFacts
<1>6. job.index + 1 \in 1 .. 4 /\ 0 \in 0 .. MaxFailures - 1
  <2> DEFINE l == Len(Entries(Archive))
             i == job.index
  <2>1. l \in {2, 3} /\ i \in 1 .. l
    BY <1>5
  <2> HIDE DEF l, i
  <2>2. i + 1 \in 1 .. 4
    BY <2>1
  <2> QED
    BY <2>2, DownloadAssumption DEF i
<1>7. /\ job' \in JobRecords /\ job'.at = "stream" /\ job'.work = job.work /\ job'.stages = job.stages
      /\ job'.index = job.index + 1 /\ job'.result = job.result /\ job'.saved = job.saved
  BY <1>1, <1>3, <1>5, <1>6 DEF JobRecords, Streaming
<1> QED
  BY <1>1, <1>4, <1>5, <1>7, RunGoesOn

LEMMA EntryFailsKeeps == DownloadInv /\ EntryFails => DownloadInv'
<1> SUFFICES ASSUME DownloadInv, EntryFails PROVE DownloadInv'
  OBVIOUS
<1>1. Streaming /\ JobOK /\ job \in JobRecords
  BY DEF EntryFails, DownloadInv, JobOK
<1>2. PICK v \in {WorkDir.has[Entry], Bad}, s \in StateFiles(job.index) :
        disk' = Written(disk, job.work, Entry, v, s)
  BY DEF EntryFails, Written
<1>3. /\ DisksOK'
      /\ disk'[job.work].there
      /\ job.index \in 1 .. Len(Entries(Archive)) + 1
      /\ Holds(disk'[job.work], Archive, job.index)
      /\ disk'[job.work].state.archive = Archive => disk'[job.work].state.next <= job.index
      /\ Archive = "6.13.3.zip" /\ "code" \notin Before(Archive, job.index) =>
           disk'[job.work].has.code \in {"6.13.1", Bad}
      /\ job.work = "target" => Updatable(disk'.target)
  BY <1>1, <1>2, WrittenEntry
<1>4. CASE Ends("error")
  BY <1>3, <1>4, EndedRun DEF DownloadInv
<1>5. CASE job.failures + 1 < MaxFailures /\ job' = [job EXCEPT !.failures = job.failures + 1]
  <2>1. job.failures + 1 \in 0 .. MaxFailures - 1
    BY <1>1, <1>5, DownloadAssumption DEF JobRecords
  <2>2. /\ job' \in JobRecords /\ job'.at = "stream" /\ job'.work = job.work /\ job'.stages = job.stages
        /\ job'.index = job.index /\ job'.result = job.result /\ job'.saved = job.saved
    BY <1>1, <1>5, <2>1 DEF JobRecords, Streaming
  <2> QED
    BY <1>1, <1>3, <2>2, RunGoesOn
<1> QED
  BY <1>4, <1>5 DEF EntryFails

LEMMA EndArchiveKeeps == DownloadInv /\ EndArchive => DownloadInv'
<1> SUFFICES ASSUME DownloadInv, EndArchive PROVE DownloadInv'
  OBVIOUS
<1> DEFINE old == disk[job.work]
           new == disk'[job.work]
           l == Len(Entries(Archive))
<1>1. /\ DisksOK /\ JobOK /\ job \in JobRecords /\ (FullRun \/ UpdateRun) /\ StreamOK
      /\ job.at = "stream" /\ ~Streaming /\ disk \in [Dirs -> DirRecords]
  BY DEF DownloadInv, DisksOK, JobOK, EndArchive
<1>2. Archive \in Archives /\ l \in {2, 3} /\ job.index \in 1 .. 4 /\ job.work \in Dirs
      /\ job.work \in {"target", "partial"}
  BY <1>1, ArchiveOfRun, EntriesList DEF JobRecords, Dirs
<1>3. job.index = l + 1
  <2> DEFINE i == job.index
  <2>1. ~(i <= l) /\ i <= l + 1 /\ i \in 1 .. 4 /\ l \in {2, 3}
    BY <1>1, <1>2 DEF Streaming, StreamOK
  <2> HIDE DEF l, i
  <2>2. i = l + 1
    BY <2>1
  <2> QED
    BY <2>2 DEF i
<1>4. PICK s \in StateFiles(job.index) : disk' = StateWritten(disk, job.work, s)
  BY DEF EndArchive, StateWritten
<1>5. old \in DirRecords /\ old.there /\ old.state \in States /\ old.has.code \in Releases
  BY <1>1, <1>2 DEF DirRecords, StreamOK, WorkDir, PackFiles
<1>6. /\ s \in States
      /\ s.archive = Archive => s.next \in Nat /\ s.next <= job.index
      /\ s.archive # Archive => s.archive = "cut" \/ s = old.state
  <2>1. s \in {[archive |-> Archive, next |-> job.index], CutState, old.state}
    BY DEF StateFiles, WorkDir
  <2>2. old.state.archive = Archive => old.state.next <= job.index
    BY <1>1 DEF StreamOK, WorkDir
  <2> QED
    BY <1>2, <1>5, <2>1, <2>2, StateRecords DEF Archives
<1>7. /\ disk' \in [Dirs -> DirRecords]
      /\ new.there /\ new.state = s
      /\ \A f \in PackFiles : new.has[f] = old.has[f]
      /\ \A x \in Dirs \ {job.work} : disk'[x] = disk[x]
  <2> DEFINE w == job.work
             d == disk
             e == disk'
  <2>1. /\ d \in [Dirs -> DirRecords] /\ w \in Dirs /\ s \in States /\ e = StateWritten(d, w, s)
        /\ d[w].there
    BY <1>1, <1>2, <1>4, <1>5, <1>6
  <2> HIDE DEF w, d, e
  <2>2. /\ e \in [Dirs -> DirRecords]
        /\ (e[w].there <=> d[w].there) /\ e[w].state = s
        /\ \A g \in PackFiles : e[w].has[g] = d[w].has[g]
        /\ \A x \in Dirs \ {w} : e[x] = d[x]
    BY <2>1, StateFileWritten
  <2> QED
    BY <2>1, <2>2 DEF w, d, e
<1>8. /\ \A i \in Nat : i <= job.index => Before(Archive, i) \subseteq DOMAIN Unpacked[Archive]
      /\ DOMAIN Unpacked[Archive] \subseteq PackFiles
      /\ \A f \in DOMAIN Unpacked[Archive] : new.has[f] = Unpacked[Archive][f]
  <2>1. Before(Archive, job.index) = DOMAIN Unpacked[Archive]
    BY <1>2, <1>3, EntriesBefore
  <2>2. Holds(old, Archive, job.index)
    BY <1>1 DEF StreamOK, WorkDir
  <2>3. DOMAIN Unpacked[Archive] \subseteq PackFiles
    BY <1>2, ArchiveFiles
  <2>4. \A i \in Nat : i <= job.index => Before(Archive, i) \subseteq Before(Archive, job.index)
    BY <1>2, EntriesBefore
  <2> QED
    BY <1>7, <2>1, <2>2, <2>3, <2>4 DEF Holds
<1>9. Resumes(new, Archive)
  BY <1>3, <1>6, <1>7, <1>8 DEF Resumes, Holds
<1>10. {"code", "course", "version"} = PackFiles
  BY DEF PackFiles
<1> HIDE DEF old, new
<1>11. CASE job.work = "partial"
  <2>1. Archive = "full" /\ Len(job.stages) = 1
    BY <1>1, <1>11, ArchiveOfRun DEF UpdateRun
  <2>2. PartialOK(old) /\ PackOK(disk.target) /\ PackOK(disk.old)
    BY <1>1, <1>11 DEF DisksOK, old
  <2>3. PartialOK(new)
    BY <1>6, <1>7, <1>9, <1>10, <2>1, <2>2 DEF PartialOK
  <2>4. DisksOK'
    BY <1>7, <1>11, <2>2, <2>3 DEF DisksOK, Dirs, new
  <2>5. new.has.course = "6.13.3"
    BY <1>8, <2>1, ArchiveFiles
  <2>6. job' = [job EXCEPT !.at = "check"]
    BY <2>1 DEF EndArchive, At
  <2>7. /\ job' \in JobRecords /\ job'.at = "check" /\ job'.work = job.work
        /\ job'.stages = job.stages /\ job'.result = job.result
    BY <1>1, <2>6 DEF JobRecords
  <2>8. FullRun'
    BY <1>1, <1>11, <2>7 DEF FullRun, UpdateRun
  <2>9. WorkDir' = new
    BY <2>7 DEF WorkDir, new
  <2>10. JobOK'
    BY <1>1, <1>7, <1>11, <2>1, <2>5, <2>7, <2>8, <2>9
       DEF JobOK, TableOK, StreamOK, UpdateOK, Updatable, GoingLiveOK, Finished
  <2> QED
    BY <2>4, <2>10 DEF DownloadInv
<1>12. CASE job.work = "target"
  <2>1. /\ Archive \in {"6.13.3.zip", "6.13.4.zip"}
        /\ job.stages = IF Archive = "6.13.3.zip" THEN Updates ELSE << Last(Updates) >>
        /\ Len(job.stages) = IF Archive = "6.13.3.zip" THEN 2 ELSE 1
    BY <1>1, <1>12, ArchiveOfRun DEF FullRun
  <2>2. PartialOK(disk.partial) /\ PackOK(old) /\ PackOK(disk.old)
    BY <1>1, <1>12 DEF DisksOK, old
  <2>3. /\ Archive = "6.13.3.zip" => "6.13.1" \in InstalledPacks /\ old.state.archive # "6.13.4.zip"
        /\ Archive = "6.13.4.zip" => old.has.code # "6.13.1" /\ (CourseFirst => old.has.course = "6.13.3")
    BY <1>1, <1>12 DEF JobOK, UpdateOK, Updatable, old
  <2>4. /\ Archive = "6.13.3.zip" => new.has.code = "6.13.3" /\ new.has.course = "6.13.3"
        /\ Archive = "6.13.3.zip" => new.state.archive # "6.13.4.zip"
    BY <1>6, <1>7, <1>8, <2>3, ArchiveFiles DEF PackFiles
  <2>5. new.has.code # "6.13.1" /\ (CourseFirst => new.has.course = "6.13.3")
    BY <1>7, <1>10, <2>1, <2>3, <2>4
  <2>6. new.state.archive # "full" /\ Resumes(new, "6.13.4.zip")
    BY <1>6, <1>7, <1>9, <2>1, <2>2, <2>4 DEF PackOK, Resumes
  <2>7. PackOK(new)
    BY <1>7, <1>10, <2>2, <2>5, <2>6 DEF PackOK
  <2>8. DisksOK'
    BY <1>7, <1>12, <2>2, <2>7 DEF DisksOK, Dirs, new
  <2>9. new = disk'.target
    BY <1>12 DEF new
  <2>10. CASE Archive = "6.13.4.zip"
    <3>1. job' = [job EXCEPT !.at = "check"]
      BY <2>1, <2>10 DEF EndArchive, At
    <3>2. /\ job' \in JobRecords /\ job'.at = "check" /\ job'.work = job.work
          /\ job'.stages = job.stages /\ job'.result = job.result
      BY <1>1, <3>1 DEF JobRecords
    <3>3. UpdateRun' /\ Archive' = Archive
      BY <1>1, <1>12, <3>2 DEF FullRun, UpdateRun, Archive
    <3>4. WorkDir' = new
      BY <3>2 DEF WorkDir, new
    <3>5. UpdateOK'
      BY <1>7, <2>5, <2>9, <2>10, <3>3 DEF UpdateOK, Updatable, CourseFirst
    <3>6. JobOK'
      BY <1>1, <1>7, <1>12, <2>1, <2>10, <3>2, <3>3, <3>4, <3>5
         DEF JobOK, TableOK, StreamOK, GoingLiveOK, Finished
    <3> QED
      BY <2>8, <3>6 DEF DownloadInv
  <2>11. CASE Archive = "6.13.3.zip"
    <3>1. job' = [job EXCEPT !.at = "table", !.stages = Tail(job.stages)]
      BY <2>1, <2>11 DEF EndArchive
    <3>2. Tail(job.stages) = << Last(Updates) >>
      BY <2>1, <2>11, UpdateLists
    <3>3. /\ job' \in JobRecords /\ job'.at = "table" /\ job'.work = job.work
          /\ job'.stages = << Last(Updates) >> /\ job'.result = job.result /\ job'.saved = job.saved
      BY <1>1, <3>1, <3>2 DEF JobRecords
    <3>4. UpdateRun' /\ Archive' = "6.13.4.zip"
      <4>1. Head(<< Last(Updates) >>) = "6.13.4.zip"
        BY UpdateLists
      <4> QED
        BY <1>12, <3>3, <4>1 DEF UpdateRun, Archive
    <3>5. WorkDir' = new
      BY <3>3 DEF WorkDir, new
    <3>6. UpdateOK'
      BY <1>7, <2>5, <2>9, <3>4 DEF UpdateOK, Updatable, CourseFirst
    <3>7. job'.saved.archive = "none"
      BY <1>1, <3>3, StateRecords DEF StreamOK
    <3>8. TableOK'
      BY <2>4, <2>11, <3>4, <3>5, <3>7 DEF TableOK
    <3>9. JobOK'
      BY <1>1, <3>3, <3>4, <3>6, <3>8 DEF JobOK, StreamOK, GoingLiveOK, Finished
    <3> QED
      BY <2>8, <3>9 DEF DownloadInv
  <2> QED
    BY <2>1, <2>10, <2>11
<1> QED
  BY <1>2, <1>11, <1>12

\* The state file is removed, or cut short.
LEMMA NothingToResume ==
  ASSUME DownloadInv, job.at # "idle", WorkDir.there,
         NEW s \in {NoState, CutState}, disk' = StateWritten(disk, job.work, s)
  PROVE  /\ DisksOK'
         /\ disk'[job.work].there /\ disk'[job.work].state = s
         /\ \A f \in PackFiles : disk'[job.work].has[f] = WorkDir.has[f]
         /\ job.work = "target" => Updatable(disk'.target)
<1>1. DisksOK /\ JobOK /\ disk \in [Dirs -> DirRecords] /\ job.work \in {"target", "partial"}
  BY DEF DownloadInv, DisksOK, JobOK, JobRecords
<1>2. s \in States /\ s.archive \in {"none", "cut"}
  BY StateRecords
<1>3. /\ disk' \in [Dirs -> DirRecords]
      /\ disk'[job.work].there /\ disk'[job.work].state = s
      /\ \A f \in PackFiles : disk'[job.work].has[f] = disk[job.work].has[f]
      /\ \A x \in Dirs \ {job.work} : disk'[x] = disk[x]
  <2> DEFINE w == job.work
             d == disk
             e == disk'
  <2>1. /\ d \in [Dirs -> DirRecords] /\ w \in Dirs /\ s \in States /\ e = StateWritten(d, w, s)
        /\ d[w].there
    BY <1>1, <1>2 DEF Dirs, WorkDir
  <2> HIDE DEF w, d, e
  <2>2. /\ e \in [Dirs -> DirRecords]
        /\ (e[w].there <=> d[w].there) /\ e[w].state = s
        /\ \A g \in PackFiles : e[w].has[g] = d[w].has[g]
        /\ \A x \in Dirs \ {w} : e[x] = d[x]
    BY <2>1, StateFileWritten
  <2> QED
    BY <2>1, <2>2 DEF w, d, e
<1>4. {"code", "course", "version"} = PackFiles
  BY DEF PackFiles
<1>5. CASE job.work = "partial"
  <2>1. PartialOK(disk'.partial)
    BY <1>1, <1>2, <1>3, <1>4, <1>5 DEF DisksOK, PartialOK, Resumes, WorkDir
  <2> QED
    BY <1>1, <1>3, <1>5, <2>1 DEF DisksOK, Dirs, WorkDir
<1>6. CASE job.work = "target"
  <2>1. PackOK(disk.target) /\ UpdateOK
    BY <1>1 DEF DisksOK, JobOK
  <2>2. PackOK(disk'.target)
    BY <1>2, <1>3, <1>4, <1>6, <2>1 DEF PackOK, Resumes
  <2>3. Updatable(disk'.target)
    BY <1>2, <1>3, <1>4, <1>6, <2>1 DEF UpdateOK, Updatable
  <2> QED
    BY <1>1, <1>3, <1>6, <2>2, <2>3 DEF DisksOK, Dirs, WorkDir
<1> QED
  BY <1>1, <1>5, <1>6

\* A version.txt is written, or half of it, in a directory that has no state.
LEMMA NewVersion ==
  ASSUME DownloadInv, job.at = "stamp", NEW v \in {Latest, Bad, WorkDir.has.version},
         disk' = FileWritten(disk, job.work, "version", v)
  PROVE  /\ DisksOK'
         /\ disk'[job.work].there /\ disk'[job.work].state = NoState
         /\ disk'[job.work].has.code = Latest /\ disk'[job.work].has.course = WorkDir.has.course
<1>1. DisksOK /\ GoingLiveOK /\ disk \in [Dirs -> DirRecords] /\ job.work \in {"target", "partial"}
  BY DEF DownloadInv, DisksOK, JobOK, JobRecords
<1>2. WorkDir.there /\ WorkDir.state = NoState /\ WorkDir.has.code = Latest
  BY <1>1 DEF GoingLiveOK
<1>3. v \in Releases
  BY <1>1 DEF WorkDir, Dirs, DirRecords, PackFiles, Releases
<1>4. /\ disk' \in [Dirs -> DirRecords]
      /\ disk'[job.work].there /\ disk'[job.work].state = NoState
      /\ disk'[job.work].has.version = v /\ disk'[job.work].has.code = Latest
      /\ disk'[job.work].has.course = WorkDir.has.course
      /\ \A x \in Dirs \ {job.work} : disk'[x] = disk[x]
  <2> DEFINE w == job.work
             d == disk
             e == disk'
  <2>1. d \in [Dirs -> DirRecords] /\ w \in Dirs /\ v \in Releases /\ e = FileWritten(d, w, "version", v)
        /\ d[w].there /\ d[w].state = NoState /\ d[w].has.code = Latest
    BY <1>1, <1>2, <1>3 DEF Dirs, WorkDir
  <2>2. WorkDir.has.course = d[w].has.course
    BY DEF WorkDir
  <2> HIDE DEF w, d, e
  <2>3. /\ e \in [Dirs -> DirRecords]
        /\ (e[w].there <=> d[w].there) /\ e[w].state = d[w].state
        /\ e[w].has.version = v /\ e[w].has.code = d[w].has.code
        /\ e[w].has.course = d[w].has.course
        /\ \A x \in Dirs \ {w} : e[x] = d[x]
    BY <2>1, VersionWritten
  <2>4. /\ e \in [Dirs -> DirRecords] /\ e[w].there /\ e[w].state = NoState
        /\ e[w].has.version = v /\ e[w].has.code = Latest
        /\ e[w].has.course = WorkDir.has.course
        /\ \A x \in Dirs \ {w} : e[x] = d[x]
    BY <2>1, <2>2, <2>3
  <2> QED
    BY <2>4 DEF w, d, e
<1>5. CASE job.work = "partial"
  <2>1. v # "6.13.1"
    BY <1>1, <1>5 DEF DisksOK, PartialOK, WorkDir, Latest, Bad
  <2>2. PartialOK(disk'.partial)
    BY <1>4, <1>5, <2>1, StateRecords DEF PartialOK, Resumes
  <2> QED
    BY <1>1, <1>4, <1>5, <2>2 DEF DisksOK, Dirs
<1>6. CASE job.work = "target"
  <2>1. PackOK(disk.target)
    BY <1>1 DEF DisksOK
  <2>2. v = "6.13.1" => disk.target.has.version = "6.13.1"
    BY <1>6 DEF WorkDir, Latest, Bad
  <2>3. PackOK(disk'.target)
    BY <1>2, <1>4, <1>6, <2>1, <2>2, StateRecords DEF PackOK, Resumes, WorkDir, Latest
  <2> QED
    BY <1>1, <1>4, <1>6, <2>3 DEF DisksOK, Dirs
<1> QED
  BY <1>1, <1>5, <1>6

LEMMA CheckCodeKeeps == DownloadInv /\ CheckCode => DownloadInv'
<1> SUFFICES ASSUME DownloadInv, CheckCode PROVE DownloadInv'
  OBVIOUS
<1>1. /\ DisksOK /\ JobOK /\ GoingLiveOK /\ UpdateOK /\ job \in JobRecords /\ (FullRun \/ UpdateRun)
      /\ job.at = "check"
  BY DEF DownloadInv, JobOK, CheckCode
<1>2. CASE HasPinnedCode(WorkDir)
  <2>1. job' = [job EXCEPT !.at = "stamp"] /\ disk' = StateWritten(disk, job.work, NoState)
    BY <1>2 DEF CheckCode, At, StateWritten
  <2>2. /\ WorkDir.there /\ WorkDir.has.code = Latest /\ Len(job.stages) = 1
        /\ job.work = "partial" => WorkDir.has.course = "6.13.3"
    BY <1>1, <1>2 DEF GoingLiveOK, HasPinnedCode
  <2>3. /\ DisksOK'
        /\ disk'[job.work].there /\ disk'[job.work].state = NoState
        /\ \A f \in PackFiles : disk'[job.work].has[f] = WorkDir.has[f]
        /\ job.work = "target" => Updatable(disk'.target)
    BY <1>1, <2>1, <2>2, NothingToResume
  <2>4. /\ job' \in JobRecords /\ job'.at = "stamp" /\ job'.work = job.work
        /\ job'.stages = job.stages /\ job'.result = job.result
    BY <1>1, <2>1 DEF JobRecords
  <2>5. /\ WorkDir' = disk'[job.work] /\ Archive' = Archive
        /\ FullRun' = FullRun /\ UpdateRun' = UpdateRun
    BY <2>4 DEF WorkDir, Archive, FullRun, UpdateRun
  <2>6. UpdateOK'
    BY <1>1, <2>3, <2>4, <2>5 DEF UpdateOK, Updatable, CourseFirst
  <2>7. GoingLiveOK'
    BY <2>2, <2>3, <2>4, <2>5 DEF GoingLiveOK, PackFiles
  <2> QED
    BY <1>1, <2>3, <2>4, <2>5, <2>6, <2>7 DEF DownloadInv, JobOK, TableOK, StreamOK, Finished
<1>3. CASE ~HasPinnedCode(WorkDir)
  BY <1>1, <1>3, EndedRun DEF CheckCode, DownloadInv, DisksOK
<1> QED
  BY <1>2, <1>3

LEMMA StampVersionKeeps == DownloadInv /\ StampVersion => DownloadInv'
<1> SUFFICES ASSUME DownloadInv, StampVersion PROVE DownloadInv'
  OBVIOUS
<1>1. /\ JobOK /\ GoingLiveOK /\ UpdateOK /\ job \in JobRecords /\ (FullRun \/ UpdateRun)
      /\ job.at = "stamp" /\ job.work \in {"target", "partial"}
  BY DEF DownloadInv, JobOK, StampVersion, JobRecords
<1>2. PICK v \in {Latest, WorkDir.has.version} : disk' = FileWritten(disk, job.work, "version", v)
  BY DEF StampVersion, FileWritten
<1>3. /\ DisksOK'
      /\ disk'[job.work].there /\ disk'[job.work].state = NoState
      /\ disk'[job.work].has.code = Latest /\ disk'[job.work].has.course = WorkDir.has.course
  BY <1>1, <1>2, NewVersion
<1>4. Len(job.stages) = 1 /\ (job.work = "partial" => WorkDir.has.course = "6.13.3")
  BY <1>1 DEF GoingLiveOK
<1>5. CASE job.work = "target"
  <2>1. Archive = "6.13.4.zip"
    BY <1>1, <1>4, <1>5, ArchiveOfRun DEF FullRun
  <2>2. CourseFirst => WorkDir.has.course = "6.13.3"
    BY <1>1, <1>5, <2>1 DEF UpdateOK, Updatable, WorkDir
  <2>3. CourseFirst => Whole(disk.target)'
    BY <1>3, <1>5, <2>2, ArchiveFiles DEF Whole
  <2>4. Ends("ok")
    BY <1>5 DEF StampVersion
  <2> QED
    BY <1>3, <2>3, <2>4, EndedRun DEF DownloadInv
<1>6. CASE job.work = "partial"
  <2>1. job' = [job EXCEPT !.at = "clear"]
    BY <1>6 DEF StampVersion, At
  <2>2. /\ job' \in JobRecords /\ job'.at = "clear" /\ job'.work = "partial"
        /\ job'.stages = job.stages /\ job'.result = job.result
    BY <1>1, <1>6, <2>1 DEF JobRecords
  <2>3. FullRun'
    BY <1>1, <1>6, <2>2 DEF FullRun, UpdateRun
  <2>4. Whole(disk.partial)' /\ disk'.partial.state = NoState
    BY <1>3, <1>4, <1>6, ArchiveFiles DEF Whole
  <2> QED
    BY <1>1, <1>3, <2>2, <2>3, <2>4
       DEF DownloadInv, JobOK, TableOK, StreamOK, UpdateOK, Updatable, GoingLiveOK, Finished
<1> QED
  BY <1>1, <1>5, <1>6

\* The rest of a full download.
LEMMA FullRunGoesOn ==
  ASSUME DownloadInv, job.at \in {"clear", "aside", "live"}, DisksOK',
         NEW place \in {"aside", "live", "tidy"}, At(place),
         IF place = "tidy" THEN Whole(disk.target)' ELSE disk'.partial = disk.partial,
         place = "live" => ~disk'.target.there
  PROVE  DownloadInv'
<1>1. /\ JobOK /\ GoingLiveOK /\ job \in JobRecords /\ (FullRun \/ UpdateRun)
  BY DEF DownloadInv, JobOK
<1>2. job.work = "partial" /\ Whole(disk.partial) /\ disk.partial.state = NoState
  BY <1>1 DEF GoingLiveOK
<1>3. /\ job' \in JobRecords /\ job'.at = place /\ job'.work = "partial"
      /\ job'.stages = job.stages /\ job'.result = job.result
  BY <1>1, <1>2 DEF At, JobRecords
<1>4. FullRun'
  BY <1>1, <1>2, <1>3 DEF FullRun, UpdateRun
<1>5. GoingLiveOK'
  BY <1>2, <1>3 DEF GoingLiveOK, Whole
<1> QED
  BY <1>1, <1>3, <1>4, <1>5
     DEF DownloadInv, JobOK, TableOK, StreamOK, UpdateOK, Updatable, Finished

LEMMA GoingLiveKeeps ==
  DownloadInv /\ (ClearOld \/ StepAside \/ GoLive \/ Tidy) => DownloadInv'
<1> SUFFICES ASSUME DownloadInv PROVE ClearOld \/ StepAside \/ GoLive \/ Tidy => DownloadInv'
  OBVIOUS
<1>1. /\ JobOK /\ GoingLiveOK /\ DisksOK /\ disk \in [Dirs -> DirRecords]
      /\ PackOK(disk.target) /\ PackOK(disk.old) /\ PartialOK(disk.partial)
      /\ disk.target \in DirRecords /\ disk.old \in DirRecords /\ disk.partial \in DirRecords
  BY DEF DownloadInv, JobOK, DisksOK, Dirs
<1>2. NoDir \in DirRecords /\ PackOK(NoDir) /\ PartialOK(NoDir) /\ ~NoDir.there
  BY PackRecords, FreshPacks
<1>3. ASSUME disk' = [disk EXCEPT !.old = NoDir]
      PROVE  DisksOK' /\ disk'.partial = disk.partial /\ disk'.target = disk.target
  BY <1>1, <1>2, <1>3 DEF DisksOK, Dirs
<1>4. ASSUME ClearOld PROVE DownloadInv'
  BY <1>3, <1>4, FullRunGoesOn DEF ClearOld
<1>5. ASSUME StepAside PROVE DownloadInv'
  <2>1. CASE ~disk.target.there /\ At("live") /\ UNCHANGED disk
    BY <1>1, <1>5, <2>1, FullRunGoesOn DEF StepAside, DisksOK
  <2>2. CASE At("live") /\ disk' = [disk EXCEPT !.old = disk.target, !.target = NoDir]
    <3>1. /\ disk' \in [Dirs -> DirRecords] /\ disk'.old = disk.target /\ disk'.target = NoDir
          /\ disk'.partial = disk.partial
      BY <1>1, <1>2, <2>2 DEF Dirs
    <3>2. DisksOK'
      BY <1>1, <1>2, <3>1 DEF DisksOK
    <3> QED
      BY <1>2, <1>5, <2>2, <3>1, <3>2, FullRunGoesOn DEF StepAside
  <2>3. CASE Ends("error") /\ UNCHANGED disk
    BY <1>1, <2>3, EndedRun DEF DownloadInv, DisksOK
  <2> QED
    BY <1>5, <2>1, <2>2, <2>3 DEF StepAside
<1>6. ASSUME GoLive PROVE DownloadInv'
  <2>1. job.at = "live" /\ Whole(disk.partial) /\ disk.partial.state = NoState
    BY <1>1, <1>6 DEF GoLive, GoingLiveOK
  <2>2. CASE At("tidy") /\ disk' = [disk EXCEPT !.target = disk.partial, !.partial = NoDir]
    <3>1. /\ disk' \in [Dirs -> DirRecords] /\ disk'.target = disk.partial
          /\ disk'.partial = NoDir /\ disk'.old = disk.old
      BY <1>1, <1>2, <2>2 DEF Dirs
    <3>2. PackOK(disk.partial)
      <4>1. disk.partial.there /\ disk.partial.has.code = Latest /\ disk.partial.has.course = "6.13.3"
        BY <2>1, ArchiveFiles DEF Whole
      <4>2. disk.partial.has.version = "6.13.1" => "6.13.1" \in InstalledPacks
        BY <1>1 DEF PartialOK
      <4> QED
        BY <2>1, <4>1, <4>2, StateRecords DEF PackOK, Resumes, Latest
    <3>3. DisksOK'
      BY <1>1, <1>2, <3>1, <3>2 DEF DisksOK
    <3>4. Whole(disk.target)'
      BY <2>1, <3>1 DEF Whole
    <3> QED
      BY <2>1, <2>2, <3>3, <3>4, FullRunGoesOn
  <2>3. CASE Ends("error") /\ UNCHANGED disk
    BY <1>1, <2>3, EndedRun DEF DownloadInv, DisksOK
  <2>4. CASE Ends("error") /\ disk' = [disk EXCEPT !.target = disk.old, !.old = NoDir]
    <3>1. /\ disk' \in [Dirs -> DirRecords] /\ disk'.target = disk.old /\ disk'.old = NoDir
          /\ disk'.partial = disk.partial
      BY <1>1, <1>2, <2>4 DEF Dirs
    <3>2. DisksOK'
      BY <1>1, <1>2, <3>1 DEF DisksOK
    <3> QED
      BY <2>4, <3>2, EndedRun DEF DownloadInv
  <2> QED
    BY <1>6, <2>2, <2>3, <2>4 DEF GoLive
<1>7. ASSUME Tidy PROVE DownloadInv'
  <2>1. DisksOK' /\ disk'.target = disk.target
    BY <1>3, <1>7 DEF Tidy
  <2>2. Whole(disk.target)'
    BY <1>1, <1>7, <2>1 DEF Tidy, GoingLiveOK, Whole
  <2> QED
    BY <1>7, <2>1, <2>2, EndedRun DEF Tidy, DownloadInv
<1> QED
  BY <1>4, <1>5, <1>6, <1>7

LEMMA KilledKeeps == DownloadInv /\ Killed => DownloadInv'
<1> SUFFICES ASSUME DownloadInv, Killed PROVE DownloadInv'
  OBVIOUS
<1>1. JobOK'
  BY EndedRun DEF Killed
<1>2. job.at # "idle" /\ DisksOK
  BY DEF Killed, DownloadInv
<1>3. ASSUME UNCHANGED disk
      PROVE  DisksOK'
  BY <1>2, <1>3 DEF DisksOK
<1>4. ASSUME Streaming, disk' = FileWritten(disk, job.work, Entry, Bad)
      PROVE  DisksOK'
  <2> DEFINE v == Bad
             n == job.index
             s == WorkDir.state
  <2>1. /\ s \in StateFiles(n) /\ n = job.index /\ v \in {WorkDir.has[Entry], Bad}
        /\ disk' = FileWritten(disk, job.work, Entry, v) /\ s = WorkDir.state
    BY <1>4 DEF StateFiles
  <2> HIDE DEF v, n, s
  <2> QED
    BY <1>4, <2>1, WrittenEntry
<1>5. ASSUME job.at = "stream", disk' = StateWritten(disk, job.work, CutState)
      PROVE  DisksOK'
  <2>1. WorkDir.there
    BY <1>5 DEF DownloadInv, JobOK, StreamOK
  <2> QED
    BY <1>2, <1>5, <2>1, NothingToResume
<1>6. ASSUME job.at = "stamp", disk' = FileWritten(disk, job.work, "version", Bad)
      PROVE  DisksOK'
  BY <1>6, NewVersion
<1>7. DisksOK'
  BY <1>3, <1>4, <1>5, <1>6 DEF Killed, FileWritten, StateWritten
<1> QED
  BY <1>1, <1>7 DEF DownloadInv

LEMMA DownloadStepKeeps == DownloadInv /\ [DownloadNext]_downloadVars => DownloadInv'
<1> SUFFICES ASSUME DownloadInv, [DownloadNext]_downloadVars PROVE DownloadInv'
  OBVIOUS
<1>1. CASE UNCHANGED downloadVars
  BY <1>1 DEF downloadVars, DownloadInv, DisksOK, JobOK, FullRun, UpdateRun, TableOK, StreamOK,
              UpdateOK, Updatable, GoingLiveOK, Finished, WorkDir, Archive
<1>2. CASE DownloadNext
  BY <1>2, StartRunKeeps, TableFailsKeeps, OpenArchiveKeeps, UnpackEntryKeeps, EntryFailsKeeps,
     EndArchiveKeeps, CheckCodeKeeps, StampVersionKeeps, GoingLiveKeeps, KilledKeeps DEF DownloadNext
<1> QED
  BY <1>1, <1>2

\* Wherever a run is, or was killed, the state file of a directory says no more
\* than what is in it, and a run knows what its archives have left there.
THEOREM DownloadInvariant == DownloadSpec => []DownloadInv
BY DownloadInitKeeps, DownloadStepKeeps, PTL DEF DownloadSpec

-----------------------------------------------------------------------------
(* The properties.                                                         *)

LEMMA DownloadIsTyped == DownloadInv => DownloadTypeOK
<1> SUFFICES ASSUME DownloadInv PROVE DownloadTypeOK
  OBVIOUS
<1>1. disk \in [Dirs -> DirRecords] /\ job \in JobRecords
  BY DEF DownloadInv, DisksOK, JobOK
<1>2. job.failures < MaxFailures
  <2>1. MaxFailures \in Nat /\ job.failures \in 0 .. MaxFailures - 1
    BY <1>1, DownloadAssumption DEF JobRecords
  <2> QED
    BY <2>1
<1> QED
  BY <1>1, <1>2 DEF DownloadTypeOK, Dirs, DirRecords, JobRecords

\* The places, the entries, the failures in a row and the state files of a
\* download (Job::Run) keep their ranges.
THEOREM DownloadStaysTyped == DownloadSpec => []DownloadTypeOK
BY DownloadIsTyped, DownloadInvariant, PTL

\* The entries a run leaves out, because the state file says an earlier run
\* unpacked them, are in the directory as the archive has them, whatever became
\* of the earlier runs and of their state files.
THEOREM SkippedEntriesAreThere == DownloadSpec => []SkippedIsThere
<1>1. DownloadInv => SkippedIsThere
  BY DEF DownloadInv, JobOK, StreamOK, Holds, Before, SkippedIsThere
<1> QED
  BY <1>1, DownloadInvariant, PTL

\* Where Code.pul is not the first entry of the update archives, or no 6.13.1 pack
\* was there to begin with, a run that reports success leaves a whole pack.  The
\* condition cannot go: the run retro_resume shows a pack without it.
THEOREM CompletedPackIsWhole == CourseFirst => (DownloadSpec => []FinishedIsWhole)
<1> SUFFICES ASSUME CourseFirst PROVE DownloadSpec => []FinishedIsWhole
  OBVIOUS
<1>1. DownloadInv => FinishedIsWhole
  BY DEF DownloadInv, JobOK, Finished, FinishedIsWhole
<1> QED
  BY <1>1, DownloadInvariant, PTL

\* A full download touches the installed pack, and the copy that steps aside,
\* only once the new pack is whole, beside them or in their place.
THEOREM InstalledPackStays == DownloadSpec => OldPackStays
<1> DEFINE Step == \A d \in {"target", "old"} :
                     job.work = "partial" /\ disk'[d] # disk[d] =>
                       Whole(disk.partial) \/ Whole(disk.target)
<1>1. DownloadInv /\ [DownloadNext]_downloadVars => [Step]_disk
  <2> SUFFICES ASSUME DownloadInv, DownloadNext, NEW d \in {"target", "old"},
                      job.work = "partial", disk'[d] # disk[d]
               PROVE  Whole(disk.partial) \/ Whole(disk.target)
    BY DEF downloadVars
  <2>1. disk \in [Dirs -> DirRecords] /\ d \in Dirs /\ d # "partial" /\ GoingLiveOK
    BY DEF DownloadInv, DisksOK, JobOK, Dirs
  <2>2. job.at \in {"clear", "aside", "live"} => Whole(disk.partial)
    BY <2>1 DEF GoingLiveOK
  <2>3. job.at = "tidy" => Whole(disk.target)
    BY <2>1 DEF GoingLiveOK
  <2>4. ASSUME StartRun \/ TableFails \/ OpenArchive \/ UnpackEntry \/ EntryFails \/ EndArchive
                 \/ CheckCode \/ StampVersion \/ Killed
        PROVE  FALSE
    BY <2>1, <2>4 DEF Dirs, StartRun, TableFails, OpenArchive, UnpackEntry, EntryFails, EndArchive,
       CheckCode, StampVersion, Killed, DirRecords
  <2>5. ASSUME ClearOld \/ StepAside \/ GoLive
        PROVE  Whole(disk.partial)
    BY <2>2, <2>5 DEF ClearOld, StepAside, GoLive
  <2>6. ASSUME Tidy
        PROVE  Whole(disk.target)
    BY <2>3, <2>6 DEF Tidy
  <2> QED
    BY <2>4, <2>5, <2>6 DEF DownloadNext
<1> QED
  BY <1>1, DownloadInvariant, PTL DEF DownloadSpec, OldPackStays
=============================================================================
