----------------------------- MODULE AtomicFile -----------------------------
(***************************************************************************)
(* What the NAND layer promises of one file written through a shadow: a    *)
(* reader finds the old contents or the new ones, and a close answers OK   *)
(* when the new ones will last, an error when they are given up.  `kept'   *)
(* holds the contents a loss of power may leave.  Where the host cannot    *)
(* replace a file in one step (~atomic) the file may be missing; it is     *)
(* never partial.  Nothing is promised of a file changed behind the        *)
(* shadow's back, up to the next commit with no such writer left.          *)
(***************************************************************************)
CONSTANTS Contents, NoFile

VARIABLES
  value,    \* what a reader finds
  kept,     \* what a reader may find after a loss of power
  draft,    \* what the open writer has put together; NoFile: there is none
  answer,   \* of the last commit; "none" while it is under way
  bare,     \* the file was changed behind the shadow's back
  atomic    \* the host replaces files in one step

avars == <<value, kept, draft, answer, bare, atomic>>

AInit ==
  /\ value \in Contents \cup {NoFile}
  /\ kept = {value} /\ draft = NoFile /\ answer = "none"
  /\ bare = FALSE /\ atomic \in BOOLEAN

Begin ==
  /\ draft = NoFile /\ value # NoFile
  /\ draft' = value
  /\ UNCHANGED <<value, kept, answer, bare, atomic>>

Write ==
  /\ draft # NoFile
  /\ draft' \in Contents
  /\ UNCHANGED <<value, kept, answer, bare, atomic>>

Commit ==
  /\ draft # NoFile
  /\ answer' = "none"
  /\ UNCHANGED <<value, kept, draft, bare, atomic>>

Missing ==
  /\ ~atomic /\ draft # NoFile
  /\ value' = NoFile /\ kept' = kept \cup {NoFile}
  /\ UNCHANGED <<draft, answer, bare, atomic>>

Publish ==
  /\ draft # NoFile
  /\ value' = draft /\ kept' = kept \cup {draft}
  /\ UNCHANGED <<draft, answer, bare, atomic>>

Acknowledge ==
  /\ draft # NoFile /\ value = draft
  /\ kept' = {value} /\ draft' = NoFile /\ answer' = "ok"
  /\ bare' \in {FALSE, bare}
  /\ UNCHANGED <<value, atomic>>

\* The writer fails, or the program ends.
Abandon ==
  /\ draft' = NoFile /\ answer' \in {answer, "error"}
  /\ UNCHANGED <<value, kept, bare, atomic>>

PowerLoss ==
  /\ value' \in kept /\ kept' = {value'} /\ draft' = NoFile
  /\ UNCHANGED <<answer, bare, atomic>>

ANext ==
  \/ Begin \/ Write \/ Commit \/ Missing \/ Publish \/ Acknowledge \/ Abandon
  \/ PowerLoss

Promise == (bare' /\ UNCHANGED atomic) \/ ANext

ASpec == AInit /\ [][Promise]_avars
=============================================================================
