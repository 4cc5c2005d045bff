--------------------------- MODULE SqliteBackups ---------------------------
(***************************************************************************)
(* Backup and restore of the SQLite file (apps/web/runtime/backup.ts), one  *)
(* operator at a time for one target: write target.partial, verify it,      *)
(* rename it.  The process can die after any step and the disk can fill.    *)
(***************************************************************************)
EXTENDS Naturals

CONSTANT MaxAttempts   \* bound: commands given

VARIABLES
  files,     \* "source", "target", "partial" |-> a file's content
  command    \* [op, step, attempts]: the command under way

backupVars == <<files, command>>

Contents == {"absent", "empty", "torn", "damaged", "whole"}

BackupsInit ==
  /\ files \in {[source |-> s, target |-> "absent", partial |-> "absent"] : s \in Contents \ {"torn"}}
  /\ command = [op |-> "none", step |-> "done", attempts |-> 0]

Goto(step) == command' = [command EXCEPT !.step = step]

BeginCommand ==
  /\ command.step = "done" /\ command.attempts < MaxAttempts
  /\ \E op \in {"backup", "restore"} :
       command' = [op |-> op, step |-> "check", attempts |-> command.attempts + 1]
  /\ UNCHANGED files

\* integrity_check and foreign_key_check of a non-empty file.
IsIntactBug(content) == content \notin {"absent", "empty"}
IsIntact(content) == content = "whole"

\* A backup needs a non-empty source, a restore an intact one; neither overwrites.
CheckPaths ==
  /\ command.step = "check"
  /\ LET sourceOK == IF command.op = "backup" THEN files.source \notin {"absent", "empty"}
                     ELSE IsIntact(files.source)
     IN Goto(IF sourceOK /\ files.target = "absent" /\ files.partial = "absent"
              THEN "write" ELSE "done")
  /\ UNCHANGED files

\* VACUUM INTO or copyFile: the file grows; an error removes it.
WriteSome ==
  /\ command.step = "write" /\ files.partial = "absent"
  /\ files' = [files EXCEPT !.partial = "torn"] /\ UNCHANGED command

WriteRest ==
  /\ command.step = "write" /\ files.partial = "torn"
  /\ files' = [files EXCEPT !.partial = files.source] /\ Goto("verify")

\* The write stopped early without an error being raised.
WriteStops ==
  /\ command.step = "write" /\ files.partial = "torn"
  /\ Goto("verify") /\ UNCHANGED files

VerifyPartial ==
  /\ command.step = "verify"
  /\ Goto(IF IsIntact(files.partial) THEN "rename" ELSE "discard")
  /\ UNCHANGED files

Rename ==
  /\ command.step = "rename"
  /\ files' = [files EXCEPT !.target = files.partial, !.partial = "absent"] /\ Goto("done")

WriteFails == command.step \in {"write", "verify", "rename"} /\ Goto("discard") /\ UNCHANGED files

\* unlink(partial).catch(() => null)
Discard ==
  /\ command.step = "discard" /\ Goto("done")
  /\ \/ files' = [files EXCEPT !.partial = "absent"]
     \/ UNCHANGED files

\* The process dies, and leaves what it has written.
ProcessDies == command.step # "done" /\ Goto("done") /\ UNCHANGED files

\* The operator removes files by hand, as the refusals ask for.
RemoveByHand ==
  /\ command.step = "done"
  /\ \E f \in {"partial", "target"} :
       files[f] # "absent" /\ files' = [files EXCEPT ![f] = "absent"]
  /\ UNCHANGED command

\* Storage fails under the database.
SourceIsDamaged ==
  /\ files.source = "whole" /\ files' = [files EXCEPT !.source = "damaged"]
  /\ UNCHANGED command

BackupsNext ==
  \/ BeginCommand \/ CheckPaths \/ WriteSome \/ WriteRest \/ WriteStops \/ VerifyPartial
  \/ Rename \/ WriteFails \/ Discard \/ ProcessDies \/ RemoveByHand \/ SourceIsDamaged

BackupsSpec == BackupsInit /\ [][BackupsNext]_backupVars

----------------------------------------------------------------------------
\* backup.ts: a file stands at the target's path only as a whole, intact one,
\* whenever earlier commands died, the disk filled or the source was damaged.
BackupsAreWhole == files.target \in {"absent", "whole"}
=============================================================================
