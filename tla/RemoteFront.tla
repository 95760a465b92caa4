------------------------------ MODULE RemoteFront ------------------------------
(***************************************************************************)
(* apply_remote_front of xhttp_setup/remote_front.py over an SSHSession of *)
(* ssh_transport.py: the PC uploads the installer to a staging directory   *)
(* on a bridge, runs its front command there, fetches client.vless, and    *)
(* removes the directory.  Commands share one authenticated master, a      *)
(* process of its own with a control socket; a command whose connection    *)
(* fails may have been carried out, or still be running, and the session   *)
(* takes no further command.  The upload and the download each have an     *)
(* SFTP session with a master of its own.  Ctrl-C may come at any step.    *)
(***************************************************************************)
EXTENDS Integers

CONSTANT MaxFaults  \* bound: commands, sessions and checks that fail, Ctrl-C

ASSUME RemoteFrontAssumption == MaxFaults \in Nat

VARIABLES
  temp,    \* the staging directory: "none", "dir" (empty), "part", "files"
  job,     \* the front command on the bridge: "none", "running", "ended"
  front,   \* site and client.vless on the bridge: "old", "torn", "new"
  client,  \* client.vless on the PC
  master,  \* the SSH master runs
  socket,  \* its private directory exists
  sftpMaster, sftpSocket,  \* those of the running SFTP session, or left by one
  broken,  \* SSHSession._broken
  pc,      \* the next step
  known,   \* remote_temp is set
  remote, artifact, cleanup,  \* the three parts of the report
  failure, \* an exception was caught in the body
  transport,  \* a transport failure is among its causes, or the clean-up's
  teardown,   \* session_cleanup_failed
  recovery,   \* of the exact recovery: "none", "completed", "failed"
  outcome,    \* "none", "success", "error" (a RemoteFrontError), "raw"
              \* (any other exception), "interrupt"
  faults

bridge == <<temp, job, front>>
sftp == <<sftpMaster, sftpSocket>>
session == <<master, socket, broken, sftp>>
statuses == <<remote, artifact, cleanup>>
vars == <<bridge, client, session, pc, known, statuses, failure, transport, teardown,
          recovery, outcome, faults>>

Init ==
  /\ temp = "none" /\ job = "none" /\ front = "old" /\ client = "old"
  /\ master = FALSE /\ socket = FALSE /\ broken = FALSE
  /\ sftpMaster = FALSE /\ sftpSocket = FALSE
  /\ pc = "open"
  /\ known = FALSE
  /\ remote = "not_started" /\ artifact = "not_saved" /\ cleanup = "not_needed"
  /\ failure = FALSE /\ transport = FALSE /\ teardown = FALSE
  /\ recovery = "none"
  /\ outcome = "none"
  /\ faults = 0

Body == {"identity", "mktemp", "chmod", "upload", "verify", "apply", "snapshot", "download",
         "validate", "persist"}

-------------------------------------------------------------------------------
\* Control.

Charge == faults < MaxFaults /\ faults' = faults + 1

Goto(label) == pc' = label /\ UNCHANGED outcome
End(result) == pc' = "end" /\ outcome' = result

Unreported == <<failure, transport, teardown, recovery>>

\* The finally clause.
Leave == Goto(IF known THEN "rm" ELSE "close")

-------------------------------------------------------------------------------
\* The session: one master for a group of commands.

Open(next) == master' = TRUE /\ socket' = TRUE /\ broken' = FALSE /\ Goto(next)

OpenSession ==
  /\ pc = "open"
  /\ Open("identity")
  /\ UNCHANGED <<bridge, client, sftp, known, statuses, Unreported, faults>>

\* _stop_control_master ends the master, or raises and keeps its socket; the
\* removal of the directory may fail as well.
CloseResults == { <<FALSE, FALSE>>, <<TRUE, TRUE>>, <<FALSE, TRUE>> }

\* A master that does not come up is stopped like one that did.
OpenFails ==
  /\ pc = "open"
  /\ Charge
  /\ \E result \in CloseResults : master' = result[1] /\ socket' = result[2]
  /\ End("raw")
  /\ UNCHANGED <<bridge, client, broken, sftp, known, statuses, Unreported>>

\* SSHSession.command
MarkBroken(kind) == broken' = (broken \/ kind = "transport")

-------------------------------------------------------------------------------
\* The body.

NextLabel ==
  [identity |-> "mktemp", mktemp |-> "chmod", chmod |-> "upload", upload |-> "verify",
   verify |-> "apply", apply |-> "snapshot", snapshot |-> "download", download |-> "validate",
   validate |-> "persist", persist |-> "rm"]

\* Effects that a step has when it is carried out.
Effect(label) ==
  /\ temp' = CASE label = "mktemp" -> "dir" [] label = "upload" -> "files" [] OTHER -> temp
  /\ IF label = "apply" THEN job' = "ended" /\ front' = "new" ELSE UNCHANGED <<job, front>>
  /\ client' = IF label = "persist" THEN "new" ELSE client

\* Set before mktemp is tried: it may have worked although it seems to fail.
Before(label) == cleanup' = IF label = "mktemp" THEN "unknown" ELSE cleanup

\* The upload's SFTP session lasts until what it has sent is verified, the
\* download's as long as the step.
Transferring == {"upload", "verify", "download"}

Transfer(label) == sftpMaster' = (label = "upload") /\ sftpSocket' = (label = "upload")

\* With an exception on its way out, an SFTP session that fails to close is a
\* note on it, and no part of the report; a close that fails by itself is an
\* error of the step.
TransferFails ==
  IF pc \in Transferring
  THEN \E result \in CloseResults : sftpMaster' = result[1] /\ sftpSocket' = result[2]
  ELSE UNCHANGED sftp

Succeeds ==
  /\ pc \in Body
  /\ Effect(pc)
  /\ Before(pc)
  /\ Transfer(pc)
  /\ known' = (known \/ pc = "mktemp")
  /\ remote' = IF pc = "apply" THEN "succeeded" ELSE remote
  /\ artifact' = IF pc = "persist" THEN "saved" ELSE artifact
  /\ Goto(NextLabel[pc])
  /\ UNCHANGED <<master, socket, broken, Unreported, faults>>

\* What a step may have done when it fails: a refused command nothing, an upload
\* any part; the front command has rolled back, or not, or has even committed.
Leftover(kind) ==
  \/ UNCHANGED <<bridge, client>>
  \/ /\ pc = "mktemp" /\ kind # "error"
     /\ temp' = "dir" /\ UNCHANGED <<job, front, client>>
  \/ /\ pc = "upload"
     /\ temp' \in {"part", "files"} /\ UNCHANGED <<job, front, client>>
  \/ /\ pc = "persist" /\ kind = "interrupt"
     /\ client' = "torn" /\ UNCHANGED bridge

\* With an answer the front command has ended; without one it may go on.
JobLeftover(kind) ==
  /\ IF kind = "error"
     THEN job' = "ended" /\ front' \in {"old", "torn", "new"}
     ELSE \/ UNCHANGED <<job, front>>
          \/ job' = "running" /\ UNCHANGED front
          \/ job' = "ended" /\ front' \in {"old", "torn", "new"}
  /\ UNCHANGED <<temp, client>>

\* Which failures a step knows: the SFTP sessions and the local files are not
\* part of the SSH session.
Kinds(label) ==
  IF label \in {"upload", "download", "persist"} THEN {"error", "interrupt"}
                                                 ELSE {"error", "interrupt", "transport"}

\* Mutant: a front command without an answer counts as failed.
RemoteAfterFailed(kind) == IF pc = "apply" THEN "failed" ELSE remote

RemoteAfter(kind) ==
  IF pc = "apply" THEN (IF kind = "error" THEN "failed" ELSE "unknown") ELSE remote

Fails ==
  /\ pc \in Body
  /\ Charge
  /\ \E kind \in Kinds(pc) :
       /\ IF pc = "apply" THEN JobLeftover(kind) ELSE Leftover(kind)
       /\ remote' = RemoteAfter(kind)
       /\ MarkBroken(kind)
       /\ transport' = (kind = "transport")
       /\ failure' = (kind # "interrupt")
       /\ outcome' = IF kind = "interrupt" THEN "interrupt" ELSE outcome
  /\ Before(pc)
  /\ TransferFails
  /\ pc' = IF known THEN "rm" ELSE "close"
  /\ UNCHANGED <<master, socket, known, artifact, teardown, recovery>>

\* The transaction of client.vless, whose own rollback may fail.
PersistPartly ==
  /\ pc = "persist"
  /\ Charge
  /\ client' \in {"torn", "new"}
  /\ artifact' = "partial"
  /\ failure' = TRUE
  /\ Leave
  /\ UNCHANGED <<bridge, session, known, remote, cleanup, transport, teardown, recovery>>

-------------------------------------------------------------------------------
\* _cleanup_remote_temp, in the first session or in the recovery's.

Removing == {"rm", "rmdir", "recover_rm", "recover_rmdir"}
Recovering == pc \in {"recover_rm", "recover_rmdir", "recover_close"}

Remove ==
  /\ pc \in {"rm", "recover_rm"} /\ ~broken
  /\ temp' = IF temp \in {"part", "files"} THEN "dir" ELSE temp
  /\ Goto(IF pc = "rm" THEN "rmdir" ELSE "recover_rmdir")
  /\ UNCHANGED <<job, front, client, session, known, statuses, Unreported, faults>>

RemoveDirectory ==
  /\ pc \in {"rmdir", "recover_rmdir"}
  /\ temp' = "none"
  /\ IF pc = "rmdir"
     THEN cleanup' = "succeeded" /\ UNCHANGED recovery /\ Goto("close")
     ELSE recovery' = "completed" /\ UNCHANGED cleanup /\ Goto("recover_close")
  /\ UNCHANGED <<job, front, client, session, known, remote, artifact, failure, transport,
                 teardown, faults>>

\* A session that is marked broken takes no command.
RemoveRefused ==
  /\ pc = "rm" /\ broken
  /\ cleanup' = "failed"
  /\ transport' = TRUE
  /\ Goto("close")
  /\ UNCHANGED <<bridge, client, session, known, remote, artifact, failure, teardown, recovery,
                 faults>>

RemoveFails ==
  /\ pc \in Removing /\ ~broken
  /\ Charge
  /\ \/ UNCHANGED temp
     \/ pc \in {"rm", "recover_rm"} /\ temp \in {"part", "files"} /\ temp' \in {"dir", "part"}
     \/ pc \in {"rmdir", "recover_rmdir"} /\ temp' = "none"
  /\ \E kind \in {"error", "transport", "interrupt"} :
       /\ temp' = "none" /\ temp # "none" => kind # "error"
       /\ MarkBroken(kind)
       /\ outcome' = IF kind = "interrupt" THEN "interrupt" ELSE outcome
       /\ IF Recovering
          THEN recovery' = "failed" /\ UNCHANGED <<cleanup, transport>>
          ELSE /\ cleanup' = IF kind = "interrupt" THEN cleanup ELSE "failed"
               /\ transport' = (transport \/ kind = "transport")
               /\ UNCHANGED recovery
  /\ pc' = IF Recovering THEN "recover_close" ELSE "close"
  /\ UNCHANGED <<job, front, client, master, socket, known, remote, artifact, failure, teardown, sftp>>

-------------------------------------------------------------------------------
\* The end of the call.

\* Mutant: a broken session justifies a recovery by itself.
RecoveryAllowedAlways == transport

RecoveryAllowed == remote \in {"not_started", "failed"} /\ transport

\* After the session: success, RemoteFrontError, or first the one recovery.
Report(torn) ==
  IF outcome = "interrupt" THEN End("interrupt")
  ELSE IF ~failure /\ ~torn THEN End(IF cleanup = "succeeded" THEN "success" ELSE "error")
  ELSE IF RecoveryAllowed /\ cleanup # "succeeded" /\ known THEN Goto("recover")
  ELSE End("error")

Close ==
  /\ pc = "close"
  /\ master' = FALSE /\ socket' = FALSE
  /\ Report(FALSE)
  /\ UNCHANGED <<bridge, client, broken, sftp, known, statuses, Unreported, faults>>

CloseFails ==
  /\ pc = "close"
  /\ Charge
  /\ \E result \in CloseResults \ {<<FALSE, FALSE>>} :
       master' = result[1] /\ socket' = result[2]
  /\ teardown' = TRUE
  /\ Report(TRUE)
  /\ UNCHANGED <<bridge, client, broken, sftp, known, statuses, failure, transport, recovery>>

\* Ctrl-C during the teardown, or the local temporary directory is not removed.
CloseEscapes ==
  /\ pc \in {"close", "recover_close"}
  /\ Charge
  /\ \/ UNCHANGED <<master, socket>> /\ End("interrupt")
     \/ /\ pc = "close" /\ outcome # "interrupt"
        /\ master' = FALSE /\ socket' = FALSE
        /\ End("raw")
  /\ UNCHANGED <<bridge, client, broken, sftp, known, statuses, Unreported>>

OpenRecovery ==
  /\ pc = "recover"
  /\ Open("recover_rm")
  /\ UNCHANGED <<bridge, client, sftp, known, statuses, Unreported, faults>>

OpenRecoveryFails ==
  /\ pc = "recover"
  /\ Charge
  /\ \E result \in CloseResults : master' = result[1] /\ socket' = result[2]
  /\ recovery' = "failed"
  /\ End("error")
  /\ UNCHANGED <<bridge, client, broken, sftp, known, statuses, failure, transport, teardown>>

CloseRecovery ==
  /\ pc = "recover_close"
  /\ \/ master' = FALSE /\ socket' = FALSE /\ UNCHANGED <<recovery, faults>>
     \/ /\ Charge
        /\ \E result \in CloseResults \ {<<FALSE, FALSE>>} :
             master' = result[1] /\ socket' = result[2]
        /\ recovery' = "failed"
  /\ cleanup' = IF recovery' = "completed" THEN "succeeded" ELSE cleanup
  /\ End(IF outcome = "interrupt" THEN "interrupt" ELSE "error")
  /\ UNCHANGED <<bridge, client, broken, sftp, known, remote, artifact, failure, transport, teardown>>

\* A front command without its connection comes to its end.
JobEnds ==
  /\ job = "running"
  /\ job' = "ended"
  /\ front' \in {"old", "torn", "new"}
  /\ UNCHANGED <<temp, client, session, pc, known, statuses, Unreported, outcome, faults>>

Ended == pc = "end" /\ UNCHANGED vars

Next ==
  \/ OpenSession \/ OpenFails \/ Succeeds \/ Fails \/ PersistPartly
  \/ Remove \/ RemoveDirectory \/ RemoveRefused \/ RemoveFails
  \/ Close \/ CloseFails \/ CloseEscapes
  \/ OpenRecovery \/ OpenRecoveryFails \/ CloseRecovery
  \/ JobEnds \/ Ended

Spec == Init /\ [][Next]_vars

-------------------------------------------------------------------------------
\* Properties.

\* Types.
TypeOK ==
  /\ temp \in {"none", "dir", "part", "files"}
  /\ job \in {"none", "running", "ended"}
  /\ front \in {"old", "torn", "new"}
  /\ client \in {"old", "torn", "new"}
  /\ master \in BOOLEAN /\ socket \in BOOLEAN /\ broken \in BOOLEAN /\ known \in BOOLEAN
  /\ sftpMaster \in BOOLEAN /\ sftpSocket \in BOOLEAN
  /\ failure \in BOOLEAN /\ transport \in BOOLEAN /\ teardown \in BOOLEAN
  /\ pc \in Body \cup Removing \cup {"open", "close", "recover", "recover_close", "end"}
  /\ remote \in {"not_started", "failed", "unknown", "succeeded"}
  /\ artifact \in {"not_saved", "partial", "saved"}
  /\ cleanup \in {"not_needed", "unknown", "failed", "succeeded"}
  /\ recovery \in {"none", "completed", "failed"}
  /\ outcome \in {"none", "success", "error", "raw", "interrupt"}
  /\ faults \in 0..MaxFaults

\* What a result or a RemoteFrontError says is so, however the sessions and the
\* recovery have failed: on the front command, the saved profile, the staging
\* directory, and (unless it says otherwise) the master of the commands.  Of the
\* SFTP sessions an error says nothing, also when session_cleanup_failed is
\* False; but a master or directory of theirs is left only where the front
\* command has not started, or the profile has not been fetched.
ReportIsTrue ==
  outcome \in {"success", "error"} /\ pc = "end" =>
    /\ remote = "succeeded" => job = "ended" /\ front = "new"
    /\ remote = "failed" => job = "ended"
    /\ remote = "not_started" => job = "none" /\ front = "old"
    /\ artifact = "saved" => client = "new"
    /\ artifact = "not_saved" => client = "old"
    /\ cleanup \in {"succeeded", "not_needed"} => temp = "none"
    /\ ~teardown /\ recovery # "failed" => ~master /\ ~socket
    /\ sftpMaster \/ sftpSocket =>
         artifact = "not_saved" /\ remote \in {"not_started", "succeeded"}
    /\ outcome = "success" => remote = "succeeded" /\ artifact = "saved" /\ cleanup = "succeeded"

\* The installer that the bridge is running is not removed from under it: neither
\* by the clean-up nor by the recovery.  A Ctrl-C during the front command is the
\* exception: its clean-up goes ahead.
StagingKept ==
  [][job = "running" /\ temp = "files" /\ outcome # "interrupt" => temp' = "files"]_vars
===============================================================================
