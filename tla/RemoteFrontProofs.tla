--------------------------- MODULE RemoteFrontProofs ---------------------------
(***************************************************************************)
(* What holds of RemoteFront for any number of failures: the report of     *)
(* apply_remote_front is true in each of its parts, and the installer is   *)
(* not removed from under a front command that may still be running.  The  *)
(* report is written before the sessions end; the invariant says what each *)
(* of its words promises from there on.                                    *)
(***************************************************************************)
EXTENDS RemoteFront, TLAPS

\* In the body nothing is reported yet but the front command.
Begun ==
  pc \in Body \cup {"open"} =>
    /\ remote = IF pc \in {"snapshot", "download", "validate", "persist"}
                THEN "succeeded" ELSE "not_started"
    /\ artifact = "not_saved" /\ client = "old"
    /\ outcome = "none" /\ failure = FALSE /\ recovery = "none"
    /\ cleanup = IF pc \in {"open", "identity", "mktemp"} THEN "not_needed" ELSE "unknown"

\* What the status of the front command says of the bridge.
FrontKnown ==
  /\ remote = "succeeded" => job = "ended" /\ front = "new"
  /\ remote = "failed" => job = "ended"
  /\ remote = "not_started" => job = "none" /\ front = "old"

\* What the status of the artifact says of the file on the PC.
SavedKnown ==
  /\ artifact = "saved" => client = "new"
  /\ artifact = "not_saved" /\ outcome # "interrupt" => client = "old"

\* What the status of the clean-up says of the staging directory.
StagingKnown ==
  cleanup \in {"succeeded", "not_needed"} \/ recovery = "completed" => temp = "none"

\* A transfer that has left something behind is where the body has ended, before
\* the front command or after it.
SftpKnown ==
  sftpMaster \/ sftpSocket =>
    /\ pc \notin (Body \ {"verify"}) \cup {"open"}
    /\ artifact = "not_saved" /\ remote \in {"not_started", "succeeded"}

\* The clean-up knows whether the body came to its end, and is refused while the
\* front command may run; a recovery takes place only when it cannot.
CleanupKnown ==
  /\ pc \in {"rm", "rmdir", "close"} /\ ~failure /\ outcome # "interrupt" =>
       remote = "succeeded" /\ artifact = "saved"
  /\ pc \in {"rm", "rmdir"} /\ remote = "unknown" /\ outcome # "interrupt" =>
       broken /\ pc = "rm"
  /\ pc \in {"recover", "recover_rm", "recover_rmdir", "recover_close"} =>
       remote \in {"not_started", "failed"}
  /\ pc = "recover" => outcome # "interrupt"

Inv ==
  TypeOK /\ Begun /\ FrontKnown /\ SavedKnown /\ StagingKnown /\ SftpKnown /\ CleanupKnown /\
  ReportIsTrue

-------------------------------------------------------------------------------
\* Before the first session nothing has happened.
LEMMA InvInit ==
  ASSUME Init
  PROVE  Inv
<1> USE RemoteFrontAssumption DEF Init
<1>1. TypeOK
  <2>1. /\ sftpMaster \in BOOLEAN /\ sftpSocket \in BOOLEAN
        /\ master \in BOOLEAN /\ socket \in BOOLEAN /\ broken \in BOOLEAN /\ known \in BOOLEAN
        /\ failure \in BOOLEAN /\ transport \in BOOLEAN /\ teardown \in BOOLEAN
    OBVIOUS
  <2>2. faults \in 0..MaxFaults
    OBVIOUS
  <2> QED
    BY <2>1, <2>2 DEF TypeOK
<1> QED
  BY <1>1 DEF Inv, Body, Begun, FrontKnown, SavedKnown, StagingKnown, SftpKnown, CleanupKnown, ReportIsTrue

\* A stuttering step changes nothing that the invariant mentions.
LEMMA InvStutter ==
  ASSUME Inv, UNCHANGED vars
  PROVE  Inv'
BY DEF vars, bridge, session, sftp, statuses, Inv, TypeOK, Body, Removing, Begun, FrontKnown,
       SavedKnown, StagingKnown, SftpKnown, CleanupKnown, ReportIsTrue

\* A master and its directory are there or not.
LEMMA CloseResultIsBoolean ==
  ASSUME NEW result \in CloseResults
  PROVE  result[1] \in BOOLEAN /\ result[2] \in BOOLEAN
<1>1. CASE result = <<FALSE, FALSE>>
  BY <1>1
<1>2. CASE result = <<TRUE, TRUE>>
  BY <1>2
<1>3. CASE result = <<FALSE, TRUE>>
  BY <1>3
<1> QED
  BY <1>1, <1>2, <1>3 DEF CloseResults

\* A step of the body, or the session before it.
LEMMA InvBody ==
  ASSUME Inv, OpenSession \/ OpenFails \/ Succeeds \/ Fails \/ PersistPartly
  PROVE  Inv'
<1> USE RemoteFrontAssumption
<1> USE DEF Inv, Body, Removing, Goto, End, Unreported, bridge, session, sftp, statuses
<1>1. CASE OpenSession
  <2>1. TypeOK'
    <3>1. /\ master' \in BOOLEAN /\ socket' \in BOOLEAN
          /\ sftpMaster' \in BOOLEAN /\ sftpSocket' \in BOOLEAN
      BY <1>1 DEF OpenSession, Open, TypeOK
    <3>2. /\ broken' \in BOOLEAN /\ known' \in BOOLEAN
          /\ failure' \in BOOLEAN /\ transport' \in BOOLEAN /\ teardown' \in BOOLEAN
      BY <1>1 DEF OpenSession, Open, TypeOK
    <3>3. faults' \in 0..MaxFaults
      BY <1>1 DEF OpenSession, Open, TypeOK
    <3>4. pc' \in Body \cup Removing \cup {"open", "close", "recover", "recover_close", "end"}
      BY <1>1 DEF OpenSession, Open, TypeOK
    <3> QED
      BY <1>1, <3>1, <3>2, <3>3, <3>4 DEF OpenSession, Open, TypeOK
  <2>2. Begun'
    BY <1>1 DEF OpenSession, Open, TypeOK, Begun
  <2>3. FrontKnown'
    BY <1>1 DEF OpenSession, Open, TypeOK, Begun, FrontKnown
  <2>4. SavedKnown'
    BY <1>1 DEF OpenSession, Open, TypeOK, Begun, SavedKnown
  <2>5. StagingKnown'
    BY <1>1 DEF OpenSession, Open, TypeOK, Begun, StagingKnown
  <2>6. SftpKnown'
    BY <1>1 DEF OpenSession, Open, TypeOK, Begun, SftpKnown
  <2>7. CleanupKnown'
    BY <1>1 DEF OpenSession, Open, TypeOK, Begun, CleanupKnown, FrontKnown
  <2>8. ReportIsTrue'
    BY <1>1 DEF OpenSession, Open, TypeOK, Begun, ReportIsTrue, FrontKnown, SavedKnown, StagingKnown, SftpKnown, CleanupKnown
  <2> QED
    BY <2>1, <2>2, <2>3, <2>4, <2>5, <2>6, <2>7, <2>8
<1>2. CASE OpenFails
  <2>1. TypeOK'
    <3>1. /\ master' \in BOOLEAN /\ socket' \in BOOLEAN
          /\ sftpMaster' \in BOOLEAN /\ sftpSocket' \in BOOLEAN
      BY <1>2, CloseResultIsBoolean DEF OpenFails, Charge, TypeOK
    <3>2. /\ broken' \in BOOLEAN /\ known' \in BOOLEAN
          /\ failure' \in BOOLEAN /\ transport' \in BOOLEAN /\ teardown' \in BOOLEAN
      BY <1>2 DEF OpenFails, Charge, TypeOK
    <3>3. faults' \in 0..MaxFaults
      BY <1>2 DEF OpenFails, Charge, TypeOK
    <3>4. pc' \in Body \cup Removing \cup {"open", "close", "recover", "recover_close", "end"}
      BY <1>2 DEF OpenFails, Charge, TypeOK
    <3> QED
      BY <1>2, <3>1, <3>2, <3>3, <3>4 DEF OpenFails, Charge, TypeOK
  <2>2. Begun'
    BY <1>2 DEF OpenFails, Charge, TypeOK, Begun
  <2>3. FrontKnown'
    BY <1>2 DEF OpenFails, Charge, TypeOK, Begun, FrontKnown
  <2>4. SavedKnown'
    BY <1>2 DEF OpenFails, Charge, TypeOK, Begun, SavedKnown
  <2>5. StagingKnown'
    BY <1>2 DEF OpenFails, Charge, TypeOK, Begun, StagingKnown
  <2>6. SftpKnown'
    BY <1>2 DEF OpenFails, Charge, TypeOK, Begun, SftpKnown
  <2>7. CleanupKnown'
    BY <1>2 DEF OpenFails, Charge, TypeOK, Begun, CleanupKnown, FrontKnown
  <2>8. ReportIsTrue'
    BY <1>2 DEF OpenFails, Charge, TypeOK, Begun, ReportIsTrue, FrontKnown, SavedKnown, StagingKnown, SftpKnown, CleanupKnown
  <2> QED
    BY <2>1, <2>2, <2>3, <2>4, <2>5, <2>6, <2>7, <2>8
<1>3. CASE Succeeds
  <2>1. TypeOK'
    BY <1>3 DEF Succeeds, Transfer, Effect, Before, NextLabel, TypeOK
  <2>2. Begun'
    BY <1>3 DEF Succeeds, Transfer, Effect, Before, NextLabel, TypeOK, Begun
  <2>3. FrontKnown'
    BY <1>3 DEF Succeeds, Transfer, Effect, Before, NextLabel, TypeOK, Begun, FrontKnown
  <2>4. SavedKnown'
    BY <1>3 DEF Succeeds, Transfer, Effect, Before, NextLabel, TypeOK, Begun, SavedKnown
  <2>5. StagingKnown'
    BY <1>3 DEF Succeeds, Transfer, Effect, Before, NextLabel, TypeOK, Begun, StagingKnown
  <2>6. SftpKnown'
    BY <1>3 DEF Succeeds, Transfer, Effect, Before, NextLabel, TypeOK, Begun, SftpKnown
  <2>7. CleanupKnown'
    BY <1>3 DEF Succeeds, Transfer, Effect, Before, NextLabel, TypeOK, Begun, CleanupKnown, FrontKnown
  <2>8. ReportIsTrue'
    BY <1>3 DEF Succeeds, Transfer, Effect, Before, NextLabel, TypeOK, Begun, ReportIsTrue, FrontKnown, SavedKnown, StagingKnown, SftpKnown, CleanupKnown
  <2> QED
    BY <2>1, <2>2, <2>3, <2>4, <2>5, <2>6, <2>7, <2>8
<1>4. CASE Fails
  <2>1. TypeOK'
    <3>1. sftpMaster' \in BOOLEAN /\ sftpSocket' \in BOOLEAN
      BY <1>4, CloseResultIsBoolean DEF Fails, TransferFails, TypeOK
    <3>2. broken' \in BOOLEAN /\ failure' \in BOOLEAN /\ transport' \in BOOLEAN
      BY <1>4 DEF Fails, MarkBroken, TypeOK
    <3>3. faults' \in 0..MaxFaults
      BY <1>4 DEF Fails, Charge, TypeOK
    <3> QED
      BY <1>4, <3>1, <3>2, <3>3 DEF Fails, Charge, Leftover, JobLeftover, RemoteAfter, MarkBroken, Before, Kinds, TypeOK
  <2>2. Begun'
    BY <1>4 DEF Fails, Charge, Leftover, JobLeftover, RemoteAfter, MarkBroken, Before, Kinds, TypeOK, Begun
  <2>3. FrontKnown'
    BY <1>4 DEF Fails, Charge, Leftover, JobLeftover, RemoteAfter, MarkBroken, Before, Kinds, TypeOK, Begun, FrontKnown
  <2>4. SavedKnown'
    BY <1>4 DEF Fails, Charge, Leftover, JobLeftover, RemoteAfter, MarkBroken, Before, Kinds, TypeOK, Begun, SavedKnown
  <2>5. StagingKnown'
    BY <1>4 DEF Fails, Charge, Leftover, JobLeftover, RemoteAfter, MarkBroken, Before, Kinds, TypeOK, Begun, StagingKnown
  <2>6. SftpKnown'
    BY <1>4 DEF Fails, TransferFails, Transferring, CloseResults, Charge, Leftover, JobLeftover, RemoteAfter, MarkBroken, Before, Kinds, TypeOK, Begun, SftpKnown
  <2>7. CleanupKnown'
    BY <1>4 DEF Fails, Charge, Leftover, JobLeftover, RemoteAfter, MarkBroken, Before, Kinds, TypeOK, Begun, CleanupKnown, FrontKnown
  <2>8. ReportIsTrue'
    BY <1>4 DEF Fails, TransferFails, Transferring, CloseResults, Charge, Leftover, JobLeftover, RemoteAfter, MarkBroken, Before, Kinds, TypeOK, Begun, ReportIsTrue, FrontKnown, SavedKnown, StagingKnown, SftpKnown, CleanupKnown
  <2> QED
    BY <2>1, <2>2, <2>3, <2>4, <2>5, <2>6, <2>7, <2>8
<1>5. CASE PersistPartly
  <2>1. TypeOK'
    BY <1>5 DEF PersistPartly, Charge, Leave, TypeOK
  <2>2. Begun'
    BY <1>5 DEF PersistPartly, Charge, Leave, TypeOK, Begun
  <2>3. FrontKnown'
    BY <1>5 DEF PersistPartly, Charge, Leave, TypeOK, Begun, FrontKnown
  <2>4. SavedKnown'
    BY <1>5 DEF PersistPartly, Charge, Leave, TypeOK, Begun, SavedKnown
  <2>5. StagingKnown'
    BY <1>5 DEF PersistPartly, Charge, Leave, TypeOK, Begun, StagingKnown
  <2>6. SftpKnown'
    BY <1>5 DEF PersistPartly, Charge, Leave, TypeOK, Begun, SftpKnown
  <2>7. CleanupKnown'
    BY <1>5 DEF PersistPartly, Charge, Leave, TypeOK, Begun, CleanupKnown, FrontKnown
  <2>8. ReportIsTrue'
    BY <1>5 DEF PersistPartly, Charge, Leave, TypeOK, Begun, ReportIsTrue, FrontKnown, SavedKnown, StagingKnown, SftpKnown, CleanupKnown
  <2> QED
    BY <2>1, <2>2, <2>3, <2>4, <2>5, <2>6, <2>7, <2>8
<1> QED
  BY <1>1, <1>2, <1>3, <1>4, <1>5

\* A step of the clean-up, in the first session or in the recovery's.
LEMMA InvCleanup ==
  ASSUME Inv, Remove \/ RemoveDirectory \/ RemoveRefused \/ RemoveFails
  PROVE  Inv'
<1> USE RemoteFrontAssumption
<1> USE DEF Inv, Body, Removing, Goto, End, Unreported, bridge, session, sftp, statuses
<1>1. CASE Remove
  <2>1. TypeOK'
    BY <1>1 DEF Remove, TypeOK
  <2>2. Begun'
    BY <1>1 DEF Remove, TypeOK, Begun
  <2>3. FrontKnown'
    BY <1>1 DEF Remove, TypeOK, Begun, FrontKnown
  <2>4. SavedKnown'
    BY <1>1 DEF Remove, TypeOK, Begun, SavedKnown
  <2>5. StagingKnown'
    BY <1>1 DEF Remove, TypeOK, Begun, StagingKnown
  <2>6. SftpKnown'
    BY <1>1 DEF Remove, TypeOK, Begun, SftpKnown
  <2>7. CleanupKnown'
    BY <1>1 DEF Remove, TypeOK, Begun, CleanupKnown, FrontKnown
  <2>8. ReportIsTrue'
    BY <1>1 DEF Remove, TypeOK, Begun, ReportIsTrue, FrontKnown, SavedKnown, StagingKnown, SftpKnown, CleanupKnown
  <2> QED
    BY <2>1, <2>2, <2>3, <2>4, <2>5, <2>6, <2>7, <2>8
<1>2. CASE RemoveDirectory
  <2>1. TypeOK'
    BY <1>2 DEF RemoveDirectory, TypeOK
  <2>2. Begun'
    BY <1>2 DEF RemoveDirectory, TypeOK, Begun
  <2>3. FrontKnown'
    BY <1>2 DEF RemoveDirectory, TypeOK, Begun, FrontKnown
  <2>4. SavedKnown'
    BY <1>2 DEF RemoveDirectory, TypeOK, Begun, SavedKnown
  <2>5. StagingKnown'
    BY <1>2 DEF RemoveDirectory, TypeOK, Begun, StagingKnown
  <2>6. SftpKnown'
    BY <1>2 DEF RemoveDirectory, TypeOK, Begun, SftpKnown
  <2>7. CleanupKnown'
    BY <1>2 DEF RemoveDirectory, TypeOK, Begun, CleanupKnown, FrontKnown
  <2>8. ReportIsTrue'
    BY <1>2 DEF RemoveDirectory, TypeOK, Begun, ReportIsTrue, FrontKnown, SavedKnown, StagingKnown, SftpKnown, CleanupKnown
  <2> QED
    BY <2>1, <2>2, <2>3, <2>4, <2>5, <2>6, <2>7, <2>8
<1>3. CASE RemoveRefused
  <2>1. TypeOK'
    BY <1>3 DEF RemoveRefused, TypeOK
  <2>2. Begun'
    BY <1>3 DEF RemoveRefused, TypeOK, Begun
  <2>3. FrontKnown'
    BY <1>3 DEF RemoveRefused, TypeOK, Begun, FrontKnown
  <2>4. SavedKnown'
    BY <1>3 DEF RemoveRefused, TypeOK, Begun, SavedKnown
  <2>5. StagingKnown'
    BY <1>3 DEF RemoveRefused, TypeOK, Begun, StagingKnown
  <2>6. SftpKnown'
    BY <1>3 DEF RemoveRefused, TypeOK, Begun, SftpKnown
  <2>7. CleanupKnown'
    BY <1>3 DEF RemoveRefused, TypeOK, Begun, CleanupKnown, FrontKnown
  <2>8. ReportIsTrue'
    BY <1>3 DEF RemoveRefused, TypeOK, Begun, ReportIsTrue, FrontKnown, SavedKnown, StagingKnown, SftpKnown, CleanupKnown
  <2> QED
    BY <2>1, <2>2, <2>3, <2>4, <2>5, <2>6, <2>7, <2>8
<1>4. CASE RemoveFails
  <2>1. TypeOK'
    <3>1. /\ master' \in BOOLEAN /\ socket' \in BOOLEAN
          /\ sftpMaster' \in BOOLEAN /\ sftpSocket' \in BOOLEAN
      BY <1>4 DEF RemoveFails, Charge, MarkBroken, Recovering, TypeOK
    <3>2. /\ broken' \in BOOLEAN /\ known' \in BOOLEAN
          /\ failure' \in BOOLEAN /\ transport' \in BOOLEAN /\ teardown' \in BOOLEAN
      BY <1>4 DEF RemoveFails, Charge, MarkBroken, Recovering, TypeOK
    <3>3. faults' \in 0..MaxFaults
      BY <1>4 DEF RemoveFails, Charge, MarkBroken, Recovering, TypeOK
    <3>4. pc' \in Body \cup Removing \cup {"open", "close", "recover", "recover_close", "end"}
      BY <1>4 DEF RemoveFails, Charge, MarkBroken, Recovering, TypeOK
    <3> QED
      BY <1>4, <3>1, <3>2, <3>3, <3>4 DEF RemoveFails, Charge, MarkBroken, Recovering, TypeOK
  <2>2. Begun'
    BY <1>4 DEF RemoveFails, Charge, MarkBroken, Recovering, TypeOK, Begun
  <2>3. FrontKnown'
    BY <1>4 DEF RemoveFails, Charge, MarkBroken, Recovering, TypeOK, Begun, FrontKnown
  <2>4. SavedKnown'
    BY <1>4 DEF RemoveFails, Charge, MarkBroken, Recovering, TypeOK, Begun, SavedKnown
  <2>5. StagingKnown'
    BY <1>4 DEF RemoveFails, Charge, MarkBroken, Recovering, TypeOK, Begun, StagingKnown
  <2>6. SftpKnown'
    BY <1>4 DEF RemoveFails, Charge, MarkBroken, Recovering, TypeOK, Begun, SftpKnown
  <2>7. CleanupKnown'
    BY <1>4 DEF RemoveFails, Charge, MarkBroken, Recovering, TypeOK, Begun, CleanupKnown, FrontKnown
  <2>8. ReportIsTrue'
    BY <1>4 DEF RemoveFails, Charge, MarkBroken, Recovering, TypeOK, Begun, ReportIsTrue, FrontKnown, SavedKnown, StagingKnown, SftpKnown, CleanupKnown
  <2> QED
    BY <2>1, <2>2, <2>3, <2>4, <2>5, <2>6, <2>7, <2>8
<1> QED
  BY <1>1, <1>2, <1>3, <1>4

\* A step of the teardown and the recovery, and of a job left alone.
LEMMA InvEnd ==
  ASSUME Inv, Close \/ CloseFails \/ CloseEscapes \/ OpenRecovery \/ OpenRecoveryFails \/ CloseRecovery \/ JobEnds \/ Ended
  PROVE  Inv'
<1> USE RemoteFrontAssumption
<1> USE DEF Inv, Body, Removing, Goto, End, Unreported, bridge, session, sftp, statuses
<1>1. CASE Close
  <2>1. TypeOK'
    <3>1. /\ master' \in BOOLEAN /\ socket' \in BOOLEAN
          /\ sftpMaster' \in BOOLEAN /\ sftpSocket' \in BOOLEAN
      BY <1>1 DEF Close, Report, RecoveryAllowed, TypeOK
    <3>2. /\ broken' \in BOOLEAN /\ known' \in BOOLEAN
          /\ failure' \in BOOLEAN /\ transport' \in BOOLEAN /\ teardown' \in BOOLEAN
      BY <1>1 DEF Close, Report, RecoveryAllowed, TypeOK
    <3>3. faults' \in 0..MaxFaults
      BY <1>1 DEF Close, Report, RecoveryAllowed, TypeOK
    <3>4. pc' \in Body \cup Removing \cup {"open", "close", "recover", "recover_close", "end"}
      BY <1>1 DEF Close, Report, RecoveryAllowed, TypeOK
    <3> QED
      BY <1>1, <3>1, <3>2, <3>3, <3>4 DEF Close, Report, RecoveryAllowed, TypeOK
  <2>2. Begun'
    BY <1>1 DEF Close, Report, RecoveryAllowed, TypeOK, Begun
  <2>3. FrontKnown'
    BY <1>1 DEF Close, Report, RecoveryAllowed, TypeOK, Begun, FrontKnown
  <2>4. SavedKnown'
    BY <1>1 DEF Close, Report, RecoveryAllowed, TypeOK, Begun, SavedKnown
  <2>5. StagingKnown'
    BY <1>1 DEF Close, Report, RecoveryAllowed, TypeOK, Begun, StagingKnown
  <2>6. SftpKnown'
    BY <1>1 DEF Close, Report, RecoveryAllowed, TypeOK, Begun, SftpKnown
  <2>7. CleanupKnown'
    BY <1>1 DEF Close, Report, RecoveryAllowed, TypeOK, Begun, CleanupKnown, FrontKnown
  <2>8. ReportIsTrue'
    BY <1>1 DEF Close, Report, RecoveryAllowed, TypeOK, Begun, ReportIsTrue, FrontKnown, SavedKnown, StagingKnown, SftpKnown, CleanupKnown
  <2> QED
    BY <2>1, <2>2, <2>3, <2>4, <2>5, <2>6, <2>7, <2>8
<1>2. CASE CloseFails
  <2>1. TypeOK'
    <3>1. /\ master' \in BOOLEAN /\ socket' \in BOOLEAN
          /\ sftpMaster' \in BOOLEAN /\ sftpSocket' \in BOOLEAN
      BY <1>2, CloseResultIsBoolean DEF CloseFails, Charge, Report, RecoveryAllowed, TypeOK
    <3>2. /\ broken' \in BOOLEAN /\ known' \in BOOLEAN
          /\ failure' \in BOOLEAN /\ transport' \in BOOLEAN /\ teardown' \in BOOLEAN
      BY <1>2 DEF CloseFails, Charge, Report, RecoveryAllowed, TypeOK
    <3>3. faults' \in 0..MaxFaults
      BY <1>2 DEF CloseFails, Charge, Report, RecoveryAllowed, TypeOK
    <3>4. pc' \in Body \cup Removing \cup {"open", "close", "recover", "recover_close", "end"}
      BY <1>2 DEF CloseFails, Charge, Report, RecoveryAllowed, TypeOK
    <3> QED
      BY <1>2, <3>1, <3>2, <3>3, <3>4 DEF CloseFails, Charge, Report, RecoveryAllowed, TypeOK
  <2>2. Begun'
    BY <1>2 DEF CloseFails, Charge, Report, RecoveryAllowed, TypeOK, Begun
  <2>3. FrontKnown'
    BY <1>2 DEF CloseFails, Charge, Report, RecoveryAllowed, TypeOK, Begun, FrontKnown
  <2>4. SavedKnown'
    BY <1>2 DEF CloseFails, Charge, Report, RecoveryAllowed, TypeOK, Begun, SavedKnown
  <2>5. StagingKnown'
    BY <1>2 DEF CloseFails, Charge, Report, RecoveryAllowed, TypeOK, Begun, StagingKnown
  <2>6. SftpKnown'
    BY <1>2 DEF CloseFails, Charge, Report, RecoveryAllowed, TypeOK, Begun, SftpKnown
  <2>7. CleanupKnown'
    BY <1>2 DEF CloseFails, Charge, Report, RecoveryAllowed, TypeOK, Begun, CleanupKnown, FrontKnown
  <2>8. ReportIsTrue'
    BY <1>2 DEF CloseFails, Charge, Report, RecoveryAllowed, TypeOK, Begun, ReportIsTrue, FrontKnown, SavedKnown, StagingKnown, SftpKnown, CleanupKnown
  <2> QED
    BY <2>1, <2>2, <2>3, <2>4, <2>5, <2>6, <2>7, <2>8
<1>3. CASE CloseEscapes
  <2>1. TypeOK'
    <3>1. /\ master' \in BOOLEAN /\ socket' \in BOOLEAN
          /\ sftpMaster' \in BOOLEAN /\ sftpSocket' \in BOOLEAN
      BY <1>3 DEF CloseEscapes, Charge, TypeOK
    <3>2. /\ broken' \in BOOLEAN /\ known' \in BOOLEAN
          /\ failure' \in BOOLEAN /\ transport' \in BOOLEAN /\ teardown' \in BOOLEAN
      BY <1>3 DEF CloseEscapes, Charge, TypeOK
    <3>3. faults' \in 0..MaxFaults
      BY <1>3 DEF CloseEscapes, Charge, TypeOK
    <3>4. pc' \in Body \cup Removing \cup {"open", "close", "recover", "recover_close", "end"}
      BY <1>3 DEF CloseEscapes, Charge, TypeOK
    <3> QED
      BY <1>3, <3>1, <3>2, <3>3, <3>4 DEF CloseEscapes, Charge, TypeOK
  <2>2. Begun'
    BY <1>3 DEF CloseEscapes, Charge, TypeOK, Begun
  <2>3. FrontKnown'
    BY <1>3 DEF CloseEscapes, Charge, TypeOK, Begun, FrontKnown
  <2>4. SavedKnown'
    BY <1>3 DEF CloseEscapes, Charge, TypeOK, Begun, SavedKnown
  <2>5. StagingKnown'
    BY <1>3 DEF CloseEscapes, Charge, TypeOK, Begun, StagingKnown
  <2>6. SftpKnown'
    BY <1>3 DEF CloseEscapes, Charge, TypeOK, Begun, SftpKnown
  <2>7. CleanupKnown'
    BY <1>3 DEF CloseEscapes, Charge, TypeOK, Begun, CleanupKnown, FrontKnown
  <2>8. ReportIsTrue'
    BY <1>3 DEF CloseEscapes, Charge, TypeOK, Begun, ReportIsTrue, FrontKnown, SavedKnown, StagingKnown, SftpKnown, CleanupKnown
  <2> QED
    BY <2>1, <2>2, <2>3, <2>4, <2>5, <2>6, <2>7, <2>8
<1>4. CASE OpenRecovery
  <2>1. TypeOK'
    <3>1. /\ master' \in BOOLEAN /\ socket' \in BOOLEAN
          /\ sftpMaster' \in BOOLEAN /\ sftpSocket' \in BOOLEAN
      BY <1>4 DEF OpenRecovery, Open, TypeOK
    <3>2. /\ broken' \in BOOLEAN /\ known' \in BOOLEAN
          /\ failure' \in BOOLEAN /\ transport' \in BOOLEAN /\ teardown' \in BOOLEAN
      BY <1>4 DEF OpenRecovery, Open, TypeOK
    <3>3. faults' \in 0..MaxFaults
      BY <1>4 DEF OpenRecovery, Open, TypeOK
    <3>4. pc' \in Body \cup Removing \cup {"open", "close", "recover", "recover_close", "end"}
      BY <1>4 DEF OpenRecovery, Open, TypeOK
    <3> QED
      BY <1>4, <3>1, <3>2, <3>3, <3>4 DEF OpenRecovery, Open, TypeOK
  <2>2. Begun'
    BY <1>4 DEF OpenRecovery, Open, TypeOK, Begun
  <2>3. FrontKnown'
    BY <1>4 DEF OpenRecovery, Open, TypeOK, Begun, FrontKnown
  <2>4. SavedKnown'
    BY <1>4 DEF OpenRecovery, Open, TypeOK, Begun, SavedKnown
  <2>5. StagingKnown'
    BY <1>4 DEF OpenRecovery, Open, TypeOK, Begun, StagingKnown
  <2>6. SftpKnown'
    BY <1>4 DEF OpenRecovery, Open, TypeOK, Begun, SftpKnown
  <2>7. CleanupKnown'
    BY <1>4 DEF OpenRecovery, Open, TypeOK, Begun, CleanupKnown, FrontKnown
  <2>8. ReportIsTrue'
    BY <1>4 DEF OpenRecovery, Open, TypeOK, Begun, ReportIsTrue, FrontKnown, SavedKnown, StagingKnown, SftpKnown, CleanupKnown
  <2> QED
    BY <2>1, <2>2, <2>3, <2>4, <2>5, <2>6, <2>7, <2>8
<1>5. CASE OpenRecoveryFails
  <2>1. TypeOK'
    <3>1. /\ master' \in BOOLEAN /\ socket' \in BOOLEAN
          /\ sftpMaster' \in BOOLEAN /\ sftpSocket' \in BOOLEAN
      BY <1>5, CloseResultIsBoolean DEF OpenRecoveryFails, Charge, TypeOK
    <3>2. /\ broken' \in BOOLEAN /\ known' \in BOOLEAN
          /\ failure' \in BOOLEAN /\ transport' \in BOOLEAN /\ teardown' \in BOOLEAN
      BY <1>5 DEF OpenRecoveryFails, Charge, TypeOK
    <3>3. faults' \in 0..MaxFaults
      BY <1>5 DEF OpenRecoveryFails, Charge, TypeOK
    <3>4. pc' \in Body \cup Removing \cup {"open", "close", "recover", "recover_close", "end"}
      BY <1>5 DEF OpenRecoveryFails, Charge, TypeOK
    <3> QED
      BY <1>5, <3>1, <3>2, <3>3, <3>4 DEF OpenRecoveryFails, Charge, TypeOK
  <2>2. Begun'
    BY <1>5 DEF OpenRecoveryFails, Charge, TypeOK, Begun
  <2>3. FrontKnown'
    BY <1>5 DEF OpenRecoveryFails, Charge, TypeOK, Begun, FrontKnown
  <2>4. SavedKnown'
    BY <1>5 DEF OpenRecoveryFails, TypeOK, Begun, SavedKnown, CleanupKnown
  <2>5. StagingKnown'
    BY <1>5 DEF OpenRecoveryFails, Charge, TypeOK, Begun, StagingKnown
  <2>6. SftpKnown'
    BY <1>5 DEF OpenRecoveryFails, Charge, TypeOK, Begun, SftpKnown
  <2>7. CleanupKnown'
    BY <1>5 DEF OpenRecoveryFails, Charge, TypeOK, Begun, CleanupKnown, FrontKnown
  <2>8. ReportIsTrue'
    BY <1>5 DEF OpenRecoveryFails, Charge, TypeOK, Begun, ReportIsTrue, FrontKnown, SavedKnown, StagingKnown, SftpKnown, CleanupKnown
  <2> QED
    BY <2>1, <2>2, <2>3, <2>4, <2>5, <2>6, <2>7, <2>8
<1>6. CASE CloseRecovery
  <2>1. TypeOK'
    <3>1. /\ master' \in BOOLEAN /\ socket' \in BOOLEAN
          /\ sftpMaster' \in BOOLEAN /\ sftpSocket' \in BOOLEAN
      BY <1>6, CloseResultIsBoolean DEF CloseRecovery, Charge, TypeOK
    <3>2. /\ broken' \in BOOLEAN /\ known' \in BOOLEAN
          /\ failure' \in BOOLEAN /\ transport' \in BOOLEAN /\ teardown' \in BOOLEAN
      BY <1>6 DEF CloseRecovery, Charge, TypeOK
    <3>3. /\ faults' \in 0..MaxFaults
          /\ recovery' \in {"none", "completed", "failed"}
      <4>1. CASE UNCHANGED <<recovery, faults>>
        BY <4>1 DEF TypeOK
      <4>2. CASE Charge /\ recovery' = "failed"
        BY <4>2 DEF Charge, TypeOK
      <4> QED
        BY <1>6, <4>1, <4>2 DEF CloseRecovery
    <3>4. pc' \in Body \cup Removing \cup {"open", "close", "recover", "recover_close", "end"}
      BY <1>6 DEF CloseRecovery, Charge, TypeOK
    <3> QED
      <4>1. /\ cleanup' \in {"succeeded", cleanup}
            /\ outcome' \in {"interrupt", "error"}
            /\ UNCHANGED <<bridge, client, remote, artifact>>
        BY <1>6 DEF CloseRecovery
      <4> QED
        BY <3>1, <3>2, <3>3, <3>4, <4>1 DEF TypeOK
  <2>2. Begun'
    BY <1>6 DEF CloseRecovery, Charge, TypeOK, Begun
  <2>3. FrontKnown'
    BY <1>6 DEF CloseRecovery, Charge, TypeOK, Begun, FrontKnown
  <2>4. SavedKnown'
    BY <1>6 DEF CloseRecovery, Charge, TypeOK, Begun, SavedKnown
  <2>5. StagingKnown'
    BY <1>6 DEF CloseRecovery, Charge, TypeOK, Begun, StagingKnown
  <2>6. SftpKnown'
    BY <1>6 DEF CloseRecovery, Charge, TypeOK, Begun, SftpKnown
  <2>7. CleanupKnown'
    BY <1>6 DEF CloseRecovery, Charge, TypeOK, Begun, CleanupKnown, FrontKnown
  <2>8. ReportIsTrue'
    BY <1>6 DEF CloseRecovery, Charge, TypeOK, Begun, ReportIsTrue, FrontKnown, SavedKnown, StagingKnown, SftpKnown, CleanupKnown
  <2> QED
    BY <2>1, <2>2, <2>3, <2>4, <2>5, <2>6, <2>7, <2>8
<1>7. CASE JobEnds
  <2>1. TypeOK'
    BY <1>7 DEF JobEnds, TypeOK
  <2>2. Begun'
    BY <1>7 DEF JobEnds, TypeOK, Begun
  <2>3. FrontKnown'
    BY <1>7 DEF JobEnds, TypeOK, Begun, FrontKnown
  <2>4. SavedKnown'
    BY <1>7 DEF JobEnds, TypeOK, Begun, SavedKnown
  <2>5. StagingKnown'
    BY <1>7 DEF JobEnds, TypeOK, Begun, StagingKnown
  <2>6. SftpKnown'
    BY <1>7 DEF JobEnds, TypeOK, Begun, SftpKnown
  <2>7. CleanupKnown'
    BY <1>7 DEF JobEnds, TypeOK, Begun, CleanupKnown, FrontKnown
  <2>8. ReportIsTrue'
    BY <1>7 DEF JobEnds, TypeOK, Begun, ReportIsTrue, FrontKnown, SavedKnown, StagingKnown, SftpKnown, CleanupKnown
  <2> QED
    BY <2>1, <2>2, <2>3, <2>4, <2>5, <2>6, <2>7, <2>8
<1>8. CASE Ended
  <2>1. TypeOK'
    BY <1>8 DEF Ended, vars, TypeOK
  <2>2. Begun'
    BY <1>8 DEF Ended, vars, TypeOK, Begun
  <2>3. FrontKnown'
    BY <1>8 DEF Ended, vars, TypeOK, Begun, FrontKnown
  <2>4. SavedKnown'
    BY <1>8 DEF Ended, vars, TypeOK, Begun, SavedKnown
  <2>5. StagingKnown'
    BY <1>8 DEF Ended, vars, TypeOK, Begun, StagingKnown
  <2>6. SftpKnown'
    BY <1>8 DEF Ended, vars, TypeOK, Begun, SftpKnown
  <2>7. CleanupKnown'
    BY <1>8 DEF Ended, vars, TypeOK, Begun, CleanupKnown, FrontKnown
  <2>8. ReportIsTrue'
    BY <1>8 DEF Ended, vars, TypeOK, Begun, ReportIsTrue, FrontKnown, SavedKnown, StagingKnown, SftpKnown, CleanupKnown
  <2> QED
    BY <2>1, <2>2, <2>3, <2>4, <2>5, <2>6, <2>7, <2>8
<1> QED
  BY <1>1, <1>2, <1>3, <1>4, <1>5, <1>6, <1>7, <1>8

LEMMA InvNext ==
  ASSUME Inv, [Next]_vars
  PROVE  Inv'
BY InvStutter, InvBody, InvCleanup, InvEnd DEF Next

LEMMA Invariance == Spec => []Inv
<1>1. Init => Inv
  BY InvInit
<1>2. Inv /\ [Next]_vars => Inv'
  BY InvNext
<1> QED
  BY <1>1, <1>2, PTL DEF Spec

-------------------------------------------------------------------------------
\* Every state has the types of the program's.
THEOREM TypeCorrect == Spec => []TypeOK
<1>1. Inv => TypeOK
  BY DEF Inv
<1> QED
  BY <1>1, Invariance, PTL

\* A result or RemoteFrontError tells the truth about the front command, the
\* saved profile, the staging directory and the master of the commands, whichever
\* steps of the call, of its clean-up and of its recovery have failed; and what
\* an SFTP session leaves behind, which no report mentions, is left only where
\* the front command has not started or the profile has not been fetched.
THEOREM ReportsAreTrue == Spec => []ReportIsTrue
<1>1. Inv => ReportIsTrue
  BY DEF Inv
<1> QED
  BY <1>1, Invariance, PTL

\* Without a Ctrl-C, no clean-up and no recovery removes the installer while the
\* front command may run.
THEOREM InstallerIsNotPulledAway == Spec => StagingKept
<1>1. ASSUME Inv, [Next]_vars, job = "running", temp = "files", outcome # "interrupt"
      PROVE  temp' = "files"
  <2>1. remote = "unknown"
    BY <1>1 DEF Inv, TypeOK, FrontKnown
  <2>2. pc \notin Body \cup {"open", "recover_rm", "recover_rmdir"}
    BY <1>1, <2>1 DEF Inv, Begun, CleanupKnown
  <2>3. pc \in Removing => pc = "rm" /\ broken
    BY <1>1, <2>1, <2>2 DEF Inv, CleanupKnown, Removing
  <2>4. CASE UNCHANGED vars
    BY <1>1, <2>4 DEF vars, bridge
  <2>5. CASE Next
    BY <1>1, <2>2, <2>3, <2>5 DEF Next, OpenSession, OpenFails, Succeeds, Fails, PersistPartly,
       Remove, RemoveDirectory, RemoveRefused, RemoveFails, Close, CloseFails, CloseEscapes,
       OpenRecovery, OpenRecoveryFails, CloseRecovery, JobEnds, Ended, Removing, vars, bridge
  <2> QED
    BY <1>1, <2>4, <2>5
<1>2. Inv /\ [Next]_vars =>
        [job = "running" /\ temp = "files" /\ outcome # "interrupt" => temp' = "files"]_vars
  BY <1>1
<1> QED
  BY <1>2, Invariance, PTL DEF Spec, StagingKept

===============================================================================
