--------------------------- MODULE FrontTransaction ---------------------------
(***************************************************************************)
(* The SFTP transaction that installs the managed block in the site's      *)
(* .htaccess (and, in neutral mode, a placeholder index.html), verifies    *)
(* the site, and otherwise rolls every file back: xhttp_setup/front.py,    *)
(* also used by xhttp_setup/front_probe.py, where the block is temporary   *)
(* and the rollback unconditional.                                         *)
(*                                                                         *)
(* One action is one SFTP command of a batch, or one look at a target.     *)
(* The site's owner may edit a target between any two of them; a command   *)
(* may be lost, refused or interrupted.  The installer's own artifacts     *)
(* (temp, backup, quarantine, late) carry random names that the owner does *)
(* not touch, so a look at a target and the looks at the artifacts that    *)
(* follow it are one action.                                               *)
(***************************************************************************)
EXTENDS Integers, Sequences

CONSTANTS
  PlaceholderMode,  \* "keep": .htaccess only; "neutral": index.html as well
  Temporary,        \* TRUE: run_with_temporary_front_route; FALSE: apply_front
  OwnerTexts,       \* what the owner may write in a file
  EmptyText,        \* the text of an empty file
  NeutralText,      \* the placeholder page
  Absent,           \* no file of that name
  Torn,             \* a file whose upload was cut short
  MaxEdits,         \* bound: edits by the owner
  MaxFaults         \* bound: lost, refused or interrupted commands

Targets == IF PlaceholderMode = "neutral" THEN {"index", "htaccess"}
                                          ELSE {"htaccess"}

\* The order of the uploads; snapshots and rollback go the other way.
Plan == IF PlaceholderMode = "neutral" THEN <<"index", "htaccess">>
                                       ELSE <<"htaccess">>

\* block: the file carries exactly the managed block this run installs.
Pages == [text : OwnerTexts \cup {NeutralText}, block : BOOLEAN]
SitePages == Pages \cup {Absent}
Contents == SitePages \cup {Torn}
Neutral == [text |-> NeutralText, block |-> FALSE]

OwnerPages(t) ==
  [text : OwnerTexts, block : IF t = "htaccess" THEN BOOLEAN ELSE {FALSE}]

ASSUME FrontAssumption ==
  /\ PlaceholderMode \in {"keep", "neutral"}
  /\ Temporary \in BOOLEAN
  /\ Temporary => PlaceholderMode = "keep"
  /\ EmptyText \in OwnerTexts
  /\ NeutralText \notin OwnerTexts
  /\ Absent \notin Pages
  /\ Torn \notin Pages \cup {Absent}
  /\ MaxEdits \in Nat
  /\ MaxFaults \in Nat

VARIABLES
  live, temp, backup, quarantine, late,  \* the files on the server, per target
  stray,      \* what earlier rollback calls left under their own random names
  base,       \* the download that the new content is computed from
  original,   \* _RemoteMutation.original_sha256
  journal,    \* targets with a registered _RemoteMutation
  switched,   \* those with switch_attempted
  pc,         \* what the installer does next
  cur,        \* index in Plan of the file it works on
  tries,      \* iterations of the innermost loop
  outer,      \* iterations of the loop of _rollback_mutation
  caller,     \* the loop cleanup_and_verify was called from
  pass,       \* 1: the session of the apply; 2: the recovery session
  failures,   \* why mutations could not be rolled back in this pass
  outcome,    \* what the caller learns
  link,       \* "dead": the ControlMaster is gone
  owner,      \* the owner's latest content of each target
  unseen,     \* the owner edited the target after the installer's last look
  named,      \* contents whose place the error message gives
  edits, faults,
  disturbed,  \* a fault hit the rollback
  posixRename \* rename replaces an existing destination (never changes)

files == <<live, temp, backup, quarantine, late, stray>>
mutations == <<base, original, journal, switched>>
control == <<pc, cur, tries, outer, caller, pass, failures, outcome, link>>
history == <<owner, unseen, named, edits, faults, disturbed>>
vars == <<files, mutations, control, history>>

Now == Plan[cur]

\* merge_managed_block for .htaccess, neutral_placeholder for index.html.
Desired(t, page) ==
  IF t = "index" THEN Neutral
  ELSE [text  |-> IF page = Absent THEN EmptyText ELSE page.text,
        block |-> TRUE]

Installed(t) == Desired(t, base[t])
Changed(t) == Installed(t) # base[t]

-------------------------------------------------------------------------------
Init ==
  /\ live \in [Targets -> SitePages]
  /\ \A t \in Targets :
       live[t] \in OwnerPages(t) \cup {Absent}
                     \cup (IF t = "index" THEN {Neutral} ELSE {})
  /\ Temporary => Desired("htaccess", live["htaccess"]) # live["htaccess"]
  /\ temp = [t \in Targets |-> Absent]
  /\ backup = [t \in Targets |-> Absent]
  /\ quarantine = [t \in Targets |-> Absent]
  /\ late = [t \in Targets |-> Absent]
  /\ stray = [t \in Targets |-> {}]
  /\ base = live
  /\ original = live
  /\ journal = {}
  /\ switched = {}
  /\ pc = "read"
  /\ cur = Len(Plan)
  /\ tries = 0
  /\ outer = 0
  /\ caller = "isolate"
  /\ pass = 1
  /\ failures = {}
  /\ outcome = "running"
  /\ link = "up"
  /\ owner = live
  /\ unseen = [t \in Targets |-> FALSE]
  /\ named = [t \in Targets |-> {}]
  /\ edits = 0
  /\ faults = 0
  /\ disturbed = FALSE
  /\ posixRename \in BOOLEAN

-------------------------------------------------------------------------------
\* Control transfers.

Goto(label) ==
  /\ pc' = label
  /\ UNCHANGED <<cur, tries, outer, caller, pass, failures, outcome, link>>

Iterate(label) ==
  /\ pc' = label
  /\ tries' = tries + 1
  /\ UNCHANGED <<cur, outer, caller, pass, failures, outcome, link>>

\* A loop that starts counting anew; c tells cleanup_and_verify its caller.
Enter(label, c) ==
  /\ pc' = label
  /\ tries' = 0
  /\ caller' = c
  /\ UNCHANGED <<cur, outer, pass, failures, outcome, link>>

Finish(result) ==
  /\ pc' = "done"
  /\ outcome' = result
  /\ UNCHANGED <<cur, tries, outer, caller, pass, failures, link>>

\* _rollback_journal goes on to the next mutation whatever became of this one.
NextMutation(why) ==
  /\ failures' = failures \cup why
  /\ IF cur = 1 THEN pc' = "journalDone" /\ cur' = cur
                ELSE pc' = "dispatch" /\ cur' = cur - 1
  /\ tries' = 0
  /\ outer' = 0
  /\ caller' = "isolate"
  /\ UNCHANGED <<pass, outcome, link>>

StartRollback ==
  /\ pc' = "dispatch"
  /\ cur' = Len(Plan)
  /\ tries' = 0
  /\ outer' = 0
  /\ UNCHANGED <<caller, pass, failures, outcome, link>>

\* An exception inside the try of _rollback_mutation: the next iteration.
NextAttempt ==
  /\ pc' = "reconcile"
  /\ outer' = outer + 1
  /\ tries' = 0
  /\ caller' = "isolate"
  /\ UNCHANGED <<cur, pass, failures, outcome, link>>

\* Mutant: the error does not say where the content is.
ConflictUnnamed(hidden) == NextMutation({"state"}) /\ named' = named

\* _RemoteStateConflict; the message names the places of the contents in hidden.
Conflict(hidden) ==
  /\ NextMutation({"state"})
  /\ named' = [named EXCEPT ![Now] = @ \cup (hidden \ {Absent})]

\* The installer looked at the target.
Look == unseen' = [unseen EXCEPT ![Now] = FALSE]


-------------------------------------------------------------------------------
\* Faults.  kind "transport": SFTPTransportError, whatever was sent may have
\* been executed; "error": a refused command or a failed download;
\* "interrupt": KeyboardInterrupt.

UploadLabels == {"snapshot", "put", "precheck", "moveAside", "promote", "chmod"}

\* Looks whose exception leaves _rollback_mutation at once ...
LookLabels == {"dropTemp", "removeTarget", "checkRemoved"}

\* ... and those whose generic exception its loop retries.
RetriedLabels == {"reconcile", "isolate", "restoreBackup", "checkRestored"}

\* Commands run by _try_batch, which swallows a refusal, and what follows it.
AfterRefusal ==
  [stashTemp |-> "dropTemp", rmStashedTemp |-> "dropTemp",
   rmTemp |-> "checkRemoved", stashTarget |-> "removeTarget",
   rmStash |-> "checkRemoved", isolateTarget |-> "isolate",
   discard |-> "checkRestored", stashLate |-> "promoteBackup",
   promoteBackup |-> "restoreBackup", rmUnusedTemp |-> "restoreBackup"]

RollbackLabels == LookLabels \cup RetriedLabels \cup DOMAIN AfterRefusal
RemoteLabels == {"read"} \cup UploadLabels \cup RollbackLabels

\* The for loops of the rollback are over.
Exhausted ==
  \/ pc \in {"dropTemp", "removeTarget"} /\ tries = 4
  \/ pc \in {"isolate", "restoreBackup"} /\ tries = 3
  \/ pc = "reconcile" /\ outer = 2

\* An SFTP batch is about to be sent.
AtBatch == pc \in RemoteLabels /\ ~Exhausted

\* Where the exception takes the installer.
Raise(kind) ==
  \/ pc = "read" /\ Finish("untouched")
  \/ pc \in UploadLabels /\ StartRollback
  \/ pc \in LookLabels /\ NextMutation({kind})
  \/ pc \in RetriedLabels /\ kind = "error" /\ NextAttempt
  \/ pc \in RetriedLabels /\ kind # "error" /\ NextMutation({kind})
  \/ pc \in DOMAIN AfterRefusal /\ kind = "error" /\ Goto(AfterRefusal[pc])
  \/ pc \in DOMAIN AfterRefusal /\ kind # "error" /\ NextMutation({kind})

CountFault ==
  /\ faults < MaxFaults
  /\ faults' = faults + 1
  /\ disturbed' = (disturbed \/ pc \in RollbackLabels \cup {"journalDone", "recover"})
  /\ UNCHANGED <<owner, unseen, named, edits>>

\* The command is not executed.
Fault ==
  /\ link = "up"
  /\ AtBatch
  /\ \E kind \in {"transport", "error", "interrupt"} : Raise(kind)
  /\ CountFault
  /\ UNCHANGED <<files, mutations>>

\* The master is lost: every later batch of the session fails the same way.
LoseMaster ==
  /\ link = "up"
  /\ AtBatch
  /\ pc # "read"
  /\ link' = "dead"
  /\ CountFault
  /\ UNCHANGED <<pc, cur, tries, outer, caller, pass, failures, outcome,
                 files, mutations>>

DeadBatch ==
  /\ link = "dead"
  /\ AtBatch
  /\ Raise("transport")
  /\ UNCHANGED <<files, mutations, history>>

\* A command has been executed: go on, or never learn of it.
Reply(next) ==
  \/ next /\ UNCHANGED history
  \/ \E kind \in {"transport", "interrupt"} : Raise(kind) /\ CountFault

Remotely(label) == pc = label /\ link = "up" /\ ~Exhausted

-------------------------------------------------------------------------------
\* SFTP commands on the current target's files.

Set(file, page) == [file EXCEPT ![Now] = page]

\* Plain SFTP rename refuses an existing destination, posix-rename replaces it.
CanRename(from, to) ==
  /\ from[Now] # Absent
  /\ posixRename \/ to[Now] = Absent

\* Mutant: only the target is compared.
IsRestoredByTarget == live[Now] = original[Now]

IsRestored ==
  /\ live[Now] = original[Now]
  /\ backup[Now] = Absent
  /\ temp[Now] = Absent

\* A new uuid in every call: what an earlier call quarantined is out of sight.
FreshNames ==
  /\ stray' = [stray EXCEPT ![Now] =
                 @ \cup ({quarantine[Now], late[Now]} \ {Absent})]
  /\ quarantine' = Set(quarantine, Absent)
  /\ late' = Set(late, Absent)

-------------------------------------------------------------------------------
\* _apply_front_sftp_transaction, up to the first upload: one download each.
ReadBase ==
  /\ Remotely("read")
  /\ base' = Set(base, live[Now])
  /\ Look
  /\ IF cur > 1 THEN pc' = pc /\ cur' = cur - 1
                ELSE pc' = "snapshot" /\ cur' = cur
  /\ UNCHANGED <<tries, outer, caller, pass, failures, outcome, link, files,
                 original, journal, switched, owner, named, edits, faults,
                 disturbed>>

\* Mutant: the second upload is forgotten.
NextUploadOnlyFirst ==
  /\ pc' = "verify"
  /\ UNCHANGED <<cur, tries, outer, caller, pass, failures, outcome, link>>

NextUpload ==
  /\ IF cur = Len(Plan) THEN pc' = "verify" /\ cur' = cur
                        ELSE pc' = "snapshot" /\ cur' = cur + 1
  /\ UNCHANGED <<tries, outer, caller, pass, failures, outcome, link>>

\* index_changed, htaccess_changed: nothing to upload.
SkipUnchanged ==
  /\ pc = "snapshot"
  /\ ~Changed(Now)
  /\ NextUpload
  /\ UNCHANGED <<files, mutations, history>>

\* _upload_verified: the snapshot that is checked before the switch and
\* restored by the rollback.  The mutation is registered before any write.
Snapshot ==
  /\ Remotely("snapshot")
  /\ Changed(Now)
  /\ original' = Set(original, live[Now])
  /\ journal' = journal \cup {Now}
  /\ Look
  /\ Goto("put")
  /\ UNCHANGED <<files, base, switched, owner, named, edits, faults, disturbed>>

\* put, get, compare the digests.
PutTemp ==
  /\ Remotely("put")
  /\ temp' = Set(temp, Installed(Now))
  /\ Reply(Goto("precheck"))
  /\ UNCHANGED <<live, backup, quarantine, late, stray, mutations>>

\* Mutant: the uploaded temp file is not read back.
TornPutAccepted ==
  /\ Remotely("put")
  /\ temp' = Set(temp, Torn)
  /\ Goto("precheck")
  /\ CountFault
  /\ UNCHANGED <<live, backup, quarantine, late, stray, mutations>>

TornPut ==
  /\ Remotely("put")
  /\ temp' = Set(temp, Torn)
  /\ \E kind \in {"transport", "error", "interrupt"} : Raise(kind)
  /\ CountFault
  /\ UNCHANGED <<live, backup, quarantine, late, stray, mutations>>

\* Mutant: the target is not compared with the snapshot again.
PrecheckBlind ==
  /\ Remotely("precheck")
  /\ Look
  /\ switched' = switched \cup {Now}
  /\ Goto(IF original[Now] = Absent THEN "promote" ELSE "moveAside")
  /\ UNCHANGED <<files, base, original, journal, owner, named, edits, faults,
                 disturbed>>

\* The target still is the snapshot: the switch may begin.
Precheck ==
  /\ Remotely("precheck")
  /\ Look
  /\ IF live[Now] = original[Now]
       THEN /\ switched' = switched \cup {Now}
            /\ Goto(IF original[Now] = Absent THEN "promote" ELSE "moveAside")
       ELSE switched' = switched /\ StartRollback
  /\ UNCHANGED <<files, base, original, journal, owner, named, edits, faults,
                 disturbed>>

\* rename target backup
MoveAside ==
  /\ Remotely("moveAside")
  /\ IF CanRename(live, backup)
       THEN /\ backup' = Set(backup, live[Now])
            /\ live' = Set(live, Absent)
            /\ Goto("promote")
       ELSE UNCHANGED <<live, backup>> /\ StartRollback
  /\ UNCHANGED <<temp, quarantine, late, stray, mutations, history>>

\* rename temp target
Promote ==
  /\ Remotely("promote")
  /\ IF CanRename(temp, live)
       THEN /\ live' = Set(live, temp[Now])
            /\ temp' = Set(temp, Absent)
            /\ Goto("chmod")
       ELSE UNCHANGED <<live, temp>> /\ StartRollback
  /\ UNCHANGED <<backup, quarantine, late, stray, mutations, history>>

\* chmod 644 target: fails when the owner has just removed it.
Chmod ==
  /\ Remotely("chmod")
  /\ IF live[Now] # Absent THEN NextUpload ELSE StartRollback
  /\ UNCHANGED <<files, mutations, history>>

\* Both statuses and post_apply (E2E, profile) are good.
VerifyPasses ==
  /\ pc = "verify"
  /\ ~Temporary
  /\ Goto("teardown")
  /\ UNCHANGED <<files, mutations, history>>

\* A bad status, a failed E2E, an interrupt; or the end of a temporary route.
VerifyFails ==
  /\ pc = "verify"
  /\ StartRollback
  /\ UNCHANGED <<files, mutations, history>>

\* Leaving SFTPClient.session(): an error there is raised, nothing rolled back.
Teardown ==
  /\ pc = "teardown"
  /\ \/ Finish("committed") /\ UNCHANGED history
     \/ Finish("unreported") /\ CountFault
  /\ UNCHANGED <<files, mutations>>

-------------------------------------------------------------------------------
\* _rollback_journal: the mutations in reverse order.
RollbackMutation ==
  /\ pc = "dispatch"
  /\ IF Now \in journal
       THEN /\ Goto(IF Now \notin switched THEN "dropTemp"
                    ELSE IF original[Now] = Absent THEN "removeTarget"
                    ELSE "reconcile")
            /\ FreshNames
       ELSE NextMutation({}) /\ UNCHANGED <<quarantine, late, stray>>
  /\ UNCHANGED <<live, temp, backup, mutations, history>>

\* Mutant: recovery is repeated until it succeeds.
JournalDoneStubborn ==
  /\ pc = "journalDone"
  /\ IF failures = {} THEN Finish("restored") ELSE Goto("recover")
  /\ UNCHANGED <<files, mutations, history>>

\* FrontRollbackError or the original exception;
\* _rollback_journal_with_recovery on a purely transport-related failure.
\* An error while the recovery session is closed spoils the result.
JournalDone ==
  /\ pc = "journalDone"
  /\ \/ /\ IF failures = {} THEN Finish("restored")
           ELSE IF failures = {"transport"} /\ pass = 1 THEN Goto("recover")
           ELSE Finish("incomplete")
        /\ UNCHANGED history
     \/ pass = 2 /\ Finish("incomplete") /\ CountFault
  /\ UNCHANGED <<files, mutations>>

\* A rollback loop ran out of iterations: InstallerError, which the loop of
\* _rollback_mutation retries like any other.
GiveUp ==
  /\ Exhausted
  /\ IF pc \in {"isolate", "restoreBackup"} THEN NextAttempt
                                            ELSE NextMutation({"error"})
  /\ UNCHANGED <<files, mutations, history>>

Recover ==
  /\ pc = "recover"
  /\ \/ /\ pc' = "dispatch"
        /\ cur' = Len(Plan)
        /\ pass' = 2
        /\ failures' = {}
        /\ link' = "up"
        /\ UNCHANGED <<tries, outer, caller, outcome, history>>
     \/ Finish("incomplete") /\ CountFault
  /\ UNCHANGED <<files, mutations>>

-------------------------------------------------------------------------------
\* _cleanup_unswitched_temp.  The target itself is not touched.
DropTemp ==
  /\ Remotely("dropTemp")
  /\ \/ /\ temp[Now] = Absent /\ quarantine[Now] = Absent
        /\ NextMutation({}) /\ named' = named
     \/ /\ temp[Now] = Installed(Now) /\ quarantine[Now] = Absent
        /\ Iterate("stashTemp") /\ named' = named
     \/ /\ temp[Now] = Absent /\ quarantine[Now] = Installed(Now)
        /\ Iterate("rmStashedTemp") /\ named' = named
     \/ /\ temp[Now] \notin {Absent, Installed(Now)} /\ quarantine[Now] = Absent
        /\ Conflict({temp[Now]})
     \/ /\ quarantine[Now] # Absent
        /\ temp[Now] # Absent \/ quarantine[Now] # Installed(Now)
        /\ Conflict({quarantine[Now]})
  /\ UNCHANGED <<files, mutations, owner, unseen, edits, faults, disturbed>>

\* rename temp quarantine
StashTemp ==
  /\ Remotely("stashTemp")
  /\ CanRename(temp, quarantine)
  /\ quarantine' = Set(quarantine, temp[Now])
  /\ temp' = Set(temp, Absent)
  /\ Reply(Goto("dropTemp"))
  /\ UNCHANGED <<live, backup, late, stray, mutations>>

\* rm quarantine
RmStashedTemp ==
  /\ Remotely("rmStashedTemp")
  /\ quarantine' = Set(quarantine, Absent)
  /\ Reply(Goto("dropTemp"))
  /\ UNCHANGED <<live, temp, backup, late, stray, mutations>>

-------------------------------------------------------------------------------
\* _remove_installed_target: there was no such file before.
RemoveTarget ==
  /\ Remotely("removeTarget")
  /\ Look
  /\ IF backup[Now] # Absent \/ temp[Now] \notin {Absent, Installed(Now)}
       THEN Conflict(IF backup[Now] # Absent THEN {backup[Now]} ELSE {temp[Now]})
     ELSE
       \/ /\ live[Now] = Absent /\ quarantine[Now] = Absent
          /\ Iterate("rmTemp") /\ named' = named
       \/ /\ live[Now] = Installed(Now) /\ quarantine[Now] = Absent
          /\ Iterate("stashTarget") /\ named' = named
       \/ /\ live[Now] = Absent /\ quarantine[Now] = Installed(Now)
          /\ Iterate("rmStash") /\ named' = named
       \/ /\ IF quarantine[Now] = Absent
               THEN live[Now] \notin {Absent, Installed(Now)}
               ELSE live[Now] # Absent \/ quarantine[Now] # Installed(Now)
          /\ Conflict({quarantine[Now]})
  /\ UNCHANGED <<files, mutations, owner, edits, faults, disturbed>>

\* Mutant: what was moved is removed without a second look.
StashTargetAndRemove ==
  /\ Remotely("stashTarget")
  /\ IF CanRename(live, quarantine)
       THEN /\ quarantine' = Set(quarantine, live[Now])
            /\ live' = Set(live, Absent)
       ELSE UNCHANGED <<live, quarantine>>
  /\ Goto("rmStash")
  /\ UNCHANGED <<temp, backup, late, stray, mutations, history>>

\* rename target quarantine: whatever the target is by now.
StashTarget ==
  /\ Remotely("stashTarget")
  /\ IF CanRename(live, quarantine)
       THEN /\ quarantine' = Set(quarantine, live[Now])
            /\ live' = Set(live, Absent)
       ELSE UNCHANGED <<live, quarantine>>
  /\ Reply(Goto("removeTarget"))
  /\ UNCHANGED <<temp, backup, late, stray, mutations>>

\* rm quarantine, and -rm temp in the same batch.
RmStash ==
  /\ Remotely("rmStash")
  /\ quarantine' = Set(quarantine, Absent)
  /\ Goto("rmTemp")
  /\ UNCHANGED <<live, temp, backup, late, stray, mutations, history>>

\* -rm temp
RmTemp ==
  /\ Remotely("rmTemp")
  /\ temp' = Set(temp, Absent)
  /\ Reply(Goto("checkRemoved"))
  /\ UNCHANGED <<live, backup, quarantine, late, stray, mutations>>

CheckRemoved ==
  /\ Remotely("checkRemoved")
  /\ Look
  /\ IF IsRestored THEN NextMutation({}) ELSE Goto("removeTarget")
  /\ UNCHANGED <<files, mutations, owner, named, edits, faults, disturbed>>

-------------------------------------------------------------------------------
\* _rollback_mutation of a file that existed: the states that the interrupted
\* switch can have left are handed to _restore_expected_backup.
Restorable ==
  \/ live[Now] = original[Now]
  \/ live[Now] = Installed(Now) /\ backup[Now] = original[Now]
  \/ /\ live[Now] = Absent
     /\ backup[Now] = original[Now]
     /\ temp[Now] = Installed(Now)

Reconcile ==
  /\ Remotely("reconcile")
  /\ Look
  /\ \/ Restorable /\ Enter("isolate", "isolate") /\ FreshNames /\ named' = named
     \/ /\ ~Restorable
        /\ Conflict(IF live[Now] = Installed(Now) THEN {backup[Now]} ELSE {})
        /\ UNCHANGED <<quarantine, late, stray>>
  /\ UNCHANGED <<live, temp, backup, mutations, owner, edits, faults, disturbed>>

\* The artifact that is not what this transaction made, in the order checked.
ForeignArtifact ==
  IF late[Now] # Absent THEN {late[Now]}
  ELSE IF quarantine[Now] \notin {Absent, Installed(Now)} THEN {quarantine[Now]}
  ELSE IF backup[Now] \notin {Absent, original[Now]} THEN {backup[Now]}
  ELSE IF temp[Now] \notin {Absent, Installed(Now)} THEN {temp[Now]}
  ELSE {}

\* cleanup_and_verify, before its rm commands.
Cleanup(loop) ==
  \/ ForeignArtifact # {} /\ Conflict(ForeignArtifact)
  \/ /\ ForeignArtifact = {}
     /\ pc' = "discard"
     /\ caller' = loop
     /\ tries' = tries + 1
     /\ named' = named
     /\ UNCHANGED <<cur, outer, pass, failures, outcome, link>>

\* Mutant: a switch is all or nothing.
HalfSwitchedNever == FALSE

\* The first rename of the switch was executed and the second was not.
HalfSwitched ==
  /\ quarantine[Now] = Absent
  /\ backup[Now] = original[Now]
  /\ temp[Now] = Installed(Now)

\* _restore_expected_backup, first loop: get the installed file out of the way.
Isolate ==
  /\ Remotely("isolate")
  /\ Look
  /\ IF live[Now] = original[Now] THEN Cleanup("isolate")
     ELSE
       \/ /\ live[Now] = Installed(Now) /\ quarantine[Now] = Absent
          /\ Iterate("isolateTarget") /\ named' = named
       \/ /\ live[Now] = Absent
          /\ quarantine[Now] = Installed(Now) \/ HalfSwitched
          /\ Enter("restoreBackup", "restoreBackup") /\ named' = named
       \/ /\ live[Now] = Absent
          /\ quarantine[Now] # Installed(Now) /\ ~HalfSwitched
          /\ Conflict({quarantine[Now]})
       \/ /\ live[Now] # Absent
          /\ live[Now] # Installed(Now) \/ quarantine[Now] # Absent
          /\ Conflict({})
  /\ UNCHANGED <<files, mutations, owner, edits, faults, disturbed>>

\* rename target quarantine: an edit since the look moves along and is found.
IsolateTarget ==
  /\ Remotely("isolateTarget")
  /\ IF CanRename(live, quarantine)
       THEN /\ quarantine' = Set(quarantine, live[Now])
            /\ live' = Set(live, Absent)
       ELSE UNCHANGED <<live, quarantine>>
  /\ Reply(Goto("isolate"))
  /\ UNCHANGED <<temp, backup, late, stray, mutations>>

\* Second loop: promote the backup.
RestoreBackup ==
  /\ Remotely("restoreBackup")
  /\ Look
  /\ IF live[Now] = original[Now] THEN Cleanup("restoreBackup")
     ELSE
       \/ late[Now] # Absent /\ Conflict({late[Now]})
       \/ late[Now] = Absent /\ live[Now] # Absent /\ Conflict({})
       \/ /\ late[Now] = Absent /\ live[Now] = Absent
          /\ ForeignArtifact # {} \/ backup[Now] = Absent
          /\ Conflict(ForeignArtifact)
       \/ /\ live[Now] = Absent /\ ForeignArtifact = {}
          /\ backup[Now] = original[Now]
          /\ IF quarantine[Now] = Absent /\ temp[Now] = Absent
               THEN Conflict({})
               ELSE Iterate("stashLate") /\ named' = named
  /\ UNCHANGED <<files, mutations, owner, edits, faults, disturbed>>

\* -rename target late: for a target that has just been created.
StashLate ==
  /\ Remotely("stashLate")
  /\ IF CanRename(live, late)
       THEN late' = Set(late, live[Now]) /\ live' = Set(live, Absent)
       ELSE UNCHANGED <<live, late>>
  /\ Goto("promoteBackup")
  /\ UNCHANGED <<temp, backup, quarantine, stray, mutations, history>>

\* rename backup target
PromoteBackup ==
  /\ Remotely("promoteBackup")
  /\ IF CanRename(backup, live)
       THEN /\ live' = Set(live, backup[Now])
            /\ backup' = Set(backup, Absent)
            /\ Goto("rmUnusedTemp")
       ELSE UNCHANGED <<live, backup>> /\ Goto("restoreBackup")
  /\ UNCHANGED <<temp, quarantine, late, stray, mutations, history>>

\* -rm temp
RmUnusedTemp ==
  /\ Remotely("rmUnusedTemp")
  /\ temp' = Set(temp, Absent)
  /\ Reply(Goto("restoreBackup"))
  /\ UNCHANGED <<live, backup, quarantine, late, stray, mutations>>

\* -rm quarantine, -rm backup, -rm temp: a refused rm is ignored, a lost batch
\* stops anywhere.
Discard ==
  /\ Remotely("discard")
  /\ \E gone \in SUBSET {"quarantine", "backup", "temp"} :
       /\ quarantine' = IF "quarantine" \in gone THEN Set(quarantine, Absent)
                                                ELSE quarantine
       /\ backup' = IF "backup" \in gone THEN Set(backup, Absent) ELSE backup
       /\ temp' = IF "temp" \in gone THEN Set(temp, Absent) ELSE temp
       /\ \/ gone = {"quarantine", "backup", "temp"} /\ Reply(Goto("checkRestored"))
          \/ gone # {"quarantine", "backup", "temp"} /\ Goto("checkRestored")
               /\ CountFault
          \/ /\ gone \in {{"quarantine"}, {"quarantine", "backup"}}
             /\ \E kind \in {"transport", "interrupt"} : Raise(kind)
             /\ CountFault
  /\ UNCHANGED <<live, late, stray, mutations>>

CheckRestored ==
  /\ Remotely("checkRestored")
  /\ Look
  /\ IF quarantine[Now] = Absent /\ IsRestored THEN NextMutation({})
                                               ELSE Goto(caller)
  /\ UNCHANGED <<files, mutations, owner, named, edits, faults, disturbed>>

-------------------------------------------------------------------------------
\* The owner's side: any edit but one that reproduces this run's bytes.
OwnerEdit ==
  /\ pc # "done"
  /\ edits < MaxEdits
  /\ \E t \in Targets : \E page \in OwnerPages(t) \cup {Absent} :
       /\ page # live[t]
       /\ Changed(t) => page # Installed(t)
       /\ page # Absent => (page.block => live[t] # Absent /\ live[t].block)
       /\ live' = [live EXCEPT ![t] = page]
       /\ owner' = [owner EXCEPT ![t] = page]
       /\ unseen' = [unseen EXCEPT ![t] = TRUE]
  /\ edits' = edits + 1
  /\ UNCHANGED <<temp, backup, quarantine, late, stray, mutations, control,
                 named, faults, disturbed>>

\* The process is killed, or the PC loses power.
Crash ==
  /\ pc # "done"
  /\ Finish("crashed")
  /\ UNCHANGED <<files, mutations, history>>

Terminated == pc = "done" /\ UNCHANGED vars

Upload ==
  \/ ReadBase \/ SkipUnchanged \/ Snapshot \/ PutTemp \/ TornPut \/ Precheck
  \/ MoveAside \/ Promote \/ Chmod \/ VerifyPasses \/ VerifyFails \/ Teardown

Rollback ==
  \/ RollbackMutation \/ JournalDone \/ Recover \/ GiveUp
  \/ DropTemp \/ StashTemp \/ RmStashedTemp
  \/ RemoveTarget \/ StashTarget \/ RmStash \/ RmTemp \/ CheckRemoved
  \/ Reconcile \/ Isolate \/ IsolateTarget \/ RestoreBackup \/ StashLate
  \/ PromoteBackup \/ RmUnusedTemp \/ Discard \/ CheckRestored

Installer == Upload \/ Rollback \/ Fault \/ LoseMaster \/ DeadBatch

Next == Installer \/ OwnerEdit \/ Crash \/ Terminated

\* The kind of the server does not change.
Spec == Init /\ [][Next /\ UNCHANGED posixRename]_<<vars, posixRename>>

\* The installer keeps running unless it crashes; the owner owes it nothing.
FairSpec == Spec /\ WF_vars(Installer)

-------------------------------------------------------------------------------
Labels == RemoteLabels \cup {"verify", "teardown", "dispatch", "journalDone",
                             "recover", "done"}

FilesOK ==
  /\ live \in [Targets -> SitePages]
  /\ temp \in [Targets -> Contents]
  /\ backup \in [Targets -> SitePages]
  /\ quarantine \in [Targets -> SitePages]
  /\ late \in [Targets -> SitePages]
  /\ stray \in [Targets -> SUBSET SitePages]

MutationsOK ==
  /\ base \in [Targets -> SitePages]
  /\ original \in [Targets -> SitePages]
  /\ journal \subseteq Targets
  /\ switched \subseteq journal

ControlOK ==
  /\ pc \in Labels
  /\ cur \in 1..Len(Plan)
  /\ tries \in 0..4
  /\ outer \in 0..2
  /\ caller \in {"isolate", "restoreBackup"}
  /\ pass \in {1, 2}
  /\ failures \subseteq {"transport", "error", "interrupt", "state"}
  /\ outcome \in {"running", "untouched", "committed", "unreported", "restored",
                  "incomplete", "crashed"}
  /\ link \in {"up", "dead"}

HistoryOK ==
  /\ owner \in [Targets -> SitePages]
  /\ unseen \in [Targets -> BOOLEAN]
  /\ named \in [Targets -> SUBSET Contents]
  /\ edits \in 0..MaxEdits
  /\ faults \in 0..MaxFaults
  /\ disturbed \in BOOLEAN

StateOK == FilesOK /\ MutationsOK /\ ControlOK /\ HistoryOK

\* Types.  A torn upload stays in the temp file: it is never switched in, moved
\* aside or quarantined, and the loops keep to their bounds.
TypeOK == StateOK /\ posixRename \in BOOLEAN

\* The owner's latest content is somewhere on the server, or was a deletion.
Preserved(t) ==
  owner[t] \in {Absent, live[t], backup[t], quarantine[t], late[t]} \cup stray[t]

AllPreserved == \A t \in Targets : Preserved(t)

\* With a rename that refuses an existing destination no interleaving, fault or
\* crash makes the installer destroy what the owner wrote last: every rm hits
\* bytes that were verified to be the installer's own, or a redundant copy.
OwnerContentPreserved == ~posixRename => AllPreserved

\* Where rename replaces its destination, an edit can only be destroyed between
\* the installer's look at the target and the command that relies on it (the
\* limit SECURITY.md states); an edit that was there to be seen never is.
NoVisibleEditDestroyed ==
  [][\A t \in Targets : Preserved(t) /\ ~Preserved(t)' => unseen[t]]_vars

\* A target that was seen to hold foreign content is left alone by upload and
\* rollback; only an edit since the last look can be moved.
ForeignTargetLeftAlone ==
  [][\A t \in Targets :
       /\ live'[t] # live[t]
       /\ owner' = owner
       /\ live[t] \notin {Absent, original[t], Installed(t)}
       => unseen[t]]_vars

\* A complete rollback leaves neither temp nor backup, and on display what the
\* owner wrote last; a deletion while the file was moved aside may be undone.
\* When a fault hit the rollback itself, or five edits outlasted its loops, the
\* owner's content may instead be in a quarantine of a call that did not return,
\* whose name nobody knows any more.
RestoredIsExact ==
  outcome = "restored" =>
    \A t \in Targets :
      /\ temp[t] = Absent /\ backup[t] = Absent
      /\ \/ ~Preserved(t)
         \/ live[t] = owner[t]
         \/ owner[t] = Absent /\ live[t] = original[t]
         \/ (disturbed \/ edits >= 5) /\ owner[t] \in stray[t]

\* An apply that fails at any command, even with the master lost for good, is
\* rolled back completely when the owner does not interfere, nothing goes wrong
\* in the rollback itself and the upload was not cut short in the middle.
CleanRollback ==
  outcome = "incomplete" =>
    edits > 0 \/ disturbed \/ \E t \in Targets : temp[t] = Torn

\* Success is never reported of a half-installed journal: every file that had to
\* change was switched, nothing of the transaction but the backup is left, and
\* what is live is the managed content or a later edit.
CommittedIsWhole ==
  outcome = "committed" =>
    \A t \in Targets :
      /\ Changed(t) => t \in switched /\ live[t] \in {Installed(t), owner[t]}
      /\ temp[t] = Absent /\ quarantine[t] = Absent /\ late[t] = Absent
      /\ t \in switched /\ original[t] # Absent => backup[t] # Absent

\* With a rename that refuses an existing destination, no fault at all, and fewer
\* edits than outlast the loops of the rollback, an incomplete rollback names the
\* place where the owner's latest content is hidden.
ConflictNamesOwner ==
  ~posixRename /\ outcome = "incomplete" /\ faults = 0 /\ edits < 5 =>
    \A t \in Targets : owner[t] \in {Absent, live[t]} \cup named[t]

\* Every loop is bounded: the installer comes to an outcome.
Terminates == <>(pc = "done")

-------------------------------------------------------------------------------
\* What a document of the repository says and the code does not do.

\* README.md: the foreign lines of .htaccess are kept, only the managed block
\* changes.  Stated of the file a switch replaces: what is installed is that
\* file with the block merged in.
ForeignLinesKept ==
  \A t \in switched : Installed(t) = Desired(t, original[t])

\* SECURITY.md: a later edit is preserved and reported as an incomplete rollback.
\* So what is reported as restored has the owner's latest content on display.
LaterEditReported ==
  outcome = "restored" => \A t \in Targets : owner[t] \in {Absent, live[t]}
===============================================================================
