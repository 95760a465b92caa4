------------------------ MODULE FrontTransactionProofs ------------------------
(***************************************************************************)
(* What FrontTransaction promises for every value of its constants.        *)
(***************************************************************************)
EXTENDS FrontTransaction, TLAPS

\* The labels at which the current mutation is registered in the journal.
Registered == (UploadLabels \ {"snapshot"}) \cup RollbackLabels

\* The two loops of _restore_expected_backup.
RestoreLabels == {"isolate", "isolateTarget", "restoreBackup", "stashLate",
                  "promoteBackup", "rmUnusedTemp", "discard", "checkRestored"}

\* What the types need to be inductive: no uploaded file is used before it was
\* verified, and the inner loops run within the outer one.
Staged ==
  /\ pc \in Registered => Now \in journal
  /\ pc \in {"precheck", "moveAside", "promote", "stashTemp"} =>
       temp[Now] = Installed(Now)
  /\ pc \in RestoreLabels => tries <= 3 /\ outer <= 1

TypeInv == StateOK /\ Staged

-------------------------------------------------------------------------------
\* Lemmas about the operators.

LEMMA PlanIsTargets == \A i \in 1..Len(Plan) : Plan[i] \in Targets
  BY DEF Plan, Targets

LEMMA PlanLength == Len(Plan) \in {1, 2}
  BY DEF Plan

LEMMA InstalledIsPage ==
  ASSUME NEW t \in Targets, base \in [Targets -> SitePages]
  PROVE  Installed(t) \in Pages
  BY FrontAssumption DEF Installed, Desired, Neutral, SitePages, Pages

LEMMA InstalledIsFixed ==
  UNCHANGED base => \A t \in Targets : Installed(t)' = Installed(t)
  BY DEF Installed

\* An exception never takes the installer to a label that relies on a look it
\* has not had, and leaves the bounds of the loops alone.
SafeMove ==
  /\ ControlOK'
  /\ pc' \in Registered => cur' = cur /\ pc \in Registered
  /\ pc' \notin {"precheck", "moveAside", "promote", "stashTemp", "rmStash",
                 "rmStashedTemp", "discard", "read"}
  /\ pc' \in RestoreLabels => tries' <= 3 /\ outer' <= 1

LEMMA SafeMoveKeepsTypes ==
  ASSUME TypeInv, SafeMove, FilesOK', MutationsOK', HistoryOK',
         journal \subseteq journal'
  PROVE  TypeInv'
  BY DEF TypeInv, StateOK, ControlOK, Staged, SafeMove, Now, Registered,
         RestoreLabels, UploadLabels, RollbackLabels, LookLabels,
         RetriedLabels, AfterRefusal

LEMMA StartRollbackIsSafe ==
  ASSUME TypeInv, StartRollback
  PROVE  SafeMove
  BY PlanLength
  DEF TypeInv, StateOK, ControlOK, StartRollback, SafeMove, Labels, Registered,
      RestoreLabels, RemoteLabels, UploadLabels, RollbackLabels, LookLabels,
      RetriedLabels, AfterRefusal

LEMMA NextMutationIsSafe ==
  ASSUME TypeInv, NEW why \in SUBSET {"transport", "error", "interrupt", "state"},
         NextMutation(why)
  PROVE  SafeMove
  BY PlanLength
  DEF TypeInv, StateOK, ControlOK, NextMutation, SafeMove, Labels, Registered,
      RestoreLabels, RemoteLabels, UploadLabels, RollbackLabels, LookLabels,
      RetriedLabels, AfterRefusal

LEMMA NextAttemptIsSafe ==
  ASSUME TypeInv, NextAttempt, pc \in RestoreLabels \/ (pc = "reconcile" /\ outer # 2)
  PROVE  SafeMove
  BY DEF TypeInv, StateOK, ControlOK, Staged, NextAttempt, SafeMove, Labels,
      Registered, RestoreLabels, RemoteLabels, UploadLabels, RollbackLabels,
      LookLabels, RetriedLabels, AfterRefusal

LEMMA FinishIsSafe ==
  ASSUME TypeInv, NEW result \in {"untouched", "committed", "unreported",
                                 "restored", "incomplete", "crashed"},
         Finish(result)
  PROVE  SafeMove
  BY DEF TypeInv, StateOK, ControlOK, Finish, SafeMove, Labels, Registered,
      RestoreLabels, RemoteLabels, UploadLabels, RollbackLabels, LookLabels,
      RetriedLabels, AfterRefusal

LEMMA RefusalIsSafe ==
  ASSUME TypeInv, pc \in DOMAIN AfterRefusal, Goto(AfterRefusal[pc])
  PROVE  SafeMove
  BY DEF TypeInv, StateOK, ControlOK, Staged, Goto, SafeMove, Labels,
      Registered, RestoreLabels, RemoteLabels, UploadLabels, RollbackLabels,
      LookLabels, RetriedLabels, AfterRefusal

LEMMA RaiseIsSafe ==
  ASSUME TypeInv, AtBatch,
         NEW kind \in {"transport", "error", "interrupt"}, Raise(kind)
  PROVE  SafeMove
<1>1. CASE pc = "read" /\ Finish("untouched")
  BY <1>1, FinishIsSafe
<1>2. CASE StartRollback
  BY <1>2, StartRollbackIsSafe
<1>3. CASE NextMutation({kind})
  BY <1>3, NextMutationIsSafe
<1>4. CASE pc \in RetriedLabels /\ NextAttempt
  <2>1. pc \in RestoreLabels \/ (pc = "reconcile" /\ outer # 2)
    BY <1>4 DEF AtBatch, Exhausted, RetriedLabels, RestoreLabels
  <2> QED BY <1>4, <2>1, NextAttemptIsSafe
<1>5. CASE pc \in DOMAIN AfterRefusal /\ Goto(AfterRefusal[pc])
  BY <1>5, RefusalIsSafe
<1> QED BY <1>1, <1>2, <1>3, <1>4, <1>5 DEF Raise

LEMMA FaultTypes ==
  ASSUME TypeInv, CountFault
  PROVE  HistoryOK'
  BY FrontAssumption DEF TypeInv, StateOK, HistoryOK, CountFault

LEMMA NextUploadIsSafe ==
  ASSUME TypeInv, NextUpload
  PROVE  SafeMove
<1>1. cur' \in 1..Len(Plan)
  BY PlanLength DEF TypeInv, StateOK, ControlOK, NextUpload
<1> QED
  BY <1>1 DEF TypeInv, StateOK, ControlOK, NextUpload, SafeMove, Labels,
     Registered, RestoreLabels, RemoteLabels, UploadLabels, RollbackLabels,
     LookLabels, RetriedLabels, AfterRefusal

LEMMA UploadKeepsTypes == TypeInv /\ Upload => TypeInv'
<1> SUFFICES ASSUME TypeInv, Upload PROVE TypeInv'
  OBVIOUS
<1> USE PlanLength, PlanIsTargets, InstalledIsFixed, InstalledIsPage
    DEF TypeInv, StateOK, FilesOK, MutationsOK, HistoryOK, Contents, SitePages,
        Now, Set, Remotely, files, mutations, control, history
<1>a. Now \in Targets /\ Installed(Now) \in Pages
  BY DEF ControlOK
<1> DEFINE Steps == {"teardown", "snapshot", "verify", "put", "precheck",
                     "moveAside", "promote", "chmod"}
<1>1. CASE ReadBase
  BY <1>1
  DEF ReadBase, Look, ControlOK, Labels, RemoteLabels, UploadLabels, Staged,
      Registered, RollbackLabels, LookLabels, RetriedLabels, AfterRefusal,
      RestoreLabels
<1> USE <1>a
<1>2. CASE SkipUnchanged
  BY <1>2, NextUploadIsSafe, SafeMoveKeepsTypes DEF SkipUnchanged
<1>3. CASE Snapshot
  BY <1>3
  DEF Snapshot, Look, Goto, ControlOK, Labels, RemoteLabels, UploadLabels,
      Staged, Registered, RollbackLabels, LookLabels, RetriedLabels,
      AfterRefusal, RestoreLabels
<1>4. CASE PutTemp
  <2>1. FilesOK' /\ MutationsOK'
    BY <1>4 DEF PutTemp
  <2>2. CASE Goto("precheck") /\ UNCHANGED history
    <3>1. ControlOK'
      BY <1>4, <2>2 DEF Goto, ControlOK, Labels, RemoteLabels, UploadLabels
    <3>2. Staged'
      BY <1>4, <2>2
      DEF PutTemp, Goto, Staged, Registered, UploadLabels, RestoreLabels
    <3> QED BY <2>1, <2>2, <3>1, <3>2
  <2>3. ASSUME NEW kind \in {"transport", "interrupt"}, Raise(kind), CountFault
        PROVE  TypeInv'
    BY <1>4, <2>1, <2>3, RaiseIsSafe, FaultTypes, SafeMoveKeepsTypes
    DEF PutTemp, AtBatch, RemoteLabels, UploadLabels
  <2> QED BY <1>4, <2>2, <2>3 DEF PutTemp, Reply
<1>5. CASE TornPut
  BY <1>5, RaiseIsSafe, FaultTypes, SafeMoveKeepsTypes
  DEF TornPut, AtBatch, RemoteLabels, UploadLabels
<1>6. CASE Precheck
  <2>1. CASE live[Now] = original[Now]
    BY <1>6, <2>1
    DEF Precheck, Look, Goto, ControlOK, Labels, RemoteLabels, UploadLabels,
        Staged, Registered, RollbackLabels, LookLabels, RetriedLabels,
        AfterRefusal, RestoreLabels
  <2>2. CASE live[Now] # original[Now]
    BY <1>6, <2>2, StartRollbackIsSafe, SafeMoveKeepsTypes DEF Precheck, Look
  <2> QED BY <2>1, <2>2
<1>7. CASE MoveAside
  <2>1. CASE CanRename(live, backup)
    <3>1. FilesOK' /\ MutationsOK' /\ HistoryOK'
      BY <1>7, <2>1 DEF MoveAside, Staged
    <3>2. ControlOK'
      BY <1>7, <2>1
      DEF MoveAside, Goto, ControlOK, Labels, RemoteLabels, UploadLabels
    <3>3. Staged'
      BY <1>7, <2>1
      DEF MoveAside, Goto, Staged, Registered, UploadLabels, RestoreLabels
    <3> QED BY <3>1, <3>2, <3>3
  <2>2. CASE ~CanRename(live, backup)
    BY <1>7, <2>2, StartRollbackIsSafe, SafeMoveKeepsTypes DEF MoveAside
  <2> QED BY <2>1, <2>2
<1>8. CASE Promote
  <2>1. CASE CanRename(temp, live)
    <3>1. FilesOK' /\ MutationsOK' /\ HistoryOK'
      BY <1>8, <2>1 DEF Promote, Staged
    <3>2. ControlOK'
      BY <1>8, <2>1
      DEF Promote, Goto, ControlOK, Labels, RemoteLabels, UploadLabels
    <3>3. Staged'
      BY <1>8, <2>1
      DEF Promote, Goto, Staged, Registered, UploadLabels, RestoreLabels
    <3> QED BY <3>1, <3>2, <3>3
  <2>2. CASE ~CanRename(temp, live)
    BY <1>8, <2>2, StartRollbackIsSafe, SafeMoveKeepsTypes DEF Promote
  <2> QED BY <2>1, <2>2
<1>9. CASE Chmod
  BY <1>9, NextUploadIsSafe, StartRollbackIsSafe, SafeMoveKeepsTypes DEF Chmod
<1>10. CASE VerifyPasses
  BY <1>10
  DEF VerifyPasses, Goto, ControlOK, Labels, RemoteLabels, UploadLabels, Staged,
      Registered, RollbackLabels, LookLabels, RetriedLabels, AfterRefusal,
      RestoreLabels
<1>11. CASE VerifyFails
  BY <1>11, StartRollbackIsSafe, SafeMoveKeepsTypes DEF VerifyFails
<1>12. CASE Teardown
  BY <1>12, FaultTypes, FinishIsSafe, SafeMoveKeepsTypes DEF Teardown
<1> QED
  BY <1>1, <1>2, <1>3, <1>4, <1>5, <1>6, <1>7, <1>8, <1>9, <1>10, <1>11, <1>12
  DEF Upload

-------------------------------------------------------------------------------
\* The rollback.

LEMMA GotoIsSafe ==
  ASSUME TypeInv, pc \in Registered,
         NEW label \in {"dropTemp", "removeTarget", "checkRemoved", "rmTemp",
                       "isolate", "restoreBackup", "checkRestored",
                       "rmUnusedTemp", "promoteBackup"},
         label \in RestoreLabels => pc \in RestoreLabels,
         Goto(label)
  PROVE  SafeMove
  BY DEF TypeInv, StateOK, ControlOK, Staged, Goto, SafeMove, Labels,
     Registered, RestoreLabels, RemoteLabels, UploadLabels, RollbackLabels,
     LookLabels, RetriedLabels, AfterRefusal

LEMMA ReplyIsSafe ==
  ASSUME TypeInv, AtBatch, NEW label, Goto(label) => SafeMove,
         Reply(Goto(label))
  PROVE  SafeMove /\ HistoryOK'
<1>1. CASE Goto(label) /\ UNCHANGED history
  BY <1>1 DEF TypeInv, StateOK, HistoryOK, history
<1>2. ASSUME NEW kind \in {"transport", "interrupt"}, Raise(kind), CountFault
      PROVE  SafeMove /\ HistoryOK'
  BY <1>2, RaiseIsSafe, FaultTypes
<1> QED BY <1>1, <1>2 DEF Reply

LEMMA ConflictIsSafe ==
  ASSUME TypeInv, NEW hidden \in SUBSET Contents, Conflict(hidden),
         unseen' \in [Targets -> BOOLEAN], UNCHANGED <<owner, edits, faults, disturbed>>
  PROVE  SafeMove /\ HistoryOK'
<1>1. Now \in Targets
  BY PlanIsTargets DEF Now, TypeInv, StateOK, ControlOK
<1> QED
  BY <1>1, NextMutationIsSafe DEF Conflict, TypeInv, StateOK, HistoryOK

LEMMA FreshNamesTypes ==
  ASSUME TypeInv, FreshNames, UNCHANGED <<live, temp, backup>>
  PROVE  FilesOK'
<1>1. Now \in Targets
  BY PlanIsTargets DEF Now, TypeInv, StateOK, ControlOK
<1> QED
  BY <1>1 DEF FreshNames, TypeInv, StateOK, FilesOK, Set, SitePages

\* A loop goes on: its bound is not reached yet, and what the next command
\* relies on was looked at.
LEMMA IterateKeepsTypes ==
  ASSUME TypeInv, HistoryOK', UNCHANGED <<files, mutations>>,
         NEW label \in RollbackLabels, Iterate(label), pc \in Registered,
         tries <= 3,
         label = "stashTemp" => temp[Now] = Installed(Now),
         label \in RestoreLabels => pc \in RestoreLabels /\ tries <= 2
  PROVE  TypeInv'
<1> USE DEF TypeInv, StateOK, Iterate
<1>1. FilesOK' /\ MutationsOK'
  BY DEF files, mutations, FilesOK, MutationsOK
<1>2. ControlOK'
  BY DEF ControlOK, Labels, RemoteLabels
<1>3. UNCHANGED <<temp, base, journal, Now>> /\ Installed(Now)' = Installed(Now)
  BY DEF Now, Installed, files, mutations
<1>4. Staged'
  BY <1>3 DEF Staged, ControlOK, RestoreLabels, RollbackLabels, LookLabels,
              RetriedLabels, AfterRefusal
<1> QED BY <1>1, <1>2, <1>4

LEMMA RollbackKeepsTypes == TypeInv /\ Rollback => TypeInv'
<1> SUFFICES ASSUME TypeInv, Rollback PROVE TypeInv'
  OBVIOUS
<1>a. Now \in Targets /\ Installed(Now) \in Pages
  BY PlanIsTargets, InstalledIsPage
  DEF Now, TypeInv, StateOK, ControlOK, MutationsOK
<1>b. ASSUME UNCHANGED mutations
      PROVE  MutationsOK' /\ journal \subseteq journal'
  BY <1>b DEF mutations, MutationsOK, TypeInv, StateOK
<1>c. ASSUME UNCHANGED files
      PROVE  FilesOK'
  BY <1>c DEF files, FilesOK, TypeInv, StateOK
<1>d. ASSUME UNCHANGED history
      PROVE  HistoryOK'
  BY <1>d DEF history, HistoryOK, TypeInv, StateOK
<1>e. ASSUME SafeMove, FilesOK', HistoryOK', UNCHANGED mutations
      PROVE  TypeInv'
  BY <1>e, <1>b, SafeMoveKeepsTypes
<1>2. CASE JournalDone
  <2>1. Goto("recover") => SafeMove
    BY DEF Goto, SafeMove, TypeInv, StateOK, ControlOK, Labels, Registered,
       RestoreLabels, RemoteLabels, UploadLabels, RollbackLabels, LookLabels,
       RetriedLabels, AfterRefusal
  <2>2. CASE Finish("incomplete") /\ CountFault
    BY <1>2, <2>2, <1>c, <1>e, FinishIsSafe, FaultTypes DEF JournalDone
  <2>3. CASE UNCHANGED history
    BY <1>2, <2>1, <2>3, <1>c, <1>d, <1>e, FinishIsSafe DEF JournalDone
  <2> QED BY <1>2, <2>2, <2>3 DEF JournalDone
<1>3. CASE Recover
  <2>1. CASE Finish("incomplete") /\ CountFault
    BY <1>3, <2>1, <1>c, <1>e, FinishIsSafe, FaultTypes DEF Recover
  <2>2. CASE pc' = "dispatch"
    BY <1>3, <2>2, <1>c, <1>d, <1>e, PlanLength
    DEF Recover, SafeMove, TypeInv, StateOK, ControlOK, Labels, Registered,
        RestoreLabels, RemoteLabels, UploadLabels, RollbackLabels, LookLabels,
        RetriedLabels, AfterRefusal, Finish
  <2> QED BY <1>3, <2>1, <2>2 DEF Recover
<1>4. CASE GiveUp
  <2>1. CASE pc \in {"isolate", "restoreBackup"} /\ NextAttempt
    BY <1>4, <2>1, <1>c, <1>d, <1>e, NextAttemptIsSafe DEF GiveUp, RestoreLabels
  <2>2. CASE NextMutation({"error"})
    BY <1>4, <2>2, <1>c, <1>d, <1>e, NextMutationIsSafe DEF GiveUp
  <2> QED BY <1>4, <2>1, <2>2 DEF GiveUp
<1>5. CASE StashTemp
  <2>1. FilesOK'
    BY <1>5, <1>a
    DEF StashTemp, TypeInv, StateOK, FilesOK, Staged, Set, SitePages, Contents,
        Remotely
  <2>2. Goto("dropTemp") => SafeMove
    BY <1>5, GotoIsSafe DEF StashTemp, Remotely, Registered, RestoreLabels,
                      RollbackLabels, LookLabels, RetriedLabels, AfterRefusal
  <2>3. AtBatch
    BY <1>5 DEF StashTemp, Remotely, AtBatch, RemoteLabels, RollbackLabels,
                AfterRefusal
  <2>4. Reply(Goto("dropTemp")) /\ UNCHANGED mutations
    BY <1>5 DEF StashTemp
  <2>5. SafeMove /\ HistoryOK'
    BY <2>2, <2>3, <2>4, ReplyIsSafe
  <2> QED BY <2>1, <2>4, <2>5, <1>e
<1>6. CASE RmStashedTemp
  <2>1. FilesOK'
    BY <1>6, <1>a
    DEF RmStashedTemp, TypeInv, StateOK, FilesOK, Staged, Set, SitePages,
        Contents, Remotely
  <2>2. Goto("dropTemp") => SafeMove
    BY <1>6, GotoIsSafe DEF RmStashedTemp, Remotely, Registered, RestoreLabels,
                      RollbackLabels, LookLabels, RetriedLabels, AfterRefusal
  <2>3. AtBatch
    BY <1>6 DEF RmStashedTemp, Remotely, AtBatch, RemoteLabels, RollbackLabels,
                AfterRefusal
  <2>4. Reply(Goto("dropTemp")) /\ UNCHANGED mutations
    BY <1>6 DEF RmStashedTemp
  <2>5. SafeMove /\ HistoryOK'
    BY <2>2, <2>3, <2>4, ReplyIsSafe
  <2> QED BY <2>1, <2>4, <2>5, <1>e
<1>7. CASE StashTarget
  <2>1. FilesOK'
    BY <1>7, <1>a
    DEF StashTarget, TypeInv, StateOK, FilesOK, Staged, Set, SitePages, Contents,
        Remotely
  <2>2. Goto("removeTarget") => SafeMove
    BY <1>7, GotoIsSafe DEF StashTarget, Remotely, Registered, RestoreLabels,
                      RollbackLabels, LookLabels, RetriedLabels, AfterRefusal
  <2>3. AtBatch
    BY <1>7 DEF StashTarget, Remotely, AtBatch, RemoteLabels, RollbackLabels,
                AfterRefusal
  <2>4. Reply(Goto("removeTarget")) /\ UNCHANGED mutations
    BY <1>7 DEF StashTarget
  <2>5. SafeMove /\ HistoryOK'
    BY <2>2, <2>3, <2>4, ReplyIsSafe
  <2> QED BY <2>1, <2>4, <2>5, <1>e
<1>8. CASE RmTemp
  <2>1. FilesOK'
    BY <1>8, <1>a DEF RmTemp, TypeInv, StateOK, FilesOK, Staged, Set, SitePages,
                      Contents, Remotely
  <2>2. Goto("checkRemoved") => SafeMove
    BY <1>8, GotoIsSafe DEF RmTemp, Remotely, Registered, RestoreLabels,
                      RollbackLabels, LookLabels, RetriedLabels, AfterRefusal
  <2>3. AtBatch
    BY <1>8 DEF RmTemp, Remotely, AtBatch, RemoteLabels, RollbackLabels,
                AfterRefusal
  <2>4. Reply(Goto("checkRemoved")) /\ UNCHANGED mutations
    BY <1>8 DEF RmTemp
  <2>5. SafeMove /\ HistoryOK'
    BY <2>2, <2>3, <2>4, ReplyIsSafe
  <2> QED BY <2>1, <2>4, <2>5, <1>e
<1>9. CASE IsolateTarget
  <2>1. FilesOK'
    BY <1>9, <1>a
    DEF IsolateTarget, TypeInv, StateOK, FilesOK, Staged, Set, SitePages,
        Contents, Remotely
  <2>2. Goto("isolate") => SafeMove
    BY <1>9, GotoIsSafe DEF IsolateTarget, Remotely, Registered, RestoreLabels,
                      RollbackLabels, LookLabels, RetriedLabels, AfterRefusal
  <2>3. AtBatch
    BY <1>9 DEF IsolateTarget, Remotely, AtBatch, RemoteLabels, RollbackLabels,
                AfterRefusal
  <2>4. Reply(Goto("isolate")) /\ UNCHANGED mutations
    BY <1>9 DEF IsolateTarget
  <2>5. SafeMove /\ HistoryOK'
    BY <2>2, <2>3, <2>4, ReplyIsSafe
  <2> QED BY <2>1, <2>4, <2>5, <1>e
<1>10. CASE RmUnusedTemp
  <2>1. FilesOK'
    BY <1>10, <1>a
    DEF RmUnusedTemp, TypeInv, StateOK, FilesOK, Staged, Set, SitePages,
        Contents, Remotely
  <2>2. Goto("restoreBackup") => SafeMove
    BY <1>10, GotoIsSafe DEF RmUnusedTemp, Remotely, Registered, RestoreLabels,
                      RollbackLabels, LookLabels, RetriedLabels, AfterRefusal
  <2>3. AtBatch
    BY <1>10 DEF RmUnusedTemp, Remotely, AtBatch, RemoteLabels, RollbackLabels,
                AfterRefusal
  <2>4. Reply(Goto("restoreBackup")) /\ UNCHANGED mutations
    BY <1>10 DEF RmUnusedTemp
  <2>5. SafeMove /\ HistoryOK'
    BY <2>2, <2>3, <2>4, ReplyIsSafe
  <2> QED BY <2>1, <2>4, <2>5, <1>e
<1>11. CASE RmStash
  <2>1. FilesOK'
    BY <1>11, <1>a DEF RmStash, TypeInv, StateOK, FilesOK, Set, SitePages
  <2>2. SafeMove
    BY <1>11, GotoIsSafe DEF RmStash, Remotely, Registered, RestoreLabels,
                      RollbackLabels, LookLabels, RetriedLabels, AfterRefusal
  <2> QED BY <1>11, <2>1, <2>2, <1>d, <1>e DEF RmStash
<1>12. CASE StashLate
  <2>1. FilesOK'
    BY <1>12, <1>a DEF StashLate, TypeInv, StateOK, FilesOK, Set, SitePages
  <2>2. SafeMove
    BY <1>12, GotoIsSafe DEF StashLate, Remotely, Registered, RestoreLabels,
                      RollbackLabels, LookLabels, RetriedLabels, AfterRefusal
  <2> QED BY <1>12, <2>1, <2>2, <1>d, <1>e DEF StashLate
<1>13. CASE PromoteBackup
  <2>1. FilesOK'
    BY <1>13, <1>a DEF PromoteBackup, TypeInv, StateOK, FilesOK, Set, SitePages
  <2>2. SafeMove
    BY <1>13, GotoIsSafe DEF PromoteBackup, Remotely, Registered, RestoreLabels,
                      RollbackLabels, LookLabels, RetriedLabels, AfterRefusal
  <2> QED BY <1>13, <2>1, <2>2, <1>d, <1>e DEF PromoteBackup
<1>1. CASE RollbackMutation
  <2>1. FilesOK'
    BY <1>1, FreshNamesTypes DEF RollbackMutation, TypeInv, StateOK, FilesOK
  <2>2. CASE Now \in journal
    <3>1. ControlOK'
      BY <1>1, <2>2
      DEF RollbackMutation, Goto, TypeInv, StateOK, ControlOK, Labels,
          Registered, RestoreLabels, RemoteLabels, UploadLabels, RollbackLabels,
          LookLabels, RetriedLabels, AfterRefusal
    <3>2. Staged'
      BY <1>1, <2>2
      DEF RollbackMutation, Goto, Staged, Now, mutations, Labels, Registered,
          RestoreLabels, RemoteLabels, UploadLabels, RollbackLabels, LookLabels,
          RetriedLabels, AfterRefusal
    <3> QED BY <1>1, <2>1, <3>1, <3>2, <1>b, <1>d
      DEF RollbackMutation, TypeInv, StateOK
  <2>3. CASE Now \notin journal
    BY <1>1, <2>1, <2>3, <1>d, <1>e, NextMutationIsSafe DEF RollbackMutation
  <2> QED BY <2>2, <2>3
<1>14. CASE CheckRemoved
  <2>1. HistoryOK'
    BY <1>14, <1>a DEF CheckRemoved, Look, TypeInv, StateOK, HistoryOK
  <2>2. NextMutation({}) => SafeMove
    BY NextMutationIsSafe
  <2>3. Goto("removeTarget") => SafeMove
    BY <1>14, GotoIsSafe
    DEF CheckRemoved, Remotely, TypeInv, StateOK, ControlOK, Registered,
        RestoreLabels, RollbackLabels, LookLabels, RetriedLabels, AfterRefusal
  <2> QED BY <1>14, <2>1, <2>2, <2>3, <1>c, <1>e DEF CheckRemoved
<1>15. CASE CheckRestored
  <2>1. HistoryOK'
    BY <1>15, <1>a DEF CheckRestored, Look, TypeInv, StateOK, HistoryOK
  <2>2. NextMutation({}) => SafeMove
    BY NextMutationIsSafe
  <2>3. Goto(caller) => SafeMove
    BY <1>15, GotoIsSafe
    DEF CheckRestored, Remotely, TypeInv, StateOK, ControlOK, Registered,
        RestoreLabels, RollbackLabels, LookLabels, RetriedLabels, AfterRefusal
  <2> QED BY <1>15, <2>1, <2>2, <2>3, <1>c, <1>e DEF CheckRestored
<1>16. CASE Discard
  <2>1. FilesOK'
    BY <1>16, <1>a
    DEF Discard, TypeInv, StateOK, FilesOK, Set, SitePages, Contents
  <2>2. Goto("checkRestored") => SafeMove
    BY <1>16, GotoIsSafe
    DEF Discard, Remotely, Registered, RestoreLabels, RollbackLabels,
        LookLabels, RetriedLabels, AfterRefusal
  <2>3. AtBatch
    BY <1>16 DEF Discard, Remotely, AtBatch, RemoteLabels, RollbackLabels,
                 AfterRefusal
  <2>4. SafeMove /\ HistoryOK'
    <3>1. CASE Reply(Goto("checkRestored"))
      BY <2>2, <2>3, <3>1, ReplyIsSafe
    <3>2. CASE Goto("checkRestored") /\ CountFault
      BY <2>2, <3>2, FaultTypes
    <3>3. ASSUME NEW kind \in {"transport", "interrupt"}, Raise(kind), CountFault
          PROVE  SafeMove /\ HistoryOK'
      BY <2>3, <3>3, RaiseIsSafe, FaultTypes
    <3> QED BY <1>16, <3>1, <3>2, <3>3 DEF Discard
  <2> QED BY <1>16, <2>1, <2>4, <1>e DEF Discard
<1>f. ASSUME unseen' \in [Targets -> BOOLEAN], UNCHANGED <<files, mutations>>,
             NEW hidden \in SUBSET Contents, Conflict(hidden),
             UNCHANGED <<owner, edits, faults, disturbed>>
      PROVE  TypeInv'
  BY <1>c, <1>e, <1>f, ConflictIsSafe
<1>g. /\ temp[Now] \in Contents /\ backup[Now] \in Contents
      /\ quarantine[Now] \in Contents /\ late[Now] \in Contents
  BY <1>a DEF TypeInv, StateOK, FilesOK, Contents
<1>17. CASE DropTemp
  <2> USE DEF Remotely, Registered, RollbackLabels, LookLabels, RestoreLabels,
              RetriedLabels, AfterRefusal
  <2>1. UNCHANGED <<files, mutations, owner, unseen, edits, faults, disturbed>>
        /\ pc = "dropTemp" /\ tries # 4
    BY <1>17 DEF DropTemp, Exhausted
  <2>2. tries <= 3
    BY <2>1 DEF TypeInv, StateOK, ControlOK
  <2>3. named' = named => HistoryOK'
    BY <2>1 DEF TypeInv, StateOK, HistoryOK
  <2>4. CASE NextMutation({}) /\ named' = named
    BY <2>1, <2>3, <2>4, <1>c, <1>e, NextMutationIsSafe
  <2>5. CASE /\ temp[Now] = Installed(Now)
             /\ Iterate("stashTemp") /\ named' = named
    BY <2>1, <2>2, <2>3, <2>5, IterateKeepsTypes
  <2>6. CASE Iterate("rmStashedTemp") /\ named' = named
    BY <2>1, <2>2, <2>3, <2>6, IterateKeepsTypes
  <2>7. ASSUME NEW hidden \in SUBSET Contents, Conflict(hidden)
        PROVE  TypeInv'
    BY <2>1, <2>7, <1>f DEF TypeInv, StateOK, HistoryOK
  <2> QED BY <1>17, <1>g, <2>4, <2>5, <2>6, <2>7 DEF DropTemp
<1>h. ASSUME Look
      PROVE  unseen' \in [Targets -> BOOLEAN]
  BY <1>a, <1>h DEF Look, TypeInv, StateOK, HistoryOK
<1>18. CASE RemoveTarget
  <2> USE DEF Remotely, Registered, RollbackLabels, LookLabels, RestoreLabels,
              RetriedLabels, AfterRefusal
  <2>1. UNCHANGED <<files, mutations, owner, edits, faults, disturbed>>
        /\ pc = "removeTarget" /\ tries # 4 /\ Look
    BY <1>18 DEF RemoveTarget, Exhausted
  <2>2. tries <= 3
    BY <2>1 DEF TypeInv, StateOK, ControlOK
  <2>3. named' = named => HistoryOK'
    BY <2>1, <1>h DEF TypeInv, StateOK, HistoryOK
  <2>4. ASSUME NEW label \in {"rmTemp", "stashTarget", "rmStash"},
               Iterate(label), named' = named
        PROVE  TypeInv'
    BY <2>1, <2>2, <2>3, <2>4, IterateKeepsTypes
  <2>5. ASSUME NEW hidden \in SUBSET Contents, Conflict(hidden)
        PROVE  TypeInv'
    BY <2>1, <2>5, <1>f, <1>h
  <2> QED BY <1>18, <1>g, <2>4, <2>5 DEF RemoveTarget
<1>19. CASE Reconcile
  <2>1. CASE Restorable
    <3>1. FilesOK'
      BY <1>19, <2>1, FreshNamesTypes DEF Reconcile
    <3>2. HistoryOK'
      BY <1>19, <2>1, <1>h DEF Reconcile, TypeInv, StateOK, HistoryOK
    <3>3. outer <= 1
      BY <1>19 DEF Reconcile, Remotely, Exhausted, TypeInv, StateOK, ControlOK
    <3>4. Enter("isolate", "isolate") /\ pc = "reconcile"
      BY <1>19, <2>1 DEF Reconcile, Remotely
    <3>5. SafeMove
      BY <3>3, <3>4
      DEF Enter, SafeMove, TypeInv, StateOK, ControlOK,
          Labels, Registered, RestoreLabels, RemoteLabels, UploadLabels,
          RollbackLabels, LookLabels, RetriedLabels, AfterRefusal
    <3> QED BY <1>19, <3>1, <3>2, <3>5, <1>e DEF Reconcile
  <2>2. CASE ~Restorable
    BY <1>19, <2>2, <1>f, <1>g, <1>h DEF Reconcile, files
  <2> QED BY <2>1, <2>2
<1>i. ASSUME NEW loop \in {"isolate", "restoreBackup"}, Cleanup(loop),
             pc = loop, tries # 3, UNCHANGED <<files, mutations>>, Look,
             UNCHANGED <<owner, edits, faults, disturbed>>
      PROVE  TypeInv'
  <2>1. CASE Conflict(ForeignArtifact)
    BY <1>i, <2>1, <1>f, <1>g, <1>h DEF ForeignArtifact
  <2>2. CASE pc' = "discard"
    <3>1. HistoryOK'
      BY <1>h, <1>i, <2>2
      DEF Cleanup, Conflict, NextMutation, TypeInv, StateOK, HistoryOK
    <3>2. tries \in 0..2 /\ outer <= 1
      BY <1>i DEF TypeInv, StateOK, ControlOK, Staged, RestoreLabels
    <3>3. /\ pc' = "discard" /\ caller' = loop /\ tries' = tries + 1
          /\ UNCHANGED <<cur, outer, pass, failures, outcome, link>>
      BY <1>i, <2>2 DEF Cleanup, Conflict, NextMutation
    <3>4. ControlOK'
      BY <3>2, <3>3
      DEF TypeInv, StateOK, ControlOK, Labels, RemoteLabels, RollbackLabels,
          AfterRefusal
    <3>5. Staged'
      BY <1>i, <3>2, <3>3
      DEF TypeInv, Staged, Now, Registered, RestoreLabels, RollbackLabels,
          RetriedLabels, mutations
    <3> QED BY <1>b, <1>c, <1>i, <3>1, <3>4, <3>5 DEF TypeInv, StateOK
  <2> QED BY <1>i, <2>1, <2>2 DEF Cleanup
<1>20. CASE Isolate
  <2> USE DEF Remotely, Registered, RollbackLabels, LookLabels, RestoreLabels,
              RetriedLabels, AfterRefusal
  <2>1. UNCHANGED <<files, mutations, owner, edits, faults, disturbed>>
        /\ pc = "isolate" /\ tries # 3 /\ Look
    BY <1>20 DEF Isolate, Exhausted
  <2>2. tries \in 0..2 /\ outer <= 1
    BY <2>1 DEF TypeInv, StateOK, ControlOK, Staged
  <2>3. named' = named => HistoryOK'
    BY <2>1, <1>h DEF TypeInv, StateOK, HistoryOK
  <2>4. CASE Cleanup("isolate")
    BY <2>1, <2>4, <1>i
  <2>5. CASE Iterate("isolateTarget") /\ named' = named
    BY <2>1, <2>2, <2>3, <2>5, IterateKeepsTypes
  <2>6. CASE Enter("restoreBackup", "restoreBackup") /\ named' = named
    <3>1. SafeMove
      BY <2>1, <2>2, <2>6
      DEF Enter, SafeMove, TypeInv, StateOK, ControlOK, Labels, RemoteLabels,
          UploadLabels
    <3> QED BY <2>1, <2>3, <2>6, <3>1, <1>c, <1>e
  <2>7. ASSUME NEW hidden \in SUBSET Contents, Conflict(hidden)
        PROVE  TypeInv'
    BY <2>1, <2>7, <1>f, <1>h
  <2> QED BY <1>20, <1>g, <2>4, <2>5, <2>6, <2>7 DEF Isolate
<1>21. CASE RestoreBackup
  <2> USE DEF Remotely, Registered, RollbackLabels, LookLabels, RestoreLabels,
              RetriedLabels, AfterRefusal
  <2>1. UNCHANGED <<files, mutations, owner, edits, faults, disturbed>>
        /\ pc = "restoreBackup" /\ tries # 3 /\ Look
    BY <1>21 DEF RestoreBackup, Exhausted
  <2>2. tries \in 0..2
    BY <2>1 DEF TypeInv, StateOK, ControlOK, Staged
  <2>3. named' = named => HistoryOK'
    BY <2>1, <1>h DEF TypeInv, StateOK, HistoryOK
  <2>4. CASE Cleanup("restoreBackup")
    BY <2>1, <2>4, <1>i
  <2>5. CASE Iterate("stashLate") /\ named' = named
    BY <2>1, <2>2, <2>3, <2>5, IterateKeepsTypes
  <2>6. ASSUME NEW hidden \in SUBSET Contents, Conflict(hidden)
        PROVE  TypeInv'
    BY <2>1, <2>6, <1>f, <1>h
  <2> QED BY <1>21, <1>g, <2>4, <2>5, <2>6 DEF RestoreBackup, ForeignArtifact
<1> QED
  BY <1>1, <1>2, <1>3, <1>4, <1>5, <1>6, <1>7, <1>8, <1>9, <1>10, <1>11, <1>12,
     <1>13, <1>14, <1>15, <1>16, <1>17, <1>18, <1>19, <1>20, <1>21
  DEF Rollback

-------------------------------------------------------------------------------
\* The owner, faults and crashes; the theorem.

LEMMA OtherStepsKeepTypes ==
  ASSUME TypeInv,
         Fault \/ LoseMaster \/ DeadBatch \/ OwnerEdit \/ Crash \/ Terminated
  PROVE  TypeInv'
<1> USE DEF TypeInv, StateOK
<1>1. CASE Fault
  <2>1. PICK kind \in {"transport", "error", "interrupt"} : Raise(kind)
    BY <1>1 DEF Fault
  <2>2. SafeMove /\ HistoryOK'
    BY <1>1, <2>1, RaiseIsSafe, FaultTypes DEF Fault
  <2> QED
    BY <1>1, <2>2, SafeMoveKeepsTypes
    DEF Fault, files, mutations, FilesOK, MutationsOK
<1>2. CASE LoseMaster
  <2>1. HistoryOK'
    BY <1>2, FaultTypes DEF LoseMaster
  <2> QED
    BY <1>2, <2>1, InstalledIsFixed
    DEF LoseMaster, files, mutations, FilesOK, MutationsOK, ControlOK, Staged,
        Now, Installed
<1>3. CASE DeadBatch
  <2>1. SafeMove
    BY <1>3, RaiseIsSafe DEF DeadBatch
  <2> QED
    BY <1>3, <2>1, SafeMoveKeepsTypes
    DEF DeadBatch, files, mutations, history, FilesOK, MutationsOK, HistoryOK
<1>4. CASE OwnerEdit
  <2>1. \A t \in Targets : OwnerPages(t) \cup {Absent} \subseteq SitePages
    BY DEF OwnerPages, SitePages, Pages
  <2>2. FilesOK'
    BY <1>4, <2>1 DEF OwnerEdit, FilesOK
  <2>3. HistoryOK'
    BY <1>4, <2>1, FrontAssumption DEF OwnerEdit, HistoryOK
  <2>4. MutationsOK' /\ ControlOK'
    BY <1>4 DEF OwnerEdit, mutations, control, MutationsOK, ControlOK
  <2>5. Staged'
    BY <1>4 DEF OwnerEdit, mutations, control, Staged, Now, Installed
  <2> QED BY <2>2, <2>3, <2>4, <2>5
<1>5. CASE Crash
  BY <1>5, FinishIsSafe, SafeMoveKeepsTypes
  DEF Crash, files, mutations, history, FilesOK, MutationsOK, HistoryOK
<1>6. CASE Terminated
  BY <1>6
  DEF Terminated, vars, files, mutations, control, history, FilesOK,
      MutationsOK, ControlOK, HistoryOK, Staged, Now, Installed
<1> QED BY <1>1, <1>2, <1>3, <1>4, <1>5, <1>6

LEMMA TypesInitially == Init => TypeInv
<1> SUFFICES ASSUME Init PROVE TypeInv
  OBVIOUS
<1>1. live \in [Targets -> SitePages]
  BY DEF Init
<1>2. FilesOK
  BY <1>1 DEF Init, FilesOK, SitePages, Contents
<1>3. MutationsOK
  BY <1>1 DEF Init, MutationsOK
<1>4. ControlOK
  BY PlanLength DEF Init, ControlOK, Labels, RemoteLabels
<1>5. HistoryOK
  <2>1. MaxEdits \in Nat /\ MaxFaults \in Nat
    BY FrontAssumption
  <2>2. named \in [Targets -> SUBSET Contents]
    BY Zenon DEF Init
  <2>3. unseen \in [Targets -> BOOLEAN] /\ disturbed \in BOOLEAN
    BY DEF Init
  <2>4. owner = live /\ edits = 0 /\ faults = 0
    BY DEF Init
  <2> QED BY <1>1, <2>1, <2>2, <2>3, <2>4 DEF HistoryOK
<1>6. Staged
  BY DEF Init, Staged, Registered, RestoreLabels, UploadLabels, RollbackLabels,
         LookLabels, RetriedLabels, AfterRefusal
<1> QED BY <1>2, <1>3, <1>4, <1>5, <1>6 DEF TypeInv, StateOK

LEMMA TypesPreserved == TypeInv /\ [Next]_vars => TypeInv'
<1>1. ASSUME TypeInv, UNCHANGED vars
      PROVE  TypeInv'
  BY <1>1
  DEF vars, files, mutations, control, history, TypeInv, StateOK, FilesOK,
      MutationsOK, ControlOK, HistoryOK, Staged, Now, Installed
<1> QED
  BY <1>1, UploadKeepsTypes, RollbackKeepsTypes, OtherStepsKeepTypes
  DEF Next, Installer

\* A step of the specification is a step of Next, on either kind of server.
LEMMA StepIsNext ==
  [Next /\ UNCHANGED posixRename]_<<vars, posixRename>> => [Next]_vars
  OBVIOUS

\* Whatever the two sides do, every variable keeps its type; in particular a
\* torn upload is never switched in, moved aside or quarantined, and the nested
\* loops of the rollback stay within their bounds (front.py).
THEOREM TypeCorrect == Spec => []TypeOK
<1>1. Init => posixRename \in BOOLEAN
  BY DEF Init
<1>2. /\ posixRename \in BOOLEAN
      /\ [Next /\ UNCHANGED posixRename]_<<vars, posixRename>>
      => (posixRename \in BOOLEAN)'
  OBVIOUS
<1>3. TypeInv /\ posixRename \in BOOLEAN => TypeOK
  BY DEF TypeInv, TypeOK
<1> QED
  BY <1>1, <1>2, <1>3, StepIsNext, TypesInitially, TypesPreserved, PTL DEF Spec

-------------------------------------------------------------------------------
\* With a rename that refuses an existing destination, what the owner wrote
\* last is never destroyed.  Every rm must be known to hit something else:
\* the quarantine holds the installer's own bytes, which differ from the
\* owner's content as long as the target is one that had to change; and when
\* backup and quarantine are discarded the owner's content is on display.

Kept ==
  /\ AllPreserved
  /\ \A t \in Targets : Changed(t) => owner[t] # Installed(t)
  /\ \A t \in journal : Changed(t)
  /\ pc = "read" => live = owner /\ journal = {}
  /\ pc \in {"rmStash", "rmStashedTemp"} => quarantine[Now] = Installed(Now)
  /\ pc = "discard" => owner[Now] \in {Absent, live[Now]} \cup stray[Now]

KeptInv == TypeInv /\ Kept

\* Steps that move no file and rely on no new look.
LEMMA QuietKeeps ==
  ASSUME KeptInv,
         UNCHANGED <<live, backup, quarantine, late, stray, base, journal, owner>>,
         pc' \notin {"read", "rmStash", "rmStashedTemp", "discard"}
  PROVE  Kept'
  BY DEF KeptInv, Kept, AllPreserved, Preserved, Changed, Installed

\* Steps that move the current target's files, but put none over another.
LEMMA MoveKeeps ==
  ASSUME KeptInv, \A t \in Targets : Preserved(t)',
         UNCHANGED <<base, journal, owner>>,
         pc' \notin {"read", "rmStash", "rmStashedTemp", "discard"}
  PROVE  Kept'
  BY DEF KeptInv, Kept, AllPreserved, Changed, Installed

LEMMA FaultIsQuiet ==
  ASSUME TypeInv, AtBatch, NEW kind \in {"transport", "error", "interrupt"},
         Raise(kind)
  PROVE  pc' \notin {"read", "rmStash", "rmStashedTemp", "discard"}
  BY RaiseIsSafe DEF SafeMove

LEMMA ReplyIsQuiet ==
  ASSUME TypeInv, AtBatch,
         NEW label, label \notin {"read", "rmStash", "rmStashedTemp", "discard"},
         Reply(Goto(label))
  PROVE  /\ pc' \notin {"read", "rmStash", "rmStashedTemp", "discard"}
         /\ owner' = owner
<1>1. CASE Goto(label) /\ UNCHANGED history
  BY <1>1 DEF Goto, history
<1>2. ASSUME NEW kind \in {"transport", "interrupt"}, Raise(kind), CountFault
      PROVE  /\ pc' \notin {"read", "rmStash", "rmStashedTemp", "discard"}
             /\ owner' = owner
  BY <1>2, FaultIsQuiet DEF CountFault
<1> QED BY <1>1, <1>2 DEF Reply

LEMMA UploadKeeps == KeptInv /\ ~posixRename /\ Upload => Kept'
<1> SUFFICES ASSUME KeptInv, ~posixRename, Upload PROVE Kept'
  OBVIOUS
<1> USE PlanIsTargets DEF files, mutations, history, Remotely
<1>a. Now \in Targets
  BY DEF Now, KeptInv, TypeInv, StateOK, ControlOK
<1>b. ASSUME StartRollback \/ NextUpload \/ (\E label \in
               {"put", "precheck", "promote", "moveAside", "chmod", "teardown"} :
               Goto(label))
      PROVE  pc' \notin {"read", "rmStash", "rmStashedTemp", "discard"}
  BY <1>b DEF StartRollback, NextUpload, Goto
<1>1. CASE ReadBase
  <2>1. live = owner /\ journal = {}
    BY <1>1 DEF ReadBase, KeptInv, Kept
  <2>2. /\ UNCHANGED <<live, owner, journal>> /\ base' = [base EXCEPT ![Now] = live[Now]]
        /\ pc' \in {"read", "snapshot"}
    BY <1>1 DEF ReadBase, Set
  <2>3. \A t \in Targets : Changed(t)' => owner'[t] # Installed(t)'
    BY <1>a, <2>1, <2>2
    DEF KeptInv, Kept, TypeInv, StateOK, MutationsOK, FilesOK, Changed, Installed
  <2>4. \A t \in Targets : Preserved(t)'
    BY <2>1, <2>2 DEF Preserved
  <2> QED BY <2>1, <2>2, <2>3, <2>4 DEF Kept, AllPreserved
<1>2. CASE SkipUnchanged
  BY <1>2, <1>b, QuietKeeps DEF SkipUnchanged
<1>3. CASE Snapshot
  <2>1. /\ UNCHANGED <<live, backup, quarantine, late, stray, base, owner>>
        /\ journal' = journal \cup {Now} /\ Changed(Now)
        /\ pc' = "put"
    BY <1>3 DEF Snapshot, Goto
  <2> QED
    BY <2>1
    DEF KeptInv, Kept, AllPreserved, Preserved, Changed, Installed
<1>4. CASE PutTemp
  <2>1. AtBatch
    BY <1>4 DEF PutTemp, AtBatch, RemoteLabels, UploadLabels
  <2> QED BY <1>4, <2>1, ReplyIsQuiet, QuietKeeps DEF PutTemp, KeptInv
<1>5. CASE TornPut
  <2>1. AtBatch
    BY <1>5 DEF TornPut, AtBatch, RemoteLabels, UploadLabels
  <2> QED
    BY <1>5, <2>1, FaultIsQuiet, QuietKeeps DEF TornPut, CountFault, KeptInv
<1>6. CASE Precheck
  BY <1>6, <1>b, QuietKeeps DEF Precheck
<1>7. CASE MoveAside
  <2>1. \A t \in Targets : Preserved(t)'
    BY <1>7, <1>a
    DEF MoveAside, CanRename, Set, KeptInv, Kept, AllPreserved,
        Preserved, TypeInv, StateOK, FilesOK
  <2> QED BY <1>7, <2>1, <1>b, MoveKeeps DEF MoveAside
<1>8. CASE Promote
  <2>1. \A t \in Targets : Preserved(t)'
    BY <1>8, <1>a
    DEF Promote, CanRename, Set, KeptInv, Kept, AllPreserved,
        Preserved, TypeInv, StateOK, FilesOK
  <2> QED BY <1>8, <2>1, <1>b, MoveKeeps DEF Promote
<1>9. CASE Chmod
  BY <1>9, <1>b, QuietKeeps DEF Chmod
<1>10. CASE VerifyPasses
  BY <1>10, <1>b, QuietKeeps DEF VerifyPasses
<1>11. CASE VerifyFails
  BY <1>11, <1>b, QuietKeeps DEF VerifyFails
<1>12. CASE Teardown
  BY <1>12, QuietKeeps DEF Teardown, Finish, CountFault
<1> QED
  BY <1>1, <1>2, <1>3, <1>4, <1>5, <1>6, <1>7, <1>8, <1>9, <1>10, <1>11, <1>12
  DEF Upload

LEMMA RollbackKeeps == KeptInv /\ ~posixRename /\ Rollback => Kept'
<1> SUFFICES ASSUME KeptInv, ~posixRename, Rollback PROVE Kept'
  OBVIOUS
<1> DEFINE Quiet == pc' \notin {"read", "rmStash", "rmStashedTemp", "discard"}
<1> USE DEF files, mutations, history
<1>a. Now \in Targets
  BY PlanIsTargets DEF Now, KeptInv, TypeInv, StateOK, ControlOK
<1>b. ASSUME NEW why, NextMutation(why)
      PROVE  Quiet
  BY <1>b DEF NextMutation
<1>c. ASSUME NEW hidden, Conflict(hidden)
      PROVE  Quiet
  BY <1>c, <1>b DEF Conflict
<1>d. ASSUME NEW result, Finish(result)
      PROVE  Quiet
  BY <1>d DEF Finish
<1>e. ASSUME Quiet, UNCHANGED <<files, mutations, owner>>
      PROVE  Kept'
  BY <1>e, QuietKeeps
<1>f. ASSUME FreshNames, UNCHANGED <<live, backup, owner>>
      PROVE  \A t \in Targets : Preserved(t)'
  BY <1>a, <1>f
  DEF FreshNames, Set, KeptInv, Kept, AllPreserved, Preserved,
      TypeInv, StateOK, FilesOK
<1>1. CASE RollbackMutation
  <2>1. Quiet
    BY <1>1, <1>b DEF RollbackMutation, Goto
  <2>2. CASE Now \in journal
    BY <1>1, <2>1, <2>2, <1>f, MoveKeeps DEF RollbackMutation
  <2>3. CASE Now \notin journal
    BY <1>1, <2>1, <2>3, <1>e DEF RollbackMutation
  <2> QED BY <2>2, <2>3
<1>2. CASE JournalDone
  BY <1>2, <1>d, <1>e DEF JournalDone, Goto, CountFault
<1>3. CASE Recover
  BY <1>3, <1>d, <1>e DEF Recover, CountFault
<1>4. CASE GiveUp
  BY <1>4, <1>b, <1>e DEF GiveUp, NextAttempt
<1>5. CASE StashTemp
  <2>1. AtBatch
    BY <1>5 DEF StashTemp, Remotely, AtBatch, RemoteLabels, RollbackLabels,
                AfterRefusal
  <2>2. Quiet /\ owner' = owner
    BY <1>5, <2>1, ReplyIsQuiet DEF StashTemp, KeptInv
  <2>3. \A t \in Targets : Preserved(t)'
    BY <1>5, <1>a, <2>2
    DEF StashTemp, CanRename, Set, KeptInv, Kept, AllPreserved,
        Preserved, TypeInv, StateOK, FilesOK
  <2> QED BY <1>5, <2>2, <2>3, MoveKeeps DEF StashTemp
<1>6. CASE StashTarget
  <2>1. AtBatch
    BY <1>6 DEF StashTarget, Remotely, AtBatch, RemoteLabels, RollbackLabels,
                AfterRefusal
  <2>2. Quiet /\ owner' = owner
    BY <1>6, <2>1, ReplyIsQuiet DEF StashTarget, KeptInv
  <2>3. \A t \in Targets : Preserved(t)'
    BY <1>6, <1>a, <2>2
    DEF StashTarget, CanRename, Set, KeptInv, Kept, AllPreserved,
        Preserved, TypeInv, StateOK, FilesOK
  <2> QED BY <1>6, <2>2, <2>3, MoveKeeps DEF StashTarget
<1>7. CASE IsolateTarget
  <2>1. AtBatch
    BY <1>7 DEF IsolateTarget, Remotely, AtBatch, RemoteLabels, RollbackLabels,
                AfterRefusal
  <2>2. Quiet /\ owner' = owner
    BY <1>7, <2>1, ReplyIsQuiet DEF IsolateTarget, KeptInv
  <2>3. \A t \in Targets : Preserved(t)'
    BY <1>7, <1>a, <2>2
    DEF IsolateTarget, CanRename, Set, KeptInv, Kept, AllPreserved,
        Preserved, TypeInv, StateOK, FilesOK
  <2> QED BY <1>7, <2>2, <2>3, MoveKeeps DEF IsolateTarget
<1>8. CASE RmTemp
  <2>1. AtBatch
    BY <1>8 DEF RmTemp, Remotely, AtBatch, RemoteLabels, RollbackLabels,
                AfterRefusal
  <2>2. Quiet /\ owner' = owner
    BY <1>8, <2>1, ReplyIsQuiet DEF RmTemp, KeptInv
  <2> QED BY <1>8, <2>2, QuietKeeps DEF RmTemp
<1>9. CASE RmUnusedTemp
  <2>1. AtBatch
    BY <1>9 DEF RmUnusedTemp, Remotely, AtBatch, RemoteLabels, RollbackLabels,
                AfterRefusal
  <2>2. Quiet /\ owner' = owner
    BY <1>9, <2>1, ReplyIsQuiet DEF RmUnusedTemp, KeptInv
  <2> QED BY <1>9, <2>2, QuietKeeps DEF RmUnusedTemp
<1>10. CASE RmStashedTemp
  <2>1. AtBatch
    BY <1>10 DEF RmStashedTemp, Remotely, AtBatch, RemoteLabels, RollbackLabels,
                AfterRefusal
  <2>2. Quiet /\ owner' = owner
    BY <1>10, <2>1, ReplyIsQuiet DEF RmStashedTemp, KeptInv
  <2>3. owner[Now] # quarantine[Now]
    BY <1>10, <1>a
    DEF RmStashedTemp, Remotely, KeptInv, Kept, TypeInv, Staged, Registered,
        RollbackLabels, AfterRefusal
  <2>4. \A t \in Targets : Preserved(t)'
    BY <1>10, <1>a, <2>2, <2>3
    DEF RmStashedTemp, Set, KeptInv, Kept, AllPreserved, Preserved,
        TypeInv, StateOK, FilesOK
  <2> QED BY <1>10, <2>2, <2>4, MoveKeeps DEF RmStashedTemp
<1>11. CASE StashLate
  <2>1. Quiet /\ owner' = owner
    BY <1>11 DEF StashLate, Goto
  <2>2. \A t \in Targets : Preserved(t)'
    BY <1>11, <1>a, <2>1
    DEF StashLate, CanRename, Set, KeptInv, Kept, AllPreserved,
        Preserved, TypeInv, StateOK, FilesOK
  <2> QED BY <1>11, <2>1, <2>2, MoveKeeps DEF StashLate
<1>12. CASE PromoteBackup
  <2>1. Quiet /\ owner' = owner
    BY <1>12 DEF PromoteBackup, Goto
  <2>2. \A t \in Targets : Preserved(t)'
    BY <1>12, <1>a, <2>1
    DEF PromoteBackup, CanRename, Set, KeptInv, Kept, AllPreserved,
        Preserved, TypeInv, StateOK, FilesOK
  <2> QED BY <1>12, <2>1, <2>2, MoveKeeps DEF PromoteBackup
<1>13. CASE RmStash
  <2>1. Quiet /\ owner' = owner
    BY <1>13 DEF RmStash, Goto
  <2>2. owner[Now] # quarantine[Now]
    BY <1>13, <1>a
    DEF RmStash, Remotely, KeptInv, Kept, TypeInv, Staged, Registered,
        RollbackLabels, AfterRefusal
  <2>3. \A t \in Targets : Preserved(t)'
    BY <1>13, <1>a, <2>1, <2>2
    DEF RmStash, Set, KeptInv, Kept, AllPreserved, Preserved,
        TypeInv, StateOK, FilesOK
  <2> QED BY <1>13, <2>1, <2>3, MoveKeeps DEF RmStash
<1>14. CASE CheckRemoved
  BY <1>14, <1>b, <1>e DEF CheckRemoved, Goto
<1>15. CASE CheckRestored
  <2>1. caller \in {"isolate", "restoreBackup"}
    BY DEF KeptInv, TypeInv, StateOK, ControlOK
  <2> QED BY <1>15, <2>1, <1>b, <1>e DEF CheckRestored, Goto
<1>16. CASE Discard
  <2>1. AtBatch
    BY <1>16 DEF Discard, Remotely, AtBatch, RemoteLabels, RollbackLabels,
                 AfterRefusal
  <2>2. Quiet /\ owner' = owner
    BY <1>16, <2>1, ReplyIsQuiet, FaultIsQuiet
    DEF Discard, Goto, CountFault, KeptInv
  <2>3. owner[Now] \in {Absent, live[Now]} \cup stray[Now]
    BY <1>16 DEF Discard, Remotely, KeptInv, Kept
  <2>4. \A t \in Targets : t # Now =>
          backup'[t] = backup[t] /\ quarantine'[t] = quarantine[t]
    BY <1>16, <1>a DEF Discard, Set, KeptInv, TypeInv, StateOK, FilesOK
  <2>5. \A t \in Targets : Preserved(t)'
    BY <1>16, <2>2, <2>3, <2>4
    DEF Discard, KeptInv, Kept, AllPreserved, Preserved
  <2> QED BY <1>16, <2>2, <2>5, MoveKeeps DEF Discard
<1>17. CASE DropTemp
  <2>1. UNCHANGED <<files, mutations, owner>>
    BY <1>17 DEF DropTemp
  <2>2. CASE Quiet
    BY <2>1, <2>2, <1>e
  <2>3. CASE Iterate("stashTemp")
    BY <2>1, <2>3, <1>e DEF Iterate
  <2>4. CASE quarantine[Now] = Installed(Now) /\ Iterate("rmStashedTemp")
    BY <2>1, <2>4
    DEF Iterate, KeptInv, Kept, AllPreserved, Preserved, Changed,
        Installed, Now
  <2> QED BY <1>17, <1>b, <1>c, <2>2, <2>3, <2>4 DEF DropTemp
<1>18. CASE RemoveTarget
  <2>1. UNCHANGED <<files, mutations, owner>>
    BY <1>18 DEF RemoveTarget
  <2>2. CASE Quiet
    BY <2>1, <2>2, <1>e
  <2>3. CASE Iterate("rmTemp") \/ Iterate("stashTarget")
    BY <2>1, <2>3, <1>e DEF Iterate
  <2>4. CASE quarantine[Now] = Installed(Now) /\ Iterate("rmStash")
    BY <2>1, <2>4
    DEF Iterate, KeptInv, Kept, AllPreserved, Preserved, Changed,
        Installed, Now
  <2> QED BY <1>18, <1>c, <2>2, <2>3, <2>4 DEF RemoveTarget
<1>19. CASE Reconcile
  <2>1. CASE Restorable
    <3>1. Quiet
      BY <1>19, <2>1, <1>c DEF Reconcile, Enter
    <3>2. \A t \in Targets : Preserved(t)'
      <4>1. CASE FreshNames
        BY <1>19, <4>1, <1>f DEF Reconcile
      <4>2. CASE UNCHANGED <<quarantine, late, stray>>
        BY <1>19, <4>2
        DEF Reconcile, KeptInv, Kept, AllPreserved, Preserved
      <4> QED BY <1>19, <4>1, <4>2 DEF Reconcile
    <3> QED BY <1>19, <3>1, <3>2, MoveKeeps DEF Reconcile
  <2>2. CASE ~Restorable
    BY <1>19, <2>2, <1>c, <1>e DEF Reconcile
  <2> QED BY <2>1, <2>2
<1>g. ASSUME NEW loop, Cleanup(loop), live[Now] = original[Now],
             pc \in Registered, UNCHANGED <<files, mutations, owner>>
      PROVE  Kept'
  <2>1. CASE Conflict(ForeignArtifact)
    BY <1>g, <2>1, <1>c, <1>e
  <2>2. CASE ForeignArtifact = {} /\ pc' = "discard" /\ cur' = cur
    <3>1. /\ late[Now] = Absent /\ quarantine[Now] \in {Absent, Installed(Now)}
          /\ backup[Now] \in {Absent, original[Now]}
      BY <2>2 DEF ForeignArtifact
    <3>2. owner[Now] \in {Absent, live[Now]} \cup stray[Now]
      <4>1. owner[Now] # Installed(Now) /\ Preserved(Now)
        BY <1>a, <1>g
        DEF KeptInv, Kept, TypeInv, Staged, AllPreserved
      <4> QED BY <1>g, <3>1, <4>1 DEF Preserved
    <3> QED
      BY <1>g, <2>2, <3>2
      DEF KeptInv, Kept, AllPreserved, Preserved, Changed, Installed,
          Now
  <2> QED BY <1>g, <2>1, <2>2 DEF Cleanup
<1>20. CASE Isolate
  <2>1. CASE live[Now] = original[Now]
    BY <1>20, <2>1, <1>g
    DEF Isolate, Remotely, Registered, RollbackLabels, RetriedLabels
  <2>2. CASE live[Now] # original[Now]
    <3>1. Quiet
      BY <1>20, <2>2, <1>c DEF Isolate, Iterate, Enter
    <3> QED BY <1>20, <3>1, <1>e DEF Isolate
  <2> QED BY <2>1, <2>2
<1>21. CASE RestoreBackup
  <2>1. CASE live[Now] = original[Now]
    BY <1>21, <2>1, <1>g
    DEF RestoreBackup, Remotely, Registered, RollbackLabels, RetriedLabels
  <2>2. CASE live[Now] # original[Now]
    <3>1. Quiet
      BY <1>21, <2>2, <1>c DEF RestoreBackup, Iterate
    <3> QED BY <1>21, <3>1, <1>e DEF RestoreBackup
  <2> QED BY <2>1, <2>2
<1> QED
  BY <1>1, <1>2, <1>3, <1>4, <1>5, <1>6, <1>7, <1>8, <1>9, <1>10, <1>11, <1>12,
     <1>13, <1>14, <1>15, <1>16, <1>17, <1>18, <1>19, <1>20, <1>21
  DEF Rollback

LEMMA OtherStepsKeep ==
  ASSUME KeptInv,
         Fault \/ LoseMaster \/ DeadBatch \/ OwnerEdit \/ Crash \/ Terminated
  PROVE  Kept'
<1>1. CASE Fault
  BY <1>1, FaultIsQuiet, QuietKeeps
  DEF Fault, CountFault, files, mutations, KeptInv
<1>2. CASE LoseMaster
  BY <1>2
  DEF LoseMaster, CountFault, files, mutations, KeptInv, Kept,
      AllPreserved, Preserved, Changed, Installed, Now
<1>3. CASE DeadBatch
  BY <1>3, FaultIsQuiet, QuietKeeps
  DEF DeadBatch, files, mutations, history, KeptInv
<1>4. CASE OwnerEdit
  <2>1. PICK t \in Targets, page \in SitePages :
          /\ Changed(t) => page # Installed(t)
          /\ live' = [live EXCEPT ![t] = page]
          /\ owner' = [owner EXCEPT ![t] = page]
    BY <1>4 DEF OwnerEdit, OwnerPages, SitePages, Pages
  <2>2. UNCHANGED <<pc, cur, backup, quarantine, late, stray, base, journal>>
    BY <1>4 DEF OwnerEdit, mutations, control
  <2>3. /\ live \in [Targets -> SitePages] /\ owner \in [Targets -> SitePages]
        /\ Now \in Targets
    BY PlanIsTargets
    DEF KeptInv, TypeInv, StateOK, FilesOK, HistoryOK, ControlOK, Now
  <2>4. \A s \in Targets : IF s = t THEN live'[s] = page /\ owner'[s] = page
                            ELSE live'[s] = live[s] /\ owner'[s] = owner[s]
    BY <2>1, <2>3
  <2>5. \A s \in Targets : Preserved(s)'
    BY <2>2, <2>4 DEF KeptInv, Kept, AllPreserved, Preserved
  <2>6. \A s \in Targets : Changed(s)' => owner'[s] # Installed(s)'
    BY <2>1, <2>2, <2>4 DEF KeptInv, Kept, Changed, Installed
  <2>7. pc' = "read" => live' = owner' /\ journal' = {}
    BY <2>1, <2>2 DEF KeptInv, Kept
  <2>8. pc' = "discard" => owner'[Now] \in {Absent, live'[Now]} \cup stray'[Now]
    BY <2>2, <2>3, <2>4 DEF KeptInv, Kept
  <2> QED
    BY <2>2, <2>5, <2>6, <2>7, <2>8
    DEF KeptInv, Kept, AllPreserved, Changed, Installed, Now
<1>5. CASE Crash
  BY <1>5, QuietKeeps DEF Crash, Finish, files, mutations, history
<1>6. CASE Terminated
  BY <1>6
  DEF Terminated, vars, files, mutations, control, history, KeptInv, Kept,
      AllPreserved, Preserved, Changed, Installed, Now
<1> QED BY <1>1, <1>2, <1>3, <1>4, <1>5, <1>6

LEMMA KeptInitially == Init => KeptInv
  BY TypesInitially
  DEF Init, KeptInv, Kept, AllPreserved, Preserved, Changed

LEMMA KeptPreserved == KeptInv /\ ~posixRename /\ [Next]_vars => KeptInv'
<1>1. ASSUME KeptInv, UNCHANGED vars
      PROVE  Kept'
  BY <1>1
  DEF vars, files, mutations, control, history, KeptInv, Kept,
      AllPreserved, Preserved, Changed, Installed, Now
<1> QED
  BY <1>1, TypesPreserved, UploadKeeps, RollbackKeeps, OtherStepsKeep
  DEF Next, Installer, KeptInv

\* If rename refuses an existing destination, the owner's latest content is
\* always somewhere on the server, or was a deletion: for any number of edits
\* and faults, at any moment, also after a crash (the renames and the rm
\* commands of front.py).
THEOREM OwnerContentKept == Spec => []OwnerContentPreserved
<1> DEFINE Refused == ~posixRename => KeptInv
<1>1. Init => Refused
  BY KeptInitially
<1>2. Refused /\ [Next /\ UNCHANGED posixRename]_<<vars, posixRename>> => Refused'
  BY KeptPreserved, StepIsNext
<1>3. Refused => OwnerContentPreserved
  BY DEF KeptInv, Kept, OwnerContentPreserved
<1> QED BY <1>1, <1>2, <1>3, PTL DEF Spec

-------------------------------------------------------------------------------
\* What the installer has seen of a target is what it moves.

\* The commands that move what the installer has last seen as the target.
Moving == {"moveAside", "promote", "stashLate", "promoteBackup", "stashTarget", "isolateTarget"}

\* Unless the owner has edited it since, the target is what the command expects.
Seen ==
  /\ pc = "moveAside" => live[Now] = original[Now] \/ unseen[Now]
  /\ pc \in {"promote", "stashLate", "promoteBackup"} => live[Now] = Absent \/ unseen[Now]
  /\ pc \in {"stashTarget", "isolateTarget"} => live[Now] = Installed(Now) \/ unseen[Now]

\* The labels of a transaction that is not rolled back.
Uploading == {"snapshot", "put", "precheck", "moveAside", "promote", "chmod"}
Verifying == {"verify", "teardown"}
Forward == {"read"} \cup Uploading \cup Verifying

SeenInv == TypeInv /\ Seen

\* An exception leads to the rollback or out of the transaction.
LEMMA RaiseLeadsBack ==
  ASSUME NEW kind \in {"transport", "error", "interrupt"}, Raise(kind)
  PROVE  /\ \/ pc' \notin Moving
            \/ pc = "stashLate" /\ pc' = "promoteBackup" /\ cur' = cur
         /\ pc' \notin Forward
         /\ outcome' \in {outcome, "untouched"}
<1>1. CASE pc = "read" /\ Finish("untouched")
  BY <1>1 DEF Finish, Moving, Forward, Uploading, Verifying
<1>2. CASE StartRollback \/ NextMutation({kind}) \/ NextAttempt
  BY <1>2 DEF StartRollback, NextMutation, NextAttempt, Moving, Forward, Uploading, Verifying
<1>3. CASE pc \in DOMAIN AfterRefusal /\ Goto(AfterRefusal[pc])
  BY <1>3 DEF Goto, AfterRefusal, Moving, Forward, Uploading, Verifying
<1>4. QED
  BY <1>1, <1>2, <1>3 DEF Raise

LEMMA ReplyLeads ==
  ASSUME NEW label, Reply(Goto(label))
  PROVE  \/ pc' = label /\ UNCHANGED <<cur, outcome>> /\ UNCHANGED history
         \/ /\ pc' \notin Moving \/ (pc = "stashLate" /\ pc' = "promoteBackup")
            /\ pc' \notin Forward
            /\ outcome' \in {outcome, "untouched"}
  BY RaiseLeadsBack DEF Reply, Goto

\* Steps that do not lead to such a command.
LEMMA ElsewhereSeen ==
  ASSUME pc' \notin Moving
  PROVE  Seen'
  BY DEF Seen, Moving

LEMMA SeenStep ==
  ASSUME SeenInv, [Next]_vars
  PROVE  Seen'
<1>0. Seen /\ Now \in Targets
  BY PlanIsTargets DEF SeenInv, TypeInv, StateOK, ControlOK, Now
<1>1. CASE Precheck
  <2>1. /\ UNCHANGED <<live, original, base, cur>> \/ pc' \notin Moving
        /\ pc' = "moveAside" => live[Now] = original[Now] /\ UNCHANGED <<live, original, cur>>
        /\ pc' = "promote" =>
             live[Now] = Absent /\ UNCHANGED <<live, cur>>
        /\ pc' \notin Moving \ {"moveAside", "promote"}
    BY <1>1 DEF Precheck, StartRollback, Goto, Moving, files
  <2>2. QED
    BY <2>1 DEF Seen, Moving, Now
<1>2. CASE MoveAside
  <2>1. \/ pc' \notin Moving
        \/ pc' = "promote" /\ cur' = cur /\ live' = Set(live, Absent)
    BY <1>2 DEF MoveAside, StartRollback, Goto, Moving
  <2>2. CASE pc' = "promote" /\ cur' = cur /\ live' = Set(live, Absent)
    <3>1. live'[Now] = Absent
      BY <1>0, <2>2 DEF Set, SeenInv, TypeInv, StateOK, FilesOK
    <3>2. QED
      BY <2>2, <3>1 DEF Seen, Now
  <2>3. QED
    BY <2>1, <2>2, ElsewhereSeen
<1>3. CASE RemoveTarget
  <2>1. \/ pc' \notin Moving
        \/ /\ pc' = "stashTarget" /\ live[Now] = Installed(Now)
           /\ UNCHANGED <<live, base, cur>>
    BY <1>3 DEF RemoveTarget, Conflict, NextMutation, Iterate, Moving, files, mutations
  <2>2. QED
    BY <2>1, ElsewhereSeen DEF Seen, Now, Installed
<1>4. CASE Isolate
  <2>1. \/ pc' \notin Moving
        \/ /\ pc' = "isolateTarget" /\ live[Now] = Installed(Now)
           /\ UNCHANGED <<live, base, cur>>
    BY <1>4 DEF Isolate, Cleanup, Conflict, NextMutation, Iterate, Enter, Moving, files,
       mutations
  <2>2. QED
    BY <2>1, ElsewhereSeen DEF Seen, Now, Installed
<1>5. CASE RestoreBackup
  <2>1. \/ pc' \notin Moving
        \/ pc' = "stashLate" /\ live[Now] = Absent /\ UNCHANGED <<live, cur>>
    BY <1>5 DEF RestoreBackup, Cleanup, Conflict, NextMutation, Iterate, Moving, files
  <2>2. QED
    BY <2>1, ElsewhereSeen DEF Seen, Now
<1>6. CASE StashLate
  <2>1. /\ pc = "stashLate" /\ pc' = "promoteBackup"
        /\ UNCHANGED <<cur, unseen>>
        /\ live' \in {live, Set(live, Absent)}
    BY <1>6 DEF StashLate, Remotely, Goto, history
  <2>2. live'[Now] = Absent \/ unseen[Now]
    BY <1>0, <2>1 DEF Seen, Set, SeenInv, TypeInv, StateOK, FilesOK
  <2>3. QED
    BY <2>1, <2>2 DEF Seen, Now
<1>7. CASE Fault \/ DeadBatch
  <2>1. PICK kind \in {"transport", "error", "interrupt"} : Raise(kind)
    BY <1>7 DEF Fault, DeadBatch
  <2>2. UNCHANGED <<live, unseen>>
    BY <1>7 DEF Fault, DeadBatch, CountFault, files, history
  <2>3. \/ pc' \notin Moving
        \/ pc = "stashLate" /\ pc' = "promoteBackup" /\ cur' = cur
    BY <2>1, RaiseLeadsBack
  <2>4. QED
    BY <1>0, <2>2, <2>3, ElsewhereSeen DEF Seen, Now
<1>8. CASE LoseMaster
  BY <1>0, <1>8 DEF LoseMaster, CountFault, files, mutations, Seen, Now, Installed
<1>9. CASE OwnerEdit
  <2>1. PICK t \in Targets :
          /\ live' = [live EXCEPT ![t] = live'[t]]
          /\ unseen' = [unseen EXCEPT ![t] = TRUE]
    BY <1>9 DEF OwnerEdit, SeenInv, TypeInv, StateOK, FilesOK
  <2>2. /\ UNCHANGED <<pc, cur, base, original>>
        /\ unseen'[Now] \/ (live'[Now] = live[Now] /\ unseen'[Now] = unseen[Now])
    BY <1>0, <1>9, <2>1 DEF OwnerEdit, control, mutations, SeenInv, TypeInv, StateOK, FilesOK,
       HistoryOK
  <2>3. QED
    BY <1>0, <2>2 DEF Seen, Now, Installed
<1>10. CASE StashTarget \/ IsolateTarget \/ StashTemp \/ RmStashedTemp \/ RmTemp \/ RmUnusedTemp
            \/ PutTemp
  <2>1. PICK label \in {"removeTarget", "isolate", "dropTemp", "checkRemoved",
                        "restoreBackup", "precheck"} : Reply(Goto(label))
    BY <1>10 DEF StashTarget, IsolateTarget, StashTemp, RmStashedTemp, RmTemp, RmUnusedTemp,
       PutTemp
  <2>2. pc # "stashLate"
    BY <1>10 DEF StashTarget, IsolateTarget, StashTemp, RmStashedTemp, RmTemp, RmUnusedTemp,
       PutTemp, Remotely
  <2>3. QED
    BY <2>1, <2>2, ReplyLeads, ElsewhereSeen DEF Moving
<1>11. CASE TornPut \/ Discard
  <2>1. pc' \in {"checkRestored"} \/ \E kind \in {"transport", "error", "interrupt"} : Raise(kind)
    BY <1>11 DEF TornPut, Discard, Reply, Goto
  <2>2. pc # "stashLate"
    BY <1>11 DEF TornPut, Discard, Remotely
  <2>3. QED
    BY <2>1, <2>2, RaiseLeadsBack, ElsewhereSeen DEF Moving
<1>12. CASE ReadBase \/ SkipUnchanged \/ Snapshot \/ Promote \/ Chmod \/ VerifyPasses
            \/ VerifyFails \/ Teardown
  BY <1>12, ElsewhereSeen DEF ReadBase, SkipUnchanged, Snapshot, Promote, Chmod, VerifyPasses,
     VerifyFails, Teardown, NextUpload, StartRollback, Goto, Finish, Moving, Remotely
<1>13. CASE RollbackMutation \/ JournalDone \/ Recover \/ GiveUp \/ DropTemp \/ RmStash
            \/ CheckRemoved \/ Reconcile \/ PromoteBackup
  BY <1>13, ElsewhereSeen DEF RollbackMutation, JournalDone, Recover, GiveUp, DropTemp, RmStash,
     CheckRemoved, Reconcile, PromoteBackup, NextMutation, NextAttempt, Conflict, Goto, Iterate,
     Enter, Finish, Moving
<1>14. CASE CheckRestored
  <2>1. caller \notin Moving
    BY DEF SeenInv, TypeInv, StateOK, ControlOK, Moving
  <2>2. QED
    BY <1>14, <2>1, ElsewhereSeen DEF CheckRestored, NextMutation, Goto, Moving
<1>15. CASE Crash
  BY <1>15, ElsewhereSeen DEF Crash, Finish, Moving
<1>16. CASE UNCHANGED vars
  BY <1>0, <1>16 DEF vars, files, mutations, control, history, Seen, Now, Installed
<1>17. QED
  BY <1>1, <1>2, <1>3, <1>4, <1>5, <1>6, <1>7, <1>8, <1>9, <1>10, <1>11, <1>12, <1>13, <1>14,
     <1>15, <1>16 DEF Next, Installer, Upload, Rollback, Terminated

\* What is live and not the owner's latest content is the snapshot or what this run
\* installs; and a backup that is promoted is the snapshot.
Known ==
  /\ \A t \in Targets : live[t] \in {Absent, original[t], Installed(t), owner[t]}
  /\ pc = "read" => live = owner
  /\ pc \in {"stashLate", "promoteBackup"} => backup[Now] = original[Now]

\* Steps that leave the files of the site, the snapshots and the owner alone.
LEMMA KnownElsewhere ==
  ASSUME Known, UNCHANGED <<live, original, base, owner>>, pc' # "read",
         pc' \notin {"stashLate", "promoteBackup"}
  PROVE  Known'
  BY DEF Known, Installed

LEMMA KnownStep ==
  ASSUME SeenInv, Known, [Next]_vars
  PROVE  Known'
<1>0. /\ Now \in Targets
      /\ live \in [Targets -> SitePages] /\ owner \in [Targets -> SitePages]
      /\ base \in [Targets -> SitePages] /\ original \in [Targets -> SitePages]
      /\ backup \in [Targets -> SitePages]
  BY PlanIsTargets DEF SeenInv, TypeInv, StateOK, ControlOK, FilesOK, MutationsOK, HistoryOK, Now
<1>1. CASE ReadBase
  <2>1. /\ base' = Set(base, live[Now]) /\ UNCHANGED <<live, owner, original>>
        /\ live = owner
        /\ pc' \notin {"stashLate", "promoteBackup"}
    BY <1>1 DEF ReadBase, Remotely, files, Known
  <2>2. QED
    BY <2>1 DEF Known
<1>2. CASE Snapshot
  <2>1. /\ original' = Set(original, live[Now]) /\ UNCHANGED <<live, owner, base>>
        /\ pc' = "put"
    BY <1>2 DEF Snapshot, Goto, files
  <2>2. \A t \in Targets : original'[t] = IF t = Now THEN live[t] ELSE original[t]
    BY <1>0, <2>1 DEF Set
  <2>3. QED
    BY <2>1, <2>2 DEF Known, Installed
<1>3. CASE MoveAside \/ StashTarget \/ IsolateTarget \/ StashLate
  <2>1. /\ live' \in {live, Set(live, Absent)}
        /\ UNCHANGED <<original, base, owner>>
        /\ pc' # "read"
        /\ pc' \in {"stashLate", "promoteBackup"} =>
             pc = "stashLate" /\ UNCHANGED <<cur, backup>>
    <3>1. CASE MoveAside \/ StashLate
      BY <3>1 DEF MoveAside, StashLate, Remotely, StartRollback, Goto, mutations, history
    <3>2. CASE StashTarget \/ IsolateTarget
      <4>1. pc # "stashLate"
        BY <3>2 DEF StashTarget, IsolateTarget, Remotely
      <4>2. PICK label \in {"removeTarget", "isolate"} : Reply(Goto(label))
        BY <3>2 DEF StashTarget, IsolateTarget
      <4>3. UNCHANGED owner
        BY <4>2 DEF Reply, CountFault, history
      <4>4. QED
        BY <3>2, <4>1, <4>2, <4>3, ReplyLeads DEF StashTarget, IsolateTarget, mutations, Moving, Forward
    <3>3. QED
      BY <1>3, <3>1, <3>2
  <2>2. \A t \in Targets : live'[t] \in {live[t], Absent}
    BY <1>0, <2>1 DEF Set
  <2>3. \A t \in Targets : live'[t] \in {Absent, original[t], Installed(t), owner[t]}
    BY <2>2 DEF Known
  <2>4. QED
    BY <2>1, <2>3 DEF Known, Installed, Now
<1>4. CASE Promote
  <2>1. /\ live' \in {live, Set(live, temp[Now])}
        /\ UNCHANGED <<original, base, owner>>
        /\ pc' \in {"chmod", "dispatch"}
    BY <1>4 DEF Promote, StartRollback, Goto, mutations, history
  <2>2. temp[Now] = Installed(Now)
    BY <1>4 DEF Promote, Remotely, SeenInv, TypeInv, Staged
  <2>3. \A t \in Targets : live'[t] \in {live[t], Installed(t)}
    BY <1>0, <2>1, <2>2 DEF Set
  <2>4. \A t \in Targets : live'[t] \in {Absent, original[t], Installed(t), owner[t]}
    BY <2>3 DEF Known
  <2>5. QED
    BY <2>1, <2>4 DEF Known, Installed
<1>5. CASE PromoteBackup
  <2>1. /\ live' \in {live, Set(live, backup[Now])}
        /\ UNCHANGED <<original, base, owner>>
        /\ pc' \in {"rmUnusedTemp", "restoreBackup"}
        /\ backup[Now] = original[Now]
    BY <1>5 DEF PromoteBackup, Remotely, Goto, mutations, history, Known
  <2>2. \A t \in Targets : live'[t] \in {live[t], original[t]}
    BY <1>0, <2>1 DEF Set
  <2>3. \A t \in Targets : live'[t] \in {Absent, original[t], Installed(t), owner[t]}
    BY <2>2 DEF Known
  <2>4. QED
    BY <2>1, <2>3 DEF Known, Installed
<1>6. CASE RestoreBackup
  <2>1. /\ UNCHANGED <<live, backup, original, base, owner>>
        /\ \/ pc' \notin {"read", "stashLate", "promoteBackup"}
           \/ pc' = "stashLate" /\ cur' = cur /\ backup[Now] = original[Now]
    BY <1>6 DEF RestoreBackup, Cleanup, Conflict, NextMutation, Iterate, files, mutations
  <2>2. QED
    BY <2>1 DEF Known, Installed, Now
<1>7. CASE Fault \/ DeadBatch
  <2>1. PICK kind \in {"transport", "error", "interrupt"} : Raise(kind)
    BY <1>7 DEF Fault, DeadBatch
  <2>2. UNCHANGED <<live, backup, original, base, owner>>
    BY <1>7 DEF Fault, DeadBatch, CountFault, files, mutations, history
  <2>3. /\ pc' # "read"
        /\ \/ pc' \notin Moving
           \/ pc = "stashLate" /\ pc' = "promoteBackup" /\ cur' = cur
    BY <2>1, RaiseLeadsBack DEF Forward
  <2>4. QED
    BY <2>2, <2>3 DEF Known, Installed, Now, Moving
<1>8. CASE LoseMaster
  BY <1>8 DEF LoseMaster, CountFault, files, mutations, Known, Now, Installed
<1>9. CASE OwnerEdit
  <2>1. PICK x \in Targets :
          \E page : /\ live' = [live EXCEPT ![x] = page]
                   /\ owner' = [owner EXCEPT ![x] = page]
    BY <1>9 DEF OwnerEdit
  <2>2. UNCHANGED <<pc, cur, backup, base, original>>
    BY <1>9 DEF OwnerEdit, control, mutations
  <2>3. \A t \in Targets :
          live'[t] = owner'[t] \/ (live'[t] = live[t] /\ owner'[t] = owner[t])
    BY <1>0, <2>1
  <2>4. \A t \in Targets : live'[t] \in {Absent, original[t], Installed(t), owner'[t]}
    BY <2>3 DEF Known
  <2>5. live = owner => live' = owner'
    BY <2>1
  <2>6. QED
    BY <2>2, <2>4, <2>5 DEF Known, Installed, Now
<1>10. CASE StashTemp \/ RmStashedTemp \/ RmTemp \/ RmUnusedTemp \/ PutTemp
  <2>1. PICK label \in {"dropTemp", "checkRemoved", "restoreBackup", "precheck"} :
          Reply(Goto(label))
    BY <1>10 DEF StashTemp, RmStashedTemp, RmTemp, RmUnusedTemp, PutTemp
  <2>2. pc # "stashLate"
    BY <1>10 DEF StashTemp, RmStashedTemp, RmTemp, RmUnusedTemp, PutTemp, Remotely
  <2>3. UNCHANGED owner
    BY <2>1 DEF Reply, CountFault, history
  <2>4. UNCHANGED <<live, original, base>>
    BY <1>10 DEF StashTemp, RmStashedTemp, RmTemp, RmUnusedTemp, PutTemp, mutations
  <2>5. pc' \notin {"read", "stashLate", "promoteBackup"}
    BY <2>1, <2>2, ReplyLeads DEF Moving, Forward
  <2>6. QED
    BY <2>3, <2>4, <2>5, KnownElsewhere
<1>11. CASE TornPut \/ Discard
  <2>1. pc' \in {"checkRestored"} \/ \E kind \in {"transport", "error", "interrupt"} : Raise(kind)
    BY <1>11 DEF TornPut, Discard, Reply, Goto
  <2>2. pc # "stashLate"
    BY <1>11 DEF TornPut, Discard, Remotely
  <2>3. UNCHANGED <<live, original, base, owner>>
    BY <1>11 DEF TornPut, Discard, Reply, CountFault, mutations, history
  <2>4. pc' \notin {"read", "stashLate", "promoteBackup"}
    BY <2>1, <2>2, RaiseLeadsBack DEF Moving, Forward
  <2>5. QED
    BY <2>3, <2>4, KnownElsewhere
<1>12. CASE SkipUnchanged \/ Precheck \/ Chmod \/ VerifyPasses \/ VerifyFails \/ Teardown \/ Crash
  BY <1>12, KnownElsewhere DEF SkipUnchanged, Precheck, Chmod, VerifyPasses, VerifyFails, Teardown,
     Crash, NextUpload, StartRollback, Goto, Finish, CountFault, files, mutations, history
<1>13. CASE RollbackMutation \/ JournalDone \/ Recover \/ GiveUp \/ DropTemp \/ RemoveTarget
            \/ RmStash \/ CheckRemoved \/ Reconcile \/ Isolate
  BY <1>13, KnownElsewhere DEF RollbackMutation, JournalDone, Recover, GiveUp, DropTemp,
     RemoveTarget, RmStash, CheckRemoved, Reconcile, Isolate, Cleanup, NextMutation, NextAttempt,
     Conflict, Goto, Iterate, Enter, Finish, CountFault, files, mutations, history
<1>14. CASE CheckRestored
  <2>1. caller \notin {"read", "stashLate", "promoteBackup"}
    BY DEF SeenInv, TypeInv, StateOK, ControlOK
  <2>2. QED
    BY <1>14, <2>1, KnownElsewhere DEF CheckRestored, NextMutation, Goto, files, mutations
<1>15. CASE UNCHANGED vars
  BY <1>15 DEF vars, files, mutations, control, history, Known, Now, Installed
<1>16. QED
  BY <1>1, <1>2, <1>3, <1>4, <1>5, <1>6, <1>7, <1>8, <1>9, <1>10, <1>11, <1>12, <1>13, <1>14,
     <1>15 DEF Next, Installer, Upload, Rollback, Terminated

LEMMA LeftAloneStep ==
  ASSUME SeenInv, Known, [Next]_vars, NEW t \in Targets,
         live'[t] # live[t], owner' = owner,
         live[t] \notin {Absent, original[t], Installed(t)}
  PROVE  unseen[t]
<1>0. /\ Seen /\ Now \in Targets
      /\ live \in [Targets -> SitePages]
  BY PlanIsTargets DEF SeenInv, TypeInv, StateOK, ControlOK, FilesOK, Now
<1>1. CASE MoveAside \/ Promote \/ StashTarget \/ IsolateTarget \/ StashLate \/ PromoteBackup
  <2>1. pc \in Moving /\ \E page : live' = Set(live, page)
    BY <1>0, <1>1 DEF MoveAside, Promote, StashTarget, IsolateTarget, StashLate, PromoteBackup,
       Remotely, Moving
  <2>2. t = Now
    BY <1>0, <2>1 DEF Set
  <2>3. QED
    BY <1>0, <2>1, <2>2 DEF Seen, Moving
<1>2. CASE OwnerEdit
  <2>1. PICK x \in Targets :
          \E page : /\ live' = [live EXCEPT ![x] = page]
                   /\ owner' = [owner EXCEPT ![x] = page]
                   /\ page # live[x]
    BY <1>2 DEF OwnerEdit
  <2>2. x = t
    BY <1>0, <2>1
  <2>3. owner[t] = live'[t] /\ live'[t] # live[t]
    BY <2>1, <2>2 DEF SeenInv, TypeInv, StateOK, HistoryOK
  <2>4. live[t] = owner[t]
    BY DEF Known
  <2>5. QED
    BY <2>1, <2>2, <2>3, <2>4
<1>3. CASE live' = live
  BY <1>3
<1>4. QED
  BY <1>1, <1>2, <1>3 DEF Next, Installer, Upload, Rollback, Terminated, vars, files, ReadBase,
     SkipUnchanged, Snapshot, PutTemp, TornPut, Precheck, Chmod, VerifyPasses, VerifyFails,
     Teardown, RollbackMutation, JournalDone, Recover, GiveUp, DropTemp, StashTemp,
     RmStashedTemp, RemoveTarget, RmStash, RmTemp, CheckRemoved, Reconcile, Isolate,
     RestoreBackup, RmUnusedTemp, Discard, CheckRestored, Fault, LoseMaster, DeadBatch, Crash

LEMMA SeenInitially == Init => SeenInv /\ Known
  BY TypesInitially DEF Init, SeenInv, Seen, Known

\* Upload and rollback leave a target alone that was seen to hold foreign content:
\* only an edit since the installer's last look can be moved, for every interleaving
\* of edits, faults and crashes, and with either kind of rename (_upload_verified and
\* _rollback_mutation of front.py).
THEOREM ForeignIsLeftAlone == Spec => ForeignTargetLeftAlone
<1> DEFINE LeftAlone ==
      \A t \in Targets :
        /\ live'[t] # live[t]
        /\ owner' = owner
        /\ live[t] \notin {Absent, original[t], Installed(t)}
        => unseen[t]
<1>1. SeenInv /\ Known /\ [Next]_vars => SeenInv' /\ Known'
  BY TypesPreserved, SeenStep, KnownStep DEF SeenInv
<1>2. SeenInv /\ Known /\ [Next]_vars => [LeftAlone]_vars
  BY LeftAloneStep
<1>3. QED
  BY SeenInitially, <1>1, <1>2, StepIsNext, PTL DEF Spec, ForeignTargetLeftAlone

-------------------------------------------------------------------------------
\* Success is reported of whole transactions only.

\* What a target is once its upload is over.
Uploaded(t) ==
  /\ Changed(t) => t \in switched /\ live[t] \in {Installed(t), owner[t]}
  /\ temp[t] = Absent

\* Before any rollback the files before the current one are uploaded, those after it
\* untouched, and a switched file has its backup.
Progress ==
  /\ \A t \in Targets :
       /\ quarantine[t] = Absent /\ late[t] = Absent
       /\ t \in switched /\ original[t] # Absent =>
            backup[t] # Absent \/ (t = Now /\ pc = "moveAside")
       /\ temp[t] # Absent => t = Now /\ pc \in {"precheck", "moveAside", "promote"}
  /\ \A i \in 1..Len(Plan) :
       /\ i < cur /\ pc # "read" => Uploaded(Plan[i])
       /\ pc \in Verifying => Uploaded(Plan[i])
       /\ i > cur /\ pc \notin Verifying => Plan[i] \notin switched
  /\ pc \in {"read", "snapshot", "put", "precheck"} => Now \notin switched
  /\ pc = "read" => switched = {}
  /\ pc \in {"moveAside", "promote", "chmod"} => Now \in switched
  /\ pc = "chmod" => live[Now] \in {Installed(Now), owner[Now]}

Whole ==
  /\ pc \in Forward => Progress
  /\ outcome = "committed" => pc = "done" /\ CommittedIsWhole

WholeInv == TypeInv /\ Whole

\* Each target has one place in the plan.
LEMMA PlanOnce ==
  /\ \A i, j \in 1..Len(Plan) : Plan[i] = Plan[j] => i = j
  /\ \A t \in Targets : \E i \in 1..Len(Plan) : Plan[i] = t
<1>1. CASE PlaceholderMode = "neutral"
  BY <1>1 DEF Plan, Targets
<1>2. CASE PlaceholderMode # "neutral"
  BY <1>2 DEF Plan, Targets
<1>3. QED
  BY <1>1, <1>2

LEMMA WholeInitially == Init => WholeInv
<1> SUFFICES ASSUME Init PROVE WholeInv
  OBVIOUS
<1>1. \A i \in 1..Len(Plan) : ~(i > cur)
  BY PlanLength DEF Init
<1>2. Whole
  BY <1>1 DEF Init, Whole, Progress, Verifying
<1>3. QED
  BY <1>2, TypesInitially DEF WholeInv

\* Steps that lead to the rollback, within it, or out of the transaction.
LEMMA WholeElsewhere ==
  ASSUME Whole, pc # "done", pc' \notin Forward,
         outcome' \in {outcome, "untouched", "unreported", "restored", "incomplete", "crashed"}
  PROVE  Whole'
  BY DEF Whole

\* The upload of the current file is over.
LEMMA NextUploadProgress ==
  ASSUME TypeInv, Progress, pc \in {"snapshot", "chmod"}, Uploaded(Now), NextUpload,
         UNCHANGED <<files, mutations, history>>
  PROVE  Progress'
<1>0. /\ cur \in 1..Len(Plan) /\ Len(Plan) \in {1, 2}
      /\ \A t \in Targets : Uploaded(t)' = Uploaded(t)
      /\ pc \notin Verifying
  BY PlanLength DEF TypeInv, StateOK, ControlOK, Uploaded, Changed, Installed, files, mutations,
     history, Verifying
<1>1. \A t \in Targets :
        /\ quarantine[t] = Absent /\ late[t] = Absent /\ temp[t] = Absent
        /\ t \in switched /\ original[t] # Absent => backup[t] # Absent
  BY DEF Progress
<1>2. \A i \in 1..Len(Plan) : i <= cur => Uploaded(Plan[i])'
  BY <1>0, PlanIsTargets DEF Progress, Now
<1>3. \A i \in 1..Len(Plan) : i > cur => Plan[i] \notin switched
  BY <1>0 DEF Progress
<1>4. CASE cur = Len(Plan)
  <2>1. pc' = "verify" /\ cur' = cur
    BY <1>4 DEF NextUpload
  <2>2. QED
    BY <1>0, <1>1, <1>2, <1>4, <2>1 DEF Progress, Verifying, files, mutations
<1>5. CASE cur # Len(Plan)
  <2>1. pc' = "snapshot" /\ cur' = cur + 1
    BY <1>5 DEF NextUpload
  <2>2. cur + 1 \in 1..Len(Plan) /\ Plan[cur + 1] \notin switched
    BY <1>0, <1>3, <1>5
  <2>3. \A i \in 1..Len(Plan) : i < cur + 1 => Uploaded(Plan[i])'
    BY <1>0, <1>2
  <2>4. \A i \in 1..Len(Plan) : i > cur + 1 => Plan[i] \notin switched
    BY <1>0, <1>3
  <2>5. QED
    BY <1>1, <2>1, <2>2, <2>3, <2>4 DEF Progress, Verifying, files, mutations, Now
<1>6. QED
  BY <1>4, <1>5

LEMMA WholeStep ==
  ASSUME WholeInv, [Next]_vars
  PROVE  Whole'
<1>0. /\ TypeInv /\ Whole
      /\ Now \in Targets /\ cur \in 1..Len(Plan)
      /\ pc \in Forward => Progress
      /\ pc # "done" => outcome # "committed"
  BY PlanIsTargets DEF WholeInv, TypeInv, StateOK, ControlOK, Now, Whole
<1>t. /\ live \in [Targets -> SitePages] /\ temp \in [Targets -> Contents]
      /\ backup \in [Targets -> SitePages] /\ original \in [Targets -> SitePages]
      /\ base \in [Targets -> SitePages] /\ owner \in [Targets -> SitePages]
      /\ switched \subseteq Targets
  BY <1>0 DEF TypeInv, StateOK, FilesOK, MutationsOK, HistoryOK
<1>1. CASE ReadBase
  <2>1. /\ pc = "read" /\ pc' \in {"read", "snapshot"}
        /\ switched = {} /\ switched' = {}
        /\ UNCHANGED <<temp, quarantine, late, outcome>>
        /\ Progress
        /\ pc' = "snapshot" => cur' = cur /\ ~(cur > 1)
    BY <1>0, <1>1 DEF ReadBase, Remotely, Forward, Progress, files
  <2>2. \A i \in 1..Len(Plan) : pc' = "snapshot" => ~(i < cur')
    BY <1>0, <2>1
  <2>3. Progress'
    BY <2>1, <2>2 DEF Progress, Verifying
  <2>4. QED
    BY <1>0, <2>1, <2>3 DEF Whole
<1>2. CASE SkipUnchanged
  <2>1. pc = "snapshot" /\ Progress /\ NextUpload /\ ~Changed(Now)
        /\ UNCHANGED <<files, mutations, history>>
    BY <1>0, <1>2 DEF SkipUnchanged, Forward, Uploading
  <2>2. Uploaded(Now)
    BY <1>0, <2>1 DEF Uploaded, Progress
  <2>3. Progress'
    BY <1>0, <2>1, <2>2, NextUploadProgress
  <2>4. QED
    BY <1>0, <2>1, <2>3 DEF NextUpload, Whole
<1>3. CASE Chmod
  <2>1. CASE NextUpload
    <3>1. pc = "chmod" /\ Progress /\ UNCHANGED <<files, mutations, history>>
      BY <1>0, <1>3 DEF Chmod, Remotely, Forward, Uploading
    <3>2. Uploaded(Now)
      BY <1>0, <3>1 DEF Uploaded, Progress
    <3>3. Progress'
      BY <1>0, <2>1, <3>1, <3>2, NextUploadProgress
    <3>4. QED
      BY <1>0, <2>1, <3>1, <3>3 DEF NextUpload, Whole
  <2>2. CASE StartRollback
    BY <1>0, <1>3, <2>2, WholeElsewhere DEF Chmod, Remotely, StartRollback, Forward, Uploading,
       Verifying
  <2>3. QED
    BY <1>3, <2>1, <2>2 DEF Chmod
<1>4. CASE Snapshot
  <2>1. /\ pc = "snapshot" /\ pc' = "put" /\ Progress
        /\ original' = Set(original, live[Now])
        /\ UNCHANGED <<files, base, switched, owner, cur, outcome>>
    BY <1>0, <1>4 DEF Snapshot, Remotely, Goto, Forward, Uploading
  <2>2. \A t \in Targets : t \in switched => original'[t] = original[t]
    BY <1>0, <1>t, <2>1 DEF Set, Progress
  <2>3. Progress'
    BY <2>1, <2>2 DEF Progress, Uploaded, Changed, Installed, Verifying, Now, files
  <2>4. QED
    BY <1>0, <2>1, <2>3 DEF Whole
<1>5. CASE PutTemp
  <2>1. pc = "put" /\ temp' = Set(temp, Installed(Now)) /\ Reply(Goto("precheck"))
        /\ UNCHANGED <<live, backup, quarantine, late, mutations>>
    BY <1>5 DEF PutTemp, Remotely
  <2>2. CASE pc' = "precheck" /\ UNCHANGED <<cur, outcome>> /\ UNCHANGED history
    <3>1. Progress
      BY <1>0, <2>1 DEF Forward, Uploading
    <3>2. \A t \in Targets : t # Now => temp'[t] = temp[t]
      BY <1>t, <2>1 DEF Set
    <3>3. \A i \in 1..Len(Plan) : i < cur => Plan[i] # Now
      BY <1>0, PlanOnce DEF Now
    <3>4. Progress'
      BY <2>1, <2>2, <3>1, <3>2, <3>3, PlanIsTargets
      DEF Progress, Uploaded, Changed, Installed, Verifying, Now, mutations, history
    <3>5. QED
      BY <1>0, <2>1, <2>2, <3>4 DEF Whole
  <2>3. CASE pc' \notin Forward /\ outcome' \in {outcome, "untouched"}
    BY <1>0, <2>1, <2>3, WholeElsewhere
  <2>4. QED
    BY <2>1, <2>2, <2>3, ReplyLeads
<1>6. CASE Precheck
  <2>1. CASE live[Now] = original[Now]
    <3>1. /\ pc = "precheck" /\ Progress
          /\ pc' = IF original[Now] = Absent THEN "promote" ELSE "moveAside"
          /\ switched' = switched \cup {Now}
          /\ UNCHANGED <<files, base, original, owner, cur, outcome>>
      BY <1>0, <1>6, <2>1 DEF Precheck, Remotely, Goto, Forward, Uploading
    <3>2. \A i \in 1..Len(Plan) : i > cur => Plan[i] # Now
      BY <1>0, PlanOnce DEF Now
    <3>3. Progress'
      BY <3>1, <3>2 DEF Progress, Uploaded, Changed, Installed, Verifying, Now, files
    <3>4. QED
      BY <1>0, <3>1, <3>3 DEF Whole
  <2>2. CASE live[Now] # original[Now]
    BY <1>0, <1>6, <2>2, WholeElsewhere DEF Precheck, Remotely, StartRollback, Forward, Uploading,
       Verifying
  <2>3. QED
    BY <2>1, <2>2
<1>7. CASE MoveAside
  <2>1. CASE CanRename(live, backup)
    <3>1. /\ pc = "moveAside" /\ pc' = "promote" /\ Progress
          /\ backup' = Set(backup, live[Now]) /\ live[Now] # Absent
          /\ live' = Set(live, Absent)
          /\ UNCHANGED <<temp, quarantine, late, mutations, history, cur, outcome>>
      BY <1>0, <1>7, <2>1 DEF MoveAside, CanRename, Remotely, Goto, Forward, Uploading
    <3>2. /\ backup'[Now] # Absent
          /\ \A t \in Targets : t # Now => backup'[t] = backup[t] /\ live'[t] = live[t]
      BY <1>0, <1>t, <3>1 DEF Set
    <3>3. \A i \in 1..Len(Plan) : i < cur => Plan[i] # Now
      BY <1>0, PlanOnce DEF Now
    <3>4. Progress'
      BY <3>1, <3>2, <3>3, PlanIsTargets DEF Progress, Uploaded, Changed, Installed, Verifying,
         Now, mutations, history
    <3>5. QED
      BY <1>0, <3>1, <3>4 DEF Whole
  <2>2. CASE ~CanRename(live, backup)
    BY <1>0, <1>7, <2>2, WholeElsewhere DEF MoveAside, Remotely, StartRollback, Forward,
       Uploading, Verifying
  <2>3. QED
    BY <2>1, <2>2
<1>8. CASE Promote
  <2>1. CASE CanRename(temp, live)
    <3>1. /\ pc = "promote" /\ pc' = "chmod" /\ Progress
          /\ temp[Now] = Installed(Now)
          /\ live' = Set(live, temp[Now]) /\ temp' = Set(temp, Absent)
          /\ UNCHANGED <<backup, quarantine, late, mutations, history, cur, outcome>>
      BY <1>0, <1>8, <2>1 DEF Promote, Remotely, Goto, Forward, Uploading, TypeInv, Staged
    <3>2. /\ live'[Now] = Installed(Now) /\ temp'[Now] = Absent
          /\ \A t \in Targets : t # Now => temp'[t] = temp[t] /\ live'[t] = live[t]
      BY <1>0, <1>t, <3>1 DEF Set
    <3>3. \A i \in 1..Len(Plan) : i < cur => Plan[i] # Now
      BY <1>0, PlanOnce DEF Now
    <3>4. Progress'
      BY <3>1, <3>2, <3>3, PlanIsTargets DEF Progress, Uploaded, Changed, Installed, Verifying,
         Now, mutations, history
    <3>5. QED
      BY <1>0, <3>1, <3>4 DEF Whole
  <2>2. CASE ~CanRename(temp, live)
    BY <1>0, <1>8, <2>2, WholeElsewhere DEF Promote, Remotely, StartRollback, Forward,
       Uploading, Verifying
  <2>3. QED
    BY <2>1, <2>2
<1>9. CASE VerifyPasses
  <2>1. /\ pc = "verify" /\ pc' = "teardown" /\ Progress
        /\ UNCHANGED <<files, mutations, history, cur, outcome>>
    BY <1>0, <1>9 DEF VerifyPasses, Goto, Forward, Verifying
  <2>2. Progress'
    BY <2>1 DEF Progress, Uploaded, Changed, Installed, Verifying, Now, files, mutations, history
  <2>3. QED
    BY <1>0, <2>1, <2>2 DEF Whole
<1>10. CASE Teardown
  <2>1. /\ pc = "teardown" /\ pc' = "done" /\ Progress
        /\ UNCHANGED <<files, mutations, owner>>
        /\ outcome' \in {"committed", "unreported"}
    BY <1>0, <1>10 DEF Teardown, Finish, CountFault, Forward, Verifying, history
  <2>2. \A t \in Targets : Uploaded(t)
    BY <2>1, PlanOnce DEF Progress, Verifying
  <2>3. \A t \in Targets :
          /\ Changed(t) => t \in switched /\ live[t] \in {Installed(t), owner[t]}
          /\ temp[t] = Absent /\ quarantine[t] = Absent /\ late[t] = Absent
          /\ t \in switched /\ original[t] # Absent => backup[t] # Absent
    BY <2>1, <2>2 DEF Progress, Uploaded
  <2>4. CommittedIsWhole'
    BY <2>1, <2>3 DEF CommittedIsWhole, Changed, Installed, files, mutations
  <2>5. QED
    BY <2>1, <2>4 DEF Whole, Forward, Uploading, Verifying
<1>11. CASE LoseMaster
  <2>1. UNCHANGED <<pc, cur, outcome, files, mutations, owner>>
    BY <1>11 DEF LoseMaster, CountFault
  <2>2. QED
    BY <1>0, <2>1 DEF Whole, Progress, Uploaded, Changed, Installed, CommittedIsWhole, Now, files,
       mutations
<1>12. CASE OwnerEdit
  <2>1. /\ pc # "done" /\ UNCHANGED <<pc, cur, outcome, temp, backup, quarantine, late, mutations>>
        /\ \E x \in Targets, page \in OwnerPages("htaccess") \cup OwnerPages("index") \cup {Absent} :
             live' = [live EXCEPT ![x] = page] /\ owner' = [owner EXCEPT ![x] = page]
    BY <1>12 DEF OwnerEdit, control, Targets
  <2>2. \A t \in Targets : live'[t] = owner'[t] \/ (live'[t] = live[t] /\ owner'[t] = owner[t])
    BY <1>t, <2>1
  <2>3. \A t \in Targets : Uploaded(t) => Uploaded(t)'
    BY <2>1, <2>2 DEF Uploaded, Changed, Installed, mutations
  <2>4. pc \in Forward => Progress'
    BY <1>0, <2>1, <2>2, <2>3, PlanIsTargets DEF Progress, Now, Installed, mutations, Verifying
  <2>5. QED
    BY <1>0, <2>1, <2>4 DEF Whole
<1>13. CASE Fault \/ DeadBatch \/ TornPut
  <2>1. PICK kind \in {"transport", "error", "interrupt"} : Raise(kind)
    BY <1>13 DEF Fault, DeadBatch, TornPut
  <2>2. pc # "done"
    BY <1>13 DEF Fault, DeadBatch, TornPut, AtBatch, Remotely, RemoteLabels, UploadLabels,
       RollbackLabels, LookLabels, RetriedLabels, AfterRefusal
  <2>3. QED
    BY <1>0, <2>1, <2>2, RaiseLeadsBack, WholeElsewhere
<1>14. CASE StashTarget \/ IsolateTarget \/ StashTemp \/ RmStashedTemp \/ RmTemp \/ RmUnusedTemp
  <2>1. PICK label \in {"removeTarget", "isolate", "dropTemp", "checkRemoved", "restoreBackup"} :
          Reply(Goto(label))
    BY <1>14 DEF StashTarget, IsolateTarget, StashTemp, RmStashedTemp, RmTemp, RmUnusedTemp
  <2>2. pc # "done"
    BY <1>14 DEF StashTarget, IsolateTarget, StashTemp, RmStashedTemp, RmTemp, RmUnusedTemp,
       Remotely
  <2>3. pc' \notin Forward /\ outcome' \in {outcome, "untouched"}
    BY <2>1, ReplyLeads DEF Forward, Uploading, Verifying
  <2>4. QED
    BY <1>0, <2>2, <2>3, WholeElsewhere
<1>15. CASE Discard
  <2>1. \/ Goto("checkRestored") \/ Reply(Goto("checkRestored"))
        \/ \E kind \in {"transport", "error", "interrupt"} : Raise(kind)
    BY <1>15 DEF Discard
  <2>2. pc # "done"
    BY <1>15 DEF Discard, Remotely
  <2>3. Goto("checkRestored") =>
          pc' \notin Forward /\ outcome' \in {outcome, "untouched"}
    BY DEF Goto, Forward, Uploading, Verifying
  <2>4. Reply(Goto("checkRestored")) =>
          pc' \notin Forward /\ outcome' \in {outcome, "untouched"}
    BY ReplyLeads DEF Forward, Uploading, Verifying
  <2>5. pc' \notin Forward /\ outcome' \in {outcome, "untouched"}
    BY <2>1, <2>3, <2>4, RaiseLeadsBack
  <2>6. QED
    BY <1>0, <2>2, <2>5, WholeElsewhere
<1>16. CASE VerifyFails \/ RollbackMutation \/ JournalDone \/ Recover \/ DropTemp \/ RemoveTarget
            \/ RmStash \/ CheckRemoved \/ Reconcile
  BY <1>0, <1>16, WholeElsewhere DEF VerifyFails, RollbackMutation, JournalDone, Recover,
     DropTemp, RemoveTarget, RmStash, CheckRemoved, Reconcile, StartRollback, NextMutation,
     Conflict, Goto, Iterate, Enter, Finish, Remotely, Forward, Uploading, Verifying
<1>17. CASE GiveUp \/ Isolate \/ RestoreBackup \/ StashLate \/ PromoteBackup \/ Crash
  BY <1>0, <1>17, WholeElsewhere DEF GiveUp, Isolate, RestoreBackup, StashLate, PromoteBackup,
     Crash, Exhausted, Cleanup, NextMutation, NextAttempt, Conflict, Goto, Iterate, Enter, Finish,
     Remotely, Forward, Uploading, Verifying
<1>18. CASE CheckRestored
  <2>1. caller \notin Forward
    BY <1>0 DEF TypeInv, StateOK, ControlOK, Forward, Uploading, Verifying
  <2>2. QED
    BY <1>0, <1>18, <2>1, WholeElsewhere DEF CheckRestored, NextMutation, Goto, Remotely, Forward,
       Uploading, Verifying
<1>19. CASE UNCHANGED vars
  BY <1>0, <1>19 DEF vars, files, mutations, control, history, Whole, Progress, Uploaded, Changed,
     Installed, CommittedIsWhole, Now
<1>20. QED
  BY <1>1, <1>2, <1>3, <1>4, <1>5, <1>6, <1>7, <1>8, <1>9, <1>10, <1>11, <1>12, <1>13, <1>14,
     <1>15, <1>16, <1>17, <1>18, <1>19 DEF Next, Installer, Upload, Rollback, Terminated

\* Success is never reported of a transaction of which one file was not switched, or
\* without the backup of a file that was, for every interleaving of edits and faults
\* (_apply_front_sftp_transaction of front.py).
THEOREM CommitsAreWhole == Spec => []CommittedIsWhole
<1>1. WholeInv /\ [Next]_vars => WholeInv'
  BY TypesPreserved, WholeStep DEF WholeInv
<1>2. WholeInv => CommittedIsWhole
  BY DEF WholeInv, Whole, CommittedIsWhole
<1>3. QED
  BY WholeInitially, <1>1, <1>2, StepIsNext, PTL DEF Spec

-------------------------------------------------------------------------------
\* What one step does to the targets it does not work on, and where every command
\* finds the files of the one it works on.

\* The labels of a rollback of a file that was not switched, and of one that did not
\* exist.
DropLabels == {"dropTemp", "stashTemp", "rmStashedTemp"}
RemoveLabels == {"removeTarget", "stashTarget", "rmStash", "rmTemp", "checkRemoved"}

\* The owner's hand, if it was his: one target changes, to what is not this run's.
Edited ==
  /\ UNCHANGED <<temp, backup, quarantine, late, stray, mutations, control, named, faults, disturbed>>
  /\ edits' = edits + 1
  /\ \A t \in Targets :
       /\ live'[t] = owner'[t] \/ (live'[t] = live[t] /\ owner'[t] = owner[t])
       /\ Changed(t) /\ owner'[t] # owner[t] => owner'[t] # Installed(t)

LEMMA EditIsEdited ==
  ASSUME TypeInv, OwnerEdit
  PROVE  Edited
<1>1. PICK x \in Targets, page \in SitePages :
        /\ Changed(x) => page # Installed(x)
        /\ live' = [live EXCEPT ![x] = page]
        /\ owner' = [owner EXCEPT ![x] = page]
  BY DEF OwnerEdit, OwnerPages, SitePages, Pages
<1>2. \A t \in Targets :
        /\ live'[t] = owner'[t] \/ (live'[t] = live[t] /\ owner'[t] = owner[t])
        /\ Changed(t) /\ owner'[t] # owner[t] => owner'[t] # Installed(t)
  BY <1>1 DEF TypeInv, StateOK, FilesOK, HistoryOK
<1>3. QED
  BY <1>2 DEF OwnerEdit, Edited

\* Nobody but the owner edits.
LEMMA OthersEditNothing ==
  ASSUME [Next]_vars, ~OwnerEdit
  PROVE  UNCHANGED <<owner, edits>>
  BY DEF Next, Installer, Upload, Rollback, Terminated, vars, history, ReadBase, SkipUnchanged,
     Snapshot, PutTemp, TornPut, Precheck, MoveAside, Promote, Chmod, VerifyPasses, VerifyFails,
     Teardown, RollbackMutation, JournalDone, Recover, GiveUp, DropTemp, StashTemp, RmStashedTemp,
     RemoveTarget, StashTarget, RmStash, RmTemp, CheckRemoved, Reconcile, Isolate, IsolateTarget,
     RestoreBackup, StashLate, PromoteBackup, RmUnusedTemp, Discard, CheckRestored, Fault,
     LoseMaster, DeadBatch, Crash, Reply, CountFault

\* What is not the current target's stays, but for the owner.
LEMMA OthersAlone ==
  ASSUME TypeInv, [Next]_vars, ~OwnerEdit, NEW t \in Targets, t # Now
  PROVE  /\ live'[t] = live[t] /\ temp'[t] = temp[t] /\ backup'[t] = backup[t]
         /\ quarantine'[t] = quarantine[t] /\ late'[t] = late[t] /\ stray'[t] = stray[t]
         /\ base'[t] = base[t] /\ original'[t] = original[t]
         /\ (t \in journal') = (t \in journal) /\ (t \in switched') = (t \in switched)
<1>0. /\ live \in [Targets -> SitePages] /\ temp \in [Targets -> Contents]
      /\ backup \in [Targets -> SitePages] /\ quarantine \in [Targets -> SitePages]
      /\ late \in [Targets -> SitePages] /\ stray \in [Targets -> SUBSET SitePages]
      /\ base \in [Targets -> SitePages] /\ original \in [Targets -> SitePages]
  BY DEF TypeInv, StateOK, FilesOK, MutationsOK
<1> DEFINE SameFiles == UNCHANGED files
           SameMutations == UNCHANGED mutations
<1>1. CASE SameFiles /\ SameMutations
  BY <1>1 DEF files, mutations
<1>2. CASE ReadBase \/ Snapshot \/ Precheck
  <2>1. /\ SameFiles
        /\ base' \in {base, Set(base, live[Now])}
        /\ original' \in {original, Set(original, live[Now])}
        /\ journal' \in {journal, journal \cup {Now}}
        /\ switched' \in {switched, switched \cup {Now}}
    BY <1>2 DEF ReadBase, Snapshot, Precheck
  <2>2. QED
    BY <1>0, <2>1 DEF Set, files
<1>3. CASE PutTemp \/ TornPut \/ MoveAside \/ Promote
  BY <1>0, <1>3 DEF PutTemp, TornPut, MoveAside, Promote, Set, mutations
<1>4. CASE StashTemp \/ RmStashedTemp \/ StashTarget \/ RmStash \/ RmTemp
  BY <1>0, <1>4 DEF StashTemp, RmStashedTemp, StashTarget, RmStash, RmTemp, Set, mutations
<1>5. CASE IsolateTarget \/ StashLate \/ PromoteBackup \/ RmUnusedTemp
  BY <1>0, <1>5 DEF IsolateTarget, StashLate, PromoteBackup, RmUnusedTemp, Set, mutations
<1>6. CASE Discard
  BY <1>0, <1>6 DEF Discard, Set, mutations
<1>7. CASE RollbackMutation \/ Reconcile
  BY <1>0, <1>7 DEF RollbackMutation, Reconcile, FreshNames, Set, mutations
<1>8. (SameFiles /\ SameMutations) \/ ReadBase \/ Snapshot \/ Precheck \/ PutTemp \/ TornPut
        \/ MoveAside \/ Promote \/ StashTemp \/ RmStashedTemp \/ StashTarget \/ RmStash \/ RmTemp
        \/ IsolateTarget \/ StashLate \/ PromoteBackup \/ RmUnusedTemp \/ Discard
        \/ RollbackMutation \/ Reconcile
  BY DEF Next, Installer, Upload, Rollback, Terminated, vars, SkipUnchanged, Chmod, VerifyPasses,
     VerifyFails, Teardown, JournalDone, Recover, GiveUp, DropTemp, RemoveTarget, CheckRemoved,
     Isolate, RestoreBackup, CheckRestored, Fault, LoseMaster, DeadBatch, Crash
<1>9. QED
  BY <1>1, <1>2, <1>3, <1>4, <1>5, <1>6, <1>7, <1>8

\* Where the files of a target are: an upload that was cut short was not switched, what
\* was not switched is the owner's, and what never existed has no backup.
Placed(t) ==
  /\ Changed(t) => owner[t] # Installed(t)
  /\ t \in journal => Changed(t) /\ original[t] # Installed(t)
  /\ t \notin switched => live[t] = owner[t] /\ backup[t] = Absent /\ late[t] = Absent
  /\ t \notin journal => temp[t] = Absent /\ quarantine[t] = Absent /\ stray[t] = {}
  /\ original[t] = Absent => backup[t] = Absent
  /\ temp[t] \in {Absent, Installed(t), Torn}
  /\ temp[t] = Torn => t \notin switched

\* What each command of the transaction relies on: it moves nothing over anything it
\* knows of, and it removes only what is the installer's own or a copy.
Here ==
  /\ pc = "moveAside" => original[Now] # Absent /\ backup[Now] = Absent
  /\ pc \in DropLabels => Now \notin switched
  /\ pc \in RemoveLabels => Now \in switched /\ original[Now] = Absent /\ late[Now] = Absent
  /\ pc \in RestoreLabels \cup {"reconcile"} => Now \in switched /\ original[Now] # Absent
  /\ pc \in {"stashTemp", "stashTarget", "isolateTarget"} => quarantine[Now] = Absent
  /\ pc \in {"rmStash", "rmStashedTemp"} => quarantine[Now] = Installed(Now)
  /\ pc \in {"rmTemp", "checkRemoved"} => quarantine[Now] \in {Absent, Installed(Now)}
  /\ pc \in {"isolate", "isolateTarget", "stashLate", "discard", "checkRestored"} => late[Now] = Absent
  /\ pc = "discard" => (Preserved(Now) => owner[Now] \in {Absent, live[Now]} \cup stray[Now])

Shape ==
  /\ \A t \in Targets : Placed(t)
  /\ pc = "read" => journal = {}
  /\ Here

ShapeInv == WholeInv /\ Seen /\ Known /\ Shape

\* The labels at which the files of the current target are known.
Positioned == {"moveAside", "reconcile"} \cup DropLabels \cup RemoveLabels \cup RestoreLabels

LEMMA HereElsewhere ==
  ASSUME pc' \notin Positioned
  PROVE  Here'
  BY DEF Here, Positioned, DropLabels, RemoveLabels, RestoreLabels

\* An exception whose reply is lost leads out of the current target's rollback.
LEMMA LostReplyLeads ==
  ASSUME NEW kind \in {"transport", "interrupt"}, Raise(kind), pc # "read"
  PROVE  pc' \in {"dispatch", "journalDone"}
  BY DEF Raise, StartRollback, NextMutation

\* A command that was not executed leaves what the next one relies on.
LEMMA RaiseKeepsHere ==
  ASSUME Here, NEW kind \in {"transport", "error", "interrupt"}, Raise(kind),
         UNCHANGED <<files, mutations, owner>>
  PROVE  Here'
<1>1. CASE pc = "read" /\ Finish("untouched")
  BY <1>1, HereElsewhere DEF Finish, Positioned, DropLabels, RemoveLabels, RestoreLabels
<1>2. CASE StartRollback \/ NextMutation({kind})
  BY <1>2, HereElsewhere DEF StartRollback, NextMutation, Positioned, DropLabels, RemoveLabels,
     RestoreLabels
<1>3. CASE pc \in RetriedLabels /\ NextAttempt
  <2>1. pc' = "reconcile" /\ cur' = cur /\ pc \in RestoreLabels \cup {"reconcile"}
    BY <1>3 DEF NextAttempt, RetriedLabels, RestoreLabels
  <2>2. QED
    BY <2>1 DEF Here, DropLabels, RemoveLabels, RestoreLabels, Now, mutations
<1>4. CASE pc \in DOMAIN AfterRefusal /\ Goto(AfterRefusal[pc])
  <2>1. cur' = cur /\ pc' = AfterRefusal[pc]
    BY <1>4 DEF Goto
  <2>2. \/ pc \in {"stashTemp", "rmStashedTemp"} /\ pc' = "dropTemp"
        \/ pc = "stashTarget" /\ pc' = "removeTarget"
        \/ pc \in {"rmStash", "rmTemp"} /\ pc' = "checkRemoved"
        \/ pc = "isolateTarget" /\ pc' = "isolate"
        \/ pc = "discard" /\ pc' = "checkRestored"
        \/ pc = "stashLate" /\ pc' = "promoteBackup"
        \/ pc \in {"promoteBackup", "rmUnusedTemp"} /\ pc' = "restoreBackup"
    BY <1>4, <2>1 DEF AfterRefusal
  <2>3. QED
    BY <2>1, <2>2 DEF Here, DropLabels, RemoveLabels, RestoreLabels, Now, mutations, files, Installed
<1>5. QED
  BY <1>1, <1>2, <1>3, <1>4 DEF Raise

LEMMA PlacedElsewhere ==
  ASSUME TypeInv, [Next]_vars, ~OwnerEdit, NEW t \in Targets, t # Now, Placed(t)
  PROVE  Placed(t)'
<1>1. owner' = owner
  BY OthersEditNothing
<1>2. QED
  BY <1>1, OthersAlone DEF Placed, Changed, Installed

LEMMA ShapeInitially == Init => Shape
<1> SUFFICES ASSUME Init PROVE Shape
  OBVIOUS
<1>1. \A t \in Targets : Placed(t)
  BY DEF Init, Placed, Changed
<1>2. Here
  BY DEF Init, Here, DropLabels, RemoveLabels, RestoreLabels
<1>3. QED
  BY <1>1, <1>2 DEF Init, Shape

\* A command that leaves files and mutations alone.
LEMMA PlacedQuietly ==
  ASSUME NEW t \in Targets, Placed(t), UNCHANGED <<files, mutations, owner>>
  PROVE  Placed(t)'
  BY DEF Placed, Changed, Installed, files, mutations

\* The current target's place in its files.
LEMMA SetNow ==
  ASSUME TypeInv, NEW t \in Targets, t = Now
  PROVE  \A page :
           /\ Set(live, page)[t] = page /\ Set(temp, page)[t] = page
           /\ Set(backup, page)[t] = page /\ Set(quarantine, page)[t] = page
           /\ Set(late, page)[t] = page
           /\ Set(base, page)[t] = page /\ Set(original, page)[t] = page
  BY DEF Set, TypeInv, StateOK, FilesOK, MutationsOK

\* The current target stays in its place.
LEMMA PlacedHere ==
  ASSUME ShapeInv, Next, ~OwnerEdit, NEW t \in Targets, t = Now
  PROVE  Placed(t)'
<1>0. /\ TypeInv /\ Whole /\ Known /\ Placed(t) /\ Here /\ (pc = "read" => journal = {})
      /\ owner' = owner
      /\ Installed(t) # Absent /\ Installed(t) # Torn /\ Absent # Torn
      /\ switched \subseteq journal /\ t \in Targets
  BY OthersEditNothing, InstalledIsPage, FrontAssumption
  DEF ShapeInv, WholeInv, Shape, TypeInv, StateOK, MutationsOK
<1>s. \A page :
           /\ Set(live, page)[t] = page /\ Set(temp, page)[t] = page
           /\ Set(backup, page)[t] = page /\ Set(quarantine, page)[t] = page
           /\ Set(late, page)[t] = page
           /\ Set(base, page)[t] = page /\ Set(original, page)[t] = page
  BY <1>0, SetNow
<1>j. pc \in Registered => t \in journal
  BY <1>0 DEF TypeInv, Staged
<1>1. CASE ReadBase
  <2>1. /\ UNCHANGED <<live, temp, backup, quarantine, late, stray, journal, switched, original>>
        /\ journal = {} /\ switched = {}
        /\ base'[t] = live[t] /\ live[t] = owner[t]
    BY <1>0, <1>1, <1>s DEF ReadBase, Remotely, files, Known
  <2>2. QED
    BY <1>0, <2>1 DEF Placed, Changed
<1>2. CASE Snapshot
  <2>1. /\ UNCHANGED <<live, temp, backup, quarantine, late, stray, base, switched>>
        /\ journal' = journal \cup {t} /\ Changed(t)
        /\ original'[t] = live[t]
    BY <1>0, <1>2, <1>s DEF Snapshot, files
  <2>2. t \notin switched
    BY <1>0, <1>2 DEF Snapshot, Remotely, Whole, Progress, Forward, Uploading
  <2>3. QED
    BY <1>0, <2>1, <2>2 DEF Placed, Changed, Installed
<1>3. CASE PutTemp \/ TornPut
  <2>1. /\ UNCHANGED <<live, backup, quarantine, late, stray, base, original, journal, switched>>
        /\ temp'[t] \in {Installed(t), Torn} /\ pc = "put"
    BY <1>0, <1>3, <1>s DEF PutTemp, TornPut, Remotely, mutations
  <2>2. t \notin switched /\ t \in journal
    BY <1>0, <1>j, <2>1 DEF Whole, Progress, Forward, Uploading, Registered, UploadLabels
  <2>3. QED
    BY <1>0, <2>1, <2>2 DEF Placed, Changed, Installed
<1>4. CASE Precheck
  <2>1. /\ UNCHANGED <<files, base, original, journal>> /\ temp[t] = Installed(t)
        /\ switched' \in {switched, switched \cup {t}}
    BY <1>0, <1>4 DEF Precheck, Remotely, TypeInv, Staged
  <2>2. QED
    BY <1>0, <2>1 DEF Placed, Changed, Installed, files
<1>5. CASE MoveAside \/ Promote
  <2>1. /\ UNCHANGED <<quarantine, late, stray, base, original, journal, switched>>
        /\ temp'[t] \in {temp[t], Absent}
        /\ pc \in {"moveAside", "promote"}
        /\ (backup'[t] = backup[t]) \/ (pc = "moveAside" /\ original[t] # Absent)
    BY <1>0, <1>5, <1>s DEF MoveAside, Promote, Remotely, mutations, Here
  <2>2. t \in switched
    BY <1>0, <2>1 DEF Whole, Progress, Forward, Uploading
  <2>3. QED
    BY <1>0, <2>1, <2>2 DEF Placed, Changed, Installed
<1>6. CASE RollbackMutation \/ Reconcile
  <2>1. /\ UNCHANGED <<live, temp, backup, base, original, journal, switched>>
        /\ \/ UNCHANGED <<quarantine, late, stray>>
           \/ FreshNames /\ t \in journal
    BY <1>0, <1>j, <1>6 DEF RollbackMutation, Reconcile, Remotely, mutations, Registered, RollbackLabels,
       RetriedLabels
  <2>2. FreshNames => late'[t] = Absent
    BY <1>s DEF FreshNames
  <2>3. QED
    BY <1>0, <2>1, <2>2 DEF Placed, Changed, Installed
<1>7. CASE StashTemp \/ RmStashedTemp \/ RmStash \/ RmTemp \/ RmUnusedTemp
  <2>1. /\ UNCHANGED <<live, backup, late, stray, base, original, journal, switched>>
        /\ temp'[t] \in {temp[t], Absent} /\ pc \in Registered
    BY <1>s, <1>7 DEF StashTemp, RmStashedTemp, RmStash, RmTemp, RmUnusedTemp, mutations,
       Remotely, Registered, RollbackLabels, AfterRefusal
  <2>2. QED
    BY <1>0, <1>j, <2>1 DEF Placed, Changed, Installed
<1>8. CASE StashTarget \/ IsolateTarget
  <2>1. /\ UNCHANGED <<temp, backup, late, stray, base, original, journal, switched>>
        /\ t \in switched
    BY <1>0, <1>8 DEF StashTarget, IsolateTarget, mutations, Remotely, Here, RemoveLabels, RestoreLabels
  <2>2. QED
    BY <1>0, <2>1 DEF Placed, Changed, Installed
<1>9. CASE StashLate \/ PromoteBackup
  <2>1. /\ UNCHANGED <<temp, quarantine, stray, base, original, journal, switched>>
        /\ backup'[t] \in {backup[t], Absent}
        /\ t \in switched /\ original[t] # Absent
    BY <1>0, <1>9, <1>s DEF StashLate, PromoteBackup, mutations, Remotely, Here, RestoreLabels
  <2>2. QED
    BY <1>0, <2>1 DEF Placed, Changed, Installed
<1>10. CASE Discard
  <2>1. /\ UNCHANGED <<live, late, stray, base, original, journal, switched>>
        /\ temp'[t] \in {temp[t], Absent} /\ backup'[t] \in {backup[t], Absent}
        /\ t \in switched
    BY <1>0, <1>10, <1>s DEF Discard, mutations, Remotely, Here, RestoreLabels
  <2>2. QED
    BY <1>0, <2>1 DEF Placed, Changed, Installed
<1>11. CASE UNCHANGED <<files, mutations>>
  BY <1>0, <1>11, PlacedQuietly
<1>12. QED
  BY <1>1, <1>2, <1>3, <1>4, <1>5, <1>6, <1>7, <1>8, <1>9, <1>10, <1>11 DEF Next, Installer, Upload, Rollback,
     Terminated, vars,
     SkipUnchanged, Chmod, VerifyPasses, VerifyFails, Teardown, JournalDone, Recover, GiveUp,
     DropTemp, RemoveTarget, CheckRemoved, Isolate, RestoreBackup, CheckRestored, Fault, LoseMaster,
     DeadBatch, Crash

\* What is cleaned up is the installer's own, or a copy of what is on display.
LEMMA CleanupIsSafe ==
  ASSUME ShapeInv, NEW t \in Targets, t = Now, t \in journal,
         ForeignArtifact = {}, live[t] = original[t]
  PROVE  /\ late[t] = Absent
         /\ quarantine[t] \in {Absent, Installed(t)}
         /\ Preserved(t) => owner[t] \in {Absent, live[t]} \cup stray[t]
<1>1. /\ late[t] = Absent
      /\ quarantine[t] \in {Absent, Installed(t)}
      /\ backup[t] \in {Absent, original[t]}
  BY DEF ForeignArtifact
<1>2. owner[t] # Installed(t)
  BY DEF ShapeInv, Shape, Placed
<1>3. QED
  BY <1>1, <1>2 DEF Preserved

LEMMA HereStep ==
  ASSUME ShapeInv, Next, ~OwnerEdit
  PROVE  Here'
<1>0. /\ TypeInv /\ Whole /\ Here /\ Now \in Targets
      /\ owner' = owner
      /\ switched \subseteq journal
  BY OthersEditNothing, PlanIsTargets
  DEF ShapeInv, WholeInv, Shape, TypeInv, StateOK, MutationsOK, ControlOK, Now
<1>t. PICK t \in Targets : t = Now
  BY <1>0
<1>p. Placed(t) /\ Installed(t) # Absent /\ (pc \in Registered => t \in journal)
  BY <1>0, <1>t, InstalledIsPage, FrontAssumption DEF ShapeInv, Shape, TypeInv, StateOK, MutationsOK, Staged
<1>s. \A page :
           /\ Set(live, page)[t] = page /\ Set(temp, page)[t] = page
           /\ Set(backup, page)[t] = page /\ Set(quarantine, page)[t] = page
           /\ Set(late, page)[t] = page
           /\ Set(base, page)[t] = page /\ Set(original, page)[t] = page
  BY <1>0, <1>t, SetNow
<1>n. cur' = cur => Now' = t
  BY <1>t DEF Now
<1> DEFINE Away == pc' \notin Positioned
<1>a. Away => Here'
  BY HereElsewhere
<1>l. ASSUME NEW kind \in {"transport", "interrupt"}, Raise(kind), pc # "read"
      PROVE  Here'
  BY <1>l, <1>a, LostReplyLeads DEF Positioned, DropLabels, RemoveLabels, RestoreLabels
<1>r. ASSUME NEW label, Reply(Goto(label)), pc # "read"
      PROVE  Here' \/ (pc' = label /\ cur' = cur)
  BY <1>r, <1>l DEF Reply, Goto
<1>1. CASE ReadBase \/ SkipUnchanged \/ Snapshot \/ MoveAside \/ Promote \/ Chmod \/ VerifyPasses
           \/ VerifyFails \/ Teardown \/ JournalDone \/ Recover \/ Crash
  <2>1. Away
    BY <1>1 DEF ReadBase, SkipUnchanged, Snapshot, MoveAside, Promote, Chmod, VerifyPasses,
       VerifyFails, Teardown, JournalDone, Recover, Crash, Remotely, NextUpload, StartRollback,
       Goto, Finish, Positioned, DropLabels, RemoveLabels, RestoreLabels
  <2>2. QED
    BY <2>1, <1>a
<1>2. CASE PutTemp \/ TornPut
  <2>1. pc = "put" /\ (Reply(Goto("precheck")) \/ \E kind \in {"transport", "error", "interrupt"} : Raise(kind))
    BY <1>2 DEF PutTemp, TornPut, Remotely
  <2>2. ASSUME NEW kind \in {"transport", "error", "interrupt"}, Raise(kind)
        PROVE  Away
    BY <2>1, <2>2 DEF Raise, UploadLabels, LookLabels, RetriedLabels, AfterRefusal, StartRollback,
       Positioned, DropLabels, RemoveLabels, RestoreLabels
  <2>3. Goto("precheck") => Away
    BY DEF Goto, Positioned, DropLabels, RemoveLabels, RestoreLabels
  <2>4. QED
    BY <2>1, <2>2, <2>3, <1>a DEF Reply
<1>3. CASE Precheck
  <2>1. CASE Away
    BY <2>1, <1>a
  <2>2. CASE ~Away
    <3>1. pc' = "moveAside" /\ cur' = cur /\ original[t] # Absent /\ UNCHANGED <<files, original>>
      BY <1>3, <1>t, <2>2 DEF Precheck, StartRollback, Goto, Positioned, DropLabels, RemoveLabels, RestoreLabels
    <3>2. backup[t] = Absent
      BY <1>0, <1>3, <1>t, <1>p DEF Precheck, Remotely, Whole, Progress, Forward, Uploading, Placed
    <3>3. QED
      BY <1>n, <3>1, <3>2 DEF Here, files, DropLabels, RemoveLabels, RestoreLabels
  <2>3. QED
    BY <2>1, <2>2
<1>4. CASE RollbackMutation
  <2>1. CASE Away
    BY <2>1, <1>a
  <2>2. CASE ~Away
    <3>1. /\ pc' = IF t \notin switched THEN "dropTemp"
                   ELSE IF original[t] = Absent THEN "removeTarget" ELSE "reconcile"
          /\ cur' = cur /\ UNCHANGED mutations /\ late' = Set(late, Absent)
      BY <1>4, <1>t, <2>2 DEF RollbackMutation, NextMutation, Goto, FreshNames, Positioned, DropLabels,
         RemoveLabels, RestoreLabels
    <3>2. QED
      BY <1>n, <1>s, <3>1 DEF Here, mutations, DropLabels, RemoveLabels, RestoreLabels
  <2>3. QED
    BY <2>1, <2>2
<1>5. CASE GiveUp
  <2>1. CASE pc \in {"isolate", "restoreBackup"} /\ NextAttempt
    BY <1>0, <1>5, <1>t, <1>n, <2>1 DEF GiveUp, NextAttempt, Here, mutations, DropLabels, RemoveLabels, RestoreLabels
  <2>2. CASE NextMutation({"error"})
    BY <2>2, <1>a DEF NextMutation, Positioned, DropLabels, RemoveLabels, RestoreLabels
  <2>3. QED
    BY <1>5, <2>1, <2>2 DEF GiveUp
<1>6. CASE DropTemp
  <2>1. CASE Away
    BY <2>1, <1>a
  <2>2. CASE ~Away
    <3>1. /\ cur' = cur /\ UNCHANGED <<files, mutations>> /\ pc = "dropTemp"
          /\ \/ pc' = "stashTemp" /\ quarantine[t] = Absent
             \/ pc' = "rmStashedTemp" /\ quarantine[t] = Installed(t)
      BY <1>6, <1>t, <2>2 DEF DropTemp, Remotely, NextMutation, Iterate, Conflict, Positioned, DropLabels,
         RemoveLabels, RestoreLabels
    <3>2. QED
      BY <1>0, <1>n, <1>t, <3>1 DEF Here, files, mutations, Installed, DropLabels, RemoveLabels, RestoreLabels
  <2>3. QED
    BY <2>1, <2>2
<1>7. CASE StashTemp \/ RmStashedTemp
  <2>1. /\ Reply(Goto("dropTemp")) /\ pc \in DropLabels /\ UNCHANGED mutations
    BY <1>7 DEF StashTemp, RmStashedTemp, Remotely, DropLabels
  <2>2. CASE pc' = "dropTemp" /\ cur' = cur
    BY <1>0, <1>n, <1>t, <2>1, <2>2 DEF Here, mutations, DropLabels, RemoveLabels, RestoreLabels
  <2>3. QED
    BY <1>r, <2>1, <2>2 DEF DropLabels
<1>8. CASE RemoveTarget
  <2>1. CASE Away
    BY <2>1, <1>a
  <2>2. CASE ~Away
    <3>1. /\ cur' = cur /\ UNCHANGED <<files, mutations>> /\ pc = "removeTarget"
          /\ \/ pc' \in {"rmTemp", "stashTarget"} /\ quarantine[t] = Absent
             \/ pc' = "rmStash" /\ quarantine[t] = Installed(t)
      BY <1>8, <1>t, <2>2 DEF RemoveTarget, Remotely, NextMutation, Iterate, Conflict, Positioned, DropLabels,
         RemoveLabels, RestoreLabels
    <3>2. QED
      BY <1>0, <1>n, <1>t, <3>1 DEF Here, files, mutations, Installed, DropLabels, RemoveLabels, RestoreLabels
  <2>3. QED
    BY <2>1, <2>2
<1>9. CASE StashTarget
  <2>1. /\ Reply(Goto("removeTarget")) /\ pc = "stashTarget" /\ UNCHANGED <<mutations, late>>
    BY <1>9 DEF StashTarget, Remotely
  <2>2. CASE pc' = "removeTarget" /\ cur' = cur
    BY <1>0, <1>n, <1>t, <2>1, <2>2 DEF Here, mutations, DropLabels, RemoveLabels, RestoreLabels
  <2>3. QED
    BY <1>r, <2>1, <2>2
<1>10. CASE RmStash
  <2>1. /\ pc = "rmStash" /\ pc' = "rmTemp" /\ cur' = cur /\ UNCHANGED <<mutations, late>>
        /\ quarantine' = Set(quarantine, Absent)
    BY <1>10 DEF RmStash, Remotely, Goto
  <2>2. QED
    BY <1>0, <1>n, <1>s, <1>t, <2>1 DEF Here, mutations, DropLabels, RemoveLabels, RestoreLabels
<1>11. CASE RmTemp
  <2>1. /\ Reply(Goto("checkRemoved")) /\ pc = "rmTemp" /\ UNCHANGED <<mutations, late, quarantine>>
    BY <1>11 DEF RmTemp, Remotely
  <2>2. CASE pc' = "checkRemoved" /\ cur' = cur
    BY <1>0, <1>n, <1>t, <2>1, <2>2 DEF Here, mutations, Installed, DropLabels, RemoveLabels, RestoreLabels
  <2>3. QED
    BY <1>r, <2>1, <2>2
<1>12. CASE CheckRemoved
  <2>1. CASE Away
    BY <2>1, <1>a
  <2>2. CASE ~Away
    <3>1. pc = "checkRemoved" /\ pc' = "removeTarget" /\ cur' = cur /\ UNCHANGED <<files, mutations>>
      BY <1>12, <2>2 DEF CheckRemoved, Remotely, NextMutation, Goto, Positioned, DropLabels, RemoveLabels,
         RestoreLabels
    <3>2. QED
      BY <1>0, <1>n, <1>t, <3>1 DEF Here, files, mutations, DropLabels, RemoveLabels, RestoreLabels
  <2>3. QED
    BY <2>1, <2>2
<1>13. CASE Reconcile
  <2>1. CASE Away
    BY <2>1, <1>a
  <2>2. CASE ~Away
    <3>1. /\ pc = "reconcile" /\ pc' = "isolate" /\ cur' = cur /\ UNCHANGED mutations
          /\ late' = Set(late, Absent)
      BY <1>13, <2>2 DEF Reconcile, Remotely, Conflict, NextMutation, Enter, FreshNames, Positioned, DropLabels,
         RemoveLabels, RestoreLabels
    <3>2. QED
      BY <1>0, <1>n, <1>s, <1>t, <3>1 DEF Here, mutations, DropLabels, RemoveLabels, RestoreLabels
  <2>3. QED
    BY <2>1, <2>2
<1>14. CASE Isolate \/ RestoreBackup
  <2>1. CASE Away
    BY <2>1, <1>a
  <2>2. CASE ~Away
    <3>1. /\ pc \in {"isolate", "restoreBackup"} /\ cur' = cur /\ UNCHANGED <<files, mutations>>
          /\ \/ pc' = "discard" /\ ForeignArtifact = {} /\ live[t] = original[t]
             \/ pc = "isolate" /\ pc' = "isolateTarget" /\ quarantine[t] = Absent
             \/ pc = "isolate" /\ pc' = "restoreBackup"
             \/ pc = "restoreBackup" /\ pc' = "stashLate" /\ late[t] = Absent
      <4>1. CASE Isolate
        BY <4>1, <1>t, <2>2 DEF Isolate, Remotely, Cleanup, Conflict, NextMutation, Iterate, Enter, Positioned,
           DropLabels, RemoveLabels, RestoreLabels
      <4>2. CASE RestoreBackup
        <5>1. CASE live[Now] = original[Now]
          BY <4>2, <5>1, <1>t, <2>2 DEF RestoreBackup, Remotely, Cleanup, Conflict, NextMutation, Iterate,
             Positioned, DropLabels, RemoveLabels, RestoreLabels
        <5>2. CASE live[Now] # original[Now]
          <6>1. ForeignArtifact = {} => late[Now] = Absent
            BY DEF ForeignArtifact
          <6>2. QED
            BY <4>2, <5>2, <6>1, <1>t, <2>2 DEF RestoreBackup, Remotely, Conflict, NextMutation, Iterate,
               Positioned, DropLabels, RemoveLabels, RestoreLabels
        <5>3. QED
          BY <5>1, <5>2
      <4>3. QED
        BY <1>14, <4>1, <4>2
    <3>2. /\ t \in switched /\ original[t] # Absent /\ t \in journal
          /\ pc = "isolate" => late[t] = Absent
      BY <1>0, <1>p, <1>t, <3>1 DEF Here, RestoreLabels
    <3>3. pc' = "discard" =>
            late[t] = Absent /\ (Preserved(t) => owner[t] \in {Absent, live[t]} \cup stray[t])
      BY <1>t, <3>1, <3>2, CleanupIsSafe
    <3>4. Preserved(t)' = Preserved(t)
      BY <1>0, <3>1 DEF Preserved, files
    <3>5. QED
      BY <1>0, <1>n, <3>1, <3>2, <3>3, <3>4 DEF Here, files, mutations, DropLabels, RemoveLabels, RestoreLabels,
         Preserved
  <2>3. QED
    BY <2>1, <2>2
<1>15. CASE IsolateTarget
  <2>1. /\ Reply(Goto("isolate")) /\ pc = "isolateTarget" /\ UNCHANGED <<mutations, late>>
    BY <1>15 DEF IsolateTarget, Remotely
  <2>2. CASE pc' = "isolate" /\ cur' = cur
    BY <1>0, <1>n, <1>t, <2>1, <2>2 DEF Here, mutations, DropLabels, RemoveLabels, RestoreLabels
  <2>3. QED
    BY <1>r, <2>1, <2>2
<1>16. CASE StashLate \/ PromoteBackup
  <2>1. /\ pc \in {"stashLate", "promoteBackup"} /\ UNCHANGED mutations /\ cur' = cur
        /\ pc' \in {"promoteBackup", "rmUnusedTemp", "restoreBackup"}
    BY <1>16 DEF StashLate, PromoteBackup, Remotely, Goto
  <2>2. QED
    BY <1>0, <1>n, <1>t, <2>1 DEF Here, mutations, DropLabels, RemoveLabels, RestoreLabels
<1>17. CASE RmUnusedTemp
  <2>1. /\ Reply(Goto("restoreBackup")) /\ pc = "rmUnusedTemp" /\ UNCHANGED mutations
    BY <1>17 DEF RmUnusedTemp, Remotely
  <2>2. CASE pc' = "restoreBackup" /\ cur' = cur
    BY <1>0, <1>n, <1>t, <2>1, <2>2 DEF Here, mutations, DropLabels, RemoveLabels, RestoreLabels
  <2>3. QED
    BY <1>r, <2>1, <2>2
<1>18. CASE Discard
  <2>1. /\ pc = "discard" /\ UNCHANGED <<mutations, late>>
        /\ \/ Reply(Goto("checkRestored")) \/ Goto("checkRestored")
           \/ \E kind \in {"transport", "interrupt"} : Raise(kind)
    BY <1>18 DEF Discard, Remotely
  <2>2. CASE pc' = "checkRestored" /\ cur' = cur
    BY <1>0, <1>n, <1>t, <2>1, <2>2 DEF Here, mutations, DropLabels, RemoveLabels, RestoreLabels
  <2>3. QED
    BY <1>l, <1>r, <2>1, <2>2 DEF Goto
<1>19. CASE CheckRestored
  <2>1. CASE Away
    BY <2>1, <1>a
  <2>2. CASE ~Away
    <3>1. /\ pc = "checkRestored" /\ pc' \in {"isolate", "restoreBackup"} /\ cur' = cur
          /\ UNCHANGED <<files, mutations>>
      BY <1>0, <1>19, <2>2 DEF CheckRestored, Remotely, NextMutation, Goto, Positioned, DropLabels, RemoveLabels,
         RestoreLabels, TypeInv, StateOK, ControlOK
    <3>2. QED
      BY <1>0, <1>n, <1>t, <3>1 DEF Here, files, mutations, DropLabels, RemoveLabels, RestoreLabels
  <2>3. QED
    BY <2>1, <2>2
<1>20. CASE Fault \/ DeadBatch
  <2>1. PICK kind \in {"transport", "error", "interrupt"} : Raise(kind)
    BY <1>20 DEF Fault, DeadBatch
  <2>2. UNCHANGED <<files, mutations, owner>>
    BY <1>0, <1>20 DEF Fault, DeadBatch
  <2>3. QED
    BY <1>0, <2>1, <2>2, RaiseKeepsHere
<1>21. CASE LoseMaster \/ Terminated
  <2>1. UNCHANGED <<files, mutations, owner, pc, cur>>
    BY <1>0, <1>21 DEF LoseMaster, Terminated, vars, control
  <2>2. QED
    BY <1>0, <2>1 DEF Here, Now, Preserved, Installed, files, mutations
<1>22. QED
  BY <1>1, <1>2, <1>3, <1>4, <1>5, <1>6, <1>7, <1>8, <1>9, <1>10, <1>11, <1>12, <1>13, <1>14,
     <1>15, <1>16, <1>17, <1>18, <1>19, <1>20, <1>21 DEF Next, Installer, Upload, Rollback

\* The owner's edit changes what is live, and nothing the next command relies on.
LEMMA EditKeepsShape ==
  ASSUME ShapeInv, OwnerEdit
  PROVE  Shape'
<1>0. /\ TypeInv /\ Here /\ Edited /\ Known /\ Now \in Targets
  BY EditIsEdited, PlanIsTargets DEF ShapeInv, WholeInv, Shape, TypeInv, StateOK, ControlOK, Now
<1>1. ASSUME NEW t \in Targets
      PROVE  Placed(t)'
  <2>1. /\ UNCHANGED <<temp, backup, quarantine, late, stray, mutations>>
        /\ live'[t] = owner'[t] \/ (live'[t] = live[t] /\ owner'[t] = owner[t])
        /\ Changed(t) /\ owner'[t] # owner[t] => owner'[t] # Installed(t)
    BY <1>0, <1>1 DEF Edited
  <2>2. Placed(t)
    BY <1>1 DEF ShapeInv, Shape
  <2>3. QED
    BY <2>1, <2>2 DEF Placed, Changed, Installed, mutations
<1>2. Here'
  <2>1. UNCHANGED <<temp, backup, quarantine, late, stray, mutations, pc, cur>>
    BY <1>0 DEF Edited, control
  <2>2. /\ Now' = Now /\ Installed(Now)' = Installed(Now)
        /\ live'[Now] = owner'[Now] \/ (live'[Now] = live[Now] /\ owner'[Now] = owner[Now])
    BY <1>0, <2>1 DEF Edited, Now, Installed, mutations
  <2>3. pc = "discard" =>
          (Preserved(Now)' => owner'[Now] \in {Absent, live'[Now]} \cup stray'[Now])
    BY <1>0, <2>1, <2>2 DEF Here, Preserved
  <2>4. QED
    BY <1>0, <2>1, <2>2, <2>3 DEF Here, mutations
<1>3. pc' = "read" => journal' = {}
  BY <1>0 DEF Edited, control, mutations, ShapeInv, Shape
<1>4. QED
  BY <1>1, <1>2, <1>3 DEF Shape

LEMMA ShapeStep ==
  ASSUME ShapeInv, [Next]_vars
  PROVE  ShapeInv'
<1>0. TypeInv /\ WholeInv /\ SeenInv /\ Known /\ Now \in Targets
  BY PlanIsTargets DEF ShapeInv, WholeInv, SeenInv, TypeInv, StateOK, ControlOK, Now
<1>1. WholeInv' /\ Seen' /\ Known'
  BY <1>0, TypesPreserved, WholeStep, SeenStep, KnownStep DEF WholeInv
<1>2. CASE OwnerEdit
  BY <1>1, <1>2, EditKeepsShape DEF ShapeInv
<1>3. CASE Next /\ ~OwnerEdit
  <2>1. ASSUME NEW t \in Targets
        PROVE  Placed(t)'
    <3>1. CASE t = Now
      BY <1>3, <2>1, <3>1, PlacedHere
    <3>2. CASE t # Now
      BY <1>0, <1>3, <2>1, <3>2, PlacedElsewhere DEF ShapeInv, Shape
    <3>3. QED
      BY <3>1, <3>2
  <2>2. Here'
    BY <1>3, HereStep
  <2>3. pc' = "read" => journal' = {}
    <3>1. pc' = "read" => pc = "read" /\ journal' = journal
      <4>1. CASE ReadBase \/ LoseMaster \/ Terminated
        BY <4>1 DEF ReadBase, LoseMaster, Terminated, Remotely, vars, control, mutations
      <4>2. CASE Fault \/ DeadBatch \/ TornPut \/ PutTemp \/ StashTarget \/ IsolateTarget \/ StashTemp
                 \/ RmStashedTemp \/ RmTemp \/ RmUnusedTemp \/ Discard
        <5>1. PICK label \in {"precheck", "removeTarget", "isolate", "dropTemp", "checkRemoved",
                              "restoreBackup", "checkRestored"} :
                \/ Goto(label) \/ Reply(Goto(label))
                \/ \E kind \in {"transport", "error", "interrupt"} : Raise(kind)
          BY <4>2 DEF Fault, DeadBatch, TornPut, PutTemp, StashTarget, IsolateTarget, StashTemp,
             RmStashedTemp, RmTemp, RmUnusedTemp, Discard
        <5>2. pc' # "read"
          BY <5>1, RaiseLeadsBack, ReplyLeads DEF Goto, Forward
        <5>3. QED
          BY <5>2
      <4>3. CASE SkipUnchanged \/ Snapshot \/ Precheck \/ MoveAside \/ Promote \/ Chmod \/ VerifyPasses
                 \/ VerifyFails \/ Teardown \/ JournalDone \/ Recover \/ Crash \/ RollbackMutation
                 \/ GiveUp \/ DropTemp \/ RemoveTarget
        BY <4>3 DEF SkipUnchanged, Snapshot, Precheck, MoveAside, Promote, Chmod, VerifyPasses,
           VerifyFails, Teardown, JournalDone, Recover, Crash, RollbackMutation, GiveUp, DropTemp,
           RemoveTarget, NextUpload, StartRollback, NextMutation, NextAttempt, Goto, Finish, Iterate, Conflict
      <4>4. CASE RmStash \/ CheckRemoved \/ Reconcile \/ Isolate \/ RestoreBackup \/ StashLate
                 \/ PromoteBackup
        BY <4>4 DEF RmStash, CheckRemoved, Reconcile, Isolate, RestoreBackup, StashLate,
           PromoteBackup, NextMutation, Goto, Iterate, Enter, Conflict, Cleanup
      <4>5. CASE CheckRestored
        <5>1. caller # "read"
          BY <1>0 DEF TypeInv, StateOK, ControlOK
        <5>2. QED
          BY <4>5, <5>1 DEF CheckRestored, NextMutation, Goto
      <4>6. QED
        BY <1>3, <4>1, <4>2, <4>3, <4>4, <4>5 DEF Next, Installer, Upload, Rollback
    <3>2. QED
      BY <3>1 DEF ShapeInv, Shape
  <2>4. QED
    BY <1>1, <2>1, <2>2, <2>3 DEF ShapeInv, Shape
<1>4. CASE UNCHANGED vars
  <2>1. /\ UNCHANGED <<files, mutations, owner, pc, cur>>
    BY <1>4 DEF vars, control, history
  <2>2. \A t \in Targets : Placed(t)'
    BY <2>1, PlacedQuietly DEF ShapeInv, Shape
  <2>3. Here'
    BY <1>0, <2>1 DEF Here, Now, Preserved, Installed, files, mutations, ShapeInv, Shape
  <2>4. QED
    BY <1>1, <2>1, <2>2, <2>3 DEF ShapeInv, Shape, mutations
<1>5. QED
  BY <1>2, <1>3, <1>4

-------------------------------------------------------------------------------
\* An edit that was there to be seen is never destroyed.

LEMMA VisibleStep ==
  ASSUME ShapeInv, [Next]_vars, NEW t \in Targets, Preserved(t), ~Preserved(t)'
  PROVE  unseen[t]
<1>0. /\ TypeInv /\ Seen /\ Here /\ Placed(t) /\ Now \in Targets
      /\ pc \in Registered => Now \in journal
  BY PlanIsTargets DEF ShapeInv, WholeInv, Shape, TypeInv, StateOK, ControlOK, Staged, Now
<1>1. CASE OwnerEdit
  BY <1>0, <1>1, EditIsEdited DEF Edited, Preserved
<1>2. CASE ~OwnerEdit /\ t # Now
  <2>1. /\ live'[t] = live[t] /\ backup'[t] = backup[t] /\ quarantine'[t] = quarantine[t]
        /\ late'[t] = late[t] /\ stray'[t] = stray[t] /\ owner'[t] = owner[t]
    BY <1>0, <1>2, OthersAlone, OthersEditNothing
  <2>2. QED
    BY <2>1 DEF Preserved
<1>3. CASE ~OwnerEdit /\ t = Now
  <2>0. owner' = owner
    BY <1>3, OthersEditNothing
  <2>s. \A page :
           /\ Set(live, page)[t] = page /\ Set(temp, page)[t] = page
           /\ Set(backup, page)[t] = page /\ Set(quarantine, page)[t] = page
           /\ Set(late, page)[t] = page
           /\ Set(base, page)[t] = page /\ Set(original, page)[t] = page
    BY <1>0, <1>3, SetNow
  <2>1. CASE MoveAside
    <3>1. /\ UNCHANGED <<quarantine, late, stray>>
          /\ \/ UNCHANGED <<live, backup>>
             \/ live'[t] = Absent /\ backup'[t] = live[t] /\ backup[t] = Absent
      BY <1>0, <1>3, <2>1, <2>s DEF MoveAside, Remotely, Here
    <3>2. QED
      BY <2>0, <3>1 DEF Preserved
  <2>2. CASE Promote \/ PromoteBackup
    <3>1. /\ UNCHANGED <<quarantine, late, stray>>
          /\ live[t] = Absent \/ unseen[t]
          /\ \/ UNCHANGED <<live, backup>>
             \/ backup' = backup
             \/ live'[t] = backup[t] /\ backup'[t] = Absent
      BY <1>0, <1>3, <2>2, <2>s DEF Promote, PromoteBackup, Remotely, Seen
    <3>2. QED
      BY <2>0, <3>1 DEF Preserved
  <2>3. CASE RollbackMutation \/ Reconcile
    <3>1. /\ UNCHANGED <<live, backup>>
          /\ FreshNames \/ UNCHANGED <<quarantine, late, stray>>
      BY <2>3 DEF RollbackMutation, Reconcile
    <3>2. FreshNames =>
            stray'[t] = stray[t] \cup ({quarantine[t], late[t]} \ {Absent})
      BY <1>0, <1>3 DEF FreshNames, TypeInv, StateOK, FilesOK
    <3>3. QED
      BY <2>0, <3>1, <3>2 DEF Preserved
  <2>4. CASE StashTemp \/ RmStashedTemp \/ RmStash
    <3>1. /\ UNCHANGED <<live, backup, late, stray>>
          /\ quarantine[t] \in {Absent, Installed(t)} /\ pc \in Registered
      BY <1>0, <1>3, <2>4 DEF StashTemp, RmStashedTemp, RmStash, Remotely, Here, Registered, RollbackLabels,
         AfterRefusal
    <3>2. owner[t] # Installed(t)
      BY <1>0, <1>3, <3>1 DEF Placed
    <3>3. QED
      BY <2>0, <3>1, <3>2 DEF Preserved
  <2>5. CASE StashTarget \/ IsolateTarget
    <3>1. /\ UNCHANGED <<backup, late, stray>> /\ quarantine[t] = Absent
          /\ \/ UNCHANGED <<live, quarantine>>
             \/ live'[t] = Absent /\ quarantine'[t] = live[t]
      BY <1>0, <1>3, <2>5, <2>s DEF StashTarget, IsolateTarget, Remotely, Here
    <3>2. QED
      BY <2>0, <3>1 DEF Preserved
  <2>6. CASE StashLate
    <3>1. /\ UNCHANGED <<backup, quarantine, stray>> /\ late[t] = Absent
          /\ \/ UNCHANGED <<live, late>>
             \/ live'[t] = Absent /\ late'[t] = live[t]
      BY <1>0, <1>3, <2>6, <2>s DEF StashLate, Remotely, Here
    <3>2. QED
      BY <2>0, <3>1 DEF Preserved
  <2>7. CASE Discard
    <3>1. UNCHANGED <<live, stray>> /\ owner[t] \in {Absent, live[t]} \cup stray[t]
      BY <1>0, <1>3, <2>7 DEF Discard, Remotely, Here
    <3>2. QED
      BY <2>0, <3>1 DEF Preserved
  <2>8. CASE UNCHANGED <<live, backup, quarantine, late, stray>>
    BY <2>0, <2>8 DEF Preserved
  <2>9. QED
    BY <1>3, <2>1, <2>2, <2>3, <2>4, <2>5, <2>6, <2>7, <2>8 DEF Next, Installer, Upload, Rollback, Terminated, vars,
       files, ReadBase, SkipUnchanged, Snapshot, PutTemp, TornPut, Precheck, Chmod, VerifyPasses,
       VerifyFails, Teardown, JournalDone, Recover, GiveUp, DropTemp, RemoveTarget, RmTemp,
       CheckRemoved, Isolate, RestoreBackup, RmUnusedTemp, CheckRestored, Fault, LoseMaster,
       DeadBatch, Crash
<1>4. QED
  BY <1>1, <1>2, <1>3

LEMMA ShapeHolds == Init => ShapeInv
  BY ShapeInitially, WholeInitially, SeenInitially DEF ShapeInv, SeenInv

\* Where rename replaces its destination an edit can be destroyed, but only one that
\* came after the installer's last look at the target: whatever was there to be seen
\* is kept, for every interleaving of edits, faults and crashes (the limit that
\* SECURITY.md states for the commands of front.py).
THEOREM VisibleEditsAreKept == Spec => NoVisibleEditDestroyed
<1> DEFINE Spared == \A t \in Targets : Preserved(t) /\ ~Preserved(t)' => unseen[t]
<1>1. ShapeInv /\ [Next]_vars => [Spared]_vars
  BY VisibleStep
<1>2. ShapeInv /\ [Next]_vars => ShapeInv'
  BY ShapeStep
<1>3. QED
  BY ShapeHolds, <1>1, <1>2, StepIsNext, PTL DEF Spec, NoVisibleEditDestroyed

-------------------------------------------------------------------------------
\* What a rollback that nothing disturbs leaves under the names it forgets.

\* No fault hit the rollback, and the owner's edits are too few to outlast its loops.
Alone == ~disturbed /\ edits < 5

\* The targets that the rollback has still to come to.
Waiting(i) ==
  \/ pc \in Forward
  \/ pc = "dispatch" /\ i <= cur
  \/ pc \in RollbackLabels /\ i < cur

\* A lost master was lost before the rollback moved anything, so that the recovery
\* session finds no artifact of the first; what is forgotten is the installer's own.
Stashes ==
  /\ \A t \in Targets : stray[t] \subseteq {Installed(t)}
  /\ link = "dead" => \A t \in Targets : quarantine[t] = Absent /\ late[t] = Absent
  /\ "transport" \in failures => link = "dead"
  /\ pass = 2 => link = "up"
  /\ pc \in Forward => pass = 1 /\ failures = {}
  /\ \A i \in 1..Len(Plan) :
       Waiting(i) => quarantine[Plan[i]] = Absent /\ late[Plan[i]] = Absent

\* The loop of _remove_installed_target moves the target away once.
RemoveLoop ==
  /\ pc = "stashTarget" => tries = 1
  /\ pc = "removeTarget" /\ tries >= 1 => live[Now] # Installed(Now)
  /\ pc = "removeTarget" /\ tries # 1 => quarantine[Now] \in {Absent, Installed(Now)}
  /\ pc \in {"rmStash", "rmTemp", "checkRemoved"} => live[Now] # Installed(Now) /\ tries >= 1

\* So does the first loop of _restore_expected_backup.
IsolateLoop ==
  /\ pc = "reconcile" => quarantine[Now] \in {Absent, Installed(Now)} /\ late[Now] = Absent
  /\ pc = "reconcile" /\ outer >= 1 => live[Now] # Installed(Now)
  /\ pc = "isolateTarget" => tries = 1
  /\ pc = "isolate" /\ tries # 1 => quarantine[Now] = Absent
  /\ pc = "isolate" /\ tries >= 1 => live[Now] # Installed(Now)
  /\ pc \in {"discard", "checkRestored"} =>
       /\ tries >= 1 /\ live[Now] # Installed(Now)
       /\ quarantine[Now] \in {Absent, Installed(Now)}
  /\ pc = "checkRestored" =>
       quarantine[Now] = Absent /\ backup[Now] = Absent /\ temp[Now] = Absent

\* The labels of its second loop.
PromoteLabels == {"restoreBackup", "stashLate", "promoteBackup", "rmUnusedTemp"}

Filled(page) == IF page = Absent THEN 0 ELSE 1

\* The second loop: an iteration that fails costs the owner two edits, one to be moved
\* to late, or to be in the way of the backup, and one to remove it again.
PromoteLoop ==
  /\ pc \in PromoteLabels =>
       /\ quarantine[Now] \in {Absent, Installed(Now)}
       /\ live[Now] # Installed(Now)
       /\ backup[Now] # Absent => quarantine[Now] = Installed(Now) \/ temp[Now] = Installed(Now)
  /\ pc = "restoreBackup" =>
       /\ backup[Now] # Absent => edits >= 2 * tries - Filled(live[Now])
       /\ late[Now] # Absent => edits >= 2 * tries - 1 /\ tries >= 1
  /\ pc \in {"stashLate", "promoteBackup"} => edits >= 2 * (tries - 1) + Filled(live[Now])
  /\ pc \in {"promoteBackup", "rmUnusedTemp"} => (late[Now] # Absent => edits >= 2 * tries - 1)
  /\ pc \in PromoteLabels \ {"restoreBackup"} => tries >= 1
  /\ pc = "rmUnusedTemp" => backup[Now] = Absent

\* Between two mutations no loop runs; a recovery follows a lost master only.
Fresh ==
  /\ pc \in {"dispatch", "journalDone", "recover"} => tries = 0 /\ outer = 0
  /\ pc = "recover" => "transport" \in failures

Loops == Fresh /\ RemoveLoop /\ IsolateLoop /\ PromoteLoop

AloneInv == Alone => Stashes /\ Loops

\* Nothing makes up for a fault in the rollback, and no edit is taken back.
LEMMA AloneStays ==
  ASSUME TypeInv, [Next]_vars, Alone'
  PROVE  Alone
<1>1. edits \in Nat
  BY DEF TypeInv, StateOK, HistoryOK
<1>2. CASE OwnerEdit
  BY <1>1, <1>2 DEF OwnerEdit, Alone
<1>3. CASE ~OwnerEdit
  <2>1. edits' = edits
    BY <1>3, OthersEditNothing
  <2>2. disturbed => disturbed'
    BY <1>3 DEF Next, Installer, Upload, Rollback, Terminated, vars, history, ReadBase, SkipUnchanged,
     Snapshot, PutTemp, TornPut, Precheck, MoveAside, Promote, Chmod, VerifyPasses, VerifyFails,
     Teardown, RollbackMutation, JournalDone, Recover, GiveUp, DropTemp, StashTemp, RmStashedTemp,
     RemoveTarget, StashTarget, RmStash, RmTemp, CheckRemoved, Reconcile, Isolate, IsolateTarget,
     RestoreBackup, StashLate, PromoteBackup, RmUnusedTemp, Discard, CheckRestored, Fault,
     LoseMaster, DeadBatch, Crash, Reply, CountFault
  <2>3. QED
    BY <2>1, <2>2 DEF Alone
<1>4. QED
  BY <1>2, <1>3

\* A fault within the rollback disturbs it.
LEMMA FaultDisturbs ==
  ASSUME Alone', CountFault
  PROVE  pc \notin RollbackLabels /\ pc # "journalDone" /\ pc # "recover"
  BY DEF Alone, CountFault

LEMMA QuietReply ==
  ASSUME Alone', pc \in RollbackLabels, NEW label, Reply(Goto(label))
  PROVE  Goto(label) /\ UNCHANGED history
  BY FaultDisturbs DEF Reply

LEMMA StashesForward ==
  ASSUME ShapeInv, Stashes, pc \in Forward,
         UNCHANGED <<quarantine, late, stray, failures, pass>>,
         base' = base \/ pc = "read"
  PROVE  Stashes'
<1>1. /\ \A t \in Targets : quarantine[t] = Absent /\ late[t] = Absent
      /\ pass = 1 /\ failures = {}
  BY DEF ShapeInv, WholeInv, Whole, Progress, Stashes
<1>2. ASSUME NEW t \in Targets
      PROVE  stray[t] \subseteq {Installed(t)'}
  <2>1. CASE base' = base
    BY <1>2, <2>1 DEF Stashes, Installed
  <2>2. CASE pc = "read"
    BY <1>2, <2>2 DEF ShapeInv, Shape, Placed
  <2>3. QED
    BY <2>1, <2>2
<1>3. QED
  BY <1>1, <1>2, PlanIsTargets DEF Stashes

LEMMA StashesNext ==
  ASSUME TypeInv, Stashes, pc \in RollbackLabels \cup {"dispatch"},
         UNCHANGED <<quarantine, late, stray, base>>, NEW why, NextMutation(why),
         "transport" \in why => link = "dead"
  PROVE  Stashes'
<1>1. /\ pc' = IF cur = 1 THEN "journalDone" ELSE "dispatch"
      /\ cur' = IF cur = 1 THEN cur ELSE cur - 1
      /\ failures' = failures \cup why /\ pass' = pass /\ link' = link
  BY DEF NextMutation
<1>2. pc' \notin Forward /\ pc' \notin RollbackLabels
  BY <1>1 DEF RollbackLabels, LookLabels, RetriedLabels, AfterRefusal, Forward, Uploading, Verifying
<1>3. ASSUME NEW i \in 1..Len(Plan), Waiting(i)'
      PROVE  Waiting(i)
  BY <1>1, <1>2, <1>3, PlanLength DEF Waiting, TypeInv, StateOK, ControlOK
<1>4. QED
  BY <1>1, <1>2, <1>3 DEF Stashes, Installed

LEMMA StashesWithin ==
  ASSUME TypeInv, Stashes, pc \in RollbackLabels, pc' \in RollbackLabels,
         UNCHANGED <<cur, stray, failures, pass, link, base>>,
         \A t \in Targets : t # Now => quarantine'[t] = quarantine[t] /\ late'[t] = late[t],
         link = "dead" => UNCHANGED <<quarantine, late>>
  PROVE  Stashes'
<1>1. pc \notin Forward /\ pc' \notin Forward /\ pc # "dispatch" /\ pc' # "dispatch"
  BY DEF RollbackLabels, LookLabels, RetriedLabels, AfterRefusal, Forward, Uploading, Verifying
<1>2. ASSUME NEW i \in 1..Len(Plan), Waiting(i)'
      PROVE  Waiting(i) /\ Plan[i] # Now
  BY <1>1, <1>2, PlanOnce DEF Waiting, TypeInv, StateOK, ControlOK, Now
<1>3. QED
  BY <1>1, <1>2, PlanIsTargets DEF Stashes, Installed

LEMMA StashesStep ==
  ASSUME ShapeInv, Stashes, Loops, Next, Alone'
  PROVE  Stashes'
<1>0. /\ TypeInv /\ Now \in Targets /\ cur \in 1..Len(Plan)
      /\ Plan[cur] = Now
      /\ quarantine \in [Targets -> SitePages] /\ late \in [Targets -> SitePages]
  BY PlanIsTargets DEF ShapeInv, WholeInv, TypeInv, StateOK, FilesOK, ControlOK, Now
<1> DEFINE Elsewhere == \A t \in Targets : t # Now => quarantine'[t] = quarantine[t] /\ late'[t] = late[t]
<1>1. CASE ReadBase \/ SkipUnchanged \/ Snapshot \/ Precheck \/ MoveAside \/ Promote \/ Chmod \/ VerifyPasses
           \/ VerifyFails \/ Teardown
  <2>1. /\ pc \in Forward /\ UNCHANGED <<quarantine, late, stray, failures, pass>>
        /\ base' = base \/ pc = "read"
    BY <1>1 DEF ReadBase, SkipUnchanged, Snapshot, Precheck, MoveAside, Promote, Chmod, VerifyPasses,
       VerifyFails, Teardown, Remotely, NextUpload, StartRollback, Goto, Finish, files, mutations, Forward,
       Uploading, Verifying
  <2>2. QED
    BY <2>1, StashesForward
<1>2. CASE PutTemp \/ TornPut
  <2>1. /\ pc = "put" /\ UNCHANGED <<quarantine, late, stray, base>>
        /\ Goto("precheck") \/ \E kind \in {"transport", "error", "interrupt"} : Raise(kind)
    BY <1>2 DEF PutTemp, TornPut, Remotely, mutations, Reply
  <2>2. UNCHANGED <<failures, pass>>
    BY <2>1 DEF Goto, Raise, StartRollback, LookLabels, RetriedLabels, AfterRefusal
  <2>3. QED
    BY <2>1, <2>2, StashesForward DEF Forward, Uploading
<1>3. CASE Fault \/ LoseMaster
  <2>1. /\ AtBatch /\ UNCHANGED <<files, mutations>> /\ CountFault
        /\ \/ UNCHANGED <<failures, pass>>
           \/ \E kind \in {"transport", "error", "interrupt"} : Raise(kind)
    BY <1>3 DEF Fault, LoseMaster
  <2>2. pc \in Forward /\ pc \notin RollbackLabels
    BY <2>1, FaultDisturbs DEF AtBatch, RemoteLabels, UploadLabels, Forward, Uploading
  <2>3. UNCHANGED <<failures, pass>>
    BY <2>1, <2>2 DEF Raise, StartRollback, Finish, RollbackLabels
  <2>4. QED
    BY <2>1, <2>2, <2>3, StashesForward DEF files, mutations
<1>4. CASE DeadBatch
  <2>1. AtBatch /\ UNCHANGED <<files, mutations>> /\ Raise("transport") /\ link = "dead"
    BY <1>4 DEF DeadBatch
  <2>2. CASE pc \in {"read"} \cup UploadLabels
    <3>1. UNCHANGED <<failures, pass>>
      BY <2>1, <2>2 DEF Raise, StartRollback, Finish, UploadLabels, LookLabels, RetriedLabels, AfterRefusal
    <3>2. QED
      BY <2>1, <2>2, <3>1, StashesForward DEF UploadLabels, files, mutations, Forward, Uploading
  <2>3. CASE pc \in RollbackLabels
    <3>1. NextMutation({"transport"})
      BY <2>1, <2>3 DEF Raise, UploadLabels, RollbackLabels, LookLabels, RetriedLabels, AfterRefusal
    <3>2. QED
      BY <1>0, <2>1, <2>3, <3>1, StashesNext DEF files, mutations
  <2>4. QED
    BY <2>1, <2>2, <2>3 DEF AtBatch, RemoteLabels
<1>5. CASE RollbackMutation
  <2>1. CASE NextMutation({}) /\ UNCHANGED <<quarantine, late, stray>>
    BY <1>0, <1>5, <2>1, StashesNext DEF RollbackMutation, mutations
  <2>2. CASE FreshNames /\ pc' \in RollbackLabels
    <3>1. /\ pc = "dispatch" /\ UNCHANGED <<cur, failures, pass, link, base>>
      BY <1>5, <2>2 DEF RollbackMutation, NextMutation, Goto, mutations, RollbackLabels, LookLabels,
         RetriedLabels, AfterRefusal
    <3>2. quarantine[Now] = Absent /\ late[Now] = Absent
      BY <1>0, <3>1, PlanLength DEF Stashes, Waiting
    <3>3. stray' = stray /\ quarantine' = quarantine /\ late' = late
      BY <1>0, <2>2, <3>2 DEF FreshNames, Set, TypeInv, StateOK, FilesOK
    <3>4. pc' \notin Forward /\ pc' # "dispatch"
      BY <2>2 DEF RollbackLabels, LookLabels, RetriedLabels, AfterRefusal, Forward, Uploading, Verifying
    <3>5. \A i \in 1..Len(Plan) : Waiting(i)' => Waiting(i)
      BY <1>0, <3>1, <3>4 DEF Waiting
    <3>6. QED
      BY <3>1, <3>3, <3>4, <3>5 DEF Stashes, Installed
  <2>3. QED
    BY <1>5, <2>1, <2>2 DEF RollbackMutation, Goto, RollbackLabels, LookLabels, RetriedLabels, AfterRefusal
<1>6. CASE JournalDone
  <2>1. /\ pc = "journalDone" /\ UNCHANGED <<quarantine, late, stray, base, failures, pass, link>>
        /\ pc' \in {"done", "recover"}
    BY <1>6 DEF JournalDone, Finish, Goto, files, mutations
  <2>2. QED
    BY <2>1 DEF Stashes, Waiting, Installed, Forward, Uploading, Verifying, RollbackLabels, LookLabels,
       RetriedLabels, AfterRefusal
<1>7. CASE Recover
  <2>1. /\ pc = "recover" /\ pc' = "dispatch" /\ UNCHANGED <<quarantine, late, stray, base>>
        /\ failures' = {} /\ link' = "up"
    BY <1>7, FaultDisturbs DEF Recover, files, mutations
  <2>2. link = "dead"
    BY <2>1 DEF Stashes, Loops, Fresh
  <2>3. QED
    BY <2>1, <2>2, PlanIsTargets DEF Stashes, Installed, Forward, Uploading, Verifying
<1>8. CASE GiveUp
  <2>1. /\ pc \in RollbackLabels /\ UNCHANGED <<quarantine, late, stray, base>>
        /\ \/ NextMutation({"error"})
           \/ NextAttempt /\ pc' \in RollbackLabels
    BY <1>8 DEF GiveUp, Exhausted, NextAttempt, RollbackLabels, LookLabels, RetriedLabels, files, mutations
  <2>2. NextAttempt => UNCHANGED <<cur, failures, pass, link>>
    BY DEF NextAttempt
  <2>3. QED
    BY <1>0, <2>1, <2>2, StashesNext, StashesWithin
<1>9. CASE DropTemp \/ RemoveTarget \/ CheckRemoved \/ Isolate \/ RestoreBackup \/ CheckRestored
  <2>1. /\ pc \in RollbackLabels /\ link = "up" /\ UNCHANGED <<quarantine, late, stray, base>>
        /\ \/ \E why \in {{}, {"state"}} : NextMutation(why)
           \/ pc' \in RollbackLabels /\ UNCHANGED <<cur, failures, pass, link>>
    <3>1. CASE DropTemp \/ RemoveTarget \/ CheckRemoved
      BY <3>1 DEF DropTemp, RemoveTarget, CheckRemoved, Remotely, Conflict, Iterate, Goto, RollbackLabels,
         LookLabels, RetriedLabels, AfterRefusal, files, mutations
    <3>2. CASE Isolate
      BY <3>2 DEF Isolate, Cleanup, Remotely, Conflict, Iterate, Enter, RollbackLabels,
         LookLabels, RetriedLabels, AfterRefusal, files, mutations
    <3>3. CASE RestoreBackup
      BY <3>3 DEF RestoreBackup, Cleanup, Remotely, Conflict, Iterate, RollbackLabels,
         LookLabels, RetriedLabels, AfterRefusal, files, mutations
    <3>4. CASE CheckRestored
      BY <1>0, <3>4 DEF CheckRestored, Remotely, Goto, RollbackLabels,
         LookLabels, RetriedLabels, AfterRefusal, files, mutations, TypeInv, StateOK, ControlOK
    <3>5. QED
      BY <1>9, <3>1, <3>2, <3>3, <3>4
  <2>2. QED
    BY <1>0, <2>1, StashesNext, StashesWithin
<1>10. CASE StashTemp \/ RmStashedTemp \/ StashTarget \/ RmTemp \/ IsolateTarget \/ RmUnusedTemp
  <2>1. /\ pc \in RollbackLabels /\ link = "up" /\ UNCHANGED <<stray, base>> /\ Elsewhere
        /\ \E label \in {"dropTemp", "removeTarget", "checkRemoved", "isolate", "restoreBackup"} : Reply(Goto(label))
    BY <1>0, <1>10 DEF StashTemp, RmStashedTemp, StashTarget, RmTemp, IsolateTarget, RmUnusedTemp,
       Remotely, Set, mutations, RollbackLabels, AfterRefusal
  <2>2. pc' \in RollbackLabels /\ UNCHANGED <<cur, failures, pass, link>>
    BY <2>1, QuietReply DEF Goto, RollbackLabels, LookLabels, RetriedLabels
  <2>3. QED
    BY <1>0, <2>1, <2>2, StashesWithin
<1>11. CASE RmStash \/ StashLate \/ PromoteBackup
  <2>1. /\ pc \in RollbackLabels /\ link = "up" /\ UNCHANGED <<stray, base>> /\ Elsewhere
        /\ pc' \in RollbackLabels /\ UNCHANGED <<cur, failures, pass, link>>
    BY <1>0, <1>11 DEF RmStash, StashLate, PromoteBackup, Remotely, Set, Goto, mutations, RollbackLabels,
       LookLabels, RetriedLabels, AfterRefusal
  <2>2. QED
    BY <1>0, <2>1, StashesWithin
<1>12. CASE Discard
  <2>1. /\ pc = "discard" /\ link = "up" /\ UNCHANGED <<stray, base>> /\ Elsewhere
        /\ Reply(Goto("checkRestored"))
    BY <1>0, <1>12, FaultDisturbs DEF Discard, Remotely, Set, mutations, RollbackLabels, AfterRefusal
  <2>2. pc \in RollbackLabels /\ pc' \in RollbackLabels /\ UNCHANGED <<cur, failures, pass, link>>
    BY <2>1, QuietReply DEF Goto, RollbackLabels, RetriedLabels, AfterRefusal
  <2>3. QED
    BY <1>0, <2>1, <2>2, StashesWithin
<1>13. CASE Reconcile
  <2>1. pc = "reconcile" /\ link = "up" /\ base' = base
    BY <1>13 DEF Reconcile, Remotely, mutations
  <2>2. pc \in RollbackLabels
    BY <2>1 DEF RollbackLabels, RetriedLabels
  <2>3. CASE NextMutation({"state"}) /\ UNCHANGED <<quarantine, late, stray>>
    BY <1>0, <2>1, <2>2, <2>3, StashesNext
  <2>4. CASE FreshNames /\ pc' = "isolate" /\ UNCHANGED <<cur, failures, pass, link>>
    <3>1. \A t \in Targets :
            /\ t # Now => quarantine'[t] = quarantine[t] /\ late'[t] = late[t] /\ stray'[t] = stray[t]
            /\ t = Now => stray'[t] \subseteq {Installed(t)}
      BY <1>0, <2>1, <2>4 DEF FreshNames, Set, TypeInv, StateOK, FilesOK, Stashes, Loops, IsolateLoop
    <3>2. \A i \in 1..Len(Plan) : Waiting(i)' => Waiting(i) /\ Plan[i] # Now
      BY <1>0, <2>1, <2>2, <2>4, PlanOnce DEF Waiting, Forward, Uploading, Verifying
    <3>3. \A t \in Targets : stray'[t] \subseteq {Installed(t)}
      BY <3>1 DEF Stashes
    <3>4. QED
      BY <2>1, <2>4, <3>1, <3>2, <3>3, PlanIsTargets DEF Stashes, Installed, Forward, Uploading, Verifying
  <2>5. QED
    BY <1>13, <2>3, <2>4 DEF Reconcile, Enter, Conflict
<1>14. CASE OwnerEdit \/ Terminated
  <2>1. UNCHANGED <<quarantine, late, stray, base, failures, pass, link, pc, cur>>
    BY <1>14 DEF OwnerEdit, Terminated, vars, control, files, mutations
  <2>2. QED
    BY <2>1 DEF Stashes, Waiting, Installed
<1>15. CASE Crash
  <2>1. pc' = "done" /\ UNCHANGED <<quarantine, late, stray, base, failures, pass, link>>
    BY <1>15 DEF Crash, Finish, files, mutations
  <2>2. QED
    BY <2>1 DEF Stashes, Waiting, Installed, Forward, Uploading, Verifying, RollbackLabels, LookLabels,
       RetriedLabels, AfterRefusal
<1>16. QED
  BY <1>1, <1>2, <1>3, <1>4, <1>5, <1>6, <1>7, <1>8, <1>9, <1>10, <1>11, <1>12, <1>13, <1>14,
     <1>15 DEF Next, Installer, Upload, Rollback

\* The labels that the loops speak of.
Looping == RemoveLabels \cup RestoreLabels \cup {"reconcile", "dispatch", "journalDone", "recover"}

LEMMA LoopsElsewhere ==
  ASSUME pc' \notin Looping
  PROVE  Loops'
  BY DEF Loops, Fresh, RemoveLoop, IsolateLoop, PromoteLoop, PromoteLabels, Looping, RemoveLabels,
     RestoreLabels

LEMMA LoopsAnew ==
  ASSUME pc' \in {"dispatch", "journalDone"}, tries' = 0, outer' = 0
  PROVE  Loops'
  BY DEF Loops, Fresh, RemoveLoop, IsolateLoop, PromoteLoop, PromoteLabels

\* Edits change what is live, to what is not this run's.
LEMMA EditKeepsLoops ==
  ASSUME ShapeInv, Loops, OwnerEdit
  PROVE  Loops'
<1>0. /\ Edited /\ Now \in Targets /\ tries \in Nat /\ edits \in Nat
      /\ (pc \in Registered => Now \in journal)
  BY EditIsEdited, PlanIsTargets
  DEF ShapeInv, WholeInv, Shape, TypeInv, StateOK, ControlOK, HistoryOK, Staged, Now
<1>1. /\ UNCHANGED <<pc, cur, tries, outer, failures, temp, backup, quarantine, late, journal, base>>
      /\ Now' = Now /\ Installed(Now)' = Installed(Now)
      /\ edits' = edits + 1
  BY <1>0 DEF Edited, control, mutations, Now, Installed
<1>2. ASSUME pc \in Registered
      PROVE  live[Now] # Installed(Now) => live'[Now] # Installed(Now)
  <2>1. Changed(Now)
    BY <1>0, <1>2 DEF ShapeInv, Shape, Placed
  <2>2. owner'[Now] # Installed(Now)
    BY <1>0, <2>1 DEF Edited, ShapeInv, Shape, Placed
  <2>3. live'[Now] = owner'[Now] \/ live'[Now] = live[Now]
    BY <1>0 DEF Edited
  <2>4. QED
    BY <2>2, <2>3
<1>3. RemoveLoop'
  BY <1>1, <1>2 DEF Loops, RemoveLoop, Registered, RollbackLabels, LookLabels, AfterRefusal
<1>4. IsolateLoop'
  BY <1>1, <1>2 DEF Loops, IsolateLoop, Registered, RollbackLabels, RetriedLabels, AfterRefusal
<1>5. PromoteLoop'
  <2>1. pc \in PromoteLabels => live'[Now] # Installed(Now)
    BY <1>2 DEF Loops, PromoteLoop, PromoteLabels, Registered, RollbackLabels, RetriedLabels, AfterRefusal
  <2>2. Filled(live'[Now]) \in {0, 1} /\ Filled(live[Now]) \in {0, 1}
    BY DEF Filled
  <2>3. pc = "restoreBackup" =>
          /\ backup[Now] # Absent => edits' >= 2 * tries - Filled(live'[Now])
          /\ late[Now] # Absent => edits' >= 2 * tries - 1 /\ tries >= 1
    BY <1>0, <1>1, <2>2 DEF Loops, PromoteLoop
  <2>4. pc \in {"stashLate", "promoteBackup"} => edits' >= 2 * (tries - 1) + Filled(live'[Now])
    BY <1>0, <1>1, <2>2 DEF Loops, PromoteLoop
  <2>5. pc \in {"promoteBackup", "rmUnusedTemp"} => (late[Now] # Absent => edits' >= 2 * tries - 1)
    BY <1>0, <1>1 DEF Loops, PromoteLoop
  <2>6. QED
    BY <1>1, <2>1, <2>3, <2>4, <2>5 DEF Loops, PromoteLoop
<1>6. Fresh'
  BY <1>1 DEF Loops, Fresh
<1>7. QED
  BY <1>3, <1>4, <1>5, <1>6 DEF Loops

LEMMA LoopsStep ==
  ASSUME ShapeInv, Stashes, Loops, Next, Alone'
  PROVE  Loops'
<1>0. /\ TypeInv /\ Here /\ Known /\ Now \in Targets
      /\ tries \in Nat /\ edits \in Nat /\ outer \in Nat
      /\ Loops /\ Alone
  BY PlanIsTargets, AloneStays
  DEF ShapeInv, WholeInv, Shape, TypeInv, StateOK, ControlOK, HistoryOK, Now
<1>t. PICK t \in Targets : t = Now
  BY <1>0
<1>p. /\ Placed(t) /\ Installed(t) # Absent
      /\ pc \in Registered => t \in journal /\ original[t] # Installed(t)
  <2>1. Placed(t) /\ Installed(t) # Absent /\ (pc \in Registered => t \in journal)
    BY <1>0, <1>t, InstalledIsPage, FrontAssumption DEF ShapeInv, Shape, TypeInv, StateOK, MutationsOK, Staged
  <2>2. QED
    BY <2>1 DEF Placed
<1>s. \A page :
           /\ Set(live, page)[t] = page /\ Set(temp, page)[t] = page
           /\ Set(backup, page)[t] = page /\ Set(quarantine, page)[t] = page
           /\ Set(late, page)[t] = page
           /\ Set(base, page)[t] = page /\ Set(original, page)[t] = page
  BY <1>0, <1>t, SetNow
<1>n. cur' = cur => Now' = t
  BY <1>t DEF Now
<1>i. UNCHANGED base => Installed(t)' = Installed(t)
  BY DEF Installed
<1>m. ASSUME NEW why, NextMutation(why)
      PROVE  Loops'
  BY <1>m, LoopsAnew DEF NextMutation
<1>a. pc' \notin Looping => Loops'
  BY LoopsElsewhere
<1>b. StartRollback => Loops'
  BY LoopsAnew DEF StartRollback
<1>1. CASE ReadBase \/ SkipUnchanged \/ Snapshot \/ Precheck \/ MoveAside \/ Promote \/ Chmod
           \/ VerifyPasses \/ VerifyFails \/ Teardown \/ Crash
  <2>1. CASE pc' \notin Looping
    BY <2>1, <1>a
  <2>2. CASE StartRollback
    BY <2>2, <1>b
  <2>3. QED
    BY <1>1, <2>1, <2>2 DEF ReadBase, SkipUnchanged, Snapshot, Precheck, MoveAside, Promote, Chmod,
       VerifyPasses, VerifyFails, Teardown, Crash, Remotely, NextUpload, Goto, Finish, Looping, RemoveLabels,
       RestoreLabels
<1>2. CASE PutTemp \/ TornPut \/ Fault
  <2>1. /\ AtBatch
        /\ \/ Goto("precheck")
           \/ CountFault /\ \E kind \in {"transport", "error", "interrupt"} : Raise(kind)
    BY <1>2 DEF PutTemp, TornPut, Remotely, Fault, Reply, AtBatch, RemoteLabels, UploadLabels
  <2>2. CASE Goto("precheck")
    BY <2>2, <1>a DEF Goto, Looping, RemoveLabels, RestoreLabels
  <2>3. CASE CountFault /\ \E kind \in {"transport", "error", "interrupt"} : Raise(kind)
    <3>1. pc \in {"read"} \cup UploadLabels /\ pc \notin RollbackLabels
      BY <2>1, <2>3, FaultDisturbs DEF AtBatch, RemoteLabels
    <3>2. StartRollback \/ Finish("untouched")
      BY <2>3, <3>1 DEF Raise, RollbackLabels
    <3>3. QED
      BY <3>2, <1>a, <1>b DEF Finish, Looping, RemoveLabels, RestoreLabels
  <2>4. QED
    BY <2>1, <2>2, <2>3
<1>3. CASE DeadBatch
  <2>1. StartRollback \/ Finish("untouched") \/ NextMutation({"transport"})
    BY <1>3 DEF DeadBatch, Raise
  <2>2. QED
    BY <2>1, <1>a, <1>b, <1>m DEF Finish, Looping, RemoveLabels, RestoreLabels
<1>4. CASE LoseMaster \/ Terminated
  <2>1. UNCHANGED <<pc, cur, tries, outer, failures, files, base, edits>>
    BY <1>4 DEF LoseMaster, CountFault, Terminated, vars, control, history, mutations
  <2>2. QED
    BY <1>0, <2>1 DEF Loops, Fresh, RemoveLoop, IsolateLoop, PromoteLoop, Now, Installed, files
<1>5. CASE OwnerEdit
  BY <1>0, <1>5, EditKeepsLoops
<1>6. CASE RollbackMutation
  <2>1. CASE NextMutation({})
    BY <2>1, <1>m
  <2>2. CASE ~NextMutation({})
    <3>1. /\ pc = "dispatch" /\ cur' = cur /\ pc' \in {"dropTemp", "removeTarget", "reconcile"}
          /\ UNCHANGED <<tries, outer>>
          /\ quarantine' = Set(quarantine, Absent) /\ late' = Set(late, Absent)
      BY <1>6, <2>2 DEF RollbackMutation, Goto, FreshNames
    <3>2. tries = 0 /\ outer = 0
      BY <1>0, <3>1 DEF Loops, Fresh
    <3>3. quarantine'[t] = Absent /\ late'[t] = Absent
      BY <3>1, <1>s
    <3>4. QED
      BY <1>n, <3>1, <3>2, <3>3 DEF Loops, Fresh, RemoveLoop, IsolateLoop, PromoteLoop, PromoteLabels
  <2>3. QED
    BY <2>1, <2>2
<1>7. CASE JournalDone
  <2>1. CASE pc' = "done"
    BY <2>1, <1>a DEF Looping, RemoveLabels, RestoreLabels
  <2>2. CASE pc' # "done"
    <3>1. pc = "journalDone" /\ Goto("recover") /\ failures = {"transport"}
      BY <1>7, <2>2 DEF JournalDone, Finish
    <3>2. QED
      BY <1>0, <3>1 DEF Goto, Loops, Fresh, RemoveLoop, IsolateLoop, PromoteLoop, PromoteLabels
  <2>3. QED
    BY <2>1, <2>2
<1>8. CASE Recover
  <2>1. pc' \in {"dispatch", "done"} /\ (pc' = "dispatch" => UNCHANGED <<tries, outer>>) /\ pc = "recover"
    BY <1>8 DEF Recover, Finish
  <2>2. tries = 0 /\ outer = 0
    BY <1>0, <2>1 DEF Loops, Fresh
  <2>3. QED
    BY <2>1, <2>2, <1>a, LoopsAnew DEF Looping, RemoveLabels, RestoreLabels
<1>9. CASE GiveUp
  <2>1. CASE NextMutation({"error"})
    BY <2>1, <1>m
  <2>2. CASE pc \in {"isolate", "restoreBackup"} /\ NextAttempt
    <3>1. tries = 3 /\ pc' = "reconcile" /\ cur' = cur /\ UNCHANGED <<files, mutations, edits>>
      BY <1>9, <2>2 DEF GiveUp, Exhausted, NextAttempt, history
    <3>2. edits < 5
      BY <1>0 DEF Alone
    <3>3. /\ quarantine[t] \in {Absent, Installed(t)} /\ late[t] = Absent
          /\ live[t] # Installed(t)
      <4>1. CASE pc = "isolate"
        BY <1>0, <1>t, <3>1, <4>1 DEF Here, Loops, IsolateLoop
      <4>2. CASE pc = "restoreBackup"
        BY <1>0, <1>t, <3>1, <3>2, <4>2 DEF Loops, PromoteLoop, PromoteLabels
      <4>3. QED
        BY <2>2, <4>1, <4>2
    <3>4. QED
      BY <1>n, <1>i, <3>1, <3>3 DEF Loops, Fresh, RemoveLoop, IsolateLoop, PromoteLoop, PromoteLabels, files,
         mutations
  <2>3. QED
    BY <1>9, <2>1, <2>2 DEF GiveUp
<1>10. CASE DropTemp
  <2>1. pc' \notin Looping \/ \E why : NextMutation(why)
    BY <1>10 DEF DropTemp, Iterate, Conflict, Looping, RemoveLabels, RestoreLabels
  <2>2. QED
    BY <2>1, <1>a, <1>m
<1>11. CASE StashTemp \/ RmStashedTemp
  <2>1. Goto("dropTemp")
    BY <1>11, QuietReply DEF StashTemp, RmStashedTemp, Remotely, RollbackLabels, AfterRefusal
  <2>2. QED
    BY <2>1, <1>a DEF Goto, Looping, RemoveLabels, RestoreLabels
<1>12. CASE RemoveTarget
  <2>1. CASE \E why : NextMutation(why)
    BY <2>1, <1>m
  <2>2. CASE ~\E why : NextMutation(why)
    <3>1. /\ pc = "removeTarget" /\ UNCHANGED <<cur, files, mutations>> /\ tries' = tries + 1
          /\ \/ pc' = "rmTemp" /\ live[t] = Absent
             \/ pc' = "stashTarget" /\ live[t] = Installed(t)
             \/ pc' = "rmStash" /\ live[t] = Absent
      BY <1>12, <1>t, <2>2 DEF RemoveTarget, Remotely, Conflict, Iterate
    <3>2. pc' = "stashTarget" => tries = 0
      BY <1>0, <1>t, <3>1 DEF Loops, RemoveLoop
    <3>3. QED
      BY <1>0, <1>n, <1>i, <1>p, <3>1, <3>2 DEF Loops, Fresh, RemoveLoop, IsolateLoop, PromoteLoop, PromoteLabels,
         files, mutations
  <2>3. QED
    BY <2>1, <2>2
<1>13. CASE StashTarget
  <2>1. /\ pc = "stashTarget" /\ Goto("removeTarget") /\ base' = base
        /\ live'[t] = Absent \/ (live' = live /\ quarantine[t] = Absent /\ ~CanRename(live, quarantine))
    BY <1>0, <1>13, <1>t, <1>s, QuietReply DEF StashTarget, Remotely, RollbackLabels, AfterRefusal, mutations, Here
  <2>2. live'[t] = Absent
    BY <1>t, <2>1 DEF CanRename
  <2>3. tries = 1
    BY <1>0, <2>1 DEF Loops, RemoveLoop
  <2>4. QED
    BY <1>n, <1>i, <1>p, <2>1, <2>2, <2>3 DEF Goto, Loops, Fresh, RemoveLoop, IsolateLoop, PromoteLoop, PromoteLabels
<1>14. CASE RmStash \/ RmTemp
  <2>1. /\ pc \in {"rmStash", "rmTemp"} /\ UNCHANGED <<live, base>>
        /\ Goto("rmTemp") \/ Goto("checkRemoved")
    BY <1>14, QuietReply DEF RmStash, RmTemp, Remotely, RollbackLabels, AfterRefusal, mutations
  <2>2. QED
    BY <1>0, <1>n, <1>i, <1>t, <2>1 DEF Goto, Loops, Fresh, RemoveLoop, IsolateLoop, PromoteLoop, PromoteLabels
<1>15. CASE CheckRemoved
  <2>1. CASE NextMutation({})
    BY <2>1, <1>m
  <2>2. CASE ~NextMutation({})
    <3>1. pc = "checkRemoved" /\ Goto("removeTarget") /\ UNCHANGED <<files, mutations>>
      BY <1>15, <2>2 DEF CheckRemoved, Remotely
    <3>2. QED
      BY <1>0, <1>n, <1>i, <1>t, <3>1 DEF Goto, Here, Loops, Fresh, RemoveLoop, IsolateLoop, PromoteLoop,
         PromoteLabels,
         files, mutations
  <2>3. QED
    BY <2>1, <2>2
<1>16. CASE Reconcile
  <2>1. CASE \E why : NextMutation(why)
    BY <2>1, <1>m
  <2>2. CASE ~\E why : NextMutation(why)
    <3>1. pc' = "isolate" /\ tries' = 0 /\ cur' = cur /\ quarantine' = Set(quarantine, Absent)
      BY <1>16, <2>2 DEF Reconcile, Conflict, Enter, FreshNames
    <3>2. QED
      BY <1>n, <1>s, <3>1 DEF Loops, Fresh, RemoveLoop, IsolateLoop, PromoteLoop, PromoteLabels
  <2>3. QED
    BY <2>1, <2>2
<1>17. CASE Isolate \/ RestoreBackup
  <2>1. CASE \E why : NextMutation(why)
    BY <2>1, <1>m
  <2>2. CASE (~\E why : NextMutation(why)) /\ live[Now] = original[Now]
    <3>1. /\ pc' = "discard" /\ tries' = tries + 1 /\ UNCHANGED <<cur, files, mutations>>
          /\ ForeignArtifact = {} /\ pc \in Registered
      BY <1>17, <2>2 DEF Isolate, RestoreBackup, Cleanup, Conflict, Remotely, Registered, RollbackLabels,
         RetriedLabels
    <3>2. quarantine[t] \in {Absent, Installed(t)} /\ live[t] # Installed(t)
      BY <1>p, <1>t, <2>2, <3>1 DEF ForeignArtifact
    <3>3. QED
      BY <1>0, <1>n, <1>i, <3>1, <3>2 DEF Loops, Fresh, RemoveLoop, IsolateLoop, PromoteLoop, PromoteLabels,
         files, mutations
  <2>3. CASE Isolate /\ (~\E why : NextMutation(why)) /\ live[Now] # original[Now]
    <3>1. /\ pc = "isolate" /\ UNCHANGED <<cur, files, mutations, edits>>
          /\ \/ pc' = "isolateTarget" /\ live[t] = Installed(t) /\ tries' = tries + 1
             \/ /\ pc' = "restoreBackup" /\ live[t] = Absent /\ tries' = 0
                /\ \/ quarantine[t] = Installed(t)
                   \/ quarantine[t] = Absent /\ temp[t] = Installed(t)
      BY <1>t, <2>3 DEF Isolate, Conflict, Remotely, Iterate, Enter, HalfSwitched
    <3>2. pc' = "isolateTarget" => tries = 0
      BY <1>0, <1>t, <3>1 DEF Loops, IsolateLoop
    <3>3. late[t] = Absent
      BY <1>0, <1>t, <3>1 DEF Here
    <3>4. CASE pc' = "isolateTarget"
      BY <1>n, <3>1, <3>2, <3>4 DEF Loops, Fresh, RemoveLoop, IsolateLoop, PromoteLoop, PromoteLabels
    <3>5. CASE pc' = "restoreBackup"
      <4>1. edits >= 2 * tries' - Filled(live[t])
        BY <1>0, <3>1, <3>5 DEF Filled
      <4>2. QED
        BY <1>0, <1>n, <1>i, <1>p, <3>1, <3>3, <3>5, <4>1 DEF Loops, Fresh, RemoveLoop, IsolateLoop, PromoteLoop,
           PromoteLabels, files, mutations
    <3>6. QED
      BY <3>1, <3>4, <3>5
  <2>4. CASE RestoreBackup /\ (~\E why : NextMutation(why)) /\ live[Now] # original[Now]
    <3>1. /\ pc = "restoreBackup" /\ pc' = "stashLate" /\ UNCHANGED <<cur, files, mutations, edits>>
          /\ tries' = tries + 1 /\ live[t] = Absent /\ backup[t] = original[t]
      BY <1>t, <2>4 DEF RestoreBackup, Conflict, Remotely, Iterate
    <3>2. backup[t] # Absent
      BY <1>0, <1>t, <3>1 DEF Here, RestoreLabels
    <3>3. edits >= 2 * tries - Filled(live[t])
      BY <1>0, <1>t, <3>1, <3>2 DEF Loops, PromoteLoop
    <3>4. edits >= 2 * (tries' - 1) + Filled(live[t])
      BY <1>0, <3>1, <3>3 DEF Filled
    <3>5. /\ quarantine[t] \in {Absent, Installed(t)} /\ live[t] # Installed(t)
          /\ quarantine[t] = Installed(t) \/ temp[t] = Installed(t)
      BY <1>0, <1>t, <3>1, <3>2 DEF Loops, PromoteLoop, PromoteLabels
    <3>6. QED
      BY <1>0, <1>n, <1>i, <3>1, <3>4, <3>5 DEF Loops, Fresh, RemoveLoop, IsolateLoop, PromoteLoop,
         PromoteLabels, files, mutations
  <2>5. QED
    BY <1>17, <2>1, <2>2, <2>3, <2>4
<1>18. CASE IsolateTarget
  <2>1. /\ pc = "isolateTarget" /\ Goto("isolate") /\ base' = base
        /\ live'[t] = Absent \/ (live' = live /\ quarantine[t] = Absent /\ ~CanRename(live, quarantine))
    BY <1>0, <1>18, <1>t, <1>s, QuietReply DEF IsolateTarget, Remotely, RollbackLabels, AfterRefusal, mutations, Here
  <2>2. live'[t] = Absent
    BY <1>t, <2>1 DEF CanRename
  <2>3. tries = 1
    BY <1>0, <2>1 DEF Loops, IsolateLoop
  <2>4. QED
    BY <1>n, <1>i, <1>p, <2>1, <2>2, <2>3 DEF Goto, Loops, Fresh, RemoveLoop, IsolateLoop, PromoteLoop, PromoteLabels
<1>19. CASE StashLate
  <2>1. /\ pc = "stashLate" /\ Goto("promoteBackup") /\ UNCHANGED <<temp, backup, quarantine, mutations, edits>>
        /\ \/ live'[t] = Absent /\ live[t] # Absent
           \/ UNCHANGED <<live, late>> /\ ~CanRename(live, late)
    BY <1>19, <1>t, <1>s DEF StashLate, Remotely, CanRename, history
  <2>2. late[t] = Absent /\ live'[t] = Absent
    BY <1>0, <1>t, <2>1 DEF Here, CanRename
  <2>3. /\ edits >= 2 * (tries - 1) + Filled(live[t])
        /\ quarantine[t] \in {Absent, Installed(t)}
        /\ backup[t] # Absent => quarantine[t] = Installed(t) \/ temp[t] = Installed(t)
        /\ tries >= 1
    BY <1>0, <1>t, <2>1 DEF Loops, PromoteLoop, PromoteLabels
  <2>4. edits >= 2 * (tries - 1) + Filled(live'[t])
    BY <1>0, <2>2, <2>3 DEF Filled
  <2>5. late'[t] # Absent => edits >= 2 * tries - 1
    BY <1>0, <2>1, <2>2, <2>3 DEF Filled
  <2>6. QED
    BY <1>0, <1>n, <1>i, <1>p, <2>1, <2>2, <2>3, <2>4, <2>5 DEF Goto, Loops, Fresh, RemoveLoop, IsolateLoop,
       PromoteLoop,
         PromoteLabels, mutations
<1>20. CASE PromoteBackup
  <2>1. /\ pc = "promoteBackup" /\ cur' = cur /\ tries' = tries
        /\ UNCHANGED <<temp, quarantine, late, mutations, edits>>
        /\ \/ pc' = "rmUnusedTemp" /\ live'[t] = backup[t] /\ backup'[t] = Absent
           \/ pc' = "restoreBackup" /\ UNCHANGED <<live, backup>> /\ ~CanRename(backup, live)
    BY <1>20, <1>t, <1>s DEF PromoteBackup, Remotely, Goto, history
  <2>2. backup[t] = original[t] /\ original[t] # Absent /\ original[t] # Installed(t)
    BY <1>0, <1>p, <1>t, <2>1 DEF Known, Here, RestoreLabels, Registered, RollbackLabels, AfterRefusal
  <2>3. /\ edits >= 2 * (tries - 1) + Filled(live[t])
        /\ late[t] # Absent => edits >= 2 * tries - 1
        /\ quarantine[t] \in {Absent, Installed(t)} /\ live[t] # Installed(t)
        /\ backup[t] # Absent => quarantine[t] = Installed(t) \/ temp[t] = Installed(t)
        /\ tries >= 1
    BY <1>0, <1>t, <2>1 DEF Loops, PromoteLoop, PromoteLabels
  <2>4. CASE pc' = "rmUnusedTemp"
    BY <1>0, <1>n, <1>i, <2>1, <2>2, <2>3, <2>4 DEF Loops, Fresh, RemoveLoop, IsolateLoop, PromoteLoop,
       PromoteLabels, mutations
  <2>5. CASE pc' = "restoreBackup"
    <3>1. live[t] # Absent
      BY <1>t, <2>1, <2>2, <2>5 DEF CanRename
    <3>2. edits >= 2 * tries - Filled(live[t])
      BY <1>0, <2>3, <3>1 DEF Filled
    <3>3. QED
      BY <1>0, <1>n, <1>i, <2>1, <2>3, <2>5, <3>2 DEF Loops, Fresh, RemoveLoop, IsolateLoop, PromoteLoop,
         PromoteLabels, mutations
  <2>6. QED
    BY <2>1, <2>4, <2>5
<1>21. CASE RmUnusedTemp
  <2>1. /\ pc = "rmUnusedTemp" /\ Goto("restoreBackup") /\ UNCHANGED <<live, backup, quarantine, late, mutations, edits>>
    BY <1>21, QuietReply DEF RmUnusedTemp, Remotely, RollbackLabels, AfterRefusal, history
  <2>2. /\ backup[t] = Absent /\ tries >= 1
        /\ late[t] # Absent => edits >= 2 * tries - 1
        /\ quarantine[t] \in {Absent, Installed(t)} /\ live[t] # Installed(t)
    BY <1>0, <1>t, <2>1 DEF Loops, PromoteLoop, PromoteLabels
  <2>3. QED
    BY <1>0, <1>n, <1>i, <2>1, <2>2 DEF Goto, Loops, Fresh, RemoveLoop, IsolateLoop, PromoteLoop,
       PromoteLabels, mutations
<1>22. CASE Discard
  <2>1. /\ pc = "discard" /\ Goto("checkRestored") /\ UNCHANGED <<live, mutations>>
        /\ quarantine'[t] = Absent /\ backup'[t] = Absent /\ temp'[t] = Absent
    BY <1>22, <1>s, QuietReply, FaultDisturbs DEF Discard, Remotely, RollbackLabels, AfterRefusal
  <2>2. tries >= 1 /\ live[t] # Installed(t)
    BY <1>0, <1>t, <2>1 DEF Loops, IsolateLoop
  <2>3. QED
    BY <1>n, <1>i, <2>1, <2>2 DEF Goto, Loops, Fresh, RemoveLoop, IsolateLoop, PromoteLoop, PromoteLabels, mutations
<1>23. CASE CheckRestored
  <2>1. CASE NextMutation({})
    BY <2>1, <1>m
  <2>2. CASE ~NextMutation({})
    <3>1. /\ pc = "checkRestored" /\ pc' \in {"isolate", "restoreBackup"} /\ UNCHANGED <<cur, tries, files, mutations>>
      BY <1>0, <1>23, <2>2 DEF CheckRestored, Remotely, Goto, TypeInv, StateOK, ControlOK
    <3>2. /\ quarantine[t] = Absent /\ backup[t] = Absent /\ live[t] # Installed(t) /\ late[t] = Absent
      BY <1>0, <1>t, <3>1 DEF Here, Loops, IsolateLoop
    <3>3. QED
      BY <1>n, <1>i, <3>1, <3>2 DEF Loops, Fresh, RemoveLoop, IsolateLoop, PromoteLoop, PromoteLabels, files,
         mutations
  <2>3. QED
    BY <2>1, <2>2
<1>24. QED
  BY <1>1, <1>2, <1>3, <1>4, <1>5, <1>6, <1>7, <1>8, <1>9, <1>10, <1>11, <1>12, <1>13, <1>14,
     <1>15, <1>16, <1>17, <1>18, <1>19, <1>20, <1>21, <1>22, <1>23 DEF Next, Installer, Upload, Rollback

LEMMA AloneInitially == Init => AloneInv
<1> SUFFICES ASSUME Init PROVE AloneInv
  OBVIOUS
<1>1. Stashes
  BY PlanIsTargets DEF Init, Stashes
<1>2. Loops
  BY DEF Init, Loops, Fresh, RemoveLoop, IsolateLoop, PromoteLoop, PromoteLabels
<1>3. QED
  BY <1>1, <1>2 DEF AloneInv

LEMMA AloneStep ==
  ASSUME ShapeInv, AloneInv, [Next]_vars
  PROVE  AloneInv'
<1>1. CASE Next
  <2>1. Alone' => Alone
    BY <1>1, AloneStays DEF ShapeInv, WholeInv
  <2>2. QED
    BY <1>1, <2>1, StashesStep, LoopsStep DEF AloneInv
<1>2. CASE UNCHANGED vars
  BY <1>2 DEF vars, files, mutations, control, history, AloneInv, Alone, Stashes, Waiting, Loops, Fresh, RemoveLoop,
     IsolateLoop, PromoteLoop, Now, Installed
<1>3. QED
  BY <1>1, <1>2

-------------------------------------------------------------------------------
\* A rollback that is reported complete.

\* What RestoredIsExact says of one target.
Exact(t) ==
  /\ temp[t] = Absent /\ backup[t] = Absent
  /\ \/ ~Preserved(t)
     \/ live[t] = owner[t]
     \/ owner[t] = Absent /\ live[t] = original[t]
     \/ ~Alone /\ owner[t] \in stray[t]

\* The targets that the rollback is done with.
Settled(i) == pc = "journalDone" \/ (pc \in RollbackLabels \cup {"dispatch"} /\ i > cur)

\* As long as nothing has failed, every target the rollback is done with is restored.
Exactly ==
  /\ failures = {} => \A i \in 1..Len(Plan) : Settled(i) => Exact(Plan[i])
  /\ outcome = "restored" => pc = "done" /\ \A t \in Targets : Exact(t)

ExactInv == ShapeInv /\ AloneInv /\ Exactly

\* What is not worked on stays exact, whatever becomes of the rest.
LEMMA ExactElsewhere ==
  ASSUME ShapeInv, [Next]_vars, NEW t \in Targets, t # Now \/ OwnerEdit \/ UNCHANGED <<files, mutations>>, Exact(t)
  PROVE  Exact(t)'
<1>0. TypeInv /\ (Alone' => Alone)
  BY AloneStays DEF ShapeInv, WholeInv
<1>1. CASE OwnerEdit
  <2>1. /\ UNCHANGED <<temp, backup, quarantine, late, stray, original>>
        /\ live'[t] = owner'[t] \/ (live'[t] = live[t] /\ owner'[t] = owner[t])
    BY <1>0, <1>1, EditIsEdited DEF Edited, mutations
  <2>2. QED
    BY <1>0, <2>1 DEF Exact, Preserved
<1>2. CASE ~OwnerEdit
  <2>1. /\ live'[t] = live[t] /\ temp'[t] = temp[t] /\ backup'[t] = backup[t]
        /\ quarantine'[t] = quarantine[t] /\ late'[t] = late[t] /\ stray'[t] = stray[t]
        /\ original'[t] = original[t] /\ owner'[t] = owner[t]
    BY <1>0, <1>2, OthersAlone, OthersEditNothing DEF files, mutations
  <2>2. QED
    BY <1>0, <2>1 DEF Exact, Preserved
<1>3. QED
  BY <1>1, <1>2

\* The rollback goes on to the next target.
LEMMA ExactNext ==
  ASSUME ExactInv, Next, pc \in RollbackLabels \cup {"dispatch"},
         NEW why, NextMutation(why), UNCHANGED <<files, mutations, owner>>,
         why = {} => Exact(Now)
  PROVE  Exactly'
<1>0. /\ cur \in 1..Len(Plan) /\ Plan[cur] = Now /\ Now \in Targets
      /\ outcome # "restored"
      /\ pc # "done"
  BY PlanIsTargets DEF ExactInv, Exactly, ShapeInv, WholeInv, TypeInv, StateOK, ControlOK, Now, RollbackLabels,
     LookLabels, RetriedLabels, AfterRefusal
<1>1. /\ pc' = IF cur = 1 THEN "journalDone" ELSE "dispatch"
      /\ cur' = IF cur = 1 THEN cur ELSE cur - 1
      /\ failures' = failures \cup why /\ outcome' = outcome
  BY DEF NextMutation
<1>2. ASSUME failures' = {}, NEW i \in 1..Len(Plan), Settled(i)'
      PROVE  Exact(Plan[i])'
  <2>1. failures = {} /\ why = {}
    BY <1>1, <1>2
  <2>2. i > cur \/ i = cur
    BY <1>0, <1>1, <1>2, PlanLength DEF Settled, RollbackLabels, LookLabels, RetriedLabels, AfterRefusal
  <2>3. Exact(Plan[i])
    <3>1. CASE i = cur
      BY <1>0, <2>1, <3>1
    <3>2. CASE i > cur
      BY <2>1, <3>2 DEF ExactInv, Exactly, Settled
    <3>3. QED
      BY <2>2, <3>1, <3>2
  <2>4. QED
    BY <2>3, ExactElsewhere, PlanIsTargets DEF ExactInv
<1>3. QED
  BY <1>0, <1>1, <1>2 DEF Exactly

\* A step of the current target's rollback.
LEMMA ExactWithin ==
  ASSUME ExactInv, Next, pc' \in RollbackLabels, UNCHANGED <<cur, failures, outcome>>,
         pc \in RollbackLabels \cup {"dispatch"}
  PROVE  Exactly'
<1>0. outcome # "restored" /\ cur \in 1..Len(Plan) /\ pc # "journalDone" /\ pc' # "journalDone"
  BY DEF ExactInv, Exactly, ShapeInv, WholeInv, TypeInv, StateOK, ControlOK, RollbackLabels,
     LookLabels, RetriedLabels, AfterRefusal
<1>1. ASSUME failures = {}, NEW i \in 1..Len(Plan), Settled(i)'
      PROVE  Exact(Plan[i])'
  <2>1. i > cur /\ Exact(Plan[i]) /\ Plan[i] # Now
    BY <1>0, <1>1, PlanOnce DEF ExactInv, Exactly, Settled, Now
  <2>2. QED
    BY <2>1, ExactElsewhere, PlanIsTargets DEF ExactInv
<1>2. QED
  BY <1>0, <1>1 DEF Exactly

\* The transaction and what follows the rollback.
LEMMA ExactOutside ==
  ASSUME ExactInv, pc # "done",
         \/ pc' \notin RollbackLabels \cup {"dispatch", "journalDone"}
         \/ pc' = "dispatch" /\ cur' = Len(Plan),
         outcome' \in {outcome, "untouched", "committed", "unreported", "incomplete", "crashed"}
  PROVE  Exactly'
<1>0. outcome' # "restored"
  BY DEF ExactInv, Exactly
<1>1. ASSUME NEW i \in 1..Len(Plan)
      PROVE  ~Settled(i)'
  BY <1>1, PlanLength DEF Settled, RollbackLabels, LookLabels, RetriedLabels, AfterRefusal
<1>2. QED
  BY <1>0, <1>1 DEF Exactly

\* What the owner wrote last is on display once the installer's own is gone.
LEMMA ClearedIsExact ==
  ASSUME ShapeInv, AloneInv, NEW t \in Targets, t \in journal,
         temp[t] = Absent, backup[t] = Absent, late[t] = Absent,
         quarantine[t] \in {Absent, Installed(t)}, live[t] = original[t]
  PROVE  Exact(t)
<1>1. owner[t] # Installed(t)
  BY DEF ShapeInv, Shape, Placed
<1>2. Alone => stray[t] \subseteq {Installed(t)}
  BY DEF AloneInv, Stashes
<1>3. QED
  BY <1>1, <1>2 DEF Exact, Preserved

LEMMA ExactStep ==
  ASSUME ExactInv, [Next]_vars
  PROVE  Exactly'
<1>0. /\ TypeInv /\ Here /\ Now \in Targets /\ Placed(Now) /\ ShapeInv /\ AloneInv
      /\ cur \in 1..Len(Plan)
      /\ pc \in Registered => Now \in journal
      /\ switched \subseteq journal
  BY PlanIsTargets DEF ExactInv, ShapeInv, WholeInv, Shape, TypeInv, StateOK, MutationsOK, ControlOK, Staged, Now
<1>1. CASE ReadBase \/ SkipUnchanged \/ Snapshot \/ Precheck \/ MoveAside \/ Promote \/ Chmod
           \/ VerifyPasses \/ VerifyFails \/ Teardown
  <2>1. /\ pc # "done"
        /\ \/ pc' \notin RollbackLabels \cup {"dispatch", "journalDone"}
           \/ pc' = "dispatch" /\ cur' = Len(Plan)
        /\ outcome' \in {outcome, "committed", "unreported"}
    BY <1>1 DEF ReadBase, SkipUnchanged, Snapshot, Precheck, MoveAside, Promote, Chmod,
       VerifyPasses, VerifyFails, Teardown, Remotely, NextUpload, StartRollback, Goto, Finish,
       RollbackLabels, LookLabels, RetriedLabels, AfterRefusal
  <2>2. QED
    BY <2>1, ExactOutside
<1>2. CASE PutTemp \/ TornPut
  <2>1. pc = "put" /\ (Goto("precheck") \/ \E kind \in {"transport", "error", "interrupt"} : Raise(kind))
    BY <1>2 DEF PutTemp, TornPut, Remotely, Reply
  <2>2. Goto("precheck") \/ StartRollback
    BY <2>1 DEF Raise, LookLabels, RetriedLabels, AfterRefusal
  <2>3. QED
    BY <2>1, <2>2, ExactOutside DEF Goto, StartRollback, RollbackLabels, LookLabels, RetriedLabels, AfterRefusal
<1>3. CASE Fault \/ DeadBatch
  <2>1. PICK kind \in {"transport", "error", "interrupt"} : Raise(kind)
    BY <1>3 DEF Fault, DeadBatch
  <2>2. UNCHANGED <<files, mutations, owner>> /\ Next /\ AtBatch
    BY <1>3 DEF Fault, DeadBatch, CountFault, history, Next, Installer
  <2>3. CASE pc \in {"read"} \cup UploadLabels
    <3>1. Finish("untouched") \/ StartRollback
      BY <2>1, <2>3 DEF Raise, UploadLabels, LookLabels, RetriedLabels, AfterRefusal
    <3>2. QED
      BY <2>3, <3>1, ExactOutside DEF Finish, StartRollback, UploadLabels, RollbackLabels, LookLabels, RetriedLabels,
         AfterRefusal
  <2>4. CASE pc \in RollbackLabels
    <3>1. \/ NextMutation({kind})
          \/ pc' \in RollbackLabels /\ UNCHANGED <<cur, failures, outcome>>
      BY <2>1, <2>4 DEF Raise, NextAttempt, Goto, UploadLabels, RollbackLabels, LookLabels, RetriedLabels,
         AfterRefusal
    <3>2. QED
      BY <2>2, <2>4, <3>1, ExactNext, ExactWithin
  <2>5. QED
    BY <2>2, <2>3, <2>4 DEF AtBatch, RemoteLabels
<1>4. CASE LoseMaster
  <2>1. UNCHANGED <<pc, cur, failures, outcome, files, mutations>>
    BY <1>4 DEF LoseMaster
  <2>2. \A t \in Targets : Exact(t) => Exact(t)'
    BY <1>4, <2>1, ExactElsewhere DEF ExactInv
  <2>3. QED
    BY <2>1, <2>2, PlanIsTargets DEF ExactInv, Exactly, Settled
<1>5. CASE OwnerEdit
  <2>1. UNCHANGED <<pc, cur, failures, outcome>>
    BY <1>5 DEF OwnerEdit, control
  <2>2. \A t \in Targets : Exact(t) => Exact(t)'
    BY <1>5, <2>1, ExactElsewhere DEF ExactInv, Next
  <2>3. QED
    BY <2>1, <2>2, PlanIsTargets DEF ExactInv, Exactly, Settled
<1>6. CASE RollbackMutation
  <2>1. CASE Now \in journal
    BY <1>6, <2>1, ExactWithin DEF RollbackMutation, Goto, RollbackLabels, LookLabels, RetriedLabels, Next, Installer,
       Rollback
  <2>2. CASE Now \notin journal
    <3>1. NextMutation({}) /\ UNCHANGED <<files, mutations, owner>> /\ pc = "dispatch"
      BY <1>6, <2>2 DEF RollbackMutation, files, history
    <3>2. Exact(Now)
      BY <1>0, <2>2 DEF Placed, Exact
    <3>3. QED
      BY <1>6, <3>1, <3>2, ExactNext DEF Next, Installer, Rollback
  <2>3. QED
    BY <2>1, <2>2
<1>7. CASE JournalDone
  <2>1. CASE Finish("restored") /\ failures = {}
    <3>1. pc = "journalDone" /\ pc' = "done" /\ UNCHANGED <<failures, files, mutations>>
      BY <1>7, <2>1 DEF JournalDone, Finish
    <3>2. \A t \in Targets : Exact(t)
      BY <2>1, <3>1, PlanOnce DEF ExactInv, Exactly, Settled
    <3>3. \A t \in Targets : Exact(t)'
      BY <3>1, <3>2, ExactElsewhere DEF ExactInv
    <3>4. QED
      BY <3>1, <3>3 DEF Exactly, Settled, RollbackLabels, LookLabels, RetriedLabels, AfterRefusal
  <2>2. CASE Finish("incomplete") \/ Goto("recover")
    BY <1>7, <2>2, ExactOutside DEF JournalDone, Finish, Goto, RollbackLabels, LookLabels, RetriedLabels, AfterRefusal
  <2>3. QED
    BY <1>7, <2>1, <2>2 DEF JournalDone
<1>8. CASE Recover
  BY <1>8, ExactOutside DEF Recover, Finish, RollbackLabels, LookLabels, RetriedLabels, AfterRefusal
<1>9. CASE GiveUp
  <2>1. /\ pc \in RollbackLabels /\ UNCHANGED <<files, mutations, owner>> /\ Next
        /\ \/ NextMutation({"error"})
           \/ pc' \in RollbackLabels /\ UNCHANGED <<cur, failures, outcome>>
    BY <1>9 DEF GiveUp, Exhausted, NextAttempt, RollbackLabels, LookLabels, RetriedLabels, history, Next, Installer,
       Rollback
  <2>2. QED
    BY <2>1, ExactNext, ExactWithin
<1>10. CASE DropTemp
  <2>1. /\ pc = "dropTemp" /\ UNCHANGED <<files, mutations, owner>> /\ Next
        /\ \/ NextMutation({}) /\ temp[Now] = Absent
           \/ NextMutation({"state"})
           \/ pc' \in RollbackLabels /\ UNCHANGED <<cur, failures, outcome>>
    BY <1>10 DEF DropTemp, Remotely, Iterate, Conflict, RollbackLabels, AfterRefusal, Next, Installer, Rollback
  <2>2. temp[Now] = Absent => Exact(Now)
    BY <1>0, <2>1 DEF Here, DropLabels, Placed, Exact
  <2>3. pc \in RollbackLabels
    BY <2>1 DEF RollbackLabels, LookLabels
  <2>4. QED
    BY <2>1, <2>2, <2>3, ExactNext, ExactWithin
<1>11. CASE RemoveTarget \/ Isolate \/ RestoreBackup
  <2>1. /\ pc \in RollbackLabels /\ UNCHANGED <<files, mutations, owner>> /\ Next
        /\ \/ NextMutation({"state"})
           \/ pc' \in RollbackLabels /\ UNCHANGED <<cur, failures, outcome>>
    <3>1. CASE RemoveTarget
      BY <3>1 DEF RemoveTarget, Remotely, Conflict, Iterate, RollbackLabels,
         LookLabels, RetriedLabels, AfterRefusal, Next, Installer, Rollback
    <3>2. CASE Isolate
      BY <3>2 DEF Isolate, Cleanup, Remotely, Conflict, Iterate, Enter, RollbackLabels,
         LookLabels, RetriedLabels, AfterRefusal, Next, Installer, Rollback
    <3>3. CASE RestoreBackup
      BY <3>3 DEF RestoreBackup, Cleanup, Remotely, Conflict, Iterate, RollbackLabels,
         LookLabels, RetriedLabels, AfterRefusal, Next, Installer, Rollback
    <3>4. QED
      BY <1>11, <3>1, <3>2, <3>3
  <2>2. QED
    BY <2>1, ExactNext, ExactWithin
<1>12. CASE Reconcile
  <2>1. pc = "reconcile" /\ UNCHANGED mutations /\ Next /\ owner' = owner
    BY <1>12 DEF Reconcile, Remotely, Next, Installer, Rollback
  <2>2. pc \in RollbackLabels
    BY <2>1 DEF RollbackLabels, RetriedLabels
  <2>3. \/ NextMutation({"state"}) /\ UNCHANGED files
        \/ pc' \in RollbackLabels /\ UNCHANGED <<cur, failures, outcome>>
    BY <1>12 DEF Reconcile, Conflict, Enter, RollbackLabels, RetriedLabels, files
  <2>4. QED
    BY <2>1, <2>2, <2>3, ExactNext, ExactWithin
<1>13. CASE StashTemp \/ RmStashedTemp \/ StashTarget \/ RmTemp \/ IsolateTarget \/ RmUnusedTemp \/ Discard
            \/ RmStash \/ StashLate \/ PromoteBackup
  <2>1. pc \in RollbackLabels /\ Next
    BY <1>13 DEF StashTemp, RmStashedTemp, StashTarget, RmTemp, IsolateTarget, RmUnusedTemp, Discard, RmStash,
       StashLate, PromoteBackup, Remotely, RollbackLabels, AfterRefusal, Next, Installer, Rollback
  <2>2. \/ \E kind \in {"transport", "interrupt"} : Raise(kind)
        \/ pc' \in RollbackLabels /\ UNCHANGED <<cur, failures, outcome>>
    BY <1>13 DEF StashTemp, RmStashedTemp, StashTarget, RmTemp, IsolateTarget, RmUnusedTemp, Discard, RmStash,
       StashLate, PromoteBackup, Reply, Goto, RollbackLabels, LookLabels, RetriedLabels, AfterRefusal
  <2>3. ASSUME NEW kind \in {"transport", "interrupt"}, Raise(kind)
        PROVE  Exactly'
    <3>1. NextMutation({kind})
      BY <2>1, <2>3 DEF Raise, UploadLabels, RollbackLabels, LookLabels, RetriedLabels, AfterRefusal
    <3>2. failures' # {} /\ outcome' = outcome /\ outcome # "restored"
      BY <2>1, <3>1 DEF NextMutation, ExactInv, Exactly, RollbackLabels, LookLabels, RetriedLabels, AfterRefusal
    <3>3. QED
      BY <3>2 DEF Exactly
  <2>4. QED
    BY <2>1, <2>2, <2>3, ExactWithin
<1>14. CASE CheckRemoved \/ CheckRestored
  <2>1. /\ pc \in {"checkRemoved", "checkRestored"} /\ UNCHANGED <<files, mutations, owner>> /\ Next
        /\ \/ NextMutation({}) /\ IsRestored /\ (pc = "checkRestored" => quarantine[Now] = Absent)
           \/ pc' \in RollbackLabels /\ UNCHANGED <<cur, failures, outcome>>
    BY <1>0, <1>14 DEF CheckRemoved, CheckRestored, Remotely, Goto, RollbackLabels, LookLabels, RetriedLabels,
       TypeInv, StateOK, ControlOK, Next, Installer, Rollback
  <2>2. /\ late[Now] = Absent /\ Now \in journal
        /\ pc = "checkRemoved" => quarantine[Now] \in {Absent, Installed(Now)}
    BY <1>0, <2>1 DEF Here, RemoveLabels, RestoreLabels
  <2>3. NextMutation({}) /\ IsRestored /\ (pc = "checkRestored" => quarantine[Now] = Absent) => Exact(Now)
    BY <1>0, <2>1, <2>2, ClearedIsExact DEF IsRestored
  <2>4. pc \in RollbackLabels
    BY <2>1 DEF RollbackLabels, LookLabels, RetriedLabels
  <2>5. QED
    BY <2>1, <2>3, <2>4, ExactNext, ExactWithin
<1>15. CASE Crash
  BY <1>15, ExactOutside DEF Crash, Finish, RollbackLabels, LookLabels, RetriedLabels, AfterRefusal
<1>16. CASE UNCHANGED vars
  <2>1. UNCHANGED <<pc, cur, failures, outcome, files, mutations>>
    BY <1>16 DEF vars, control
  <2>2. \A t \in Targets : Exact(t) => Exact(t)'
    BY <2>1, ExactElsewhere DEF ExactInv
  <2>3. QED
    BY <2>1, <2>2, PlanIsTargets DEF ExactInv, Exactly, Settled
<1>17. QED
  BY <1>1, <1>2, <1>3, <1>4, <1>5, <1>6, <1>7, <1>8, <1>9, <1>10, <1>11, <1>12, <1>13, <1>14,
     <1>15, <1>16 DEF Next, Installer, Upload, Rollback, Terminated

LEMMA ExactInitially == Init => ExactInv
<1> SUFFICES ASSUME Init PROVE ExactInv
  OBVIOUS
<1>1. Exactly
  BY DEF Init, Exactly, Settled, RollbackLabels, LookLabels, RetriedLabels, AfterRefusal
<1>2. QED
  BY <1>1, ShapeHolds, AloneInitially DEF ExactInv

\* A rollback that is reported complete leaves neither temp nor backup, and on display
\* what the owner wrote last, unless a fault hit the rollback or five edits outlasted
\* its loops (_rollback_journal_with_recovery of front.py).
THEOREM RestoredIsExactAlways == Spec => []RestoredIsExact
<1>1. ExactInv /\ [Next]_vars => ExactInv'
  BY ShapeStep, AloneStep, ExactStep DEF ExactInv
<1>2. ExactInv => RestoredIsExact
  BY DEF ExactInv, Exactly, Exact, RestoredIsExact, Alone, ShapeInv, WholeInv, TypeInv, StateOK, HistoryOK
<1>3. QED
  BY ExactInitially, <1>1, <1>2, StepIsNext, PTL DEF Spec

-------------------------------------------------------------------------------
\* An incomplete rollback tells where the owner's content is.

\* Nothing was lost on the way, and the owner's edits are too few to outlast a loop.
Unhindered == faults = 0 /\ edits < 5

\* The message, if not the target itself, shows the owner his latest content.
Told(t) == owner[t] \in {Absent, live[t]} \cup named[t]

\* Either the installed file is on display or what the owner wrote last.
Sane(t) == live[t] = Installed(t) \/ owner[t] \in {Absent, live[t]}

\* Where the owner's latest content is at every command that restores a backup.
Tracked ==
  /\ pc = "promote" => live[Now] \in {Absent, owner[Now]}
  /\ pc \in {"reconcile", "isolateTarget"} => Sane(Now)
  /\ pc = "isolate" =>
       \/ Sane(Now)
       \/ live[Now] = Absent /\ quarantine[Now] \in {owner[Now], Installed(Now)}
  /\ pc \in PromoteLabels => (late[Now] # Absent => owner[Now] \in {Absent, live[Now], late[Now]})
  /\ pc \in {"stashLate", "promoteBackup"} => live[Now] \in {Absent, owner[Now]}
  /\ pc \in {"restoreBackup", "rmUnusedTemp"} =>
       (live[Now] # Absent => owner[Now] \in {Absent, live[Now], late[Now]})
  /\ pc \in {"discard", "checkRestored"} => owner[Now] \in {Absent, live[Now]}

Telling ==
  /\ failures \subseteq {"state", "error"}
  /\ \A i \in 1..Len(Plan) : Settled(i) => Told(Plan[i])
  /\ \A i \in 1..Len(Plan) : Waiting(i) /\ ~(i = cur /\ pc = "promote") => Sane(Plan[i])
  /\ outcome = "incomplete" => pc = "done" /\ \A t \in Targets : Told(t)

Faultless == disturbed \/ link = "dead" => faults > 0

ToldInv ==
  /\ KeptInv /\ ShapeInv /\ AloneInv /\ Faultless
  /\ Unhindered => Telling /\ Tracked

\* Faults are counted, and nothing else ends a session or disturbs a rollback.
LEMMA FaultsCounted ==
  ASSUME [Next]_vars
  PROVE  CountFault \/ (UNCHANGED <<faults, disturbed>> /\ link' \in {link, "up"})
<1>1. CASE Next
  <2>1. CASE Upload
    BY <2>1 DEF Upload, ReadBase, SkipUnchanged, Snapshot, PutTemp, TornPut, Precheck, MoveAside, Promote,
       Chmod, VerifyPasses, VerifyFails, Teardown, NextUpload, StartRollback, Goto, Finish, Reply, history
  <2>2. CASE Rollback
    <3>1. CASE RollbackMutation \/ JournalDone \/ Recover \/ GiveUp \/ DropTemp \/ RemoveTarget
               \/ RmStash \/ CheckRemoved \/ Reconcile
      BY <3>1 DEF RollbackMutation, JournalDone, Recover, GiveUp, DropTemp, RemoveTarget, RmStash,
         CheckRemoved, Reconcile, NextMutation, NextAttempt, Goto, Finish, Iterate, Enter, Conflict, history
    <3>2. CASE Isolate \/ RestoreBackup \/ StashLate \/ PromoteBackup \/ CheckRestored
      BY <3>2 DEF Isolate, RestoreBackup, StashLate, PromoteBackup, CheckRestored, Cleanup, NextMutation,
         Goto, Iterate, Enter, Conflict, history
    <3>3. CASE StashTemp \/ RmStashedTemp \/ StashTarget \/ RmTemp \/ IsolateTarget \/ RmUnusedTemp \/ Discard
      BY <3>3 DEF StashTemp, RmStashedTemp, StashTarget, RmTemp, IsolateTarget, RmUnusedTemp, Discard,
         Reply, Goto, history
    <3>4. QED
      BY <2>2, <3>1, <3>2, <3>3 DEF Rollback
  <2>3. CASE Fault \/ LoseMaster
    BY <2>3 DEF Fault, LoseMaster
  <2>4. CASE DeadBatch
    BY <2>4 DEF DeadBatch, Raise, Finish, StartRollback, NextMutation, history
  <2>5. CASE OwnerEdit \/ Crash \/ Terminated
    BY <2>5 DEF OwnerEdit, Crash, Terminated, Finish, vars, control, history
  <2>6. QED
    BY <1>1, <2>1, <2>2, <2>3, <2>4, <2>5 DEF Next, Installer
<1>2. CASE UNCHANGED vars
  BY <1>2 DEF vars, control, history
<1>3. QED
  BY <1>1, <1>2

LEMMA FaultlessStep ==
  ASSUME TypeInv, Faultless, [Next]_vars
  PROVE  Faultless'
  BY FaultsCounted DEF Faultless, CountFault, TypeInv, StateOK, HistoryOK

LEMMA UnhinderedStays ==
  ASSUME TypeInv, Faultless, [Next]_vars, Unhindered'
  PROVE  Unhindered /\ Alone /\ Alone' /\ ~CountFault /\ link = "up"
<1>1. ~CountFault /\ faults' = faults /\ disturbed' = disturbed
  BY FaultsCounted DEF Unhindered, CountFault, TypeInv, StateOK, HistoryOK
<1>2. faults = 0 /\ ~disturbed /\ link = "up"
  BY <1>1 DEF Faultless, Unhindered, TypeInv, StateOK, ControlOK
<1>3. Alone'
  BY <1>1, <1>2 DEF Alone, Unhindered
<1>4. Alone
  BY <1>3, AloneStays
<1>5. QED
  BY <1>1, <1>2, <1>3, <1>4 DEF Unhindered, Alone

\* Where the owner's content can be when nothing was lost.
LEMMA OwnerIsNear ==
  ASSUME ToldInv, Alone, NEW t \in Targets, t \in journal
  PROVE  owner[t] \in {Absent, live[t], backup[t], quarantine[t], late[t]} /\ owner[t] # Installed(t)
<1>1. owner[t] # Installed(t)
  BY DEF ToldInv, ShapeInv, Shape, Placed
<1>2. stray[t] \subseteq {Installed(t)}
  BY DEF ToldInv, AloneInv, Stashes
<1>3. QED
  BY <1>1, <1>2 DEF ToldInv, KeptInv, Kept, AllPreserved, Preserved

\* The labels at which the owner's content is tracked.
LEMMA TrackedElsewhere ==
  ASSUME pc' \notin RestoreLabels \cup {"promote", "reconcile"}
  PROVE  Tracked'
  BY DEF Tracked, RestoreLabels, PromoteLabels

\* What is not worked on is told as before.
LEMMA ToldElsewhere ==
  ASSUME TypeInv, [Next]_vars, ~OwnerEdit, NEW t \in Targets, t # Now \/ UNCHANGED <<files, mutations>>,
         named[t] \subseteq named'[t]
  PROVE  (Told(t) => Told(t)') /\ (Sane(t) => Sane(t)')
<1>1. /\ live'[t] = live[t] /\ owner' = owner /\ base'[t] = base[t]
  BY OthersAlone, OthersEditNothing DEF files, mutations
<1>2. QED
  BY <1>1 DEF Told, Sane, Installed

\* The rollback goes on to the next target.
LEMMA TellsNext ==
  ASSUME ToldInv, Unhindered, Next, ~OwnerEdit, pc \in RollbackLabels \cup {"dispatch"},
         NEW why \in SUBSET {"state", "error"}, NextMutation(why), UNCHANGED <<files, mutations>>,
         \A t \in Targets : named[t] \subseteq named'[t],
         owner[Now] \in {Absent, live[Now]} \cup named'[Now]
  PROVE  Telling' /\ Tracked'
<1>0. /\ cur \in 1..Len(Plan) /\ Plan[cur] = Now /\ Now \in Targets
      /\ TypeInv /\ Telling
      /\ pc \notin Forward /\ pc # "done" /\ pc # "promote" /\ pc # "journalDone"
      /\ outcome # "incomplete"
  BY PlanIsTargets DEF ToldInv, KeptInv, Telling, TypeInv, StateOK, ControlOK, Now, RollbackLabels, LookLabels,
     RetriedLabels, AfterRefusal, Forward, Uploading, Verifying
<1>1. /\ pc' = IF cur = 1 THEN "journalDone" ELSE "dispatch"
      /\ cur' = IF cur = 1 THEN cur ELSE cur - 1
      /\ failures' = failures \cup why /\ outcome' = outcome
  BY DEF NextMutation
<1>2. pc' \notin Forward /\ pc' \notin RollbackLabels /\ pc' \notin RestoreLabels \cup {"promote", "reconcile"}
  BY <1>1 DEF RollbackLabels, LookLabels, RetriedLabels, AfterRefusal, Forward, Uploading, Verifying, RestoreLabels
<1>3. \A t \in Targets : (Told(t) => Told(t)') /\ (Sane(t) => Sane(t)')
  BY <1>0, ToldElsewhere
<1>4. ASSUME NEW i \in 1..Len(Plan), Settled(i)'
      PROVE  Told(Plan[i])'
  <2>1. i > cur \/ i = cur
    BY <1>0, <1>1, <1>2, <1>4, PlanLength DEF Settled
  <2>2. CASE i > cur
    <3>1. Told(Plan[i])
      BY <1>0, <2>2 DEF Telling, Settled
    <3>2. QED
      BY <1>3, <3>1, PlanIsTargets
  <2>3. CASE i = cur
    <3>1. live' = live /\ owner' = owner
      BY OthersEditNothing DEF files
    <3>2. QED
      BY <1>0, <2>3, <3>1 DEF Told
  <2>4. QED
    BY <2>1, <2>2, <2>3
<1>5. ASSUME NEW i \in 1..Len(Plan), Waiting(i)'
      PROVE  Sane(Plan[i])'
  <2>1. Waiting(i)
    BY <1>0, <1>1, <1>2, <1>5, PlanLength DEF Waiting
  <2>2. Sane(Plan[i])
    BY <1>0, <2>1 DEF Telling
  <2>3. QED
    BY <1>3, <2>2, PlanIsTargets
<1>6. Tracked'
  BY <1>2, TrackedElsewhere
<1>7. QED
  BY <1>0, <1>1, <1>4, <1>5, <1>6 DEF Telling

\* A step of the current target's rollback.
LEMMA TellsWithin ==
  ASSUME ToldInv, Unhindered, Next, ~OwnerEdit, pc \in RollbackLabels \cup {"dispatch"}, pc' \in RollbackLabels,
         UNCHANGED <<cur, failures, outcome, named>>
  PROVE  Telling'
<1>0. /\ TypeInv /\ Telling /\ cur \in 1..Len(Plan)
      /\ pc \notin Forward /\ pc # "done" /\ pc # "promote" /\ pc # "journalDone"
      /\ pc' \notin Forward /\ pc' # "done" /\ pc' # "dispatch" /\ pc' # "journalDone"
      /\ outcome # "incomplete"
  BY DEF ToldInv, KeptInv, Telling, TypeInv, StateOK, ControlOK, RollbackLabels, LookLabels,
     RetriedLabels, AfterRefusal, Forward, Uploading, Verifying
<1>1. \A t \in Targets : t # Now => (Told(t) => Told(t)') /\ (Sane(t) => Sane(t)')
  BY <1>0, ToldElsewhere
<1>2. ASSUME NEW i \in 1..Len(Plan)
      PROVE  /\ Settled(i)' => Told(Plan[i])'
             /\ Waiting(i)' => Sane(Plan[i])'
  <2>1. i # cur => Plan[i] # Now /\ Plan[i] \in Targets
    BY <1>0, PlanOnce, PlanIsTargets DEF Now
  <2>2. Settled(i)' => i > cur /\ Settled(i)
    BY <1>0 DEF Settled
  <2>3. Waiting(i)' => i < cur /\ Waiting(i)
    BY <1>0, PlanLength DEF Waiting
  <2>4. QED
    BY <1>0, <1>1, <2>1, <2>2, <2>3 DEF Telling
<1>3. QED
  BY <1>0, <1>2 DEF Telling

\* The message of a conflict.
LEMMA ConflictTells ==
  ASSUME ToldInv, Unhindered, Next, ~OwnerEdit, pc \in RollbackLabels, UNCHANGED <<files, mutations>>,
         NEW hidden, Conflict(hidden),
         owner[Now] \in {Absent, live[Now]} \cup hidden
  PROVE  Telling' /\ Tracked'
<1>1. /\ Now \in Targets /\ named \in [Targets -> SUBSET Contents]
  BY PlanIsTargets DEF ToldInv, KeptInv, TypeInv, StateOK, ControlOK, HistoryOK, Now
<1>2. /\ \A t \in Targets : named[t] \subseteq named'[t]
      /\ named'[Now] = named[Now] \cup (hidden \ {Absent})
  BY <1>1 DEF Conflict
<1>3. NextMutation({"state"})
  BY DEF Conflict
<1>4. owner[Now] \in {Absent, live[Now]} \cup named'[Now]
  BY <1>2
<1>5. QED
  BY <1>2, <1>3, <1>4, TellsNext

\* The transaction, as long as it is not rolled back.
LEMMA TellsForward ==
  ASSUME ToldInv, Unhindered, Next, ~OwnerEdit, pc \in Forward,
         UNCHANGED failures, outcome' \in {outcome, "untouched", "committed", "unreported"},
         \/ pc' \in Forward \cup {"done"}
         \/ pc' = "dispatch" /\ cur' = Len(Plan),
         NEW t \in Targets, t = Now, UNCHANGED named,
         pc' = "promote" => cur' = cur /\ live'[t] \in {Absent, owner'[t]},
         pc' # "promote" => Sane(t)'
  PROVE  Telling' /\ Tracked'
<1>0. /\ TypeInv /\ Telling /\ cur \in 1..Len(Plan) /\ Plan[cur] = t
      /\ pc # "done" /\ outcome # "incomplete"
  BY DEF ToldInv, KeptInv, Telling, TypeInv, StateOK, ControlOK, Now, Forward, Uploading, Verifying
<1>1. ASSUME NEW i \in 1..Len(Plan)
      PROVE  /\ ~Settled(i)'
             /\ ~(i = cur' /\ pc' = "promote") => Sane(Plan[i])'
  <2>1. ~Settled(i)'
    BY <1>1, PlanLength DEF Settled, Forward, Uploading, Verifying, RollbackLabels, LookLabels, RetriedLabels,
       AfterRefusal
  <2>2. CASE Plan[i] = t
    <3>1. i = cur
      BY <1>0, <2>2, PlanOnce
    <3>2. QED
      BY <2>1, <2>2, <3>1
  <2>3. CASE Plan[i] # t
    <3>1. Sane(Plan[i])
      BY <1>0, <2>3 DEF Telling, Waiting
    <3>2. QED
      BY <1>0, <2>1, <2>3, <3>1, ToldElsewhere, PlanIsTargets
  <2>4. QED
    BY <2>2, <2>3
<1>2. Telling'
  BY <1>0, <1>1 DEF Telling
<1>3. Tracked'
  <2>1. pc' = "promote" => Now' = t
    BY DEF Now
  <2>2. pc' \notin RestoreLabels \cup {"reconcile"}
    BY DEF Forward, Uploading, Verifying, RestoreLabels
  <2>3. QED
    BY <2>1, <2>2 DEF Tracked, RestoreLabels, PromoteLabels
<1>4. QED
  BY <1>2, <1>3

LEMMA UploadTells ==
  ASSUME ToldInv, Unhindered, ~posixRename, Upload, ~CountFault
  PROVE  Telling' /\ Tracked'
<1>0. /\ TypeInv /\ Next /\ ~OwnerEdit /\ Telling /\ Tracked /\ Known
      /\ Now \in Targets /\ cur \in 1..Len(Plan)
  <2>1. edits' = edits /\ edits \in Nat
    BY DEF Upload, ReadBase, SkipUnchanged, Snapshot, PutTemp, TornPut, Precheck, MoveAside, Promote,
       Chmod, VerifyPasses, VerifyFails, Teardown, Reply, CountFault, history, ToldInv, KeptInv, TypeInv,
       StateOK, HistoryOK
  <2>2. QED
    BY <2>1, PlanIsTargets DEF ToldInv, KeptInv, ShapeInv, TypeInv, StateOK, ControlOK, Now, Next, Installer,
       OwnerEdit
<1>t. PICK t \in Targets : t = Now
  BY <1>0
<1>s. \A page :
           /\ Set(live, page)[t] = page /\ Set(temp, page)[t] = page
           /\ Set(backup, page)[t] = page /\ Set(quarantine, page)[t] = page
           /\ Set(late, page)[t] = page
           /\ Set(base, page)[t] = page /\ Set(original, page)[t] = page
  BY <1>0, <1>t, SetNow
<1>a. pc \in Forward /\ pc # "promote" => Sane(t)
  BY <1>0, <1>t DEF Telling, Waiting, Now
<1>b. owner' = owner
  BY <1>0, OthersEditNothing
<1>c. UNCHANGED <<live, base>> => Sane(t)' = Sane(t)
  BY <1>b DEF Sane, Installed
<1> DEFINE Onwards == /\ UNCHANGED <<failures, named>>
                      /\ outcome' \in {outcome, "untouched", "committed", "unreported"}
                      /\ \/ pc' \in Forward \cup {"done"}
                         \/ pc' = "dispatch" /\ cur' = Len(Plan)
<1>1. CASE ReadBase
  <2>1. Onwards /\ pc' # "promote" /\ pc \in Forward /\ live[t] = owner[t] /\ live' = live
    BY <1>0, <1>1 DEF ReadBase, Remotely, Known, files, Forward, Uploading
  <2>2. Sane(t)'
    BY <1>b, <2>1 DEF Sane
  <2>3. QED
    BY <1>0, <1>t, <2>1, <2>2, TellsForward
<1>2. CASE SkipUnchanged \/ Snapshot \/ PutTemp \/ Chmod \/ VerifyPasses \/ VerifyFails \/ Teardown
  <2>1. Onwards /\ pc' # "promote" /\ pc \in Forward /\ pc # "promote" /\ UNCHANGED <<live, base>>
    BY <1>2 DEF SkipUnchanged, Snapshot, PutTemp, Chmod, VerifyPasses, VerifyFails, Teardown, Reply,
       Remotely, NextUpload, StartRollback, Goto, Finish, files, mutations, history, Forward, Uploading, Verifying
  <2>2. Sane(t)'
    BY <1>a, <1>c, <2>1
  <2>3. QED
    BY <1>0, <1>t, <2>1, <2>2, TellsForward
<1>3. CASE Precheck
  <2>1. /\ Onwards /\ pc = "precheck" /\ UNCHANGED <<live, base>>
        /\ pc' = "promote" => cur' = cur /\ live[t] = Absent
    BY <1>3, <1>t DEF Precheck, Remotely, StartRollback, Goto, files, Forward, Uploading
  <2>2. Sane(t)'
    BY <1>a, <1>c, <2>1 DEF Forward, Uploading
  <2>3. QED
    BY <1>0, <1>t, <2>1, <2>2, TellsForward DEF Forward, Uploading
<1>4. CASE MoveAside
  <2>1. /\ Onwards /\ pc = "moveAside" /\ base' = base
        /\ \/ pc' = "promote" /\ cur' = cur /\ live'[t] = Absent
           \/ pc' = "dispatch" /\ live' = live
    BY <1>4, <1>s DEF MoveAside, Remotely, StartRollback, Goto, mutations, history, Forward, Uploading
  <2>2. live' = live => Sane(t)'
    BY <1>a, <1>c, <2>1 DEF Forward, Uploading
  <2>3. QED
    BY <1>0, <1>t, <2>1, <2>2, TellsForward DEF Forward, Uploading
<1>5. CASE Promote
  <2>1. /\ Onwards /\ pc = "promote" /\ base' = base /\ pc' # "promote"
        /\ \/ live'[t] = temp[t]
           \/ live' = live /\ ~CanRename(temp, live)
    BY <1>5, <1>s, <1>t DEF Promote, Remotely, StartRollback, Goto, mutations, history, Forward, Uploading
  <2>2. temp[t] = Installed(t) /\ Installed(t) # Absent
    BY <1>0, <1>t, <2>1, InstalledIsPage, FrontAssumption DEF TypeInv, StateOK, MutationsOK, Staged
  <2>3. Sane(t)'
    <3>1. CASE live'[t] = temp[t]
      BY <2>1, <2>2, <3>1 DEF Sane, Installed
    <3>2. CASE live' = live /\ ~CanRename(temp, live)
      BY <1>0, <1>b, <1>t, <2>1, <2>2, <3>2 DEF Sane, CanRename, Tracked
    <3>3. QED
      BY <2>1, <3>1, <3>2
  <2>4. QED
    BY <1>0, <1>t, <2>1, <2>3, TellsForward DEF Forward, Uploading
<1>6. QED
  BY <1>1, <1>2, <1>3, <1>4, <1>5 DEF Upload, TornPut

LEMMA RollbackTells ==
  ASSUME ToldInv, Unhindered, Alone, Alone', ~posixRename, Rollback, ~CountFault
  PROVE  Telling' /\ Tracked'
<1>0. /\ TypeInv /\ Next /\ ~OwnerEdit /\ Telling /\ Tracked /\ Known /\ Here
      /\ Now \in Targets /\ cur \in 1..Len(Plan) /\ edits \in Nat /\ tries \in Nat /\ edits < 5
      /\ Loops
  <2>1. edits' = edits /\ edits \in Nat
    <3>1. ~OwnerEdit \/ edits' = edits
      BY DEF Rollback, RollbackMutation, JournalDone, Recover, GiveUp, DropTemp, StashTemp, RmStashedTemp,
         RemoveTarget, StashTarget, RmStash, RmTemp, CheckRemoved, Reconcile, Isolate, IsolateTarget,
         RestoreBackup, StashLate, PromoteBackup, RmUnusedTemp, Discard, CheckRestored, Reply, CountFault, history
    <3>2. QED
      BY <3>1, OthersEditNothing DEF ToldInv, KeptInv, TypeInv, StateOK, HistoryOK, Next, Installer
  <2>2. QED
    BY <2>1, PlanIsTargets DEF ToldInv, KeptInv, ShapeInv, Shape, AloneInv, TypeInv, StateOK, ControlOK, Now, Next,
       Installer, OwnerEdit, Unhindered
<1>t. PICK t \in Targets : t = Now
  BY <1>0
<1>p. /\ Placed(t) /\ Installed(t) # Absent /\ switched \subseteq journal
      /\ pc \in RollbackLabels => t \in journal
      /\ t \in journal => original[t] # Installed(t)
  <2>1. Placed(t) /\ Installed(t) # Absent /\ (pc \in RollbackLabels => t \in journal) /\ switched \subseteq journal
    BY <1>0, <1>t, InstalledIsPage, FrontAssumption DEF ToldInv, ShapeInv, Shape, TypeInv, StateOK, MutationsOK,
       Staged,
       Registered
  <2>2. QED
    BY <2>1 DEF Placed
<1>o. t \in journal =>
        owner[t] \in {Absent, live[t], backup[t], quarantine[t], late[t]} /\ owner[t] # Installed(t)
  BY OwnerIsNear
<1>s. \A page :
           /\ Set(live, page)[t] = page /\ Set(temp, page)[t] = page
           /\ Set(backup, page)[t] = page /\ Set(quarantine, page)[t] = page
           /\ Set(late, page)[t] = page
           /\ Set(base, page)[t] = page /\ Set(original, page)[t] = page
  BY <1>0, <1>t, SetNow
<1>n. cur' = cur => Now' = t
  BY <1>t DEF Now
<1>b. owner' = owner
  BY <1>0, OthersEditNothing
<1>i. UNCHANGED base => Installed(t)' = Installed(t)
  BY DEF Installed
<1>c. UNCHANGED <<live, base>> => Sane(t)' = Sane(t)
  BY <1>b DEF Sane, Installed
<1>e. ASSUME NEW why \in SUBSET {"state", "error"}, NextMutation(why), UNCHANGED <<files, mutations, named>>,
             pc \in RollbackLabels \cup {"dispatch"}, owner[t] \in {Absent, live[t]}
      PROVE  Telling' /\ Tracked'
  BY <1>0, <1>t, <1>e, TellsNext
<1>d. ASSUME NEW hidden, Conflict(hidden), pc \in RollbackLabels, UNCHANGED <<files, mutations>>,
             owner[t] \in {Absent, live[t]} \cup hidden
      PROVE  Telling' /\ Tracked'
  BY <1>0, <1>t, <1>d, ConflictTells
<1>w. ASSUME pc \in RollbackLabels \cup {"dispatch"}, pc' \in RollbackLabels,
             UNCHANGED <<cur, failures, outcome, named>>, Tracked'
      PROVE  Telling' /\ Tracked'
  BY <1>0, <1>w, TellsWithin
<1>1. CASE RollbackMutation
  <2>1. CASE t \in journal
    <3>1. /\ pc = "dispatch" /\ pc' \in {"dropTemp", "removeTarget", "reconcile"}
          /\ UNCHANGED <<cur, failures, outcome, named, live, base>>
      BY <1>1, <1>t, <2>1 DEF RollbackMutation, Goto, history, mutations
    <3>2. Sane(t)'
      BY <1>0, <1>c, <1>t, <3>1 DEF Telling, Waiting, Now
    <3>3. Tracked'
      BY <1>n, <3>1, <3>2 DEF Tracked, RestoreLabels, PromoteLabels
    <3>4. QED
      BY <1>w, <3>1, <3>3 DEF RollbackLabels, LookLabels, RetriedLabels
  <2>2. CASE t \notin journal
    <3>1. pc = "dispatch" /\ NextMutation({}) /\ UNCHANGED <<files, mutations, named>>
      BY <1>1, <1>t, <2>2 DEF RollbackMutation, history, files
    <3>2. QED
      BY <1>e, <1>p, <2>2, <3>1 DEF Placed
  <2>3. QED
    BY <2>1, <2>2
<1>2. CASE JournalDone
  <2>1. /\ pc = "journalDone" /\ pc' = "done" /\ UNCHANGED <<failures, named, live>>
        /\ outcome' \in {"restored", "incomplete"}
    BY <1>0, <1>2 DEF JournalDone, Finish, Goto, Telling, files, history
  <2>2. \A u \in Targets : Told(u)'
    <3>1. \A u \in Targets : Told(u)
      BY <1>0, <2>1, PlanOnce DEF Telling, Settled
    <3>2. QED
      BY <1>b, <2>1, <3>1 DEF Told
  <2>3. QED
    BY <1>0, <2>1, <2>2, TrackedElsewhere DEF Telling, Settled, Waiting, RollbackLabels, LookLabels, RetriedLabels,
       AfterRefusal, Forward, Uploading, Verifying, RestoreLabels
<1>3. CASE Recover
  BY <1>0, <1>3 DEF Recover, Telling, Loops, Fresh
<1>4. CASE GiveUp
  <2>1. /\ UNCHANGED <<files, mutations, named>>
        /\ \/ pc \in {"dropTemp", "removeTarget"} /\ tries = 4 /\ NextMutation({"error"})
           \/ pc = "reconcile" /\ outer = 2 /\ NextMutation({"error"})
           \/ pc \in {"isolate", "restoreBackup"} /\ tries = 3 /\ NextAttempt
    BY <1>4 DEF GiveUp, Exhausted, history
  <2>2. CASE pc = "dropTemp"
    BY <1>0, <1>e, <1>p, <1>t, <2>1, <2>2 DEF Here, DropLabels, Placed, RollbackLabels, LookLabels
  <2>3. CASE pc = "removeTarget"
    <3>1. /\ quarantine[t] \in {Absent, Installed(t)} /\ late[t] = Absent /\ original[t] = Absent
      BY <1>0, <1>t, <2>1, <2>3 DEF Loops, RemoveLoop, Here, RemoveLabels
    <3>2. pc \in RollbackLabels
      BY <2>3 DEF RollbackLabels, LookLabels
    <3>3. owner[t] \in {Absent, live[t]}
      BY <1>o, <1>p, <3>1, <3>2 DEF Placed
    <3>4. QED
      BY <1>e, <2>1, <2>3, <3>2, <3>3
  <2>4. CASE pc = "reconcile"
    <3>1. live[t] # Installed(t) /\ Sane(t)
      BY <1>0, <1>t, <2>1, <2>4 DEF Loops, IsolateLoop, Tracked
    <3>2. QED
      BY <1>e, <2>1, <2>4, <3>1 DEF Sane, RollbackLabels, RetriedLabels
  <2>5. CASE pc \in {"isolate", "restoreBackup"}
    <3>1. Sane(t)
      <4>1. CASE pc = "isolate"
        <5>1. quarantine[t] = Absent
          BY <1>0, <1>t, <2>1, <4>1 DEF Loops, IsolateLoop
        <5>2. QED
          BY <1>0, <1>p, <1>t, <4>1, <5>1 DEF Tracked, Sane
      <4>2. CASE pc = "restoreBackup"
        <5>1. backup[t] = Absent /\ late[t] = Absent /\ quarantine[t] \in {Absent, Installed(t)}
          BY <1>0, <1>t, <2>1, <4>2 DEF Loops, PromoteLoop, PromoteLabels, Filled
        <5>2. QED
          BY <1>o, <1>p, <4>2, <5>1 DEF Sane, RollbackLabels, RetriedLabels
      <4>3. QED
        BY <2>5, <4>1, <4>2
    <3>2. /\ pc' = "reconcile" /\ UNCHANGED <<cur, failures, outcome, named, live, base>>
          /\ pc \in RollbackLabels /\ pc' \in RollbackLabels
      BY <2>1, <2>5 DEF NextAttempt, files, mutations, RollbackLabels, RetriedLabels
    <3>3. Tracked'
      BY <1>c, <1>n, <3>1, <3>2 DEF Tracked, RestoreLabels, PromoteLabels
    <3>4. QED
      BY <1>w, <3>2, <3>3
  <2>6. QED
    BY <2>1, <2>2, <2>3, <2>4, <2>5
<1>5. CASE DropTemp
  <2>1. /\ pc = "dropTemp" /\ UNCHANGED <<files, mutations>>
        /\ \/ NextMutation({}) /\ named' = named
           \/ \E hidden : Conflict(hidden)
           \/ pc' \in {"stashTemp", "rmStashedTemp"} /\ UNCHANGED <<cur, failures, outcome, named>>
    BY <1>5 DEF DropTemp, Remotely, Iterate
  <2>2. owner[t] = live[t]
    BY <1>0, <1>p, <1>t, <2>1 DEF Here, DropLabels, Placed
  <2>3. pc \in RollbackLabels
    BY <2>1 DEF RollbackLabels, LookLabels
  <2>4. pc' \in {"stashTemp", "rmStashedTemp"} => Tracked' /\ pc' \in RollbackLabels
    BY TrackedElsewhere DEF RestoreLabels, RollbackLabels, AfterRefusal
  <2>5. QED
    BY <1>d, <1>e, <1>w, <2>1, <2>2, <2>3, <2>4
<1>6. CASE StashTemp \/ RmStashedTemp \/ StashTarget \/ RmStash \/ RmTemp
  <2>1. /\ pc \in RollbackLabels /\ UNCHANGED <<cur, failures, outcome, named>>
        /\ pc' \in {"dropTemp", "removeTarget", "rmTemp", "checkRemoved"}
    BY <1>6 DEF StashTemp, RmStashedTemp, StashTarget, RmStash, RmTemp, Reply, Remotely, Goto, RollbackLabels,
       AfterRefusal, history
  <2>2. Tracked' /\ pc' \in RollbackLabels
    BY <2>1, TrackedElsewhere DEF RestoreLabels, RollbackLabels, AfterRefusal, LookLabels
  <2>3. QED
    BY <1>w, <2>1, <2>2
<1>7. CASE RemoveTarget \/ CheckRemoved
  <2>1. /\ pc \in {"removeTarget", "checkRemoved"} /\ UNCHANGED <<files, mutations>> /\ pc \in RollbackLabels
    BY <1>7 DEF RemoveTarget, CheckRemoved, Remotely, RollbackLabels, LookLabels
  <2>2. backup[t] = Absent /\ late[t] = Absent /\ temp[t] \in {Absent, Installed(t)}
    BY <1>0, <1>p, <1>t, <2>1 DEF Here, RemoveLabels, Placed
  <2>3. owner[t] \in {Absent, live[t], quarantine[t]} /\ owner[t] # Installed(t)
    BY <1>o, <1>p, <2>1, <2>2
  <2>4. CASE Conflict({quarantine[t]})
    BY <1>d, <2>1, <2>3, <2>4
  <2>5. CASE NextMutation({}) /\ CheckRemoved
    <3>1. quarantine[t] \in {Absent, Installed(t)} /\ named' = named
      BY <1>0, <1>t, <2>5 DEF Here, CheckRemoved, Remotely
    <3>2. QED
      BY <1>e, <2>1, <2>3, <2>5, <3>1
  <2>6. CASE pc' \in {"rmTemp", "stashTarget", "rmStash", "removeTarget"} /\ UNCHANGED <<cur, failures, outcome, named>>
    <3>1. Tracked' /\ pc' \in RollbackLabels
      BY <2>6, TrackedElsewhere DEF RestoreLabels, RollbackLabels, AfterRefusal, LookLabels
    <3>2. QED
      BY <1>w, <2>1, <2>6, <3>1
  <2>7. QED
    BY <1>7, <1>t, <2>2, <2>4, <2>5, <2>6 DEF RemoveTarget, CheckRemoved, Iterate, Goto
<1>8. CASE Reconcile
  <2>1. pc = "reconcile" /\ UNCHANGED <<mutations, live, temp, backup>> /\ pc \in RollbackLabels
    BY <1>8 DEF Reconcile, Remotely, RollbackLabels, RetriedLabels
  <2>2. Sane(t) /\ quarantine[t] \in {Absent, Installed(t)} /\ late[t] = Absent
    BY <1>0, <1>t, <2>1 DEF Tracked, Loops, IsolateLoop
  <2>3. CASE Restorable /\ Enter("isolate", "isolate") /\ FreshNames /\ named' = named
    <3>1. pc' = "isolate" /\ UNCHANGED <<cur, failures, outcome>> /\ pc' \in RollbackLabels
      BY <2>3 DEF Enter, RollbackLabels, RetriedLabels
    <3>2. Tracked'
      BY <1>c, <1>n, <2>1, <2>2, <3>1 DEF mutations, Tracked, PromoteLabels
    <3>3. QED
      BY <1>w, <2>1, <2>3, <3>1, <3>2
  <2>4. CASE ~Restorable
    <3>1. /\ Conflict(IF live[t] = Installed(t) THEN {backup[t]} ELSE {})
          /\ UNCHANGED <<files, mutations>>
      BY <1>8, <1>t, <2>1, <2>4 DEF Reconcile, files
    <3>2. owner[t] \in {Absent, live[t]} \cup (IF live[t] = Installed(t) THEN {backup[t]} ELSE {})
      BY <1>o, <1>p, <2>1, <2>2 DEF Sane
    <3>3. QED
      BY <1>d, <2>1, <3>1, <3>2
  <2>5. QED
    BY <1>8, <2>3, <2>4 DEF Reconcile
<1>9. CASE Isolate
  <2>1. pc = "isolate" /\ UNCHANGED <<files, mutations>> /\ pc \in RollbackLabels
    BY <1>9 DEF Isolate, Remotely, RollbackLabels, RetriedLabels
  <2>2. /\ \/ Sane(t)
           \/ live[t] = Absent /\ quarantine[t] \in {owner[t], Installed(t)}
        /\ original[t] # Absent /\ original[t] # Installed(t) /\ late[t] = Absent
        /\ live[t] = Installed(t) => quarantine[t] = Absent
    BY <1>0, <1>p, <1>t, <2>1 DEF Tracked, Here, RestoreLabels, Loops, IsolateLoop
  <2>3. CASE live[t] = original[t]
    <3>1. owner[t] \in {Absent, live[t]}
      BY <2>2, <2>3 DEF Sane
    <3>2. CASE Conflict(ForeignArtifact)
      BY <1>d, <2>1, <3>1, <3>2
    <3>3. CASE pc' = "discard" /\ UNCHANGED <<cur, failures, outcome, named>>
      <4>1. Tracked' /\ pc' \in RollbackLabels
        BY <1>b, <1>n, <2>1, <3>1, <3>3 DEF Tracked, PromoteLabels, files, RollbackLabels, AfterRefusal
      <4>2. QED
        BY <1>w, <2>1, <3>3, <4>1
    <3>4. QED
      BY <1>9, <1>t, <2>3, <3>2, <3>3 DEF Isolate, Cleanup
  <2>4. CASE Conflict({quarantine[t]}) /\ live[t] = Absent /\ quarantine[t] # Installed(t)
    <3>1. owner[t] \in {Absent, live[t], quarantine[t]}
      BY <1>p, <2>2, <2>4 DEF Sane
    <3>2. QED
      BY <1>d, <2>1, <2>4, <3>1
  <2>5. CASE Conflict({}) /\ live[t] # Absent /\ (live[t] # Installed(t) \/ quarantine[t] # Absent)
    <3>1. owner[t] \in {Absent, live[t]}
      BY <2>2, <2>5 DEF Sane
    <3>2. QED
      BY <1>d, <2>1, <2>5, <3>1
  <2>6. CASE /\ UNCHANGED <<cur, failures, outcome, named>>
             /\ \/ pc' = "isolateTarget" /\ live[t] = Installed(t)
                \/ pc' = "restoreBackup" /\ live[t] = Absent
    <3>1. live' = live /\ late' = late /\ base' = base /\ pc' \in RollbackLabels
      BY <2>1, <2>6 DEF files, mutations, RollbackLabels, RetriedLabels, AfterRefusal
    <3>2. pc' = "isolateTarget" => Sane(t)'
      BY <1>c, <2>6, <3>1 DEF Sane
    <3>3. Tracked'
      BY <1>n, <2>2, <2>6, <3>1, <3>2 DEF Tracked, PromoteLabels
    <3>4. QED
      BY <1>w, <2>1, <2>6, <3>1, <3>3
  <2>7. QED
    BY <1>9, <1>t, <2>3, <2>4, <2>5, <2>6 DEF Isolate, Iterate, Enter
<1>10. CASE IsolateTarget
  <2>1. /\ pc = "isolateTarget" /\ pc' = "isolate" /\ UNCHANGED <<cur, failures, outcome, named, base>>
        /\ pc \in RollbackLabels /\ pc' \in RollbackLabels
        /\ \/ live'[t] = Absent /\ quarantine'[t] = live[t]
           \/ live' = live
    BY <1>10, <1>s, <1>t DEF IsolateTarget, Remotely, Reply, Goto, history, mutations, RollbackLabels, AfterRefusal,
       RetriedLabels
  <2>2. Sane(t)
    BY <1>0, <1>t, <2>1 DEF Tracked
  <2>3. \/ Sane(t)'
        \/ live'[t] = Absent /\ quarantine'[t] \in {owner'[t], Installed(t)'}
    BY <1>b, <1>c, <1>i, <2>1, <2>2 DEF Sane
  <2>4. Tracked'
    BY <1>n, <2>1, <2>3 DEF Tracked, PromoteLabels
  <2>5. QED
    BY <1>w, <2>1, <2>4
<1>11. CASE RestoreBackup
  <2>1. pc = "restoreBackup" /\ UNCHANGED <<files, mutations>> /\ pc \in RollbackLabels
    BY <1>11 DEF RestoreBackup, Remotely, RollbackLabels, RetriedLabels
  <2>2. /\ late[t] # Absent => owner[t] \in {Absent, live[t], late[t]}
        /\ live[t] # Absent => owner[t] \in {Absent, live[t], late[t]}
        /\ original[t] # Absent
        /\ quarantine[t] \in {Absent, Installed(t)}
        /\ backup[t] # Absent => quarantine[t] = Installed(t) \/ temp[t] = Installed(t)
        /\ temp[t] \in {Absent, Installed(t)}
    BY <1>0, <1>p, <1>t, <2>1 DEF Tracked, Here, RestoreLabels, Loops, PromoteLoop, PromoteLabels, Placed
  <2>f. ForeignArtifact =
          IF late[t] # Absent THEN {late[t]}
          ELSE IF backup[t] \notin {Absent, original[t]} THEN {backup[t]}
          ELSE {}
    BY <1>t, <2>2 DEF ForeignArtifact
  <2>3. CASE Conflict(ForeignArtifact) /\ live[t] = original[t]
    BY <1>d, <2>1, <2>2, <2>3, <2>f
  <2>4. CASE Conflict({late[t]}) /\ late[t] # Absent
    BY <1>d, <2>1, <2>2, <2>4
  <2>5. CASE Conflict({}) /\ late[t] = Absent /\ live[t] # Absent
    BY <1>d, <2>1, <2>2, <2>5
  <2>6. CASE /\ Conflict(ForeignArtifact) /\ late[t] = Absent /\ live[t] = Absent
             /\ ForeignArtifact # {} \/ backup[t] = Absent
    <3>1. owner[t] \in {Absent, backup[t]} /\ ForeignArtifact = IF backup[t] = Absent THEN {} ELSE {backup[t]}
      BY <1>o, <1>p, <2>1, <2>2, <2>6, <2>f
    <3>2. QED
      BY <1>d, <2>1, <2>6, <3>1
  <2>7. CASE /\ UNCHANGED <<cur, failures, outcome, named>> /\ ForeignArtifact = {}
             /\ \/ pc' = "stashLate" /\ live[t] = Absent
                \/ pc' = "discard" /\ live[t] = original[t]
    <3>1. late[t] = Absent /\ live' = live /\ late' = late /\ pc' \in RollbackLabels
      BY <2>1, <2>7, <2>f DEF files, RollbackLabels, AfterRefusal
    <3>2. Tracked'
      BY <1>b, <1>n, <2>2, <2>7, <3>1 DEF Tracked, PromoteLabels
    <3>3. QED
      BY <1>w, <2>1, <2>7, <3>1, <3>2
  <2>8. ~(/\ ForeignArtifact = {} /\ live[t] = Absent /\ backup[t] = original[t]
          /\ quarantine[t] = Absent /\ temp[t] = Absent)
    BY <1>p, <2>2
  <2>9. CASE live[t] = original[t]
    BY <1>11, <1>t, <2>3, <2>7, <2>9 DEF RestoreBackup, Cleanup
  <2>10. CASE live[t] # original[t]
    <3>1. CASE late[t] = Absent /\ live[t] = Absent /\ (ForeignArtifact # {} \/ backup[t] = Absent)
               /\ Conflict(ForeignArtifact)
      BY <2>6, <3>1
    <3>2. CASE Iterate("stashLate") /\ named' = named /\ live[t] = Absent /\ ForeignArtifact = {}
      BY <2>7, <3>2 DEF Iterate
    <3>3. QED
      BY <1>11, <1>t, <2>4, <2>5, <2>8, <2>10, <3>1, <3>2 DEF RestoreBackup
  <2>11. QED
    BY <2>9, <2>10
<1>12. CASE StashLate
  <2>1. /\ pc = "stashLate" /\ pc' = "promoteBackup" /\ UNCHANGED <<cur, failures, outcome, named>>
        /\ pc \in RollbackLabels /\ pc' \in RollbackLabels
        /\ \/ live'[t] = Absent /\ late'[t] = live[t]
           \/ UNCHANGED <<live, late>>
    BY <1>12, <1>s, <1>t DEF StashLate, Remotely, Goto, history, RollbackLabels, AfterRefusal
  <2>2. late[t] = Absent /\ live[t] \in {Absent, owner[t]}
    BY <1>0, <1>t, <2>1 DEF Tracked, Here
  <2>3. Tracked'
    BY <1>b, <1>n, <2>1, <2>2 DEF Tracked, PromoteLabels
  <2>4. QED
    BY <1>w, <2>1, <2>3
<1>13. CASE PromoteBackup
  <2>1. /\ pc = "promoteBackup" /\ UNCHANGED <<cur, failures, outcome, named, late>>
        /\ pc \in RollbackLabels /\ pc' \in RollbackLabels
        /\ \/ pc' = "rmUnusedTemp" /\ live'[t] = backup[t] /\ live[t] = Absent
           \/ pc' = "restoreBackup" /\ live' = live /\ ~CanRename(backup, live)
    BY <1>13, <1>s, <1>t DEF PromoteBackup, CanRename, Remotely, Goto, history, RollbackLabels, AfterRefusal,
       RetriedLabels
  <2>2. /\ late[t] # Absent => owner[t] \in {Absent, live[t], late[t]}
        /\ live[t] \in {Absent, owner[t]} /\ quarantine[t] \in {Absent, Installed(t)}
    BY <1>0, <1>t, <2>1 DEF Tracked, Loops, PromoteLoop, PromoteLabels
  <2>3. CASE pc' = "rmUnusedTemp"
    <3>1. owner[t] \in {Absent, backup[t], late[t]}
      BY <1>o, <1>p, <2>1, <2>2, <2>3
    <3>2. Tracked'
      BY <1>b, <1>n, <2>1, <2>2, <2>3, <3>1 DEF Tracked, PromoteLabels
    <3>3. QED
      BY <1>w, <2>1, <3>2
  <2>4. CASE pc' = "restoreBackup"
    <3>1. Tracked'
      BY <1>b, <1>n, <2>1, <2>2, <2>4 DEF Tracked, PromoteLabels
    <3>2. QED
      BY <1>w, <2>1, <3>1
  <2>5. QED
    BY <2>1, <2>3, <2>4
<1>14. CASE RmUnusedTemp
  <2>1. /\ pc = "rmUnusedTemp" /\ pc' = "restoreBackup" /\ UNCHANGED <<cur, failures, outcome, named, live, late>>
        /\ pc \in RollbackLabels /\ pc' \in RollbackLabels
    BY <1>14 DEF RmUnusedTemp, Reply, Remotely, Goto, history, RollbackLabels, AfterRefusal, RetriedLabels
  <2>2. Tracked'
    BY <1>0, <1>b, <1>n, <1>t, <2>1 DEF Tracked, PromoteLabels
  <2>3. QED
    BY <1>w, <2>1, <2>2
<1>15. CASE Discard
  <2>1. /\ pc = "discard" /\ pc' = "checkRestored" /\ UNCHANGED <<cur, failures, outcome, named, live>>
        /\ pc \in RollbackLabels /\ pc' \in RollbackLabels
    BY <1>15 DEF Discard, Reply, Remotely, Goto, history, RollbackLabels, AfterRefusal, RetriedLabels
  <2>2. Tracked'
    BY <1>0, <1>b, <1>n, <1>t, <2>1 DEF Tracked, PromoteLabels
  <2>3. QED
    BY <1>w, <2>1, <2>2
<1>16. CASE CheckRestored
  <2>1. pc = "checkRestored" /\ UNCHANGED <<files, mutations, named>> /\ pc \in RollbackLabels
    BY <1>16 DEF CheckRestored, Remotely, RollbackLabels, RetriedLabels
  <2>2. owner[t] \in {Absent, live[t]} /\ late[t] = Absent
    BY <1>0, <1>t, <2>1 DEF Tracked, Here
  <2>3. CASE NextMutation({})
    BY <1>e, <2>1, <2>2, <2>3
  <2>4. CASE Goto(caller)
    <3>1. /\ pc' \in {"isolate", "restoreBackup"} /\ UNCHANGED <<cur, failures, outcome, live, late, base>>
          /\ pc' \in RollbackLabels
      BY <1>0, <2>1, <2>4 DEF Goto, files, mutations, TypeInv, StateOK, ControlOK, RollbackLabels, RetriedLabels
    <3>2. Tracked'
      BY <1>b, <1>c, <1>n, <2>2, <3>1 DEF Tracked, Sane, PromoteLabels
    <3>3. QED
      BY <1>w, <2>1, <3>1, <3>2
  <2>5. QED
    BY <1>16, <2>3, <2>4 DEF CheckRestored
<1>17. QED
  BY <1>1, <1>2, <1>3, <1>4, <1>5, <1>6, <1>7, <1>8, <1>9, <1>10, <1>11, <1>12, <1>13, <1>14, <1>15, <1>16
  DEF Rollback

\* An edit is on display, and what was tracked before it is either still true or told.
LEMMA EditTells ==
  ASSUME ToldInv, Unhindered, OwnerEdit
  PROVE  Telling' /\ Tracked'
<1>0. /\ TypeInv /\ Telling /\ Tracked /\ Now \in Targets /\ cur \in 1..Len(Plan) /\ pc # "done"
      /\ pc \in RollbackLabels => Now \in journal
  BY PlanIsTargets DEF ToldInv, KeptInv, TypeInv, StateOK, ControlOK, Now, Staged, Registered, OwnerEdit
<1>1. Edited
  BY <1>0, EditIsEdited
<1>2. /\ UNCHANGED <<quarantine, late, base, pc, cur, failures, outcome, named>>
      /\ Now' = Now /\ Installed(Now)' = Installed(Now)
  BY <1>1 DEF Edited, control, mutations, Now, Installed
<1>3. ASSUME NEW u \in Targets
      PROVE  (Told(u) => Told(u)') /\ (Sane(u) => Sane(u)')
  <2>1. /\ live'[u] = owner'[u] \/ (live'[u] = live[u] /\ owner'[u] = owner[u])
        /\ named' = named /\ Installed(u)' = Installed(u)
    BY <1>1, <1>2 DEF Edited, Installed
  <2>2. QED
    BY <2>1 DEF Told, Sane
<1>4. Telling'
  BY <1>0, <1>2, <1>3, PlanIsTargets DEF Telling, Settled, Waiting
<1>5. Tracked'
  <2>1. live'[Now] = owner'[Now] \/ (live'[Now] = live[Now] /\ owner'[Now] = owner[Now])
    BY <1>0, <1>1 DEF Edited
  <2>2. CASE live'[Now] = owner'[Now]
    BY <1>2, <2>2 DEF Tracked, Sane
  <2>3. CASE live'[Now] = live[Now] /\ owner'[Now] = owner[Now]
    BY <1>0, <1>2, <2>3 DEF Tracked, Sane
  <2>4. QED
    BY <2>1, <2>2, <2>3
<1>6. QED
  BY <1>4, <1>5

LEMMA ToldInitially == Init => ToldInv
<1> SUFFICES ASSUME Init PROVE ToldInv
  OBVIOUS
<1>1. KeptInv /\ ShapeInv /\ AloneInv /\ Faultless
  BY KeptInitially, ShapeHolds, AloneInitially DEF Init, Faultless
<1>2. Telling /\ Tracked
  BY PlanIsTargets DEF Init, Telling, Tracked, Settled, Sane, RollbackLabels, LookLabels, RetriedLabels, AfterRefusal,
     PromoteLabels
<1>3. QED
  BY <1>1, <1>2 DEF ToldInv

LEMMA ToldStep ==
  ASSUME ToldInv, ~posixRename, [Next]_vars
  PROVE  ToldInv'
<1>0. KeptInv' /\ ShapeInv' /\ AloneInv' /\ Faultless'
  BY KeptPreserved, ShapeStep, AloneStep, FaultlessStep DEF ToldInv, KeptInv
<1>1. ASSUME Unhindered'
      PROVE  Telling' /\ Tracked'
  <2>1. Unhindered /\ Alone /\ Alone' /\ ~CountFault /\ link = "up" /\ Telling /\ Tracked /\ TypeInv
    BY <1>1, UnhinderedStays DEF ToldInv, KeptInv
  <2>2. CASE Upload
    BY <2>1, <2>2, UploadTells
  <2>3. CASE Rollback
    BY <2>1, <2>3, RollbackTells
  <2>4. CASE OwnerEdit
    BY <2>1, <2>4, EditTells
  <2>5. CASE Crash
    <3>1. pc' = "done" /\ outcome' = "crashed" /\ failures' = failures
      BY <2>5 DEF Crash, Finish
    <3>2. QED
      BY <2>1, <3>1 DEF Telling, Tracked, Settled, Waiting, RollbackLabels, LookLabels, RetriedLabels, AfterRefusal,
         Forward, Uploading, Verifying, PromoteLabels
  <2>6. CASE UNCHANGED vars
    <3>1. /\ \A u \in Targets : Told(u)' = Told(u) /\ Sane(u)' = Sane(u)
          /\ UNCHANGED <<pc, cur, failures, outcome, live, owner, quarantine, late>>
          /\ Now' = Now /\ Installed(Now)' = Installed(Now) /\ Sane(Now)' = Sane(Now)
      BY <2>6 DEF vars, files, mutations, control, history, Told, Sane, Installed, Now
    <3>2. Telling'
      BY <2>1, <3>1, PlanIsTargets DEF Telling, Settled, Waiting
    <3>3. Tracked'
      BY <2>1, <3>1 DEF Tracked
    <3>4. QED
      BY <3>2, <3>3
  <2>7. ~Fault /\ ~LoseMaster /\ ~DeadBatch
    BY <2>1 DEF Fault, LoseMaster, DeadBatch
  <2>8. QED
    BY <2>2, <2>3, <2>4, <2>5, <2>6, <2>7 DEF Next, Installer, Terminated
<1>2. QED
  BY <1>0, <1>1 DEF ToldInv

\* An incomplete rollback that no fault hit shows the owner's latest content, or its
\* message names the place where it is hidden, provided fewer than five edits came in
\* its way (the messages of _RemoteStateConflict in front.py).
THEOREM ConflictsNameOwner == Spec => []ConflictNamesOwner
<1> DEFINE Refused == ~posixRename => ToldInv
<1>1. Init => Refused
  BY ToldInitially
<1>2. Refused /\ [Next /\ UNCHANGED posixRename]_<<vars, posixRename>> => Refused'
  BY ToldStep, StepIsNext
<1>3. Refused => ConflictNamesOwner
  BY DEF ToldInv, Unhindered, Telling, Told, ConflictNamesOwner
<1>4. QED
  BY <1>1, <1>2, <1>3, PTL DEF Spec

-------------------------------------------------------------------------------
\* A rollback that nothing comes in the way of.

\* Nobody edits, no fault hits the rollback, and no upload was cut short.
Calm == ~disturbed /\ edits = 0 /\ \A t \in Targets : temp[t] # Torn

\* What a switch that stopped anywhere leaves to a rollback.
Ready(t) ==
  t \in switched =>
    \/ live[t] = original[t] /\ backup[t] = Absent /\ temp[t] = Installed(t)
    \/ live[t] = Absent /\ backup[t] = original[t] /\ temp[t] = Installed(t)
    \/ live[t] = Installed(t) /\ backup[t] = original[t] /\ temp[t] = Absent

\* _cleanup_unswitched_temp takes two iterations, ...
DropSteady ==
  /\ pc = "dropTemp" =>
       /\ tries <= 2
       /\ temp[Now] # Absent => tries = 0 /\ quarantine[Now] = Absent
       /\ quarantine[Now] # Absent => tries = 1 /\ quarantine[Now] = Installed(Now)
  /\ pc = "stashTemp" => tries = 1
  /\ pc = "rmStashedTemp" => temp[Now] = Absent /\ tries <= 2

\* ... _remove_installed_target two, ...
RemoveSteady ==
  /\ pc = "removeTarget" =>
       /\ tries <= 1
       /\ \/ live[Now] = Absent /\ quarantine[Now] \in {Absent, Installed(Now)}
          \/ live[Now] = Installed(Now) /\ quarantine[Now] = Absent
  /\ pc = "stashTarget" => live[Now] = Installed(Now)
  /\ pc \in {"rmStash", "rmTemp", "checkRemoved"} => live[Now] = Absent
  /\ pc = "checkRemoved" => temp[Now] = Absent

\* ... and so do the loops of _restore_expected_backup.
RestoreSteady ==
  /\ pc = "reconcile" => outer = 0 /\ Ready(Now)
  /\ pc = "isolate" =>
       \/ tries = 0 /\ Ready(Now)
       \/ /\ tries = 1 /\ live[Now] = Absent /\ backup[Now] = original[Now]
          /\ quarantine[Now] = Installed(Now)
  /\ pc = "isolateTarget" => live[Now] = Installed(Now) /\ backup[Now] = original[Now]
  /\ pc \in {"discard", "checkRestored"} => live[Now] = original[Now]
  /\ pc = "restoreBackup" =>
       \/ tries = 0 /\ live[Now] = Absent /\ backup[Now] = original[Now]
       \/ tries = 1 /\ live[Now] = original[Now] /\ backup[Now] = Absent
  /\ pc \in PromoteLabels => late[Now] = Absent
  /\ pc \in {"stashLate", "promoteBackup"} =>
       live[Now] = Absent /\ backup[Now] = original[Now] /\ tries = 1
  /\ pc = "rmUnusedTemp" => live[Now] = original[Now] /\ backup[Now] = Absent /\ tries = 1

Within == DropSteady /\ RemoveSteady /\ RestoreSteady

\* A lost master fails whatever is left of the rollback, which finds it all again when
\* it is recovered; nothing else fails.
Steady ==
  /\ failures \subseteq {"transport"}
  /\ outcome # "incomplete"
  /\ pc = "promote" => live[Now] = Absent
  /\ \A i \in 1..Len(Plan) : Waiting(i) \/ link = "dead" => Ready(Plan[i])

CalmInv == ShapeInv /\ AloneInv /\ (Calm => Steady /\ Within)

\* The labels at which the rollback works on a target.
LEMMA WithinElsewhere ==
  ASSUME pc' \notin RollbackLabels
  PROVE  Within'
  BY DEF Within, DropSteady, RemoveSteady, RestoreSteady, PromoteLabels, RollbackLabels, LookLabels, RetriedLabels,
     AfterRefusal

\* An upload that was cut short stays where it is.
LEMMA TornStays ==
  ASSUME ShapeInv, [Next]_vars, ~OwnerEdit, NEW t \in Targets, temp[t] = Torn
  PROVE  temp'[t] = Torn
<1>0. TypeInv /\ Placed(t) /\ Installed(t) # Torn /\ Absent # Torn /\ t \notin switched /\ Here
  BY InstalledIsPage, FrontAssumption DEF ShapeInv, WholeInv, Shape, TypeInv, StateOK, MutationsOK, Placed
<1>1. CASE t # Now
  BY <1>0, <1>1, OthersAlone
<1>2. CASE t = Now
  <2>1. pc \notin Forward
    BY <1>0, <1>2 DEF ShapeInv, WholeInv, Whole, Progress, TypeInv, Staged
  <2>2. pc \notin {"stashTemp", "rmTemp", "rmUnusedTemp", "discard"}
    BY <1>0, <1>2 DEF TypeInv, Staged, Here, RemoveLabels, RestoreLabels
  <2>3. ~Upload
    BY <2>1 DEF Upload, ReadBase, SkipUnchanged, Snapshot, PutTemp, TornPut, Precheck, MoveAside, Promote, Chmod,
       VerifyPasses, VerifyFails, Teardown, Remotely, Forward, Uploading, Verifying
  <2>4. Rollback => temp' = temp
    BY <2>2 DEF Rollback, RollbackMutation, JournalDone, Recover, GiveUp, DropTemp, StashTemp, RmStashedTemp,
       RemoveTarget, StashTarget, RmStash, RmTemp, CheckRemoved, Reconcile, Isolate, IsolateTarget,
       RestoreBackup, StashLate, PromoteBackup, RmUnusedTemp, Discard, CheckRestored, Remotely, files
  <2>5. Fault \/ LoseMaster \/ DeadBatch \/ Crash \/ UNCHANGED vars => temp' = temp
    BY DEF Fault, LoseMaster, DeadBatch, Crash, vars, files
  <2>6. QED
    BY <2>3, <2>4, <2>5 DEF Next, Installer, Terminated
<1>3. QED
  BY <1>1, <1>2

\* Calm is not regained.
LEMMA CalmStays ==
  ASSUME ShapeInv, [Next]_vars, Calm'
  PROVE  Calm /\ ~OwnerEdit /\ Alone /\ Alone'
<1>0. TypeInv /\ edits \in Nat
  BY DEF ShapeInv, WholeInv, TypeInv, StateOK, HistoryOK
<1>1. ~OwnerEdit
  BY <1>0 DEF OwnerEdit, Calm
<1>2. Alone' /\ edits' = edits
  BY <1>1, OthersEditNothing DEF Calm, Alone
<1>3. Alone
  BY <1>0, <1>2, AloneStays
<1>4. \A t \in Targets : temp[t] # Torn
  BY <1>1, TornStays DEF Calm
<1>5. QED
  BY <1>1, <1>2, <1>3, <1>4 DEF Calm, Alone

\* What is not worked on is as ready as before.
LEMMA ReadyElsewhere ==
  ASSUME TypeInv, [Next]_vars, ~OwnerEdit, NEW t \in Targets,
         t # Now \/ UNCHANGED <<live, temp, backup, mutations>>
  PROVE  Ready(t)' = Ready(t)
<1>1. /\ live'[t] = live[t] /\ temp'[t] = temp[t] /\ backup'[t] = backup[t]
      /\ base'[t] = base[t] /\ original'[t] = original[t] /\ (t \in switched') = (t \in switched)
  BY OthersAlone DEF mutations
<1>2. QED
  BY <1>1 DEF Ready, Installed

\* The rollback goes on to the next target.
LEMMA SteadyNext ==
  ASSUME TypeInv, Steady, Next, ~OwnerEdit, pc \in RollbackLabels \cup {"dispatch"},
         NEW why \in SUBSET {"transport"}, NextMutation(why), UNCHANGED <<live, temp, backup, mutations>>
  PROVE  Steady' /\ Within'
<1>1. /\ pc' = IF cur = 1 THEN "journalDone" ELSE "dispatch"
      /\ cur' = IF cur = 1 THEN cur ELSE cur - 1
      /\ failures' = failures \cup why /\ outcome' = outcome /\ link' = link /\ cur \in 1..Len(Plan)
  BY DEF NextMutation, TypeInv, StateOK, ControlOK
<1>2. \A t \in Targets : Ready(t)' = Ready(t)
  BY ReadyElsewhere
<1>3. pc' \notin RollbackLabels /\ pc' \notin Forward /\ pc' # "promote"
  BY <1>1 DEF RollbackLabels, LookLabels, RetriedLabels, AfterRefusal, Forward, Uploading, Verifying
<1>4. ASSUME NEW i \in 1..Len(Plan), Waiting(i)' \/ link' = "dead"
      PROVE  Ready(Plan[i])'
  <2>1. Waiting(i) \/ link = "dead"
    BY <1>1, <1>3, <1>4, PlanLength DEF Waiting
  <2>2. QED
    BY <1>2, <2>1, PlanIsTargets DEF Steady
<1>5. QED
  BY <1>1, <1>3, <1>4, WithinElsewhere DEF Steady

\* A step of the current target's rollback.
LEMMA SteadyWithin ==
  ASSUME TypeInv, Steady, Next, ~OwnerEdit, pc \in RollbackLabels \cup {"dispatch"}, pc' \in RollbackLabels,
         UNCHANGED <<cur, failures, outcome, link>>,
         link = "dead" => UNCHANGED <<live, temp, backup, mutations>>
  PROVE  Steady'
<1>1. /\ cur \in 1..Len(Plan)
      /\ pc \notin Forward /\ pc' \notin Forward /\ pc' # "dispatch" /\ pc' # "promote"
  BY DEF TypeInv, StateOK, ControlOK, RollbackLabels, LookLabels, RetriedLabels, AfterRefusal, Forward, Uploading,
     Verifying
<1>2. ASSUME NEW i \in 1..Len(Plan), Waiting(i)' \/ link' = "dead"
      PROVE  Ready(Plan[i])'
  <2>1. \/ Waiting(i) /\ i # cur
        \/ link = "dead"
    BY <1>1, <1>2, PlanLength DEF Waiting
  <2>2. Plan[i] # Now \/ UNCHANGED <<live, temp, backup, mutations>>
    BY <1>1, <2>1, PlanOnce DEF Now
  <2>3. QED
    BY <2>1, <2>2, ReadyElsewhere, PlanIsTargets DEF Steady
<1>3. QED
  BY <1>1, <1>2 DEF Steady

\* The transaction, as long as it is not rolled back.
LEMMA SteadyForward ==
  ASSUME TypeInv, Steady, Next, ~OwnerEdit, pc \in Forward, pc' \notin RollbackLabels,
         UNCHANGED failures, outcome' # "incomplete",
         pc' = "promote" => live'[Now'] = Absent,
         Ready(Now) => \A t \in Targets : t = Now => Ready(t)'
  PROVE  Steady' /\ Within'
<1>1. \A i \in 1..Len(Plan) : Ready(Plan[i])
  BY DEF Steady, Waiting
<1>2. cur \in 1..Len(Plan) /\ Ready(Now)
  BY <1>1 DEF Now, TypeInv, StateOK, ControlOK
<1>3. \A i \in 1..Len(Plan) : Ready(Plan[i])'
  BY <1>1, <1>2, ReadyElsewhere, PlanIsTargets
<1>4. QED
  BY <1>3, WithinElsewhere DEF Steady

\* No rollback is under way, or a lost one begins anew.
LEMMA SteadyElsewhere ==
  ASSUME TypeInv, Steady, [Next]_vars, ~OwnerEdit, pc' \notin RollbackLabels \cup Forward,
         pc' = "dispatch" => link = "dead", link' = "dead" => link = "dead",
         UNCHANGED <<live, temp, backup, mutations>>,
         failures' \subseteq {"transport"}, outcome' # "incomplete"
  PROVE  Steady' /\ Within'
<1>1. \A t \in Targets : Ready(t)' = Ready(t)
  BY ReadyElsewhere
<1>2. \A i \in 1..Len(Plan) : Waiting(i)' \/ link' = "dead" => Ready(Plan[i])'
  BY <1>1, PlanIsTargets DEF Steady, Waiting
<1>3. pc' # "promote"
  BY DEF Forward, Uploading
<1>4. QED
  BY <1>2, <1>3, WithinElsewhere DEF Steady

LEMMA UploadSteady ==
  ASSUME CalmInv, Calm, Calm', Upload, ~OwnerEdit
  PROVE  Steady' /\ Within'
<1>0. /\ TypeInv /\ Next /\ Steady /\ Here /\ Now \in Targets
      /\ pc \in Forward => Progress
      /\ cur \in 1..Len(Plan)
  BY PlanIsTargets DEF CalmInv, ShapeInv, Shape, WholeInv, Whole, TypeInv, StateOK, ControlOK, Now, Next, Installer
<1>t. PICK t \in Targets : t = Now
  BY <1>0
<1>p. Placed(t) /\ Installed(t) # Absent /\ Installed(t) # Torn /\ Absent # Torn
  BY <1>0, InstalledIsPage, FrontAssumption DEF CalmInv, ShapeInv, Shape, TypeInv, StateOK, MutationsOK
<1>s. \A page :
           /\ Set(live, page)[t] = page /\ Set(temp, page)[t] = page
           /\ Set(backup, page)[t] = page /\ Set(quarantine, page)[t] = page
           /\ Set(late, page)[t] = page
           /\ Set(base, page)[t] = page /\ Set(original, page)[t] = page
  BY <1>0, <1>t, SetNow
<1>n. cur' = cur => Now' = t
  BY <1>t DEF Now
<1>i. UNCHANGED base => Installed(t)' = Installed(t)
  BY DEF Installed
<1>f. pc \in Forward /\ pc' \notin RollbackLabels /\ UNCHANGED failures /\ outcome' # "incomplete"
  <2>1. pc \in Forward
    BY DEF Upload, ReadBase, SkipUnchanged, Snapshot, PutTemp, TornPut, Precheck, MoveAside, Promote, Chmod,
       VerifyPasses, VerifyFails, Teardown, Remotely, Forward, Uploading, Verifying
  <2>2. CASE PutTemp \/ TornPut
    <3>1. Goto("precheck") \/ \E kind \in {"transport", "error", "interrupt"} : Raise(kind) /\ pc = "put"
      BY <2>2 DEF PutTemp, TornPut, Remotely, Reply
    <3>2. Goto("precheck") \/ StartRollback
      BY <3>1 DEF Raise, LookLabels, RetriedLabels, AfterRefusal
    <3>3. QED
      BY <1>0, <2>1, <3>2 DEF Goto, StartRollback, Steady, RollbackLabels, LookLabels, RetriedLabels, AfterRefusal
  <2>3. CASE ~PutTemp /\ ~TornPut
    <3>1. outcome # "incomplete"
      BY <1>0 DEF Steady
    <3>2. /\ UNCHANGED failures /\ outcome' \in {outcome, "committed", "unreported"}
          /\ pc' \in Forward \cup {"dispatch", "done"}
      BY <2>3 DEF Upload, ReadBase, SkipUnchanged, Snapshot, Precheck, MoveAside, Promote, Chmod, VerifyPasses,
         VerifyFails, Teardown, Remotely, NextUpload, StartRollback, Goto, Finish, Forward, Uploading, Verifying
    <3>3. QED
      BY <2>1, <3>1, <3>2 DEF RollbackLabels, LookLabels, RetriedLabels, AfterRefusal, Forward, Uploading, Verifying
  <2>4. QED
    BY <2>2, <2>3
<1>w. ASSUME pc' # "promote", Ready(t) => Ready(t)'
      PROVE  Steady' /\ Within'
  BY <1>0, <1>f, <1>t, <1>w, SteadyForward
<1>u. ASSUME pc' # "promote", t \notin switched'
      PROVE  Steady' /\ Within'
  BY <1>w, <1>u DEF Ready
<1>1. CASE ReadBase \/ Snapshot \/ PutTemp
  <2>1. t \notin switched
    BY <1>0, <1>f, <1>t, <1>1 DEF ReadBase, Snapshot, PutTemp, Remotely, Progress
  <2>2. switched' = switched /\ pc' # "promote"
    BY <1>1 DEF ReadBase, Snapshot, PutTemp, Remotely, Goto, Reply, Raise, StartRollback, UploadLabels, mutations,
       LookLabels, RetriedLabels, AfterRefusal
  <2>3. QED
    BY <1>u, <2>1, <2>2
<1>2. CASE TornPut
  BY <1>2, <1>s DEF TornPut, Calm
<1>3. CASE SkipUnchanged \/ Chmod \/ VerifyPasses \/ VerifyFails \/ Teardown
  <2>1. UNCHANGED <<files, mutations>> /\ pc' # "promote"
    BY <1>3 DEF SkipUnchanged, Chmod, VerifyPasses, VerifyFails, Teardown, NextUpload, StartRollback, Goto, Finish
  <2>2. Ready(t)' = Ready(t)
    BY <2>1 DEF files, mutations, Ready, Installed
  <2>3. QED
    BY <1>w, <2>1, <2>2
<1>4. CASE Precheck
  <2>1. /\ pc = "precheck" /\ UNCHANGED <<files, base, original>>
        /\ \/ /\ live[t] = original[t] /\ switched' = switched \cup {t} /\ cur' = cur
              /\ pc' = IF original[t] = Absent THEN "promote" ELSE "moveAside"
           \/ pc' # "promote" /\ switched' = switched
    BY <1>4, <1>t DEF Precheck, Remotely, Goto, StartRollback
  <2>2. t \notin switched /\ backup[t] = Absent /\ temp[t] = Installed(t)
    BY <1>0, <1>f, <1>p, <1>t, <2>1 DEF Progress, Placed, TypeInv, Staged
  <2>3. Ready(t)'
    BY <1>i, <2>1, <2>2 DEF Ready, files
  <2>4. pc' = "promote" => live'[Now'] = Absent
    BY <1>n, <2>1 DEF files
  <2>5. QED
    BY <1>0, <1>f, <1>t, <2>3, <2>4, SteadyForward
<1>5. CASE MoveAside
  <2>1. /\ pc = "moveAside" /\ UNCHANGED <<temp, mutations>>
        /\ \/ CanRename(live, backup) /\ backup'[t] = live[t] /\ live'[t] = Absent /\ cur' = cur
           \/ UNCHANGED <<live, backup>> /\ pc' # "promote"
    BY <1>5, <1>s, <1>t DEF MoveAside, Remotely, Goto, StartRollback
  <2>2. t \in switched /\ original[t] # Absent /\ backup[t] = Absent /\ temp[t] = Installed(t) /\ Ready(t)
    BY <1>0, <1>f, <1>t, <2>1 DEF Progress, Here, TypeInv, Staged, Steady, Waiting, Now
  <2>3. live[t] = original[t]
    BY <2>2 DEF Ready
  <2>4. Ready(t)' /\ (pc' = "promote" => live'[Now'] = Absent)
    BY <1>i, <1>n, <2>1, <2>2, <2>3 DEF Ready, mutations
  <2>5. QED
    BY <1>0, <1>f, <1>t, <2>4, SteadyForward
<1>6. CASE Promote
  <2>1. /\ pc = "promote" /\ UNCHANGED <<backup, mutations>> /\ pc' # "promote"
        /\ \/ live'[t] = temp[t] /\ temp'[t] = Absent
           \/ UNCHANGED <<live, temp>>
    BY <1>6, <1>s, <1>t DEF Promote, Remotely, Goto, StartRollback
  <2>2. temp[t] = Installed(t) /\ live[t] = Absent /\ Ready(t)
    BY <1>0, <1>f, <1>t, <2>1 DEF TypeInv, Staged, Steady, Waiting, Now
  <2>3. Ready(t)'
    BY <1>i, <1>p, <2>1, <2>2 DEF Ready, Placed, mutations
  <2>4. QED
    BY <1>w, <2>1, <2>3
<1>7. QED
  BY <1>1, <1>2, <1>3, <1>4, <1>5, <1>6 DEF Upload

LEMMA RollbackSteady ==
  ASSUME CalmInv, Calm, Calm', Alone, Alone', Rollback, ~OwnerEdit
  PROVE  Steady' /\ Within'
<1>0. /\ TypeInv /\ Next /\ Steady /\ Within /\ Here /\ Now \in Targets /\ cur \in 1..Len(Plan)
      /\ Stashes /\ Loops /\ tries \in Nat /\ outer \in Nat
  BY PlanIsTargets DEF CalmInv, ShapeInv, Shape, AloneInv, WholeInv, TypeInv, StateOK, ControlOK, Now, Next, Installer
<1>t. PICK t \in Targets : t = Now
  BY <1>0
<1>p. /\ Placed(t) /\ Installed(t) # Absent /\ switched \subseteq journal
      /\ pc \in RollbackLabels => t \in journal
      /\ t \in journal => original[t] # Installed(t)
      /\ temp[t] \in {Absent, Installed(t)}
  <2>1. Placed(t) /\ Installed(t) # Absent /\ (pc \in RollbackLabels => t \in journal) /\ switched \subseteq journal
    BY <1>0, <1>t, InstalledIsPage, FrontAssumption DEF CalmInv, ShapeInv, Shape, TypeInv, StateOK, MutationsOK,
       Staged,
       Registered
  <2>2. QED
    BY <2>1 DEF Placed, Calm
<1>s. \A page :
           /\ Set(live, page)[t] = page /\ Set(temp, page)[t] = page
           /\ Set(backup, page)[t] = page /\ Set(quarantine, page)[t] = page
           /\ Set(late, page)[t] = page
           /\ Set(base, page)[t] = page /\ Set(original, page)[t] = page
  BY <1>0, <1>t, SetNow
<1>n. cur' = cur => Now' = t
  BY <1>t DEF Now
<1>i. UNCHANGED base => Installed(t)' = Installed(t)
  BY DEF Installed
<1>c. UNCHANGED <<live, temp, backup, mutations>> => Ready(t)' = Ready(t)
  BY DEF Ready, Installed, mutations
<1>f. ~CountFault \/ pc \notin RollbackLabels \cup {"journalDone", "recover"}
  BY FaultDisturbs
<1>e. ASSUME NextMutation({}), UNCHANGED <<live, temp, backup, mutations>>, pc \in RollbackLabels \cup {"dispatch"}
      PROVE  Steady' /\ Within'
  BY <1>0, <1>e, SteadyNext
<1>w. ASSUME pc \in RollbackLabels \cup {"dispatch"}, pc' \in RollbackLabels, link = "up",
             UNCHANGED <<cur, failures, outcome, link>>, Within'
      PROVE  Steady' /\ Within'
  BY <1>0, <1>w, SteadyWithin
<1>1. CASE RollbackMutation
  <2>1. CASE t \in journal
    <3>1. /\ pc = "dispatch" /\ UNCHANGED <<cur, tries, outer, failures, outcome, link, live, temp, backup, mutations>>
          /\ pc' = IF t \notin switched THEN "dropTemp"
                   ELSE IF original[t] = Absent THEN "removeTarget"
                   ELSE "reconcile"
          /\ quarantine'[t] = Absent
      BY <1>1, <1>s, <1>t, <2>1 DEF RollbackMutation, Goto, FreshNames
    <3>2. tries = 0 /\ outer = 0 /\ Ready(t)
      BY <1>0, <1>t, <3>1 DEF Loops, Fresh, Steady, Waiting, Now
    <3>3. Steady'
      BY <1>0, <3>1, SteadyWithin DEF RollbackLabels, LookLabels, RetriedLabels
    <3>4. pc' = "removeTarget" => live[t] \in {Absent, Installed(t)}
      BY <3>1, <3>2 DEF Ready
    <3>5. Within'
      BY <1>c, <1>i, <1>n, <3>1, <3>2, <3>4
      DEF Within, DropSteady, RemoveSteady, RestoreSteady, PromoteLabels, mutations
    <3>6. QED
      BY <3>3, <3>5
  <2>2. CASE t \notin journal
    BY <1>1, <1>e, <1>t, <2>2 DEF RollbackMutation
  <2>3. QED
    BY <2>1, <2>2
<1>2. CASE JournalDone
  <2>1. pc = "journalDone" /\ ~CountFault /\ UNCHANGED <<files, mutations>>
    BY <1>2, <1>f DEF JournalDone
  <2>2. ~(failures # {} /\ ~(failures = {"transport"} /\ pass = 1))
    BY <1>0 DEF Steady, Stashes, TypeInv, StateOK, ControlOK
  <2>3. Finish("restored") \/ Goto("recover")
    BY <1>2, <2>1, <2>2 DEF JournalDone
  <2>4. /\ pc' \in {"done", "recover"} /\ UNCHANGED <<failures, link>> /\ outcome' \in {outcome, "restored"}
    BY <2>3 DEF Finish, Goto
  <2>5. pc' \notin RollbackLabels \cup Forward /\ pc' # "dispatch"
    BY <2>4 DEF RollbackLabels, LookLabels, RetriedLabels, AfterRefusal, Forward, Uploading, Verifying
  <2>6. failures' \subseteq {"transport"} /\ outcome' # "incomplete"
    BY <1>0, <2>4 DEF Steady
  <2>7. UNCHANGED <<live, temp, backup, mutations>>
    BY <2>1 DEF files
  <2>8. QED
    BY <1>0, <2>4, <2>5, <2>6, <2>7, SteadyElsewhere
<1>3. CASE Recover
  <2>1. pc = "recover" /\ ~CountFault /\ UNCHANGED <<files, mutations>>
    BY <1>3, <1>f DEF Recover
  <2>2. pc' = "dispatch" /\ failures' = {} /\ link' = "up" /\ outcome' = outcome
    BY <1>3, <2>1 DEF Recover
  <2>3. link = "dead"
    BY <1>0, <2>1 DEF Loops, Fresh, Stashes
  <2>4. outcome # "incomplete"
    BY <1>0 DEF Steady
  <2>5. pc' \notin RollbackLabels \cup Forward
    BY <2>2 DEF RollbackLabels, LookLabels, RetriedLabels, AfterRefusal, Forward, Uploading, Verifying
  <2>6. UNCHANGED <<live, temp, backup, mutations>>
    BY <2>1 DEF files
  <2>7. QED
    BY <1>0, <2>2, <2>3, <2>4, <2>5, <2>6, SteadyElsewhere
<1>4. CASE GiveUp
  BY <1>0, <1>4 DEF GiveUp, Exhausted, Within, DropSteady, RemoveSteady, RestoreSteady
<1>5. CASE DropTemp
  <2>1. /\ pc = "dropTemp" /\ UNCHANGED <<files, mutations>> /\ link = "up"
        /\ pc \in RollbackLabels
    BY <1>5 DEF DropTemp, Remotely, RollbackLabels, LookLabels
  <2>2. /\ tries <= 2
        /\ temp[t] # Absent => tries = 0 /\ quarantine[t] = Absent
        /\ quarantine[t] # Absent => tries = 1 /\ quarantine[t] = Installed(t)
    BY <1>0, <1>t, <2>1 DEF Within, DropSteady
  <2>3. CASE NextMutation({})
    BY <1>e, <2>1, <2>3 DEF files
  <2>4. CASE ~NextMutation({})
    <3>1. /\ UNCHANGED <<cur, failures, outcome, link>> /\ tries' = tries + 1
          /\ \/ pc' = "stashTemp" /\ temp[t] # Absent
             \/ pc' = "rmStashedTemp" /\ temp[t] = Absent /\ quarantine[t] # Absent
      BY <1>5, <1>p, <1>t, <2>2, <2>4 DEF DropTemp, Iterate
    <3>2. temp' = temp
      BY <2>1 DEF files
    <3>3. Within'
      BY <1>0, <1>n, <2>2, <3>1, <3>2 DEF Within, DropSteady, RemoveSteady, RestoreSteady, PromoteLabels
    <3>4. QED
      BY <1>w, <2>1, <3>1, <3>3 DEF RollbackLabels, AfterRefusal
  <2>5. QED
    BY <2>3, <2>4
<1>6. CASE StashTemp \/ RmStashedTemp
  <2>1. /\ pc \in RollbackLabels /\ link = "up"
        /\ pc' = "dropTemp" /\ UNCHANGED <<cur, tries, failures, outcome, link, base>>
        /\ \/ pc = "stashTemp" /\ temp'[t] = Absent /\ quarantine'[t] = temp[t]
           \/ pc = "rmStashedTemp" /\ temp' = temp /\ quarantine'[t] = Absent
    BY <1>6, <1>f, <1>s, <1>t DEF StashTemp, RmStashedTemp, Remotely, Reply, Goto, RollbackLabels,
       AfterRefusal, mutations
  <2>2. /\ pc = "stashTemp" => tries = 1
        /\ pc = "rmStashedTemp" => temp[t] = Absent /\ tries <= 2
    BY <1>0, <1>t, <2>1 DEF Within, DropSteady
  <2>3. Within'
    BY <1>0, <1>i, <1>n, <1>p, <2>1, <2>2 DEF Within, DropSteady, RemoveSteady, RestoreSteady, PromoteLabels
  <2>4. QED
    BY <1>w, <2>1, <2>3 DEF RollbackLabels, LookLabels
<1>7. CASE RemoveTarget
  <2>1. /\ pc = "removeTarget" /\ UNCHANGED <<files, mutations>> /\ link = "up" /\ pc \in RollbackLabels
    BY <1>7 DEF RemoveTarget, Remotely, RollbackLabels, LookLabels
  <2>2. /\ tries <= 1 /\ backup[t] = Absent
        /\ \/ live[t] = Absent /\ quarantine[t] \in {Absent, Installed(t)}
           \/ live[t] = Installed(t) /\ quarantine[t] = Absent
    BY <1>0, <1>p, <1>t, <2>1 DEF Within, RemoveSteady, Here, RemoveLabels, Placed
  <2>3. /\ UNCHANGED <<cur, failures, outcome, link>>
        /\ \/ pc' = "rmTemp" /\ live[t] = Absent
           \/ pc' = "stashTarget" /\ live[t] = Installed(t)
           \/ pc' = "rmStash" /\ live[t] = Absent
    BY <1>7, <1>p, <1>t, <2>2 DEF RemoveTarget, Iterate
  <2>4. Within'
    BY <1>i, <1>n, <2>1, <2>3
    DEF Within, DropSteady, RemoveSteady, RestoreSteady, PromoteLabels, files, mutations
  <2>5. QED
    BY <1>w, <2>1, <2>3, <2>4 DEF RollbackLabels, AfterRefusal
<1>8. CASE StashTarget
  <2>1. /\ pc = "stashTarget" /\ pc' = "removeTarget" /\ link = "up"
        /\ UNCHANGED <<cur, tries, failures, outcome, link, base>>
        /\ IF CanRename(live, quarantine) THEN quarantine'[t] = live[t] /\ live'[t] = Absent
                                          ELSE UNCHANGED <<live, quarantine>>
    BY <1>8, <1>f, <1>s, <1>t DEF StashTarget, Remotely, Reply, Goto, RollbackLabels, AfterRefusal, mutations
  <2>2. live[t] = Installed(t) /\ tries = 1 /\ quarantine[t] = Absent
    BY <1>0, <1>t, <2>1 DEF Within, RemoveSteady, Loops, RemoveLoop, Here
  <2>3. quarantine'[t] = Installed(t)' /\ live'[t] = Absent
    BY <1>i, <1>p, <1>t, <2>1, <2>2 DEF CanRename
  <2>4. Within'
    BY <1>n, <2>1, <2>2, <2>3 DEF Within, DropSteady, RemoveSteady, RestoreSteady, PromoteLabels
  <2>5. QED
    BY <1>w, <2>1, <2>4 DEF RollbackLabels, LookLabels, AfterRefusal
<1>9. CASE RmStash \/ RmTemp
  <2>1. /\ pc \in {"rmStash", "rmTemp"} /\ link = "up" /\ UNCHANGED <<cur, failures, outcome, link, live>>
        /\ pc' = "rmTemp" \/ (pc' = "checkRemoved" /\ temp'[t] = Absent)
    BY <1>9, <1>f, <1>s, <1>t DEF RmStash, RmTemp, Remotely, Reply, Goto, RollbackLabels, AfterRefusal
  <2>2. live[t] = Absent
    BY <1>0, <1>t, <2>1 DEF Within, RemoveSteady
  <2>3. Within'
    BY <1>n, <2>1, <2>2 DEF Within, DropSteady, RemoveSteady, RestoreSteady, PromoteLabels
  <2>4. QED
    BY <1>w, <2>1, <2>3 DEF RollbackLabels, LookLabels, AfterRefusal
<1>10. CASE CheckRemoved
  <2>1. pc = "checkRemoved" /\ UNCHANGED <<files, mutations>> /\ pc \in RollbackLabels
    BY <1>10 DEF CheckRemoved, Remotely, RollbackLabels, LookLabels
  <2>2. IsRestored
    BY <1>0, <1>p, <1>t, <2>1 DEF Within, RemoveSteady, IsRestored, Here, RemoveLabels, Placed
  <2>3. NextMutation({})
    BY <1>10, <2>2 DEF CheckRemoved
  <2>4. QED
    BY <1>e, <2>1, <2>3 DEF files
<1>11. CASE Reconcile
  <2>1. /\ pc = "reconcile" /\ UNCHANGED <<live, temp, backup, mutations>> /\ link = "up" /\ pc \in RollbackLabels
    BY <1>11 DEF Reconcile, Remotely, RollbackLabels, RetriedLabels
  <2>2. Ready(t) /\ t \in switched
    BY <1>0, <1>t, <2>1 DEF Within, RestoreSteady, Here
  <2>3. Restorable
    BY <1>t, <2>2 DEF Ready, Restorable
  <2>4. pc' = "isolate" /\ tries' = 0 /\ UNCHANGED <<cur, failures, outcome, link>>
    BY <1>11, <2>3 DEF Reconcile, Enter
  <2>5. Within'
    BY <1>c, <1>n, <2>1, <2>2, <2>4 DEF Within, DropSteady, RemoveSteady, RestoreSteady, PromoteLabels
  <2>6. QED
    BY <1>w, <2>1, <2>4, <2>5 DEF RollbackLabels, RetriedLabels
<1>12. CASE Isolate
  <2>1. pc = "isolate" /\ UNCHANGED <<files, mutations>> /\ link = "up" /\ pc \in RollbackLabels
    BY <1>12 DEF Isolate, Remotely, RollbackLabels, RetriedLabels
  <2>2. /\ \/ tries = 0 /\ Ready(t)
           \/ tries = 1 /\ live[t] = Absent /\ backup[t] = original[t] /\ quarantine[t] = Installed(t)
        /\ t \in switched /\ original[t] # Absent /\ original[t] # Installed(t) /\ late[t] = Absent
        /\ tries = 0 => quarantine[t] = Absent
    BY <1>0, <1>p, <1>t, <2>1 DEF Within, RestoreSteady, Here, RestoreLabels, Loops, IsolateLoop
  <2>3. CASE live[t] = original[t]
    <3>1. backup[t] = Absent /\ quarantine[t] = Absent
      BY <1>p, <2>2, <2>3 DEF Ready
    <3>2. ForeignArtifact = {}
      BY <1>p, <1>t, <2>2, <3>1 DEF ForeignArtifact
    <3>3. pc' = "discard" /\ UNCHANGED <<cur, failures, outcome, link>>
      BY <1>12, <1>t, <2>3, <3>2 DEF Isolate, Cleanup
    <3>4. Within'
      BY <1>n, <2>1, <2>3, <3>3
      DEF Within, DropSteady, RemoveSteady, RestoreSteady, PromoteLabels, files, mutations
    <3>5. QED
      BY <1>w, <2>1, <3>3, <3>4 DEF RollbackLabels, AfterRefusal
  <2>4. CASE live[t] = Installed(t)
    <3>1. tries = 0 /\ backup[t] = original[t] /\ quarantine[t] = Absent /\ live[t] # Absent
      BY <1>p, <2>2, <2>4 DEF Ready
    <3>2. pc' = "isolateTarget" /\ UNCHANGED <<cur, failures, outcome, link>>
      BY <1>12, <1>t, <2>2, <2>4, <3>1 DEF Isolate, Iterate
    <3>3. Within'
      BY <1>i, <1>n, <2>1, <2>4, <3>1, <3>2
      DEF Within, DropSteady, RemoveSteady, RestoreSteady, PromoteLabels, files, mutations
    <3>4. QED
      BY <1>w, <2>1, <3>2, <3>3 DEF RollbackLabels, AfterRefusal
  <2>5. CASE live[t] = Absent
    <3>1. /\ backup[t] = original[t]
          /\ quarantine[t] = Installed(t) \/ HalfSwitched
      BY <1>p, <1>t, <2>2, <2>5 DEF Ready, HalfSwitched
    <3>2. pc' = "restoreBackup" /\ tries' = 0 /\ UNCHANGED <<cur, failures, outcome, link>>
      BY <1>12, <1>p, <1>t, <2>2, <2>5, <3>1 DEF Isolate, Enter
    <3>3. Within'
      BY <1>n, <2>1, <2>2, <2>5, <3>1, <3>2
      DEF Within, DropSteady, RemoveSteady, RestoreSteady, PromoteLabels, files, mutations
    <3>4. QED
      BY <1>w, <2>1, <3>2, <3>3 DEF RollbackLabels, RetriedLabels
  <2>6. QED
    BY <2>2, <2>3, <2>4, <2>5 DEF Ready
<1>13. CASE IsolateTarget
  <2>1. /\ pc = "isolateTarget" /\ pc' = "isolate" /\ link = "up"
        /\ UNCHANGED <<cur, tries, failures, outcome, link, backup, mutations>>
        /\ IF CanRename(live, quarantine) THEN quarantine'[t] = live[t] /\ live'[t] = Absent
                                          ELSE UNCHANGED <<live, quarantine>>
    BY <1>13, <1>f, <1>s, <1>t DEF IsolateTarget, Remotely, Reply, Goto, RollbackLabels, AfterRefusal
  <2>2. live[t] = Installed(t) /\ tries = 1 /\ quarantine[t] = Absent /\ backup[t] = original[t]
    BY <1>0, <1>t, <2>1 DEF Within, RestoreSteady, Loops, IsolateLoop, Here
  <2>3. quarantine'[t] = Installed(t)' /\ live'[t] = Absent
    BY <1>i, <1>p, <1>t, <2>1, <2>2 DEF CanRename, mutations
  <2>4. Within'
    BY <1>n, <2>1, <2>2, <2>3 DEF Within, DropSteady, RemoveSteady, RestoreSteady, PromoteLabels, mutations
  <2>5. QED
    BY <1>w, <2>1, <2>4 DEF RollbackLabels, RetriedLabels, AfterRefusal
<1>14. CASE RestoreBackup
  <2>1. pc = "restoreBackup" /\ UNCHANGED <<files, mutations>> /\ link = "up" /\ pc \in RollbackLabels
    BY <1>14 DEF RestoreBackup, Remotely, RollbackLabels, RetriedLabels
  <2>2. /\ \/ tries = 0 /\ live[t] = Absent /\ backup[t] = original[t]
           \/ tries = 1 /\ live[t] = original[t] /\ backup[t] = Absent
        /\ late[t] = Absent /\ original[t] # Absent
        /\ quarantine[t] \in {Absent, Installed(t)}
        /\ backup[t] # Absent => quarantine[t] = Installed(t) \/ temp[t] = Installed(t)
    BY <1>0, <1>t, <2>1 DEF Within, RestoreSteady, Here, RestoreLabels, Loops, PromoteLoop, PromoteLabels
  <2>3. ForeignArtifact = {}
    BY <1>p, <1>t, <2>2 DEF ForeignArtifact
  <2>4. CASE live[t] = original[t]
    <3>1. pc' = "discard" /\ UNCHANGED <<cur, failures, outcome, link>>
      BY <1>14, <1>t, <2>3, <2>4 DEF RestoreBackup, Cleanup
    <3>2. Within'
      BY <1>n, <2>1, <2>4, <3>1
      DEF Within, DropSteady, RemoveSteady, RestoreSteady, PromoteLabels, files, mutations
    <3>3. QED
      BY <1>w, <2>1, <3>1, <3>2 DEF RollbackLabels, AfterRefusal
  <2>5. CASE live[t] # original[t]
    <3>1. tries = 0 /\ live[t] = Absent /\ backup[t] = original[t]
      BY <2>2, <2>5
    <3>2. pc' = "stashLate" /\ tries' = 1 /\ UNCHANGED <<cur, failures, outcome, link>>
      BY <1>14, <1>p, <1>t, <2>2, <2>3, <2>5, <3>1 DEF RestoreBackup, Iterate
    <3>3. Within'
      BY <1>n, <2>1, <2>2, <3>1, <3>2
      DEF Within, DropSteady, RemoveSteady, RestoreSteady, PromoteLabels, files, mutations
    <3>4. QED
      BY <1>w, <2>1, <3>2, <3>3 DEF RollbackLabels, AfterRefusal
  <2>6. QED
    BY <2>4, <2>5
<1>15. CASE StashLate
  <2>1. /\ pc = "stashLate" /\ live[t] = Absent /\ backup[t] = original[t] /\ tries = 1 /\ late[t] = Absent
    BY <1>0, <1>15, <1>t DEF StashLate, Remotely, Within, RestoreSteady, PromoteLabels
  <2>2. /\ UNCHANGED <<live, late, backup, mutations>> /\ pc' = "promoteBackup"
        /\ UNCHANGED <<cur, tries, failures, outcome, link>> /\ link = "up"
    BY <1>15, <1>t, <2>1 DEF StashLate, Remotely, CanRename, Goto
  <2>3. Within'
    BY <1>n, <2>1, <2>2 DEF Within, DropSteady, RemoveSteady, RestoreSteady, PromoteLabels, mutations
  <2>4. QED
    BY <1>w, <2>1, <2>2, <2>3 DEF RollbackLabels, AfterRefusal
<1>16. CASE PromoteBackup
  <2>1. /\ pc = "promoteBackup" /\ live[t] = Absent /\ backup[t] = original[t] /\ tries = 1 /\ late[t] = Absent
        /\ original[t] # Absent
    BY <1>0, <1>16, <1>t DEF PromoteBackup, Remotely, Within, RestoreSteady, PromoteLabels, Here, RestoreLabels
  <2>2. /\ live'[t] = original[t] /\ backup'[t] = Absent /\ UNCHANGED <<late, mutations>> /\ pc' = "rmUnusedTemp"
        /\ UNCHANGED <<cur, tries, failures, outcome, link>> /\ link = "up"
    BY <1>16, <1>s, <1>t, <2>1 DEF PromoteBackup, Remotely, CanRename, Goto
  <2>3. Within'
    BY <1>n, <2>1, <2>2 DEF Within, DropSteady, RemoveSteady, RestoreSteady, PromoteLabels, mutations
  <2>4. QED
    BY <1>w, <2>1, <2>2, <2>3 DEF RollbackLabels, AfterRefusal
<1>17. CASE RmUnusedTemp
  <2>1. /\ pc = "rmUnusedTemp" /\ live[t] = original[t] /\ backup[t] = Absent /\ tries = 1 /\ late[t] = Absent
    BY <1>0, <1>17, <1>t DEF RmUnusedTemp, Remotely, Within, RestoreSteady, PromoteLabels
  <2>2. /\ pc' = "restoreBackup" /\ UNCHANGED <<live, backup, late, mutations>>
        /\ UNCHANGED <<cur, tries, failures, outcome, link>> /\ link = "up"
    BY <1>17, <1>f, <2>1 DEF RmUnusedTemp, Remotely, Reply, Goto, RollbackLabels, AfterRefusal
  <2>3. Within'
    BY <1>n, <2>1, <2>2 DEF Within, DropSteady, RemoveSteady, RestoreSteady, PromoteLabels, mutations
  <2>4. QED
    BY <1>w, <2>1, <2>2, <2>3 DEF RollbackLabels, AfterRefusal, RetriedLabels
<1>18. CASE Discard
  <2>1. /\ pc = "discard" /\ live[t] = original[t]
    BY <1>0, <1>18, <1>t DEF Discard, Remotely, Within, RestoreSteady
  <2>2. /\ pc' = "checkRestored" /\ UNCHANGED <<live, mutations>>
        /\ UNCHANGED <<cur, failures, outcome, link>> /\ link = "up"
    BY <1>18, <1>f, <2>1 DEF Discard, Remotely, Reply, Goto, RollbackLabels, AfterRefusal
  <2>3. Within'
    BY <1>n, <2>1, <2>2 DEF Within, DropSteady, RemoveSteady, RestoreSteady, PromoteLabels, mutations
  <2>4. QED
    BY <1>w, <2>1, <2>2, <2>3 DEF RollbackLabels, AfterRefusal, RetriedLabels
<1>19. CASE CheckRestored
  <2>1. pc = "checkRestored" /\ UNCHANGED <<files, mutations>> /\ pc \in RollbackLabels
    BY <1>19 DEF CheckRestored, Remotely, RollbackLabels, RetriedLabels
  <2>2. IsRestored /\ quarantine[Now] = Absent
    BY <1>0, <2>1 DEF Within, RestoreSteady, IsRestored, Loops, IsolateLoop
  <2>3. NextMutation({})
    BY <1>19, <2>2 DEF CheckRestored
  <2>4. QED
    BY <1>e, <2>1, <2>3 DEF files
<1>20. QED
  BY <1>1, <1>2, <1>3, <1>4, <1>5, <1>6, <1>7, <1>8, <1>9, <1>10, <1>11, <1>12, <1>13, <1>14, <1>15, <1>16,
     <1>17, <1>18, <1>19 DEF Rollback

LEMMA OthersSteady ==
  ASSUME CalmInv, Calm, Calm', Alone, Alone', Fault \/ LoseMaster \/ DeadBatch \/ Crash \/ UNCHANGED vars, ~OwnerEdit
  PROVE  Steady' /\ Within'
<1>0. /\ TypeInv /\ Steady /\ Within /\ outcome # "incomplete" /\ [Next]_vars
      /\ UNCHANGED <<live, temp, backup, mutations>>
  BY DEF CalmInv, ShapeInv, WholeInv, Steady, Next, Installer, Fault, LoseMaster, DeadBatch, Crash, vars, files
<1>r. Ready(Now) => \A t \in Targets : t = Now => Ready(t)'
  BY <1>0 DEF Ready, Installed, mutations
<1>1. CASE Fault \/ DeadBatch
  <2>1. PICK kind \in {"transport", "error", "interrupt"} : Raise(kind)
    BY <1>1 DEF Fault, DeadBatch
  <2>2. CASE pc \in {"read"} \cup UploadLabels
    <3>1. Finish("untouched") \/ StartRollback
      BY <2>1, <2>2 DEF Raise, UploadLabels, LookLabels, RetriedLabels, AfterRefusal
    <3>2. /\ pc \in Forward /\ pc' \in {"done", "dispatch"} /\ UNCHANGED failures /\ outcome' # "incomplete"
      BY <1>0, <2>2, <3>1 DEF Finish, StartRollback, UploadLabels, Forward, Uploading
    <3>3. pc' \notin RollbackLabels /\ pc' # "promote" /\ Next
      BY <1>1, <3>2 DEF RollbackLabels, LookLabels, RetriedLabels, AfterRefusal, Next, Installer
    <3>4. QED
      BY <1>0, <1>r, <3>2, <3>3, SteadyForward
  <2>3. CASE pc \in RollbackLabels
    <3>1. DeadBatch
      BY <1>1, <2>3, FaultDisturbs DEF Fault
    <3>2. NextMutation({"transport"})
      BY <2>3, <3>1 DEF DeadBatch, Raise, UploadLabels, RollbackLabels, LookLabels, RetriedLabels, AfterRefusal
    <3>3. QED
      BY <1>0, <2>3, <3>1, <3>2, SteadyNext DEF Next, Installer
  <2>4. QED
    BY <1>1, <2>2, <2>3 DEF Fault, DeadBatch, AtBatch, RemoteLabels
<1>2. CASE LoseMaster
  <2>1. pc \in UploadLabels /\ UNCHANGED <<pc, cur, failures, outcome>>
    BY <1>2, FaultDisturbs DEF LoseMaster, AtBatch, RemoteLabels
  <2>2. /\ pc \in Forward /\ pc' \notin RollbackLabels /\ Next
        /\ pc' = "promote" => live'[Now'] = Absent
    BY <1>0, <1>2, <2>1 DEF UploadLabels, Forward, Uploading, RollbackLabels, LookLabels, RetriedLabels, AfterRefusal,
       Now, Steady, Next, Installer
  <2>3. QED
    BY <1>0, <1>r, <2>1, <2>2, SteadyForward
<1>3. CASE Crash
  <2>1. pc' = "done" /\ outcome' = "crashed" /\ UNCHANGED <<failures, link>>
    BY <1>3 DEF Crash, Finish
  <2>2. pc' \notin RollbackLabels \cup Forward /\ pc' # "dispatch"
    BY <2>1 DEF RollbackLabels, LookLabels, RetriedLabels, AfterRefusal, Forward, Uploading, Verifying
  <2>3. failures' \subseteq {"transport"}
    BY <1>0, <2>1 DEF Steady
  <2>4. QED
    BY <1>0, <2>1, <2>2, <2>3, SteadyElsewhere
<1>4. CASE UNCHANGED vars
  <2>1. /\ \A t : Ready(t)' = Ready(t)
        /\ Now' = Now /\ Installed(Now)' = Installed(Now)
        /\ UNCHANGED <<live, temp, backup, quarantine, late, original, pc, cur, tries, outer, failures,
                        outcome, link>>
    BY <1>4 DEF vars, files, mutations, control, Ready, Installed, Now
  <2>2. Steady'
    BY <1>0, <2>1 DEF Steady, Waiting
  <2>3. Within'
    BY <1>0, <2>1 DEF Within, DropSteady, RemoveSteady, RestoreSteady
  <2>4. QED
    BY <2>2, <2>3
<1>5. QED
  BY <1>1, <1>2, <1>3, <1>4

LEMMA CalmInitially == Init => CalmInv
<1> SUFFICES ASSUME Init PROVE CalmInv
  OBVIOUS
<1>1. Steady
  BY DEF Init, Steady, Ready
<1>2. Within
  BY DEF Init, Within, DropSteady, RemoveSteady, RestoreSteady, PromoteLabels
<1>3. QED
  BY <1>1, <1>2, ShapeHolds, AloneInitially DEF CalmInv

LEMMA CalmStep ==
  ASSUME CalmInv, [Next]_vars
  PROVE  CalmInv'
<1>1. ShapeInv' /\ AloneInv'
  BY ShapeStep, AloneStep DEF CalmInv
<1>2. ASSUME Calm'
      PROVE  Steady' /\ Within'
  <2>1. Calm /\ ~OwnerEdit /\ Alone /\ Alone'
    BY <1>2, CalmStays DEF CalmInv
  <2>2. CASE Upload
    BY <1>2, <2>1, <2>2, UploadSteady
  <2>3. CASE Rollback
    BY <1>2, <2>1, <2>3, RollbackSteady
  <2>4. CASE Fault \/ LoseMaster \/ DeadBatch \/ Crash \/ UNCHANGED vars
    BY <1>2, <2>1, <2>4, OthersSteady
  <2>5. QED
    BY <2>1, <2>2, <2>3, <2>4 DEF Next, Installer, Terminated
<1>3. QED
  BY <1>1, <1>2 DEF CalmInv

\* An apply that fails at any command, even with its master lost for good, is rolled
\* back completely if nobody interferes, no fault hits the rollback itself and no
\* upload was cut short (_rollback_journal_with_recovery of front.py).
THEOREM RollbackIsClean == Spec => []CleanRollback
<1>1. CalmInv /\ [Next]_vars => CalmInv'
  BY CalmStep
<1>2. CalmInv => CleanRollback
  BY DEF CalmInv, Calm, Steady, CleanRollback, ShapeInv, WholeInv, TypeInv, StateOK, HistoryOK
<1>3. QED
  BY CalmInitially, <1>1, <1>2, StepIsNext, PTL DEF Spec
===============================================================================
