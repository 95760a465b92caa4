----------------------------- MODULE PcExitProofs -----------------------------
(***************************************************************************)
(* What holds of PcExit for every bound.  Whatever happens, a call that    *)
(* may have installed the exit leaves the pair of rules in place, only the *)
(* call's own rules are removed, and what is reported is so.  As long as a *)
(* definite answer of the installer can be believed and the local          *)
(* temporary directory can be removed, PcExit implements GuardedExit, so   *)
(* that an installed exit always has its rules.  If moreover no command    *)
(* outlasts its connection, a call that is said to be undone is.           *)
(***************************************************************************)
EXTENDS PcExit, TLAPS

\* Until the journal is complete nothing is left running.
Inserting == {"preflight"} \cup NetLabels \cup {"freshProof"}

\* From here on the pair is known to be there, until the call decides to undo it.
Installing == {"freshProof", "prepare", "identity", "mktemp", "upload", "installer",
               "fetch", "persist", "removeTemp", "leave", "close"}

Undoing == {"undoRoot", "undo", "delete", "deleted", "pairState", "undoFresh"}

Kept == {"applied", "unreported", "kept", "unknown"}

\* The typing that the steps below need.
Typed ==
  /\ rules \in SUBSET Pair
  /\ install \in {"none", "half", "done"}
  /\ late \subseteq UfwCommands \cup OtherCommands

\* The pair stands while the exit is being installed, and after a call that may
\* have installed it; no ufw command is left running that could change it.
Standing ==
  /\ pc \in Inserting => late = {}
  /\ pc \in Installing => rules = Pair /\ late \subseteq OtherCommands
  /\ outcome \in Kept => pc = "done" /\ rules = Pair /\ late \subseteq OtherCommands

StandingInv == Typed /\ Standing

\* An installation command is not a ufw command.
LEMMA OtherIsNotUfw == OtherCommands \cap UfwCommands = {}
  BY DEF OtherCommands, UfwCommands

\* What a ufw command leaves in its place.
LEMMA EffectOnPair ==
  ASSUME Typed, NEW command \in UfwCommands
  PROVE  Effect(command) \in SUBSET Pair
  BY DEF Typed, UfwCommands, Effect, Pair

LEMMA StandingInit == Init => StandingInv
  BY DEF Init, CallStart, StandingInv, Typed, Standing, Inserting, Installing, Kept,
         NetLabels, Pair

\* Steps that leave the host alone.
LEMMA TypedServer == Typed /\ UNCHANGED server => Typed'
  BY DEF Typed, server

LEMMA TypedStep ==
  ASSUME Typed, [Next]_vars
  PROVE  Typed'
<1> USE DEF Pair
<1>1. CASE InsertAllow
  BY <1>1 DEF InsertAllow, Insert, Ufw, Effect, Typed, UfwCommands
<1>2. CASE InsertDeny
  BY <1>2 DEF InsertDeny, Insert, Ufw, Effect, Typed, UfwCommands
<1>3. CASE DeleteRule
  BY <1>3 DEF DeleteRule, Ufw, Effect, Typed, UfwCommands, Undone
<1>4. CASE Mktemp
  BY <1>4 DEF Mktemp, Typed, OtherCommands
<1>5. CASE Installer
  BY <1>5 DEF Installer, Installs, Answers, Typed, OtherCommands
<1>6. CASE Land
  BY <1>6, EffectOnPair DEF Land, Typed
<1>7. CASE RemoveTemp \/ RecoverTemp \/ Restart
  BY <1>7 DEF RemoveTemp, RecoverTemp, Restart, Typed
<1>8. CASE UNCHANGED server
  BY <1>8, TypedServer
<1>9. QED
  BY <1>1, <1>2, <1>3, <1>4, <1>5, <1>6, <1>7, <1>8
  DEF Next, Step, vars, BrokenCommand, Preflight, LookAllow, LookPair, FreshProof, Prepare,
      Identity, Upload, Fetch, Persist, Leave, Close, UndoRoot, UndoLook, Deleted,
      PairState, UndoFresh, Recover, RecoverClose, Crash, Ended

-------------------------------------------------------------------------------
\* The pair stands.

\* Whatever else a step does: the labels it may lead to and the host it leaves.
LEMMA StandingStep ==
  ASSUME StandingInv, [Next]_vars
  PROVE  Standing'
<1> USE DEF StandingInv, Typed, Standing, Inserting, Installing, Kept, NetLabels, Pair
<1>1. CASE BrokenCommand
  BY <1>1 DEF BrokenCommand, Fails, NextUndo, UndoFails, StartRecovery, Finish, Goto,
     RemoteLabels, UndoLabels, OnceLabels, server
<1>2. CASE Preflight
  BY <1>2 DEF Preflight, Finish, Goto, Raised, server
<1>3. CASE InsertAllow
  BY <1>3 DEF InsertAllow, Insert, Session, Answers, UfwExecutions, Executions, Ufw,
     NetFails, StartRecovery, StartUndo, Finish, Goto, Raised
<1>4. CASE LookAllow
  BY <1>4 DEF LookAllow, Session, NetFails, StartRecovery, StartUndo, Finish, Goto,
     Raised, server
<1>5. CASE InsertDeny
  BY <1>5 DEF InsertDeny, Insert, Session, Answers, UfwExecutions, Executions, Ufw,
     NetFails, StartRecovery, StartUndo, Finish, Goto, Raised
<1>6. CASE LookPair
  BY <1>6 DEF LookPair, Session, NetFails, StartRecovery, StartUndo, Finish, Goto,
     Raised, server
<1>7. CASE FreshProof
  BY <1>7 DEF FreshProof, NetFails, StartRecovery, StartUndo, Finish, Goto, Raised,
     server
<1>8. CASE Prepare
  BY <1>8 DEF Prepare, PlainException, StartUndo, Finish, Goto, server
<1>9. CASE Identity \/ Upload \/ Fetch
  BY <1>9 DEF Identity, Upload, Fetch, Session, RemoteFails, Goto, server
<1>10. CASE Mktemp
  BY <1>10 DEF Mktemp, Session, RemoteFails, Goto, OtherCommands
<1>11. CASE Installer
  BY <1>11 DEF Installer, Session, RemoteFails, Goto, OtherCommands
<1>12. CASE Persist
  BY <1>12 DEF Persist, RemoteFails, Goto, server
<1>13. CASE RemoveTemp
  BY <1>13 DEF RemoveTemp, Finish
<1>14. CASE Leave
  BY <1>14 DEF Leave, Decide, PlainException, StartRecovery, StartUndo, Finish, Goto,
     server
<1>15. CASE Close
  BY <1>15 DEF Close, Finish, server
<1>16. CASE UndoRoot \/ UndoLook \/ Deleted \/ PairState \/ UndoFresh
  <2>1. CASE UndoRoot
    BY <2>1 DEF UndoRoot, Session, Fails, UndoFails, StartRecovery, Finish, Goto,
       RemoteLabels, UndoLabels, OnceLabels, server
  <2>2. CASE UndoLook
    BY <2>2 DEF UndoLook, Session, Fails, NextUndo, UndoFails, StartRecovery, Finish,
       Goto, RemoteLabels, UndoLabels, OnceLabels, server
  <2>3. CASE Deleted
    BY <2>3 DEF Deleted, Session, Fails, NextUndo, UndoFails, StartRecovery, Finish,
       Goto, RemoteLabels, UndoLabels, OnceLabels, server
  <2>4. CASE PairState
    BY <2>4 DEF PairState, Session, Fails, UndoFails, StartRecovery, Finish, Goto,
       Raised, RemoteLabels, UndoLabels, OnceLabels, server
  <2>5. CASE UndoFresh
    BY <2>5 DEF UndoFresh, StartRecovery, Finish, server
  <2>6. QED
    BY <1>16, <2>1, <2>2, <2>3, <2>4, <2>5
<1>17. CASE DeleteRule
  BY <1>17 DEF DeleteRule, Session, Fails, NextUndo, UndoFails, StartRecovery, Finish,
     Goto, RemoteLabels, UndoLabels, OnceLabels
<1>18. CASE Recover
  BY <1>18 DEF Recover, Failed, Finish, Goto, server
<1>19. CASE RecoverTemp
  BY <1>19 DEF RecoverTemp, Session, Finish
<1>20. CASE RecoverClose
  BY <1>20 DEF RecoverClose, Failed, Finish, server
<1>21. CASE Land
  BY <1>21, OtherIsNotUfw DEF Land, control
<1>22. CASE Crash
  BY <1>22 DEF Crash, Finish, server
<1>23. CASE Restart
  BY <1>23 DEF Restart
<1>24. CASE Ended \/ UNCHANGED vars
  BY <1>24 DEF Ended, vars, server, control
<1>25. QED
  BY <1>1, <1>2, <1>3, <1>4, <1>5, <1>6, <1>7, <1>8, <1>9, <1>10, <1>11, <1>12,
     <1>13, <1>14, <1>15, <1>16, <1>17, <1>18, <1>19, <1>20, <1>21, <1>22, <1>23,
     <1>24 DEF Next, Step

LEMMA StandingInvariant == Spec => []StandingInv
<1>1. StandingInv /\ [Next]_vars => StandingInv'
  BY TypedStep, StandingStep DEF StandingInv
<1>2. QED
  BY StandingInit, <1>1, PTL DEF Spec

-------------------------------------------------------------------------------
\* Type correctness.

\* The journal is a prefix of allow, deny: the deny rule joins it only after allow.
Prefix ==
  /\ pc = "insertAllow" => attempted = {"allow"}
  /\ pc = "lookAllow" =>
       \/ attempted = {"allow"}
       \/ attempted = {} /\ rules = Pair
  /\ pc = "insertDeny" => attempted = Pair

TypeInv == TypeOK /\ StandingInv /\ Prefix

LEMMA TypeInit == Init => TypeInv
<1> SUFFICES ASSUME Init PROVE TypeInv
  OBVIOUS
<1>1. HostTyped /\ ControlTyped /\ ReportTyped /\ HistoryTyped
  <2>1. HostTyped
    BY DEF Init, CallStart, HostTyped, Pair
  <2>2. ControlTyped
    BY DEF Init, CallStart, ControlTyped
  <2>3. ReportTyped
    BY DEF Init, CallStart, ReportTyped
  <2>4. HistoryTyped
    BY PcExitAssumption DEF Init, CallStart, HistoryTyped, Pair
  <2>5. QED
    BY <2>1, <2>2, <2>3, <2>4
<1>2. StandingInv
  BY StandingInit
<1>3. Prefix
  BY DEF Init, CallStart, Prefix
<1>4. QED
  BY <1>1, <1>2, <1>3 DEF TypeInv, TypeOK

LEMMA HostTypeStep ==
  ASSUME TypeInv, [Next]_vars
  PROVE  HostTyped'
<1>1. Typed'
  BY TypedStep DEF TypeInv, StandingInv
<1>2. temp' \in BOOLEAN
  BY DEF TypeInv, TypeOK, HostTyped, Next, Step, vars, server, BrokenCommand, Preflight,
     InsertAllow, InsertDeny, Insert, Ufw, LookAllow, LookPair, FreshProof, Prepare,
     Identity, Mktemp, Upload, Installer, Fetch, Persist, RemoveTemp, Leave, Close,
     UndoRoot, UndoLook, DeleteRule, Deleted, PairState, UndoFresh, Recover,
     RecoverTemp, RecoverClose, Land, Crash, Restart, Ended
<1>3. local' \in {"none", "saved", "mixed"}
  BY DEF TypeInv, TypeOK, HostTyped, Next, Step, vars, BrokenCommand, Preflight, InsertAllow,
     InsertDeny, Insert, LookAllow, LookPair, FreshProof, Prepare, Identity, Mktemp,
     Upload, Installer, Fetch, Persist, RemoveTemp, Leave, Close, UndoRoot, UndoLook,
     DeleteRule, Deleted, PairState, UndoFresh, Recover, RecoverTemp, RecoverClose,
     Land, Crash, Restart, Ended
<1>4. QED
  BY <1>1, <1>2, <1>3 DEF Typed, HostTyped

LEMMA HistoryTypeStep ==
  ASSUME TypeInv, [Next]_vars
  PROVE  HistoryTyped'
<1>0. HostTyped /\ HistoryTyped
  BY DEF TypeInv, TypeOK
<1> SUFFICES ASSUME surprises' = surprises
             PROVE  HistoryTyped'
  BY DEF Next, vars
<1>1. CASE Restart
  BY <1>0, <1>1, PcExitAssumption DEF Restart, HostTyped, HistoryTyped
<1>2. CASE UNCHANGED <<before, calls, faults>>
  BY <1>0, <1>2 DEF HistoryTyped
<1>3. CASE UNCHANGED <<before, calls>> /\ \E answer \in Answers : Charge(answer)
  BY <1>0, <1>3, PcExitAssumption DEF HistoryTyped, Charge
<1>4. QED
  BY <1>1, <1>2, <1>3
  DEF Next, Step, vars, Answers, Answered, BrokenCommand, Preflight, InsertAllow, InsertDeny,
      Insert, LookAllow, LookPair, FreshProof, Prepare, Identity, Mktemp, Upload,
      Installer, Fetch, Persist, RemoveTemp, Leave, Close, UndoRoot, UndoLook,
      DeleteRule, Deleted, PairState, UndoFresh, Recover, RecoverTemp, RecoverClose,
      Land, Crash, Ended

\* Which labels lead to which.
Labels ==
  SessionLabels \cup {"preflight", "freshProof", "prepare", "persist", "removeTemp",
                      "leave", "close", "undoFresh", "recover", "recoverTemp",
                      "recoverClose", "done"}

LEMMA LabelStep ==
  ASSUME pc \in Labels, [Next]_vars
  PROVE  pc' \in Labels
<1> USE DEF Labels, SessionLabels, NetLabels, RemoteLabels, UndoLabels, OnceLabels,
        StartRecovery, StartUndo, Finish, Goto
<1>1. CASE BrokenCommand
  BY <1>1 DEF BrokenCommand, Fails, NextUndo, UndoFails
<1>2. CASE InsertAllow \/ InsertDeny \/ LookAllow \/ LookPair \/ FreshProof
  BY <1>2 DEF InsertAllow, InsertDeny, Insert, LookAllow, LookPair, FreshProof,
     NetFails
<1>3. CASE Preflight \/ Prepare \/ Leave \/ Close
  BY <1>3 DEF Preflight, Prepare, Leave, Close, Decide, PlainException
<1>4. CASE Identity \/ Mktemp \/ Upload \/ Installer \/ Fetch \/ Persist
  BY <1>4 DEF Identity, Mktemp, Upload, Installer, Fetch, Persist, RemoteFails
<1>5. CASE RemoveTemp
  BY <1>5 DEF RemoveTemp
<1>6. CASE UndoRoot
  BY <1>6 DEF UndoRoot, Session, Fails, UndoFails
<1>7. CASE UndoLook \/ Deleted
  BY <1>7 DEF UndoLook, Deleted, Session, Fails, NextUndo, UndoFails
<1>8. CASE DeleteRule
  BY <1>8 DEF DeleteRule, Session, Fails, NextUndo, UndoFails
<1>9. CASE PairState
  BY <1>9 DEF PairState, Session, Fails, UndoFails
<1>10. CASE UndoFresh \/ Recover \/ RecoverTemp \/ RecoverClose
  BY <1>10 DEF UndoFresh, Recover, RecoverTemp, RecoverClose
<1>11. CASE Land \/ Crash \/ Restart \/ Ended \/ UNCHANGED vars
  BY <1>11 DEF Land, Crash, Restart, Ended, vars, control
<1>12. QED
  BY <1>1, <1>2, <1>3, <1>4, <1>5, <1>6, <1>7, <1>8, <1>9, <1>10, <1>11 DEF Next, Step

LEMMA ControlTypeStep ==
  ASSUME ControlTyped, ReportTyped, [Next]_vars
  PROVE  ControlTyped'
<1> DEFINE Outcomes ==
      {"running", "applied", "unreported", "kept", "unknown", "aborted", "recovered",
       "unrecovered", "interrupted", "crashed"}
<1>1. pc' \in Labels
  BY LabelStep DEF ControlTyped, Labels
<1>2. /\ link \in {"up", "broken"} /\ caller \in {"apply", "rollback", "recovery"}
      /\ lost \in BOOLEAN /\ incomplete \in BOOLEAN
  BY DEF ControlTyped
<1>3. cause \in {"none", "error", "transport", "interrupt"}
  BY DEF ControlTyped
<1>4. outcome \in Outcomes
  BY DEF ControlTyped
<1>5. todo \in SUBSET Pair /\ attempted \in SUBSET Pair
  BY DEF ControlTyped, ReportTyped, Pair
<1>6. undoErrors \subseteq {"error", "transport"}
  BY DEF ControlTyped
<1>7. link' \in {"up", "broken"}
  BY <1>2 DEF Answered, Next, Step, vars, control, BrokenCommand, Preflight, InsertAllow,
     InsertDeny, Insert, LookAllow, LookPair, FreshProof, Prepare, Identity, Mktemp,
     Upload, Installer, Fetch, Persist, RemoveTemp, Leave, Close, UndoRoot, UndoLook,
     DeleteRule, Deleted, PairState, UndoFresh, Recover, RecoverTemp, RecoverClose,
     Land, Crash, Restart, Ended
<1> USE DEF Next, Step, vars, control, BrokenCommand, Preflight, InsertAllow, InsertDeny,
        Insert, LookAllow, LookPair, FreshProof, Prepare, Identity, Mktemp, Upload,
        Installer, Fetch, Persist, RemoveTemp, Leave, Close, UndoRoot, UndoLook,
        DeleteRule, Deleted, PairState, UndoFresh, Recover, RecoverTemp, RecoverClose,
        Land, Crash, Restart, Ended, NetFails, RemoteFails, Fails, NextUndo,
        UndoFails, StartRecovery, StartUndo, Finish, Goto, PlainException, Decide
<1>8. caller' \in {"apply", "rollback", "recovery"}
  BY <1>2
<1>9. cause' \in {"none", "error", "transport", "interrupt"}
  BY <1>3 DEF Answers
<1>10. lost' \in BOOLEAN
  BY <1>2
<1>11. incomplete' \in BOOLEAN
  BY <1>2
<1>12. todo' \in SUBSET Pair
  BY <1>5
<1>13. undoErrors' \subseteq {"error", "transport"}
  BY <1>6 DEF Answers
<1>14. outcome' \in Outcomes
  BY <1>4 DEF Raised, Failed
<1>15. QED
  BY <1>1, <1>7, <1>8, <1>9, <1>10, <1>11, <1>12, <1>13, <1>14 DEF ControlTyped, Labels

LEMMA PrefixStep ==
  ASSUME TypeInv, [Next]_vars
  PROVE  Prefix'
<1> USE DEF Prefix, StartRecovery, StartUndo, Finish, Goto
<1>0. /\ Prefix
      /\ attempted \in {{}, {"allow"}, Pair}
      /\ pc \in NetLabels => late = {}
  BY DEF TypeInv, TypeOK, ReportTyped, StandingInv, Standing, Inserting
<1>1. CASE Preflight
  BY <1>1 DEF Preflight, AllowJournal, server
<1>2. CASE InsertAllow \/ InsertDeny
  <2>1. attempted' = attempted
    BY <1>2 DEF InsertAllow, InsertDeny, Insert, report
  <2>2. \/ pc = "insertAllow" /\ pc' = "lookAllow"
        \/ pc' \in {"lookPair", "done", "recover", "undo"}
    BY <1>2 DEF InsertAllow, InsertDeny, Insert, Session, NetFails
  <2>3. pc = "insertAllow" => attempted = {"allow"}
    BY <1>0
  <2>4. CASE pc = "insertAllow" /\ pc' = "lookAllow"
    BY <2>1, <2>3, <2>4
  <2>5. CASE pc' \in {"lookPair", "done", "recover", "undo"}
    BY <2>5
  <2>6. QED
    BY <2>2, <2>4, <2>5
<1>3. CASE LookAllow
  BY <1>0, <1>3 DEF LookAllow, DenyJournal, Session, NetFails, Pair
<1>4. CASE LookPair \/ FreshProof
  BY <1>4 DEF LookPair, FreshProof, NetFails
<1>5. CASE Prepare \/ Leave \/ Close
  BY <1>5 DEF Prepare, Leave, Close, Decide, PlainException
<1>6. CASE Identity \/ Mktemp \/ Upload \/ Installer \/ Fetch \/ Persist
  BY <1>6 DEF Identity, Mktemp, Upload, Installer, Fetch, Persist, RemoteFails
<1>7. CASE RemoveTemp
  BY <1>7 DEF RemoveTemp
<1>8. CASE BrokenCommand \/ UndoRoot
  BY <1>8 DEF BrokenCommand, UndoRoot, Session, Fails, NextUndo, UndoFails, NetLabels,
     RemoteLabels, UndoLabels, OnceLabels
<1>9. CASE UndoLook \/ Deleted
  BY <1>9 DEF UndoLook, Deleted, Session, Fails, NextUndo, UndoFails, NetLabels,
     RemoteLabels, UndoLabels, OnceLabels
<1>10. CASE DeleteRule
  BY <1>10 DEF DeleteRule, Session, Fails, NextUndo, UndoFails, NetLabels,
     RemoteLabels, UndoLabels, OnceLabels
<1>11. CASE PairState
  BY <1>11 DEF PairState, Session, Fails, UndoFails, NetLabels, RemoteLabels,
     UndoLabels, OnceLabels
<1>12. CASE UndoFresh \/ Recover \/ RecoverTemp \/ RecoverClose
  BY <1>12 DEF UndoFresh, Recover, RecoverTemp, RecoverClose
<1>13. CASE Land
  BY <1>0, <1>13 DEF Land, control, report, NetLabels
<1>14. CASE Crash \/ Restart
  BY <1>14 DEF Crash, Restart
<1>15. CASE Ended \/ UNCHANGED vars
  BY <1>0, <1>15 DEF Ended, vars, server, control, report
<1>16. QED
  BY <1>1, <1>2, <1>3, <1>4, <1>5, <1>6, <1>7, <1>8, <1>9, <1>10, <1>11, <1>12,
     <1>13, <1>14, <1>15 DEF Next, Step

LEMMA ReportTypeStep ==
  ASSUME TypeInv, [Next]_vars
  PROVE  ReportTyped' /\ Prefix'
<1>0. ReportTyped /\ Prefix /\ Standing
  BY DEF TypeInv, TypeOK, StandingInv
<1>1. remoteStatus' \in {"not_started", "unknown", "failed", "succeeded"}
  BY <1>0 DEF ReportTyped, Status, Next, Step, vars, report, BrokenCommand, Preflight,
     InsertAllow, InsertDeny, Insert, LookAllow, LookPair, FreshProof, Prepare,
     Identity, Mktemp, Upload, Installer, Fetch, Persist, RemoveTemp, Leave, Close,
     UndoRoot, UndoLook, DeleteRule, Deleted, PairState, UndoFresh, Recover,
     RecoverTemp, RecoverClose, Land, Crash, Restart, Ended
<1>2. artifacts' \in {"not_saved", "partial", "saved"}
  BY <1>0 DEF ReportTyped, Next, Step, vars, report, BrokenCommand, Preflight, InsertAllow,
     InsertDeny, Insert, LookAllow, LookPair, FreshProof, Prepare, Identity, Mktemp,
     Upload, Installer, Fetch, Persist, RemoveTemp, Leave, Close, UndoRoot, UndoLook,
     DeleteRule, Deleted, PairState, UndoFresh, Recover, RecoverTemp, RecoverClose,
     Land, Crash, Restart, Ended
<1>3. cleanup' \in {"not_needed", "unknown", "failed", "succeeded"}
  BY <1>0 DEF ReportTyped, Next, Step, vars, report, BrokenCommand, Preflight, InsertAllow,
     InsertDeny, Insert, LookAllow, LookPair, FreshProof, Prepare, Identity, Mktemp,
     Upload, Installer, Fetch, Persist, RemoveTemp, Leave, Close, UndoRoot, UndoLook,
     DeleteRule, Deleted, PairState, UndoFresh, Recover, RecoverTemp, RecoverClose,
     Land, Crash, Restart, Ended
<1>4. tempKnown' \in BOOLEAN
  BY <1>0 DEF ReportTyped, Next, Step, vars, report, BrokenCommand, Preflight, InsertAllow,
     InsertDeny, Insert, LookAllow, LookPair, FreshProof, Prepare, Identity, Mktemp,
     Upload, Installer, Fetch, Persist, RemoveTemp, Leave, Close, UndoRoot, UndoLook,
     DeleteRule, Deleted, PairState, UndoFresh, Recover, RecoverTemp, RecoverClose,
     Land, Crash, Restart, Ended
<1>5. attempted' \in {{}, {"allow"}, Pair}
  <2>1. CASE Preflight
    BY <1>0, <2>1 DEF Preflight, AllowJournal, ReportTyped
  <2>2. CASE LookAllow
    BY <1>0, <2>2 DEF LookAllow, DenyJournal, Session, ReportTyped, Prefix, Pair
  <2>3. CASE Restart
    BY <2>3 DEF Restart
  <2>4. CASE attempted' = attempted
    BY <1>0, <2>4 DEF ReportTyped
  <2>5. QED
    BY <2>1, <2>2, <2>3, <2>4 DEF Next, Step, vars, report, BrokenCommand, Preflight,
       InsertAllow, InsertDeny, Insert, LookAllow, LookPair, FreshProof, Prepare,
       Identity, Mktemp, Upload, Installer, Fetch, Persist, RemoveTemp, Leave, Close,
       UndoRoot, UndoLook, DeleteRule, Deleted, PairState, UndoFresh, Recover,
       RecoverTemp, RecoverClose, Land, Crash, Restart, Ended
<1>6. Prefix'
  BY PrefixStep
<1>7. QED
  BY <1>1, <1>2, <1>3, <1>4, <1>5, <1>6 DEF ReportTyped

LEMMA TypeStep ==
  ASSUME TypeInv, [Next]_vars
  PROVE  TypeInv'
  BY HostTypeStep, ControlTypeStep, ReportTypeStep, HistoryTypeStep, TypedStep, StandingStep
  DEF TypeInv, TypeOK, StandingInv

\* Every variable has its type; in particular the journal is a prefix of the pair, as
\* _validated_recovery of remote_network.py requires of every recovery.
THEOREM ExitTypeCorrect == Spec => []TypeOK
<1>1. TypeInv /\ [Next]_vars => TypeInv'
  BY TypeStep
<1>2. TypeInv => TypeOK
  BY DEF TypeInv
<1>3. QED
  BY TypeInit, <1>1, <1>2, PTL DEF Spec

-------------------------------------------------------------------------------
\* A call undoes its rules only while the exit is certainly not installed.

\* The installer has not been run by this call, or has rolled back.
AsFound ==
  /\ install = before.install
  /\ [do |-> "install"] \notin late

NotInstalled == install # "done" /\ AsFound

Certain ==
  /\ pc \in Inserting \cup {"prepare", "identity", "mktemp", "upload", "installer"} =>
       remoteStatus = "not_started" /\ AsFound
  /\ pc \in Undoing \cup {"recover"} => remoteStatus \in {"not_started", "failed"}
  /\ attempted # {} /\ remoteStatus \in {"not_started", "failed"} => NotInstalled

\* Only a call with a journal comes to undo rules.
Owned ==
  /\ pc \in Undoing => attempted # {}
  /\ pc \in {"recover", "recoverTemp"} =>
       /\ remoteStatus \in {"not_started", "failed"}
       /\ attempted # {} \/ NeedsTemp

LateEffects ==
  /\ [do |-> "install"] \in late => rules = Pair
  /\ (\E rule \in Pair : [do |-> "delete", rule |-> rule] \in late) => NotInstalled

GuardInv == StandingInv /\ Certain /\ Owned /\ LateEffects /\ Guard!Guarded

LEMMA GuardInit == Init => GuardInv
<1> SUFFICES ASSUME Init PROVE GuardInv
  OBVIOUS
<1>1. StandingInv
  BY StandingInit
<1>2. Certain /\ Owned
  BY DEF Init, CallStart, Certain, Owned, AsFound, Undoing, Inserting, NetLabels
<1>3. LateEffects /\ Guard!Guarded
  BY DEF Init, LateEffects, Guard!Guarded, Guard!Pair, Pair
<1>4. QED
  BY <1>1, <1>2, <1>3 DEF GuardInv

\* Steps that leave the rules, the exit and what goes on running alone.
Quiet == /\ UNCHANGED <<rules, install, late>>
         /\ before' = before \/ late = {}

LEMMA QuietStep ==
  ASSUME GuardInv, Quiet
  PROVE  LateEffects' /\ Guard!Guarded'
  BY DEF GuardInv, Quiet, LateEffects, NotInstalled, AsFound, Guard!Guarded, Guard!Pair

\* The steps that are not quiet.
Loud == InsertAllow \/ InsertDeny \/ Mktemp \/ Installer \/ DeleteRule \/ Land

LEMMA QuietOrLoud ==
  ASSUME [Next]_vars
  PROVE  Quiet \/ Loud
  BY DEF Next, Step, vars, server, Quiet, Loud, BrokenCommand, Preflight, LookAllow, LookPair,
     FreshProof, Prepare, Identity, Upload, Fetch, Persist, RemoveTemp, Leave, Close,
     UndoRoot, UndoLook, Deleted, PairState, UndoFresh, Recover, RecoverTemp,
     RecoverClose, Crash, Restart, Ended

\* The command of an installer that was left running.
LEMMA LateInstall ==
  ASSUME Typed, NEW command \in late, command.do = "install"
  PROVE  command = [do |-> "install"]
  BY DEF Typed, UfwCommands, OtherCommands

LEMMA LandKeepsUninstalled ==
  ASSUME Typed, NotInstalled, Land
  PROVE  NotInstalled'
<1> USE DEF NotInstalled, AsFound
<1>1. PICK command \in late :
        /\ late' = late \ {command}
        /\ install' \in IF command.do = "install" THEN {install, "done"} ELSE {install}
        /\ before' = before
  BY DEF Land
<1>2. command.do # "install"
  BY LateInstall
<1>3. QED
  BY <1>1, <1>2

\* The journal and the status of the installer agree with where the call is.
LEMMA ControlStep ==
  ASSUME Believed, GuardInv, [Next]_vars
  PROVE  Certain' /\ Owned'
<1> USE DEF Certain, Owned, NotInstalled, AsFound, NeedsTemp, Inserting, NetLabels, Undoing
<1>0. Certain /\ Owned
  BY DEF GuardInv
<1>1. CASE BrokenCommand
  BY <1>0, <1>1 DEF BrokenCommand, Fails, NextUndo, UndoFails, StartRecovery, Finish,
     Goto, RemoteLabels, UndoLabels, OnceLabels, server, report
<1>2. CASE Preflight
  <2>1. rules = {} => NotInstalled
    BY <1>2 DEF GuardInv, Guard!Guarded, Guard!Pair, StandingInv, Standing, Preflight
  <2>2. QED
    BY <1>0, <1>2, <2>1 DEF Preflight, AllowJournal, Finish, Goto, Raised, server
<1>3. CASE InsertAllow \/ InsertDeny
  <2>1. late' \subseteq late \cup UfwCommands /\ install' = install
    BY <1>3 DEF InsertAllow, InsertDeny, Insert, Ufw, UfwCommands, Pair
  <2>2. [do |-> "install"] \notin UfwCommands
    BY OtherIsNotUfw DEF OtherCommands
  <2>3. QED
    BY <1>0, <1>3, <2>1, <2>2 DEF InsertAllow, InsertDeny, Insert, Session, NetFails,
       StartRecovery, StartUndo, Finish, Goto, Raised, report
<1>4. CASE LookAllow
  <2>1. attempted = {} /\ "deny" \notin rules => NotInstalled
    BY <1>4 DEF GuardInv, Guard!Guarded, Guard!Pair, StandingInv, Standing, LookAllow,
       Session
  <2>2. QED
    BY <1>0, <1>4, <2>1 DEF LookAllow, DenyJournal, Session, NetFails, StartRecovery,
       StartUndo, Finish, Goto, Raised, server
<1>5. CASE LookPair \/ FreshProof
  BY <1>0, <1>5 DEF LookPair, FreshProof, Session, NetFails, StartRecovery, StartUndo,
     Finish, Goto, Raised, server, report
<1>6. CASE Prepare
  BY <1>0, <1>6 DEF Prepare, PlainException, StartUndo, Finish, Goto, server, report
<1>7. CASE Identity \/ Upload \/ Fetch \/ Persist
  BY <1>0, <1>7 DEF Identity, Upload, Fetch, Persist, Session, RemoteFails, Goto,
     server, report
<1>8. CASE Mktemp
  <2>1. late' \subseteq late \cup {[do |-> "mktemp"]}
    BY <1>8 DEF Mktemp
  <2>2. [do |-> "install"] # [do |-> "mktemp"]
    OBVIOUS
  <2>3. QED
    BY <1>0, <1>8, <2>1, <2>2 DEF Mktemp, Session, RemoteFails, Goto
<1>9. CASE Installer
  BY <1>0, <1>9 DEF Installer, Status, Installs, Executions, Believed, Session,
     RemoteFails, Goto
<1>10. CASE RemoveTemp
  BY <1>0, <1>10 DEF RemoveTemp, Finish
<1>11. CASE Leave
  BY <1>0, <1>11 DEF Leave, Believed, Decide, StartRecovery, StartUndo, Finish, Goto,
     server
<1>12. CASE Close \/ RecoverClose \/ Crash
  BY <1>0, <1>12 DEF Close, RecoverClose, Crash, Finish, server, report
<1>13. CASE UndoRoot
  BY <1>0, <1>13 DEF UndoRoot, Session, Fails, UndoFails, StartRecovery, Finish, Goto,
     RemoteLabels, UndoLabels, OnceLabels, server, report
<1>14. CASE UndoLook \/ Deleted
  BY <1>0, <1>14 DEF UndoLook, Deleted, Session, Fails, NextUndo, UndoFails,
     StartRecovery, Finish, Goto, RemoteLabels, UndoLabels, OnceLabels, server, report
<1>15. CASE PairState
  BY <1>0, <1>15 DEF PairState, Session, Fails, UndoFails, StartRecovery, Finish, Goto,
     Raised, RemoteLabels, UndoLabels, OnceLabels, server, report
<1>16. CASE UndoFresh
  BY <1>0, <1>16 DEF UndoFresh, StartRecovery, Finish, server, report
<1>17. CASE DeleteRule
  <2>1. late' \subseteq late \cup UfwCommands /\ install' = install
    BY <1>17 DEF DeleteRule, Ufw, UfwCommands, Undone, Pair
  <2>2. [do |-> "install"] \notin UfwCommands
    BY OtherIsNotUfw DEF OtherCommands
  <2>3. QED
    BY <1>0, <1>17, <2>1, <2>2 DEF DeleteRule, Session, Fails, NextUndo, UndoFails,
       StartRecovery, Finish, Goto, RemoteLabels, UndoLabels, OnceLabels, report
<1>18. CASE Recover
  BY <1>0, <1>18 DEF Recover, Failed, Finish, Goto, server, report
<1>19. CASE RecoverTemp
  BY <1>0, <1>19 DEF RecoverTemp, Session, Finish
<1>20. CASE Land
  <2>1. NotInstalled => NotInstalled'
    BY <1>20, LandKeepsUninstalled DEF GuardInv, StandingInv
  <2>2. QED
    BY <1>0, <1>20, <2>1 DEF Land, control, report
<1>21. CASE Restart
  BY <1>0, <1>21 DEF Restart
<1>22. CASE Ended \/ UNCHANGED vars
  BY <1>0, <1>22 DEF Ended, vars, server, control, report
<1>23. QED
  BY <1>1, <1>2, <1>3, <1>4, <1>5, <1>6, <1>7, <1>8, <1>9, <1>10, <1>11, <1>12,
     <1>13, <1>14, <1>15, <1>16, <1>17, <1>18, <1>19, <1>20, <1>21, <1>22 DEF Next, Step

\* The steps that are not quiet do what GuardedExit allows.
LEMMA LoudStep ==
  ASSUME Believed, GuardInv, [Next]_vars, Loud
  PROVE  /\ LateEffects' /\ Guard!Guarded'
         /\ [Guard!Next]_<<rules, install>>
         /\ rules \ rules' # {} => install = before.install
<1> USE DEF Guard!Guarded, Guard!Pair, Pair
<1>0. Typed /\ Standing /\ Certain /\ Owned /\ LateEffects /\ Guard!Guarded
  BY DEF GuardInv, StandingInv
<1>1. CASE InsertAllow \/ InsertDeny
  <2>1. PICK rule \in Pair, execution \in {"yes", "no", "late"} :
          Ufw([do |-> "insert", rule |-> rule], execution)
    BY <1>1 DEF InsertAllow, InsertDeny, Insert, UfwExecutions, Executions
  <2>2. /\ rules' \in {rules, rules \cup {rule}}
        /\ late' \subseteq late \cup {[do |-> "insert", rule |-> rule]}
        /\ install' = install
    BY <2>1 DEF Ufw, Effect
  <2>3. late = {}
    BY <1>0, <1>1 DEF Standing, InsertAllow, InsertDeny, Session, Inserting, NetLabels
  <2>4. LateEffects'
    BY <2>2, <2>3 DEF LateEffects
  <2>5. Guard!Guarded'
    BY <1>0, <2>2 DEF Typed
  <2>6. [Guard!Next]_<<rules, install>>
    BY <2>2 DEF Guard!Next, Guard!AddRule
  <2>7. QED
    BY <2>2, <2>4, <2>5, <2>6
<1>2. CASE Mktemp
  <2>1. /\ late' \subseteq late \cup {[do |-> "mktemp"]}
        /\ UNCHANGED <<rules, install, before>>
    BY <1>2 DEF Mktemp
  <2>2. QED
    BY <1>0, <2>1 DEF LateEffects, NotInstalled, AsFound
<1>3. CASE Installer
  <2>1. rules = Pair /\ late \subseteq OtherCommands
    BY <1>0, <1>3 DEF Standing, Installing, Installer, Session
  <2>2. /\ install' \in {install, "done"}
        /\ rules' = rules
        /\ late' \subseteq late \cup {[do |-> "install"]}
    BY <1>3 DEF Installer, Installs, Believed, Answers
  <2>3. \A rule \in Pair : [do |-> "delete", rule |-> rule] \notin late'
    BY <2>1, <2>2, OtherIsNotUfw DEF OtherCommands, UfwCommands
  <2>4. LateEffects' /\ Guard!Guarded'
    BY <2>1, <2>2, <2>3 DEF LateEffects
  <2>5. [Guard!Next]_<<rules, install>>
    BY <2>1, <2>2 DEF Guard!Next, Guard!Install
  <2>6. QED
    BY <2>2, <2>4, <2>5
<1>4. CASE DeleteRule
  <2>1. PICK execution \in {"yes", "no", "late"} :
          Ufw([do |-> "delete", rule |-> Undone], execution)
    BY <1>4 DEF DeleteRule, UfwExecutions, Executions
  <2>2. /\ rules' \in {rules, rules \ {Undone}}
        /\ late' \subseteq late \cup {[do |-> "delete", rule |-> Undone]}
        /\ UNCHANGED <<install, before>>
    BY <1>4, <2>1 DEF DeleteRule, Ufw, Effect
  <2>3. NotInstalled
    BY <1>0, <1>4 DEF Certain, Owned, Undoing, DeleteRule, Session
  <2>4. LateEffects' /\ Guard!Guarded'
    BY <1>0, <2>2, <2>3 DEF LateEffects, NotInstalled, AsFound
  <2>5. [Guard!Next]_<<rules, install>>
    BY <2>2, <2>3 DEF Guard!Next, Guard!RemoveRule, NotInstalled
  <2>6. QED
    BY <2>3, <2>4, <2>5 DEF NotInstalled, AsFound
<1>5. CASE Land
  <2>1. PICK command \in late :
          /\ late' = late \ {command}
          /\ rules' = IF command \in UfwCommands THEN Effect(command) ELSE rules
          /\ install' \in IF command.do = "install" THEN {install, "done"}
                         ELSE {install}
          /\ before' = before
    BY <1>5 DEF Land
  <2>2. CASE command \in UfwCommands /\ command.do = "insert"
    <3>1. PICK rule \in Pair : rules' = rules \cup {rule}
      BY <2>1, <2>2 DEF UfwCommands, Effect
    <3>2. install' = install
      BY <2>1, <2>2
    <3>3. QED
      BY <1>0, <2>1, <3>1, <3>2
      DEF LateEffects, NotInstalled, AsFound, Typed, Guard!Next, Guard!AddRule
  <2>3. CASE command \in UfwCommands /\ command.do = "delete"
    <3>1. PICK rule \in Pair : command = [do |-> "delete", rule |-> rule]
      BY <2>3 DEF UfwCommands
    <3>2. NotInstalled
      BY <1>0, <3>1 DEF LateEffects
    <3>3. rules' = rules \ {rule} /\ install' = install
      BY <2>1, <2>3, <3>1 DEF Effect
    <3>4. QED
      BY <1>0, <2>1, <3>2, <3>3
      DEF LateEffects, NotInstalled, AsFound, Guard!Next, Guard!RemoveRule
  <2>4. CASE command = [do |-> "install"]
    <3>1. rules' = rules /\ rules = Pair
      BY <1>0, <2>1, <2>4, OtherIsNotUfw DEF OtherCommands, LateEffects
    <3>2. install' \in {install, "done"}
      BY <2>1
    <3>3. \A rule \in Pair : [do |-> "delete", rule |-> rule] \notin late'
      BY <1>0, <2>1, <2>4 DEF LateEffects, NotInstalled, AsFound
    <3>4. QED
      BY <2>1, <3>1, <3>2, <3>3 DEF LateEffects, Guard!Next, Guard!Install
  <2>5. CASE command = [do |-> "mktemp"]
    <3>1. rules' = rules /\ install' = install
      BY <2>1, <2>5, OtherIsNotUfw DEF OtherCommands
    <3>2. QED
      BY <1>0, <2>1, <3>1 DEF LateEffects, NotInstalled, AsFound
  <2>6. QED
    BY <1>0, <2>2, <2>3, <2>4, <2>5 DEF Typed, UfwCommands, OtherCommands
<1>6. QED
  BY <1>1, <1>2, <1>3, <1>4, <1>5 DEF Loud

LEMMA GuardStep ==
  ASSUME Believed, GuardInv, [Next]_vars
  PROVE  /\ GuardInv'
         /\ [Guard!Next]_<<rules, install>>
         /\ rules \ rules' # {} => install = before.install
<1>1. StandingInv'
  BY TypedStep, StandingStep DEF GuardInv, StandingInv
<1>2. Certain' /\ Owned'
  BY ControlStep
<1>3. CASE Quiet
  BY <1>1, <1>2, <1>3, QuietStep DEF GuardInv, Quiet
<1>4. CASE Loud
  BY <1>1, <1>2, <1>4, LoudStep DEF GuardInv
<1>5. QED
  BY <1>3, <1>4, QuietOrLoud

\* The protocol of the PC implements GuardedExit: the exit is installed only
\* behind the whole pair, and a rule is removed only while no exit is installed,
\* with any number of calls and faults and with commands that outlast their
\* connection.
THEOREM Implements == Spec => ImplementsGuardedExit
<1>1. Init => GuardInv /\ Guard!Init
  BY GuardInit DEF Init, Guard!Init, Guard!Pair, Pair
<1>2. [Next]_vars => Believed' = Believed
  BY DEF Next, vars, Believed
<1>3. (Believed => GuardInv) /\ [Next]_vars => (Believed => GuardInv)'
  BY <1>2, GuardStep
<1>4. (Believed => GuardInv) /\ [Next]_vars => [Believed => Guard!Next]_Guard!vars
  BY GuardStep DEF Guard!vars
<1>5. QED
  BY <1>1, <1>3, <1>4, PTL DEF Spec, ImplementsGuardedExit

\* The rules of a call go only while the exit is as the call found it (the docstring
\* of apply_pc_exit), with any number of calls and faults.
THEOREM UndoneInTime == Spec => UndoneOnlyWhenRolledBack
<1>1. [Next]_vars => Believed' = Believed
  BY DEF Next, vars, Believed
<1>2. (Believed => GuardInv) /\ [Next]_vars => (Believed => GuardInv)'
  BY <1>1, GuardStep
<1>3. (Believed => GuardInv) /\ [Next]_vars =>
        [Believed /\ rules \ rules' # {} => install = before.install]_vars
  BY GuardStep
<1>4. QED
  BY GuardInit, <1>2, <1>3, PTL DEF Spec, UndoneOnlyWhenRolledBack

\* The pair is there where a call says that it may have installed the exit, and, unless
\* an installer is killed or the local temporary directory cannot be removed, wherever
\* the exit is installed or a lost installer may still install it: at any moment of any
\* number of calls, whatever else fails or goes on running (the docstring of
\* apply_pc_exit).
THEOREM PairKept == Spec => []KeptWhenMaybeApplied
<1>1. [Next]_vars => Believed' = Believed
  BY DEF Next, vars, Believed
<1>2. (Believed => GuardInv) /\ [Next]_vars => (Believed => GuardInv)'
  BY <1>1, GuardStep
<1>3. StandingInv /\ (Believed => GuardInv) => KeptWhenMaybeApplied
  <2>1. StandingInv =>
          (outcome \in {"applied", "unreported", "kept", "unknown"} => rules = Pair)
    BY DEF StandingInv, Standing, Kept
  <2>2. GuardInv => (install = "done" \/ [do |-> "install"] \in late => rules = Pair)
    BY DEF GuardInv, LateEffects, Guard!Guarded, Guard!Pair, Pair
  <2>3. QED
    BY <2>1, <2>2 DEF KeptWhenMaybeApplied
<1>4. QED
  BY GuardInit, StandingInvariant, <1>2, <1>3, PTL DEF Spec

-------------------------------------------------------------------------------
\* Only the call's own rules are removed.

\* What the journal holds was not there when the call began; the rollback works
\* on the journal, and so do its commands that outlast their connection.
Journalled ==
  /\ pc = "preflight" => before.rules = rules /\ attempted = {}
  /\ pc \in {"insertAllow", "lookAllow"} => before.rules \subseteq rules
  /\ attempted \cap before.rules = {}
  /\ todo \subseteq attempted
  /\ pc \in UndoLabels \cup {"undoRoot"} => todo # {}
  /\ pc \in {"pairState", "undoFresh"} => attempted # {}
  /\ pc \in {"recover", "recoverTemp"} => todo = attempted
  /\ pc = "recover" => attempted # {} \/ NeedsTemp
  /\ \A rule \in Pair : [do |-> "delete", rule |-> rule] \in late => rule \in attempted

OwnInv == TypeInv /\ Journalled

LEMMA OwnInit == Init => OwnInv
<1>1. Init => Journalled
  BY DEF Init, CallStart, Journalled, UndoLabels
<1>2. QED
  BY <1>1, TypeInit DEF OwnInv

\* The rule that the rollback is at is in the journal.
LEMMA UndoneIsOwn ==
  ASSUME OwnInv, pc \in UndoLabels
  PROVE  Undone \in todo /\ Undone \in attempted
  BY DEF OwnInv, TypeInv, TypeOK, ControlTyped, Journalled, Undone, Pair

LEMMA JournalStep ==
  ASSUME OwnInv, [Next]_vars
  PROVE  Journalled'
<1> USE DEF Journalled, UndoLabels, StartRecovery, StartUndo, Finish, Goto
<1>0. /\ Journalled
      /\ rules \in SUBSET Pair /\ todo \in SUBSET Pair
      /\ attempted \in {{}, {"allow"}, Pair}
      /\ pc \in Inserting => late = {}
  BY DEF OwnInv, TypeInv, TypeOK, HostTyped, ControlTyped, ReportTyped, StandingInv, Standing
<1>1. CASE BrokenCommand
  <2>1. pc \in UndoLabels => Undone \in todo
    BY UndoneIsOwn
  <2>2. QED
    BY <1>0, <1>1, <2>1 DEF BrokenCommand, Fails, NextUndo, UndoFails, NetLabels,
       RemoteLabels, OnceLabels, server, report
<1>2. CASE Preflight
  BY <1>0, <1>2 DEF Preflight, AllowJournal, server, Inserting
<1>3. CASE InsertAllow \/ InsertDeny
  <2>1. late = {}
    BY <1>0, <1>3 DEF InsertAllow, InsertDeny, Session, Inserting, NetLabels
  <2>2. PICK rule \in Pair, execution \in {"yes", "no", "late"} :
          Ufw([do |-> "insert", rule |-> rule], execution)
    BY <1>3 DEF InsertAllow, InsertDeny, Insert, UfwExecutions, Executions, Pair
  <2>3. /\ rules \subseteq rules'
        /\ \A x \in Pair : [do |-> "delete", rule |-> x] \notin late'
    BY <2>1, <2>2 DEF Ufw, Effect
  <2>4. /\ UNCHANGED <<attempted, before>>
        /\ pc' = "lookAllow" => pc = "insertAllow"
        /\ \/ pc' \in {"lookAllow", "lookPair", "done"} /\ todo' = todo
           \/ pc' \in {"recover", "undo"} /\ todo' = attempted /\ attempted # {}
    BY <1>3 DEF InsertAllow, InsertDeny, Insert, Session, NetFails, report
  <2>5. QED
    BY <1>0, <2>3, <2>4
<1>4. CASE LookAllow
  <2>1. late = {}
    BY <1>0, <1>4 DEF LookAllow, Session, Inserting, NetLabels
  <2>2. QED
    BY <1>0, <1>4, <2>1 DEF LookAllow, DenyJournal, Session, NetFails, server
<1>5. CASE LookPair \/ FreshProof
  BY <1>0, <1>5 DEF LookPair, FreshProof, Session, NetFails, server, report
<1>6. CASE Prepare
  BY <1>0, <1>6 DEF Prepare, PlainException, server, report
<1>7. CASE Identity \/ Upload \/ Fetch \/ Persist
  BY <1>0, <1>7 DEF Identity, Upload, Fetch, Persist, Session, RemoteFails, server, report
<1>8. CASE Mktemp \/ Installer
  <2>1. late' \subseteq late \cup OtherCommands
    BY <1>8 DEF Mktemp, Installer, OtherCommands
  <2>2. \A x \in Pair : [do |-> "delete", rule |-> x] \notin OtherCommands
    BY OtherIsNotUfw DEF UfwCommands
  <2>3. QED
    BY <1>0, <1>8, <2>1, <2>2 DEF Mktemp, Installer, Session, RemoteFails
<1>9. CASE RemoveTemp
  BY <1>0, <1>9 DEF RemoveTemp
<1>10. CASE Leave
  BY <1>0, <1>10 DEF Leave, Decide, PlainException, server, NeedsTemp
<1>11. CASE Close \/ RecoverClose \/ Crash
  BY <1>0, <1>11 DEF Close, RecoverClose, Crash, server, report
<1>12. CASE UndoRoot
  BY <1>0, <1>12 DEF UndoRoot, Session, Fails, UndoFails, NetLabels, RemoteLabels, OnceLabels,
     server, report
<1>13. CASE UndoLook \/ Deleted
  <2>1. Undone \in todo
    BY <1>13, UndoneIsOwn DEF UndoLook, Deleted, Session
  <2>2. QED
    BY <1>0, <1>13, <2>1 DEF UndoLook, Deleted, Session, Fails, NextUndo, UndoFails,
       NetLabels, RemoteLabels, OnceLabels, server, report
<1>14. CASE DeleteRule
  <2>1. Undone \in todo /\ Undone \in attempted
    BY <1>14, UndoneIsOwn DEF DeleteRule, Session
  <2>2. late' \subseteq late \cup {[do |-> "delete", rule |-> Undone]}
    BY <1>14 DEF DeleteRule, Ufw
  <2>3. QED
    BY <1>0, <1>14, <2>1, <2>2 DEF DeleteRule, Session, Fails, NextUndo, UndoFails,
       NetLabels, RemoteLabels, OnceLabels, report
<1>15. CASE PairState \/ UndoFresh
  BY <1>0, <1>15 DEF PairState, UndoFresh, Session, Fails, UndoFails, NetLabels, RemoteLabels,
     OnceLabels, server, report
<1>16. CASE Recover
  BY <1>0, <1>16 DEF Recover, server, report
<1>17. CASE RecoverTemp
  BY <1>0, <1>17 DEF RecoverTemp, Session
<1>18. CASE Land
  <2>1. pc \notin Inserting /\ late' \subseteq late
    BY <1>0, <1>18 DEF Land
  <2>2. QED
    BY <1>0, <1>18, <2>1 DEF Land, control, report, Inserting, NetLabels, NeedsTemp
<1>19. CASE Restart
  BY <1>0, <1>19 DEF Restart
<1>20. CASE Ended \/ UNCHANGED vars
  BY <1>0, <1>20 DEF Ended, vars, server, control, report, NeedsTemp
<1>21. QED
  BY <1>1, <1>2, <1>3, <1>4, <1>5, <1>6, <1>7, <1>8, <1>9, <1>10, <1>11, <1>12,
     <1>13, <1>14, <1>15, <1>16, <1>17, <1>18, <1>19, <1>20 DEF Next, Step

LEMMA OnlyOwnStep ==
  ASSUME OwnInv, [Next]_vars
  PROVE  rules \ rules' \subseteq attempted \ before.rules
<1>0. Journalled /\ Typed
  BY DEF OwnInv, TypeInv, StandingInv
<1>1. CASE InsertAllow \/ InsertDeny
  BY <1>1 DEF InsertAllow, InsertDeny, Insert, Ufw, Effect
<1>2. CASE DeleteRule
  <2>1. Undone \in attempted
    BY <1>2, UndoneIsOwn DEF DeleteRule, Session, UndoLabels
  <2>2. rules' \in {rules, rules \ {Undone}}
    BY <1>2 DEF DeleteRule, Ufw, Effect
  <2>3. QED
    BY <1>0, <2>1, <2>2 DEF Journalled
<1>3. CASE Land
  <2>1. PICK command \in late :
          rules' = IF command \in UfwCommands THEN Effect(command) ELSE rules
    BY <1>3 DEF Land
  <2>2. CASE command \in UfwCommands /\ command.do = "delete"
    <3>1. PICK rule \in Pair : command = [do |-> "delete", rule |-> rule]
      BY <2>2 DEF UfwCommands
    <3>2. rule \in attempted
      BY <1>0, <2>1, <3>1 DEF Journalled
    <3>3. rules' = rules \ {rule}
      BY <2>1, <2>2, <3>1 DEF Effect
    <3>4. QED
      BY <1>0, <3>2, <3>3 DEF Journalled
  <2>3. CASE command \in UfwCommands /\ command.do = "insert"
    BY <2>1, <2>3 DEF Effect
  <2>4. CASE command \notin UfwCommands
    BY <2>1, <2>4
  <2>5. QED
    BY <2>2, <2>3, <2>4 DEF UfwCommands
<1>4. CASE rules' = rules
  BY <1>4
<1>5. QED
  BY <1>1, <1>2, <1>3, <1>4
  DEF Next, Step, vars, server, BrokenCommand, Preflight, LookAllow, LookPair, FreshProof,
      Prepare, Identity, Mktemp, Upload, Installer, Fetch, Persist, RemoveTemp, Leave,
      Close, UndoRoot, UndoLook, Deleted, PairState, UndoFresh, Recover, RecoverTemp,
      RecoverClose, Crash, Restart, Ended

LEMMA OwnStep ==
  ASSUME OwnInv, [Next]_vars
  PROVE  OwnInv'
<1>1. TypeInv'
  BY TypeStep DEF OwnInv
<1>2. QED
  BY <1>1, JournalStep DEF OwnInv

\* Whatever fails and whatever goes on running, a call removes no rule that it did
\* not attempt to insert, or that was there when it began (the journal of
\* remote_network.py).
THEOREM OnlyOwnRulesGo == Spec => OnlyOwnRulesRemoved
<1>1. OwnInv /\ [Next]_vars => OwnInv'
  BY OwnStep
<1>2. OwnInv /\ [Next]_vars => [rules \ rules' \subseteq attempted \ before.rules]_vars
  BY OnlyOwnStep
<1>3. QED
  BY OwnInit, <1>1, <1>2, PTL DEF Spec, OnlyOwnRulesRemoved

-------------------------------------------------------------------------------
\* What is reported is so.

\* Before the staging directory, before the artifacts, and with it.
BeforeTemp == Inserting \cup {"prepare", "identity", "mktemp"}
WithTemp == {"upload", "installer", "fetch", "persist", "removeTemp", "recoverTemp"}

Told ==
  /\ remoteStatus = "not_started" => AsFound
  /\ [do |-> "install"] \in late => remoteStatus = "unknown"
  /\ remoteStatus = "succeeded" => install = "done"
  /\ pc \in BeforeTemp \cup {"upload", "installer"} => remoteStatus = "not_started"
  /\ pc \in {"fetch", "persist"} => remoteStatus = "succeeded"
  /\ pc \in BeforeTemp \cup {"upload", "installer", "fetch", "persist"} =>
       artifacts = "not_saved"
  /\ artifacts = "saved" => local = "saved" /\ remoteStatus = "succeeded"
  /\ pc \in BeforeTemp => cleanup = "not_needed" /\ ~tempKnown
  /\ pc \in WithTemp => tempKnown
  /\ cleanup \in {"not_needed", "succeeded"} => ~temp
  /\ [do |-> "mktemp"] \in late => ~tempKnown /\ cleanup = "unknown"
  /\ pc \in {"removeTemp", "leave"} /\ cause = "none" => artifacts = "saved"
  /\ pc = "close" => artifacts = "saved" /\ cleanup = "succeeded"
  /\ outcome = "applied" => pc = "done" /\ artifacts = "saved" /\ cleanup = "succeeded"
ToldInv == TypeInv /\ Told

LEMMA ToldInit == Init => ToldInv
<1>1. Init => Told
  BY DEF Init, CallStart, Told, AsFound, BeforeTemp, WithTemp, Inserting, NetLabels
<1>2. QED
  BY <1>1, TypeInit DEF ToldInv

\* Steps that only take the call elsewhere.
LEMMA ReportStep ==
  ASSUME ToldInv, [Next]_vars
  PROVE  Told'
<1> USE DEF Told, AsFound, BeforeTemp, WithTemp, Inserting, NetLabels, StartRecovery,
        StartUndo, Finish, Goto
<1>0. /\ Told
      /\ cause \in {"none", "error", "transport", "interrupt"}
      /\ remoteStatus \in {"not_started", "unknown", "failed", "succeeded"}
      /\ temp \in BOOLEAN /\ tempKnown \in BOOLEAN
  BY DEF ToldInv, TypeInv, TypeOK, HostTyped, ControlTyped, ReportTyped
<1>1. CASE BrokenCommand
  BY <1>0, <1>1 DEF BrokenCommand, Fails, NextUndo, UndoFails, RemoteLabels, UndoLabels,
     OnceLabels, server, report
<1>2. CASE Preflight
  BY <1>0, <1>2 DEF Preflight, Raised, server
<1>3. CASE InsertAllow \/ InsertDeny
  <2>1. late' \subseteq late \cup UfwCommands /\ UNCHANGED <<install, temp>>
    BY <1>3 DEF InsertAllow, InsertDeny, Insert, Ufw, UfwCommands, Pair
  <2>2. [do |-> "install"] \notin UfwCommands /\ [do |-> "mktemp"] \notin UfwCommands
    BY OtherIsNotUfw DEF OtherCommands
  <2>3. QED
    BY <1>0, <1>3, <2>1, <2>2 DEF InsertAllow, InsertDeny, Insert, Session, NetFails, Raised,
       report
<1>4. CASE LookAllow \/ LookPair \/ FreshProof
  BY <1>0, <1>4 DEF LookAllow, LookPair, FreshProof, Session, NetFails, Raised, server, report
<1>5. CASE Prepare
  BY <1>0, <1>5 DEF Prepare, PlainException, server, report
<1>6. CASE Identity \/ Upload \/ Fetch
  BY <1>0, <1>6 DEF Identity, Upload, Fetch, Session, RemoteFails, Answers, server, report
<1>7. CASE Mktemp
  <2>1. [do |-> "install"] # [do |-> "mktemp"]
    OBVIOUS
  <2>2. PICK answer \in Answers :
          /\ tempKnown' = (answer = "ok")
          /\ late' \in {late, late \cup {[do |-> "mktemp"]}}
          /\ answer = "ok" => late' = late
          /\ IF answer = "ok" THEN Goto("upload") ELSE RemoteFails(answer)
    BY <1>7 DEF Mktemp, Executions
  <2>3. /\ pc = "mktemp" /\ cleanup' = "unknown"
        /\ UNCHANGED <<install, local, remoteStatus, artifacts, before>>
    BY <1>7 DEF Mktemp, Session
  <2>4. QED
    BY <1>0, <2>1, <2>2, <2>3 DEF RemoteFails, Answers
<1>8. CASE Installer
  <2>1. [do |-> "install"] # [do |-> "mktemp"]
    OBVIOUS
  <2>2. QED
    BY <1>0, <1>8, <2>1 DEF Installer, Status, Installs, Executions, Session, RemoteFails,
       Answers
<1>9. CASE Persist
  BY <1>0, <1>9 DEF Persist, RemoteFails, Answers, server
<1>10. CASE RemoveTemp
  BY <1>0, <1>10 DEF RemoveTemp
<1>11. CASE Leave
  BY <1>0, <1>11 DEF Leave, Decide, PlainException, NeedsTemp, server
<1>12. CASE Close \/ RecoverClose
  BY <1>0, <1>12 DEF Close, RecoverClose, Failed, server, report
<1>13. CASE UndoRoot
  BY <1>0, <1>13 DEF UndoRoot, Session, Fails, UndoFails, RemoteLabels, UndoLabels, OnceLabels,
     server, report
<1>14. CASE UndoLook \/ Deleted
  BY <1>0, <1>14 DEF UndoLook, Deleted, Session, Fails, NextUndo, UndoFails, RemoteLabels,
     UndoLabels, OnceLabels, server, report
<1>15. CASE DeleteRule
  <2>1. late' \subseteq late \cup UfwCommands /\ UNCHANGED <<install, temp>>
    BY <1>15 DEF DeleteRule, Ufw, UfwCommands, Undone, Pair
  <2>2. [do |-> "install"] \notin UfwCommands /\ [do |-> "mktemp"] \notin UfwCommands
    BY OtherIsNotUfw DEF OtherCommands
  <2>3. QED
    BY <1>0, <1>15, <2>1, <2>2 DEF DeleteRule, Session, Fails, NextUndo, UndoFails,
       RemoteLabels, UndoLabels, OnceLabels, report
<1>16. CASE PairState \/ UndoFresh
  <2>1. CASE PairState
    BY <1>0, <2>1 DEF PairState, Session, Fails, UndoFails, Raised, RemoteLabels, UndoLabels,
       OnceLabels, server, report
  <2>2. CASE UndoFresh
    BY <1>0, <2>2 DEF UndoFresh, server, report
  <2>3. QED
    BY <1>16, <2>1, <2>2
<1>17. CASE Recover
  BY <1>0, <1>17 DEF Recover, Failed, NeedsTemp, server, report
<1>18. CASE RecoverTemp
  BY <1>0, <1>18 DEF RecoverTemp, Session
<1>19. CASE Land
  <2>1. PICK command \in late :
          /\ late' = late \ {command}
          /\ install' \in IF command.do = "install" THEN {install, "done"} ELSE {install}
          /\ temp' = (temp \/ command.do = "mktemp")
          /\ UNCHANGED <<local, control, report, before>>
    BY <1>19 DEF Land
  <2>2. command.do = "install" => command = [do |-> "install"]
    BY LateInstall DEF ToldInv, TypeInv, StandingInv
  <2>3. command.do = "mktemp" => command = [do |-> "mktemp"]
    BY DEF ToldInv, TypeInv, StandingInv, Typed, UfwCommands, OtherCommands
  <2>4. QED
    BY <1>0, <2>1, <2>2, <2>3 DEF control, report
<1>20. CASE Crash
  BY <1>0, <1>20 DEF Crash, server, report
<1>21. CASE Restart
  BY <1>0, <1>21 DEF Restart
<1>22. CASE Ended \/ UNCHANGED vars
  BY <1>0, <1>22 DEF Ended, vars, server, control, report
<1>23. QED
  BY <1>1, <1>2, <1>3, <1>4, <1>5, <1>6, <1>7, <1>8, <1>9, <1>10, <1>11, <1>12, <1>13,
     <1>14, <1>15, <1>16, <1>17, <1>18, <1>19, <1>20, <1>21, <1>22 DEF Next, Step

LEMMA ToldStep ==
  ASSUME ToldInv, [Next]_vars
  PROVE  ToldInv'
<1>1. TypeInv'
  BY TypeStep DEF ToldInv
<1>2. QED
  BY <1>1, ReportStep DEF ToldInv

\* What RemoteExitError and PcExitResult say of the exit, the artifacts and the
\* staging directory is so, whatever fails and whatever goes on running.
THEOREM ReportsAreTrue == Spec => []ReportIsTrue
<1>1. ToldInv /\ [Next]_vars => ToldInv'
  BY ToldStep
<1>2. ToldInv => ReportIsTrue
  BY DEF ToldInv, Told, AsFound, ReportIsTrue
<1>3. QED
  BY ToldInit, <1>1, <1>2, PTL DEF Spec

-------------------------------------------------------------------------------
\* A call that is said to have been undone is.

Undoable ==
  /\ late = {}
  /\ before.rules \subseteq rules
  /\ rules \subseteq before.rules \cup attempted
  /\ remoteStatus = "failed" => install = before.install
  /\ pc \in Undoing \cup {"recover", "recoverTemp", "recoverClose"} =>
       remoteStatus \in {"not_started", "failed"}
  /\ pc = "undoFresh" => rules = {}
  /\ pc = "recoverClose" => rules = {} \/ attempted = {}
  /\ outcome \in {"aborted", "recovered"} =>
       pc = "done" /\ rules = before.rules /\ install = before.install

UndoableInv == OwnInv /\ ToldInv /\ Undoable

LEMMA UndoableInit == Init => UndoableInv
<1>1. Init => Undoable
  BY DEF Init, CallStart, Undoable, Undoing
<1>2. QED
  BY <1>1, OwnInit, ToldInit DEF UndoableInv

LEMMA UndoableStep ==
  ASSUME Plain, UndoableInv, [Next]_vars
  PROVE  Undoable'
<1> USE DEF Undoable, Undoing, StartRecovery, StartUndo, Finish, Goto, Raised
<1>0. /\ Undoable
      /\ remoteStatus = "not_started" => install = before.install
      /\ pc \in BeforeTemp \cup {"upload", "installer"} => remoteStatus = "not_started"
      /\ pc = "preflight" => before.rules = rules /\ attempted = {}
      /\ attempted \in {{}, {"allow"}, Pair}
  BY DEF UndoableInv, OwnInv, ToldInv, Told, AsFound, Journalled, TypeInv, TypeOK, ReportTyped
<1> USE DEF BeforeTemp, Inserting, NetLabels
<1>1. CASE BrokenCommand
  BY <1>0, <1>1 DEF BrokenCommand, Fails, NextUndo, UndoFails, RemoteLabels, UndoLabels,
     OnceLabels, server, report
<1>2. CASE Preflight
  BY <1>0, <1>2 DEF Preflight, AllowJournal, server
<1>3. CASE InsertAllow \/ InsertDeny
  <2>1. PICK rule \in Pair, execution \in {"yes", "no"} :
          /\ Ufw([do |-> "insert", rule |-> rule], execution)
          /\ rule \in attempted
    BY <1>3, <1>0 DEF InsertAllow, InsertDeny, Insert, UfwExecutions, Executions, Plain, Pair,
       UndoableInv, OwnInv, TypeInv, Prefix, Session
  <2>2. /\ rules \subseteq rules' /\ rules' \subseteq rules \cup attempted
        /\ late' = late /\ install' = install
    BY <2>1 DEF Ufw, Effect
  <2>3. /\ UNCHANGED <<attempted, remoteStatus, before>>
        /\ attempted # {}
        /\ \/ pc' \in {"lookAllow", "lookPair", "recover", "undo"} /\ outcome' = outcome
           \/ pc' = "done" /\ outcome' = "interrupted"
    BY <1>3, <2>1 DEF InsertAllow, InsertDeny, Insert, Session, NetFails, report
  <2>4. pc # "done" /\ remoteStatus = "not_started"
    BY <1>0, <1>3 DEF InsertAllow, InsertDeny, Session
  <2>5. QED
    BY <1>0, <2>2, <2>3, <2>4
<1>4. CASE LookAllow
  BY <1>0, <1>4 DEF LookAllow, DenyJournal, Session, NetFails, server
<1>5. CASE LookPair \/ FreshProof
  BY <1>0, <1>5 DEF LookPair, FreshProof, Session, NetFails, server, report
<1>6. CASE Prepare
  BY <1>0, <1>6 DEF Prepare, PlainException, server, report
<1>7. CASE Identity \/ Upload \/ Fetch \/ Persist
  BY <1>0, <1>7 DEF Identity, Upload, Fetch, Persist, Session, RemoteFails, server, report
<1>8. CASE Mktemp
  BY <1>0, <1>8 DEF Mktemp, Executions, Plain, Session, RemoteFails
<1>9. CASE Installer
  BY <1>0, <1>9 DEF Installer, Installs, Executions, Status, Plain, Session, RemoteFails
<1>10. CASE RemoveTemp
  BY <1>0, <1>10 DEF RemoveTemp
<1>11. CASE Leave
  BY <1>0, <1>11 DEF Leave, Decide, Plain, server
<1>12. CASE Close
  BY <1>0, <1>12 DEF Close, server, report
<1>13. CASE UndoRoot
  BY <1>0, <1>13 DEF UndoRoot, Session, Fails, UndoFails, RemoteLabels, UndoLabels, OnceLabels,
     server, report
<1>14. CASE UndoLook \/ Deleted
  BY <1>0, <1>14 DEF UndoLook, Deleted, Session, Fails, NextUndo, UndoFails, RemoteLabels,
     UndoLabels, OnceLabels, server, report
<1>15. CASE DeleteRule
  <2>1. /\ before.rules \subseteq rules' /\ rules' \subseteq rules
        /\ late' = late /\ install' = install
    <3>1. Undone \in attempted /\ attempted \cap before.rules = {}
      BY <1>15, UndoneIsOwn DEF DeleteRule, Session, UndoLabels, UndoableInv, OwnInv, Journalled
    <3>2. rules' \in {rules, rules \ {Undone}} /\ late' = late /\ install' = install
      BY <1>15 DEF DeleteRule, Ufw, Effect, UfwExecutions, Executions, Plain
    <3>3. QED
      BY <1>0, <3>1, <3>2
  <2>2. QED
    BY <1>0, <1>15, <2>1 DEF DeleteRule, Session, Fails, NextUndo, UndoFails, RemoteLabels,
       UndoLabels, OnceLabels, report
<1>16. CASE PairState
  BY <1>0, <1>16 DEF PairState, Session, Fails, UndoFails, RemoteLabels, UndoLabels, OnceLabels,
     server, report
<1>17. CASE UndoFresh
  BY <1>0, <1>17 DEF UndoFresh, server, report
<1>18. CASE Recover
  BY <1>0, <1>18 DEF Recover, Failed, server, report
<1>19. CASE RecoverTemp
  BY <1>0, <1>19 DEF RecoverTemp, Session
<1>20. CASE RecoverClose
  BY <1>0, <1>20 DEF RecoverClose, Failed, server, report
<1>21. CASE Land
  BY <1>0, <1>21 DEF Land
<1>22. CASE Crash
  BY <1>0, <1>22 DEF Crash, server, report
<1>23. CASE Restart
  BY <1>0, <1>23 DEF Restart
<1>24. CASE Ended \/ UNCHANGED vars
  BY <1>0, <1>24 DEF Ended, vars, server, control, report
<1>25. QED
  BY <1>1, <1>2, <1>3, <1>4, <1>5, <1>6, <1>7, <1>8, <1>9, <1>10, <1>11, <1>12, <1>13,
     <1>14, <1>15, <1>16, <1>17, <1>18, <1>19, <1>20, <1>21, <1>22, <1>23, <1>24 DEF Next, Step

\* A call that ends with the original error alone, or with a completed recovery,
\* leaves the rules and the exit as it found them: for any number of calls and faults,
\* and with a ufw that may say "done" and do nothing (_raise_after_recovery of
\* pc_orchestrator.py).
THEOREM UndoneIsExact == Spec => []BaselineRestored
<1>1. [Next]_vars => Plain' = Plain
  BY DEF Next, vars, Plain
<1>2. (Plain => UndoableInv) /\ [Next]_vars => (Plain => UndoableInv)'
  BY <1>1, OwnStep, ToldStep, UndoableStep DEF UndoableInv
<1>3. (Plain => UndoableInv) => BaselineRestored
  <2>1. UndoableInv => before = [rules |-> before.rules, install |-> before.install]
    BY DEF UndoableInv, OwnInv, TypeInv, TypeOK, HistoryTyped
  <2>2. QED
    BY <2>1 DEF UndoableInv, Undoable, BaselineRestored
<1>4. QED
  BY UndoableInit, <1>2, <1>3, PTL DEF Spec

===============================================================================
