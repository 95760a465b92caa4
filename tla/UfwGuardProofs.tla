---------------------------- MODULE UfwGuardProofs ----------------------------
(***************************************************************************)
(* What holds of UfwGuard for any number of failures: as long as UFW is    *)
(* enabled within the time of the guard, a host that the PC cannot reach   *)
(* has a guard that will open it again; what a run reports of the firewall *)
(* is so, and stays so; a firewall with a foreign rule is left alone.      *)
(***************************************************************************)
EXTENDS UfwGuard, TLAPS

\* Labels before the first command of _enable_pristine_ufw has been tried.
Early == Recovery \cup {"look", "state", "orphan", "orphaned", "packages", "again", "arm"}

\* Where an exception finds nothing to undo, and where a run has no result yet.
Stages ==
  /\ pc \in Early => stage = "none"
  /\ pc \in {"verify", "allow"} => stage = "guard"
  /\ pc \in {"added", "enable"} => stage = "allow"
  /\ pc \in {"fresh", "disarm", "quiet"} => stage = "enable"
  /\ pc = "final" => stage = "quiet"
  /\ pc # "off" => outcome = "none"

\* UFW is known to be inactive.
Inactive ==
  pc \in {"remove", "orphan", "arm", "verify", "allow", "added", "enable",
          "rbDelete", "rbDisarm", "rbQuiet", "rbFinal"} => ~active

\* New connections are known to get through, so that no guard is needed.
Open == pc \in {"staleInspect", "staleDisarm", "staleQuiet", "disarm", "quiet", "final"} => Reachable

\* No guard is left that could change the firewall.
Unguarded ==
  /\ pc \in {"after", "remove", "removed", "state", "orphan", "orphaned", "packages",
             "again", "arm", "final", "rbFinal"} => timer = "off"
  /\ stage = "quiet" /\ pc # "off" => timer = "off"

\* The guard that the run has armed is in place until UFW has been enabled.
Armed == pc \in {"verify", "allow", "added", "enable"} /\ ~slow => timer = "armed"

\* A foreign rule ends a run before its first command.
Foreign == "foreign" \in rules => timer = "off" /\ pc \in {"off", "look", "state"}

Control == Stages /\ Inactive /\ Open /\ Unguarded /\ Armed /\ Foreign

Results == LockoutGuarded /\ PreparedIsFinal /\ RestoredIsTrue

Inv == TypeOK /\ Control /\ Results

-------------------------------------------------------------------------------
\* Every start of the program is a state of the invariant.
LEMMA InvInit ==
  ASSUME Init
  PROVE  Inv
<1>1. TypeOK
  <2>1. rules \subseteq {"ssh", "foreign"} /\ active \in BOOLEAN
    BY DEF Init
  <2> QED
    <3>1. fits \in BOOLEAN /\ slow \in BOOLEAN /\ session \in BOOLEAN /\ seen \in BOOLEAN
      BY DEF Init
    <3>2. faults \in 0..MaxFaults
      BY UfwGuardAssumption DEF Init
    <3> QED
      BY <2>1, <3>1, <3>2 DEF Init, TypeOK, Labels, Enabling, Undoing
<1>2. Control
  BY DEF Init, Control, Stages, Early, Recovery, Inactive, Open, Unguarded, Armed, Foreign
<1>3. Results
  BY DEF Init, Results, LockoutGuarded, PreparedIsFinal, RestoredIsTrue
<1> QED
  BY <1>1, <1>2, <1>3 DEF Inv

\* A stuttering step changes nothing that the invariant mentions.
LEMMA InvStutter ==
  ASSUME Inv, UNCHANGED vars
  PROVE  Inv'
BY DEF vars, host, world, Inv, TypeOK, Labels, Recovery, Enabling, Undoing, Control, Stages,
       Early, Inactive, Open, Unguarded, Armed, Foreign, Results, LockoutGuarded,
       PreparedIsFinal, RestoredIsTrue, Reachable, Owned

\* A step of the run.
LEMMA InvRun ==
  ASSUME Inv, Step
  PROVE  Inv'
<1> USE DEF Inv, TypeOK, Labels, Recovery, Enabling, Undoing, Control, Stages, Early, Inactive,
            Open, Unguarded, Armed, Foreign, Results, LockoutGuarded, PreparedIsFinal,
            RestoredIsTrue, Reachable, Owned, host, world, Goto, End, Except, ExceptFrom
<1>1. CASE LookForGuard
  BY <1>1 DEF LookForGuard, Look
<1>2. CASE Before
  BY <1>2 DEF Before, Look, SafeToRecover
<1>3. CASE StaleInspect
  BY <1>3 DEF StaleInspect, Look
<1>4. CASE StaleDisarm
  BY <1>4 DEF StaleDisarm, Command, Effect, Stopped
<1>5. CASE Quiet
  <2>1. TypeOK'
    BY <1>5 DEF Quiet
  <2>2. Stages'
    BY <1>5 DEF Quiet
  <2>3. Inactive'
    BY <1>5 DEF Quiet
  <2>4. Open'
    BY <1>5 DEF Quiet
  <2>5. Unguarded'
    BY <1>5 DEF Quiet
  <2>6. Armed'
    BY <1>5 DEF Quiet
  <2>7. Foreign'
    BY <1>5 DEF Quiet
  <2>8. LockoutGuarded'
    BY <1>5 DEF Quiet
  <2>9. PreparedIsFinal'
    BY <1>5 DEF Quiet
  <2>10. RestoredIsTrue'
    BY <1>5 DEF Quiet
  <2> QED
    BY <2>1, <2>2, <2>3, <2>4, <2>5, <2>6, <2>7, <2>8, <2>9, <2>10
<1>6. CASE After
  BY <1>6 DEF After, Look, SafeToRecover
<1>7. CASE Remove
  BY <1>7 DEF Remove, Command, Effect, DeleteRule
<1>8. CASE Removed
  <2>1. TypeOK'
    BY <1>8 DEF Removed, Look
  <2>2. Stages'
    BY <1>8 DEF Removed, Look
  <2>3. Inactive'
    BY <1>8 DEF Removed, Look
  <2>4. Open'
    BY <1>8 DEF Removed, Look
  <2>5. Unguarded'
    BY <1>8 DEF Removed, Look
  <2>6. Armed'
    BY <1>8 DEF Removed, Look
  <2>7. Foreign'
    BY <1>8 DEF Removed, Look
  <2>8. LockoutGuarded'
    BY <1>8 DEF Removed, Look
  <2>9. PreparedIsFinal'
    BY <1>8 DEF Removed, Look
  <2>10. RestoredIsTrue'
    BY <1>8 DEF Removed, Look
  <2> QED
    BY <2>1, <2>2, <2>3, <2>4, <2>5, <2>6, <2>7, <2>8, <2>9, <2>10
<1>9. CASE InspectState
  BY <1>9 DEF InspectState, Look
<1>10. CASE Packages
  BY <1>10 DEF Packages, Look
<1>11. CASE InspectAgain
  BY <1>11 DEF InspectAgain, Look
<1>12. CASE Arm
  BY <1>12 DEF Arm, Command, Effect
<1>13. CASE VerifyGuard
  BY <1>13 DEF VerifyGuard, Look
<1>14. CASE Allow
  BY <1>14 DEF Allow, Command, Effect
<1>15. CASE VerifyRule
  BY <1>15 DEF VerifyRule, Look
<1>16. CASE Enable
  BY <1>16 DEF Enable, Command, Effect
<1>17. CASE Fresh
  <2>1. TypeOK'
    BY <1>17 DEF Fresh, Look
  <2>2. Stages'
    BY <1>17 DEF Fresh, Look
  <2>3. Inactive'
    BY <1>17 DEF Fresh, Look
  <2>4. Open'
    BY <1>17 DEF Fresh, Look
  <2>5. Unguarded'
    BY <1>17 DEF Fresh, Look
  <2>6. Armed'
    BY <1>17 DEF Fresh, Look
  <2>7. Foreign'
    BY <1>17 DEF Fresh, Look
  <2>8. LockoutGuarded'
    BY <1>17 DEF Fresh, Look
  <2>9. PreparedIsFinal'
    BY <1>17 DEF Fresh, Look
  <2>10. RestoredIsTrue'
    BY <1>17 DEF Fresh, Look
  <2> QED
    BY <2>1, <2>2, <2>3, <2>4, <2>5, <2>6, <2>7, <2>8, <2>9, <2>10
<1>18. CASE Disarm
  BY <1>18 DEF Disarm, Command, Effect, Stopped
<1>19. CASE Final
  <2>1. TypeOK'
    BY <1>19 DEF Final, Look
  <2>2. Stages'
    BY <1>19 DEF Final, Look
  <2>3. Inactive'
    BY <1>19 DEF Final, Look
  <2>4. Open'
    BY <1>19 DEF Final, Look
  <2>5. Unguarded'
    BY <1>19 DEF Final, Look
  <2>6. Armed'
    BY <1>19 DEF Final, Look
  <2>7. Foreign'
    BY <1>19 DEF Final, Look
  <2>8. LockoutGuarded'
    BY <1>19 DEF Final, Look
  <2>9. PreparedIsFinal'
    BY <1>19 DEF Final, Look
  <2>10. RestoredIsTrue'
    BY <1>19 DEF Final, Look
  <2> QED
    BY <2>1, <2>2, <2>3, <2>4, <2>5, <2>6, <2>7, <2>8, <2>9, <2>10
<1>20. CASE RbDisable
  BY <1>20 DEF RbDisable, Command, Effect
<1>21. CASE RbDelete
  BY <1>21 DEF RbDelete, Command, Effect, DeleteRule
<1>22. CASE RbCheck
  BY <1>22 DEF RbCheck, Look
<1>23. CASE RbDisarm
  BY <1>23 DEF RbDisarm, Command, Effect, Stopped
<1>24. CASE RbFinal
  BY <1>24 DEF RbFinal, Look
<1>25. CASE RbFailed
  BY <1>25 DEF RbFailed
<1>26. CASE NoSession
  <2>1. TypeOK'
    <3>1. /\ active' \in BOOLEAN /\ fits' \in BOOLEAN /\ slow' \in BOOLEAN
          /\ session' \in BOOLEAN /\ seen' \in BOOLEAN
      BY <1>26 DEF NoSession, Attempted
    <3>2. rules' \subseteq {"ssh", "foreign"} /\ timer' \in {"off", "armed", "firing"}
      BY <1>26 DEF NoSession, Attempted
    <3>3. /\ pc' \in Labels
          /\ pc' \in (Enabling \ {"arm"}) \cup Undoing => stage' # "none"
      BY <1>26 DEF NoSession, Attempted
    <3>4. faults' \in 0..MaxFaults
      BY <1>26 DEF NoSession, Attempted
    <3>5. /\ stage' \in {"none", "guard", "allow", "enable", "quiet"}
          /\ outcome' \in {"none", "refused", "prepared", "restored", "guarded", "unguarded",
                            "unknown", "killed"}
      BY <1>26 DEF NoSession, Attempted
    <3> QED
      BY <3>1, <3>2, <3>3, <3>4, <3>5
  <2>2. Stages'
    BY <1>26 DEF NoSession, Attempted
  <2>3. Inactive'
    BY <1>26 DEF NoSession, Attempted
  <2>4. Open'
    BY <1>26 DEF NoSession, Attempted
  <2>5. Unguarded'
    BY <1>26 DEF NoSession, Attempted
  <2>6. Armed'
    BY <1>26 DEF NoSession, Attempted
  <2>7. Foreign'
    BY <1>26 DEF NoSession, Attempted
  <2>8. LockoutGuarded'
    BY <1>26 DEF NoSession, Attempted
  <2>9. PreparedIsFinal'
    BY <1>26 DEF NoSession, Attempted
  <2>10. RestoredIsTrue'
    BY <1>26 DEF NoSession, Attempted
  <2> QED
    BY <2>1, <2>2, <2>3, <2>4, <2>5, <2>6, <2>7, <2>8, <2>9, <2>10
<1> QED
  BY <1>1, <1>2, <1>3, <1>4, <1>5, <1>6, <1>7, <1>8, <1>9, <1>10, <1>11, <1>12, <1>13, <1>14, <1>15, <1>16, <1>17, <1>18, <1>19, <1>20, <1>21, <1>22, <1>23, <1>24, <1>25, <1>26 DEF Step

\* A step of anybody else: the user, a failure, systemd.
LEMMA InvOther ==
  ASSUME Inv, Start \/ CommandFails \/ SessionLost \/ Killed \/ TimerFires \/ ServiceEnds
  PROVE  Inv'
<1> USE UfwGuardAssumption
<1> USE DEF Inv, TypeOK, Labels, Recovery, Enabling, Undoing, Control, Stages, Early, Inactive,
            Open, Unguarded, Armed, Foreign, Results, LockoutGuarded, PreparedIsFinal,
            RestoredIsTrue, Reachable, Owned, host, world, Goto, End, ExceptFrom
<1>1. CASE Start
  BY <1>1 DEF Start
<1>2. CASE CommandFails
  <2>1. TypeOK'
    <3>1. /\ active' \in BOOLEAN /\ fits' \in BOOLEAN /\ slow' \in BOOLEAN
          /\ session' \in BOOLEAN /\ seen' \in BOOLEAN
      BY <1>2 DEF CommandFails, Charge, Attempted, Mutating, Effect, Stopped, DeleteRule
    <3>2. rules' \subseteq {"ssh", "foreign"} /\ timer' \in {"off", "armed", "firing"}
      BY <1>2 DEF CommandFails, Charge, Attempted, Mutating, Effect, Stopped, DeleteRule
    <3>3. /\ pc' \in Labels
          /\ pc' \in (Enabling \ {"arm"}) \cup Undoing => stage' # "none"
      BY <1>2 DEF CommandFails, Charge, Attempted, Mutating, Effect, Stopped, DeleteRule
    <3>4. faults' \in 0..MaxFaults
      BY <1>2 DEF CommandFails, Charge, Attempted, Mutating, Effect, Stopped, DeleteRule
    <3>5. /\ stage' \in {"none", "guard", "allow", "enable", "quiet"}
          /\ outcome' \in {"none", "refused", "prepared", "restored", "guarded", "unguarded",
                            "unknown", "killed"}
      BY <1>2 DEF CommandFails, Charge, Attempted, Mutating, Effect, Stopped, DeleteRule
    <3> QED
      BY <3>1, <3>2, <3>3, <3>4, <3>5
  <2>2. Stages'
    BY <1>2 DEF CommandFails, Charge, Attempted, Mutating, Effect, Stopped, DeleteRule
  <2>3. Inactive'
    BY <1>2 DEF CommandFails, Charge, Attempted, Mutating, Effect, Stopped, DeleteRule
  <2>4. Open'
    BY <1>2 DEF CommandFails, Charge, Attempted, Mutating, Effect, Stopped, DeleteRule
  <2>5. Unguarded'
    BY <1>2 DEF CommandFails, Charge, Attempted, Mutating, Effect, Stopped, DeleteRule
  <2>6. Armed'
    BY <1>2 DEF CommandFails, Charge, Attempted, Mutating, Effect, Stopped, DeleteRule
  <2>7. Foreign'
    <3>1. CASE UNCHANGED host
      BY <1>2, <3>1 DEF CommandFails, Attempted
    <3>2. CASE pc \in Mutating /\ Effect
      <4>1. "foreign" \notin rules
        BY <3>2 DEF Mutating
      <4>2. \/ rules' = rules
            \/ rules' = rules \ {"ssh"}
            \/ rules' = rules \cup {"ssh"}
        BY <3>2 DEF Mutating, Effect, Stopped, DeleteRule
      <4> QED
        BY <4>1, <4>2
    <3> QED
      BY <1>2, <3>1, <3>2 DEF CommandFails
  <2>8. LockoutGuarded'
    BY <1>2 DEF CommandFails, Charge, Attempted, Mutating, Effect, Stopped, DeleteRule
  <2>9. PreparedIsFinal'
    BY <1>2 DEF CommandFails, Charge, Attempted, Mutating, Effect, Stopped, DeleteRule
  <2>10. RestoredIsTrue'
    BY <1>2 DEF CommandFails, Charge, Attempted, Mutating, Effect, Stopped, DeleteRule
  <2> QED
    BY <2>1, <2>2, <2>3, <2>4, <2>5, <2>6, <2>7, <2>8, <2>9, <2>10
<1>3. CASE SessionLost
  <2>1. TypeOK'
    <3>1. /\ active' \in BOOLEAN /\ fits' \in BOOLEAN /\ slow' \in BOOLEAN
          /\ session' \in BOOLEAN /\ seen' \in BOOLEAN
      BY <1>3 DEF SessionLost, Charge
    <3>2. rules' \subseteq {"ssh", "foreign"} /\ timer' \in {"off", "armed", "firing"}
      BY <1>3 DEF SessionLost, Charge
    <3>3. /\ pc' \in Labels
          /\ pc' \in (Enabling \ {"arm"}) \cup Undoing => stage' # "none"
      BY <1>3 DEF SessionLost, Charge
    <3>4. faults' \in 0..MaxFaults
      BY <1>3 DEF SessionLost, Charge
    <3>5. /\ stage' \in {"none", "guard", "allow", "enable", "quiet"}
          /\ outcome' \in {"none", "refused", "prepared", "restored", "guarded", "unguarded",
                            "unknown", "killed"}
      BY <1>3 DEF SessionLost, Charge
    <3> QED
      BY <3>1, <3>2, <3>3, <3>4, <3>5
  <2>2. Stages'
    BY <1>3 DEF SessionLost, Charge
  <2>3. Inactive'
    BY <1>3 DEF SessionLost, Charge
  <2>4. Open'
    BY <1>3 DEF SessionLost, Charge
  <2>5. Unguarded'
    BY <1>3 DEF SessionLost, Charge
  <2>6. Armed'
    BY <1>3 DEF SessionLost, Charge
  <2>7. Foreign'
    BY <1>3 DEF SessionLost, Charge
  <2>8. LockoutGuarded'
    BY <1>3 DEF SessionLost, Charge
  <2>9. PreparedIsFinal'
    BY <1>3 DEF SessionLost, Charge
  <2>10. RestoredIsTrue'
    BY <1>3 DEF SessionLost, Charge
  <2> QED
    BY <2>1, <2>2, <2>3, <2>4, <2>5, <2>6, <2>7, <2>8, <2>9, <2>10
<1>4. CASE Killed
  BY <1>4 DEF Killed, Charge
<1>5. CASE TimerFires
  BY <1>5 DEF TimerFires
<1>6. CASE ServiceEnds
  <2>1. TypeOK'
    <3>1. /\ active' \in BOOLEAN /\ fits' \in BOOLEAN /\ slow' \in BOOLEAN
          /\ session' \in BOOLEAN /\ seen' \in BOOLEAN
      BY <1>6 DEF ServiceEnds
    <3>2. rules' \subseteq {"ssh", "foreign"} /\ timer' \in {"off", "armed", "firing"}
      BY <1>6 DEF ServiceEnds
    <3>3. /\ pc' \in Labels
          /\ pc' \in (Enabling \ {"arm"}) \cup Undoing => stage' # "none"
      BY <1>6 DEF ServiceEnds
    <3>4. faults' \in 0..MaxFaults
      BY <1>6 DEF ServiceEnds
    <3>5. /\ stage' \in {"none", "guard", "allow", "enable", "quiet"}
          /\ outcome' \in {"none", "refused", "prepared", "restored", "guarded", "unguarded",
                            "unknown", "killed"}
      BY <1>6 DEF ServiceEnds
    <3> QED
      BY <3>1, <3>2, <3>3, <3>4, <3>5
  <2>2. Stages'
    BY <1>6 DEF ServiceEnds
  <2>3. Inactive'
    BY <1>6 DEF ServiceEnds
  <2>4. Open'
    BY <1>6 DEF ServiceEnds
  <2>5. Unguarded'
    BY <1>6 DEF ServiceEnds
  <2>6. Armed'
    BY <1>6 DEF ServiceEnds
  <2>7. Foreign'
    BY <1>6 DEF ServiceEnds
  <2>8. LockoutGuarded'
    BY <1>6 DEF ServiceEnds
  <2>9. PreparedIsFinal'
    BY <1>6 DEF ServiceEnds
  <2>10. RestoredIsTrue'
    BY <1>6 DEF ServiceEnds
  <2> QED
    BY <2>1, <2>2, <2>3, <2>4, <2>5, <2>6, <2>7, <2>8, <2>9, <2>10
<1> QED
  BY <1>1, <1>2, <1>3, <1>4, <1>5, <1>6

LEMMA InvNext ==
  ASSUME Inv, [Next]_vars
  PROVE  Inv'
BY InvStutter, InvRun, InvOther DEF Next

LEMMA Invariance == Spec => []Inv
<1>1. Init => Inv
  BY InvInit
<1>2. Inv /\ [Next]_vars => Inv'
  BY InvNext
<1> QED
  BY <1>1, <1>2, PTL DEF Spec

-------------------------------------------------------------------------------

\* Every state has the types of the program's; an exception that comes after the
\* first command of _enable_pristine_ufw always finds something to undo.
THEOREM TypeCorrect == Spec => []TypeOK
<1>1. Inv => TypeOK
  BY DEF Inv
<1> QED
  BY <1>1, Invariance, PTL

\* The PC is locked out only while the guard that will disable UFW is in place,
\* provided that _enable_pristine_ufw enables UFW within the time of the guard.
THEOREM LockoutsAreGuarded == Spec => []LockoutGuarded
<1>1. Inv => LockoutGuarded
  BY DEF Inv, Results
<1> QED
  BY <1>1, Invariance, PTL

\* A host reported as prepared is: UFW is active with the SSH rule alone, and no
\* timer of this or of an earlier run is left to disable it.
THEOREM PreparedLasts == Spec => []PreparedIsFinal
<1>1. Inv => PreparedIsFinal
  BY DEF Inv, Results
<1> QED
  BY <1>1, Invariance, PTL

\* A rollback that reports the initial state has left no rule, no active UFW and
\* no timer.
THEOREM RestoredIsSo == Spec => []RestoredIsTrue
<1>1. Inv => RestoredIsTrue
  BY DEF Inv, Results
<1> QED
  BY <1>1, Invariance, PTL

\* No run, and no guard of a run, touches a firewall with a rule of somebody else.
THEOREM ForeignRulesAreLeftAlone == Spec => ForeignUntouched
<1>1. ASSUME Inv, [Next]_vars, "foreign" \in rules
      PROVE  UNCHANGED host
  <2>1. timer = "off" /\ pc \in {"off", "look", "state"}
    BY <1>1 DEF Inv, Control, Foreign
  <2>2. CASE Step
    BY <2>1, <2>2 DEF Step, LookForGuard, Before, StaleInspect, StaleDisarm, Quiet, After,
       Remove, Removed, InspectState, Packages, InspectAgain, Arm, VerifyGuard, Allow,
       VerifyRule, Enable, Fresh, Disarm, Final, RbDisable, RbDelete, RbCheck, RbDisarm,
       RbFinal, RbFailed, NoSession, Look, Command
  <2>3. CASE CommandFails
    BY <2>1, <2>3 DEF CommandFails, Mutating
  <2>4. CASE Start \/ SessionLost \/ Killed \/ TimerFires \/ ServiceEnds
    BY <2>1, <2>4 DEF Start, SessionLost, Killed, TimerFires, ServiceEnds
  <2>5. CASE UNCHANGED vars
    BY <2>5 DEF vars
  <2> QED
    BY <1>1, <2>2, <2>3, <2>4, <2>5 DEF Next
<1>2. Inv /\ [Next]_vars => ["foreign" \in rules => UNCHANGED host]_vars
  BY <1>1
<1> QED
  BY <1>2, Invariance, PTL DEF Spec, ForeignUntouched

===============================================================================
