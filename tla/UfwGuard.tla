------------------------------- MODULE UfwGuard -------------------------------
(***************************************************************************)
(* The firewall part of prepare_remote_exit, xhttp_setup/remote_prepare.py: *)
(* the PC enables UFW on a host that it reaches only through the network.  *)
(* A transient systemd timer, the rollback guard, disables UFW again       *)
(* unless the PC has proved a new SSH connection and stopped it in time.   *)
(*                                                                         *)
(* Three parties take steps: the PC (any number of runs, each of which may *)
(* be killed or lose its SSH session), the timer with its service, and the *)
(* commands of the PC on the host, which may have their effect although    *)
(* the PC sees them fail.  ufw takes a lock, so that a command that timed  *)
(* out has had its effect, or never will, when the next one runs.          *)
(***************************************************************************)
EXTENDS Naturals

CONSTANT MaxFaults  \* bound: failed commands, lost sessions, kills

ASSUME UfwGuardAssumption == MaxFaults \in Nat

VARIABLES
  active,   \* UFW is active
  rules,    \* ufw show added: "ssh" is the managed allow of the SSH port
  timer,    \* the guard: "off", "armed", "firing" (its service runs)
  fits,     \* the SSH port of the PC is the one that sshd sees: a rule for it
            \* lets new connections in
  slow,     \* arming to enabling may take longer than _ROLLBACK_SECONDS
  pc,       \* the next command of the run; "off" between runs
  session,  \* the SSH session that the run began with is alive
  seen,     \* before_active of _recover_stale_ufw_guard
  stage,    \* what _enable_pristine_ufw has attempted; "quiet" once the guard
            \* has been disarmed
  outcome,  \* how the last run ended
  faults

host == <<active, rules, timer>>
world == <<fits, slow>>
vars == <<host, world, pc, session, seen, stage, outcome, faults>>

\* A new SSH connection gets through.
Reachable == active => "ssh" \in rules /\ fits

Init ==
  /\ active \in BOOLEAN
  /\ rules \in IF active THEN {{"ssh"}, {"ssh", "foreign"}} ELSE {{}, {"foreign"}, {"ssh", "foreign"}}
  /\ timer = "off"
  /\ fits \in BOOLEAN /\ slow \in BOOLEAN
  /\ Reachable
  /\ pc = "off"
  /\ session = FALSE
  /\ seen = FALSE
  /\ stage = "none"
  /\ outcome = "none"
  /\ faults = 0

-------------------------------------------------------------------------------
\* Control.

Charge ==
  /\ faults < MaxFaults
  /\ faults' = faults + 1

Goto(label) == pc' = label /\ UNCHANGED outcome

End(report) == pc' = "off" /\ outcome' = report

Recovery == {"before", "staleInspect", "staleDisarm", "staleQuiet", "after", "remove",
             "removed"}
Enabling == {"arm", "verify", "allow", "added", "enable", "fresh", "disarm", "quiet",
             "final"}
Undoing == {"rbDisable", "rbDelete", "rbCheck", "rbDisarm", "rbQuiet", "rbFinal",
            "rbFailed"}
Labels == Recovery \cup Enabling \cup Undoing
          \cup {"off", "look", "state", "orphan", "orphaned", "packages", "again"}

\* An exception: nothing was begun, or _rollback_new_ufw follows, or it has failed.
ExceptFrom(s) ==
  IF pc \in Undoing THEN Goto("rbFailed")
  ELSE CASE s = "none" -> End("refused")
         [] s = "guard" -> Goto("rbCheck")
         [] s = "allow" -> Goto("rbDelete")
         [] s \in {"enable", "quiet"} -> Goto("rbDisable")

Except == ExceptFrom(stage)

\* A command that only looks.
Look(label) ==
  /\ pc = label
  /\ session
  /\ UNCHANGED <<host, world, session, stage, faults>>

\* A command that changes the host.
Command(label) ==
  /\ pc = label
  /\ session
  /\ UNCHANGED <<world, session, seen, faults>>

-------------------------------------------------------------------------------
\* The effects of commands.

Stopped ==
  /\ timer' = "off"
  /\ active' \in IF timer = "firing" THEN {active, FALSE} ELSE {active}
  /\ UNCHANGED rules

DeleteRule == rules' = rules \ {"ssh"} /\ UNCHANGED <<active, timer>>

Effect ==
  CASE pc \in {"staleDisarm", "disarm", "rbDisarm"} -> Stopped
    [] pc \in {"remove", "orphan", "rbDelete"} -> DeleteRule
    [] pc = "arm" -> timer' = "armed" /\ UNCHANGED <<active, rules>>
    [] pc = "allow" -> rules' = rules \cup {"ssh"} /\ UNCHANGED <<active, timer>>
    [] pc = "enable" -> active' = TRUE /\ UNCHANGED <<rules, timer>>
    [] pc = "rbDisable" -> active' = FALSE /\ UNCHANGED <<rules, timer>>

-------------------------------------------------------------------------------
\* A run.

\* The wizard has opened its SSH session.
Start ==
  /\ pc = "off"
  /\ Reachable
  /\ pc' = "look" /\ outcome' = "none"
  /\ session' = TRUE
  /\ stage' = "none"
  /\ UNCHANGED <<host, world, seen, faults>>

LookForGuard ==
  /\ Look("look")
  /\ Goto(IF timer # "off" THEN "before" ELSE "state")
  /\ UNCHANGED seen

\* _ufw_added_commands is exactly _expected_ssh_rule.
Owned == rules = {"ssh"}
SafeToRecover == IF active THEN Owned ELSE rules \in {{}, {"ssh"}}

\* A fresh connection, then what the timer may be about to change.
Before ==
  /\ Look("before")
  /\ IF Reachable /\ SafeToRecover THEN Goto("staleInspect") ELSE Except
  /\ seen' = active

\* _inspect_firewall compares the kernel with the state that was read.
StaleInspect ==
  /\ Look("staleInspect")
  /\ IF seen = active THEN Goto("staleDisarm") ELSE Except
  /\ UNCHANGED seen

StaleDisarm ==
  /\ Command("staleDisarm")
  /\ Effect
  /\ Goto("staleQuiet")
  /\ UNCHANGED stage

\* The poll of disarm.
Quiet ==
  /\ pc \in {"staleQuiet", "quiet", "rbQuiet"}
  /\ session
  /\ IF timer = "off"
     THEN /\ Goto(CASE pc = "staleQuiet" -> "after" [] pc = "quiet" -> "final" [] OTHER -> "rbFinal")
          /\ stage' = IF pc = "quiet" THEN "quiet" ELSE stage
     ELSE Except /\ UNCHANGED stage
  /\ UNCHANGED <<host, world, session, seen, faults>>

After ==
  /\ Look("after")
  /\ IF ~(Reachable /\ SafeToRecover) THEN Except
     ELSE Goto(IF ~active /\ Owned THEN "remove" ELSE "state")
  /\ UNCHANGED seen

\* _remove_inactive_managed_ssh_rule, for a stale guard and for an orphaned rule.
Remove ==
  /\ Command("remove") \/ Command("orphan")
  /\ Effect
  /\ Goto(IF pc = "remove" THEN "removed" ELSE "orphaned")
  /\ UNCHANGED stage

Removed ==
  /\ Look("removed") \/ Look("orphaned")
  /\ IF active \/ rules # {} THEN Except ELSE Goto("state")
  /\ UNCHANGED seen

\* Mutant: the rule of a run that was killed is taken for a foreign one.
InspectStateOrphanless ==
  /\ Look("state")
  /\ IF (IF active THEN Owned ELSE rules = {}) THEN Goto("packages") ELSE Except
  /\ UNCHANGED seen

\* The rule that a killed run left in an inactive UFW is removed, any other refused.
InspectState ==
  /\ Look("state")
  /\ IF ~active /\ Owned THEN Goto("orphan")
     ELSE IF (IF active THEN Owned ELSE rules = {}) THEN Goto("packages")
     ELSE Except
  /\ UNCHANGED seen

Packages ==
  /\ Look("packages")
  /\ Goto("again")
  /\ UNCHANGED seen

InspectAgain ==
  /\ Look("again")
  /\ IF active THEN IF Owned THEN End("prepared") ELSE Except
     ELSE IF rules = {} THEN Goto("arm") ELSE Except
  /\ UNCHANGED seen

-------------------------------------------------------------------------------
\* _enable_pristine_ufw: each flag is set before its command.

Arm ==
  /\ Command("arm")
  /\ Effect
  /\ Goto("verify")
  /\ stage' = "guard"

VerifyGuard ==
  /\ Look("verify")
  /\ IF timer # "off" THEN Goto("allow") ELSE Except
  /\ UNCHANGED seen

Allow ==
  /\ Command("allow")
  /\ Effect
  /\ Goto("added")
  /\ stage' = "allow"

VerifyRule ==
  /\ Look("added")
  /\ IF Owned THEN Goto("enable") ELSE Except
  /\ UNCHANGED seen

\* Mutant: UFW is enabled and the guard disarmed without a new connection.
EnableUnproved ==
  /\ Command("enable")
  /\ Effect
  /\ Goto("disarm")
  /\ stage' = "enable"

Enable ==
  /\ Command("enable")
  /\ Effect
  /\ Goto("fresh")
  /\ stage' = "enable"

Fresh ==
  /\ Look("fresh")
  /\ IF Reachable /\ active /\ Owned THEN Goto("disarm") ELSE Except
  /\ UNCHANGED seen

Disarm ==
  /\ Command("disarm")
  /\ Effect
  /\ Goto("quiet")
  /\ UNCHANGED stage

\* Mutant: a service that was running when it was stopped has done nothing.
FinalTrusting ==
  /\ Look("final")
  /\ End("prepared")
  /\ UNCHANGED seen

\* Everything once more, now that no guard can change it.
Final ==
  /\ Look("final")
  /\ IF Reachable /\ active /\ Owned THEN End("prepared") ELSE Except
  /\ UNCHANGED seen

-------------------------------------------------------------------------------
\* _rollback_new_ufw.

RbDisable ==
  /\ Command("rbDisable")
  /\ Effect
  /\ Goto("rbDelete")
  /\ UNCHANGED stage

RbDelete ==
  /\ Command("rbDelete")
  /\ Effect
  /\ Goto("rbCheck")
  /\ UNCHANGED stage

\* Mutant: only a guard that has seen the rule is disarmed.
RbCheckUnarmed ==
  /\ Look("rbCheck")
  /\ IF active \/ rules # {} THEN Except
     ELSE Goto(IF stage \in {"guard", "quiet"} THEN "rbFinal" ELSE "rbDisarm")
  /\ UNCHANGED seen

RbCheck ==
  /\ Look("rbCheck")
  /\ IF active \/ rules # {} THEN Except
     ELSE Goto(IF stage = "quiet" THEN "rbFinal" ELSE "rbDisarm")
  /\ UNCHANGED seen

RbDisarm ==
  /\ Command("rbDisarm")
  /\ Effect
  /\ Goto("rbQuiet")
  /\ UNCHANGED stage

RbFinal ==
  /\ Look("rbFinal")
  /\ IF Reachable /\ ~active /\ rules = {} THEN End("restored") ELSE Except
  /\ UNCHANGED seen

\* is_armed, for the report; without an answer its state is unknown.
RbFailed ==
  /\ pc = "rbFailed"
  /\ \E known \in BOOLEAN :
       /\ known => session
       /\ End(CASE ~known -> "unknown" [] timer # "off" -> "guarded" [] OTHER -> "unguarded")
  /\ UNCHANGED <<host, world, session, seen, stage, faults>>

-------------------------------------------------------------------------------
\* Failures.

\* What _enable_pristine_ufw sets before the command that fails.
Attempted ==
  stage' = CASE pc = "arm" -> "guard" [] pc = "allow" -> "allow" [] pc = "enable" -> "enable"
             [] OTHER -> stage

Mutating == {"staleDisarm", "remove", "orphan", "arm", "allow", "enable", "disarm",
             "rbDisable", "rbDelete", "rbDisarm"}

CommandFails ==
  /\ pc \notin {"off", "rbFailed"}
  /\ session
  /\ Charge
  /\ (pc \in Mutating /\ Effect) \/ UNCHANGED host
  /\ Attempted
  /\ ExceptFrom(stage')
  /\ UNCHANGED <<world, session, seen>>

SessionLost ==
  /\ session
  /\ Charge
  /\ session' = FALSE
  /\ UNCHANGED <<host, world, pc, seen, stage, outcome>>

\* Without its session every command fails before it is sent.
NoSession ==
  /\ pc \notin {"off", "rbFailed"}
  /\ ~session
  /\ Attempted
  /\ ExceptFrom(stage')
  /\ UNCHANGED <<host, world, session, seen, faults>>

Killed ==
  /\ pc # "off"
  /\ Charge
  /\ End("killed")
  /\ UNCHANGED <<host, world, session, seen, stage>>

-------------------------------------------------------------------------------
\* systemd.

\* A run that is not slow enables UFW within _ROLLBACK_SECONDS, or ends.
TimerFires ==
  /\ timer = "armed"
  /\ slow \/ pc \notin {"verify", "allow", "added", "enable"}
  /\ timer' = "firing"
  /\ UNCHANGED <<active, rules, world, pc, session, seen, stage, outcome, faults>>

\* Mutant: the script of the service does not disable UFW.
ServiceEndsIdle ==
  /\ timer = "firing"
  /\ timer' = "off"
  /\ UNCHANGED <<active, rules, world, pc, session, seen, stage, outcome, faults>>

\* ufw --force disable; the rules stay.
ServiceEnds ==
  /\ timer = "firing"
  /\ active' = FALSE
  /\ timer' = "off"
  /\ UNCHANGED <<rules, world, pc, session, seen, stage, outcome, faults>>

-------------------------------------------------------------------------------

Step ==
  \/ LookForGuard \/ Before \/ StaleInspect \/ StaleDisarm \/ Quiet \/ After \/ Remove \/ Removed
  \/ InspectState \/ Packages \/ InspectAgain \/ Arm \/ VerifyGuard \/ Allow \/ VerifyRule
  \/ Enable \/ Fresh \/ Disarm \/ Final
  \/ RbDisable \/ RbDelete \/ RbCheck \/ RbDisarm \/ RbFinal \/ RbFailed \/ NoSession

Next == Start \/ Step \/ CommandFails \/ SessionLost \/ Killed \/ TimerFires \/ ServiceEnds

Spec == Init /\ [][Next]_vars

\* systemd does what it was asked for; a run goes on; the user starts it again.
FairSpec == Spec /\ WF_vars(TimerFires) /\ WF_vars(ServiceEnds) /\ WF_vars(Step) /\ WF_vars(Start)

-------------------------------------------------------------------------------
\* Properties.

\* Types; and an exception anywhere between the guard and the end of the run
\* reaches the rollback.
TypeOK ==
  /\ active \in BOOLEAN
  /\ rules \subseteq {"ssh", "foreign"}
  /\ timer \in {"off", "armed", "firing"}
  /\ fits \in BOOLEAN /\ slow \in BOOLEAN /\ session \in BOOLEAN /\ seen \in BOOLEAN
  /\ pc \in Labels
  /\ stage \in {"none", "guard", "allow", "enable", "quiet"}
  /\ outcome \in {"none", "refused", "prepared", "restored", "guarded", "unguarded", "unknown",
                  "killed"}
  /\ faults \in 0..MaxFaults
  /\ pc \in (Enabling \ {"arm"}) \cup Undoing => stage # "none"

\* A host that no new connection can reach is about to be opened again by the
\* guard, wherever the PC died or lost its session, provided that UFW is enabled
\* within the time of the guard.
LockoutGuarded == ~slow => Reachable \/ timer # "off"

\* A run that reports success leaves an active UFW with the one rule, and no
\* timer that would disable it later.
PreparedIsFinal ==
  outcome = "prepared" => active /\ Owned /\ timer = "off"

\* A run that reports the initial state as restored leaves nothing: no rule, no
\* active UFW, no timer that the next run would have to recover from.
RestoredIsTrue ==
  outcome = "restored" => ~active /\ rules = {} /\ timer = "off"

\* A firewall with a rule of somebody else is left alone.
ForeignUntouched == [][ "foreign" \in rules => UNCHANGED host ]_vars

\* A lockout ends, whether or not the PC ever comes back.
LockoutEnds == ~slow => []<>Reachable

\* No state that a killed or failed run leaves is refused for ever: unless there
\* are foreign rules, later runs prepare the host, or, where a rule for the SSH
\* port does not let connections in, restore it.
Recovers == "foreign" \notin rules /\ ~slow => []<>(outcome \in {"prepared", "restored"})
===============================================================================
