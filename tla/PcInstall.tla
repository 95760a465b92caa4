------------------------------- MODULE PcInstall -------------------------------
(***************************************************************************)
(* The PC wizard: _run_pc_install of xhttp_setup/cli.py with what it calls *)
(* (prepare_pc_install and the pending marker of pc_autosetup.py,          *)
(* _apply_front_and_issue), one run after another under wizard.lock.  A    *)
(* run may be killed between any two steps; the next one has the phase     *)
(* marker, the pending marker and the local artifacts to go by.            *)
(*                                                                         *)
(* What the other modules detail is a few steps here: the installation of  *)
(* the exit (PcExit, ExitInstaller) is guard, install, two artifacts; a    *)
(* frontend transaction (FrontTransaction) is the switch and its rollback. *)
(***************************************************************************)
EXTENDS Integers, FiniteSets

CONSTANTS
  Ids,       \* UUID and XHTTP path of one installation
  Egresses,  \* IPv4 addresses the frontend's requests may come from
  None,      \* no file, nothing installed
  Original,  \* the site without the managed block of an installation
  Temporary, \* the block of a probe
  Unknown,   \* whatever an incomplete rollback left
  MaxFaults  \* bound: failed steps, kills and changes outside

FrontPhases == {"front_probe_in_progress", "front_in_progress"}
ExitPhases == {"exit_applying", "exit_ready", "complete"}
Phases == FrontPhases \cup ExitPhases \cup {"preparing"}

\* ExitDesired: the pair, and the /32 the exit's firewall lets in.
Intent == [id : Ids, front : Egresses]

\* A fresh pair is unlike the ones on the exit, in the markers and on the site.
ASSUME PcInstallAssumption ==
  /\ IsFiniteSet(Ids) /\ Cardinality(Ids) >= 2
  /\ Cardinality({None, Original, Temporary, Unknown}) = 4
  /\ Egresses # {} /\ None \notin Egresses
  /\ None \notin Phases \cup Intent
  /\ MaxFaults \in Nat

\* Routes of several probes, each installed and rolled back on its own:
\* the rewrite and the proxy control; three independent egress samples.
Waves == [control |-> 2, egress |-> 3]

VARIABLES
  phase,      \* pc-phase.json
  pending,    \* the pending exit marker
  handoff,    \* handoff.json on the PC
  plan,       \* firewall-plan.txt on the PC
  link,       \* client.vless
  exit,       \* what is installed on the exit
  serving,    \* its service listens on TCP/8083
  guarded,    \* its pair of UFW rules is there
  route,      \* the managed block of the site, an Intent's or one of the above
  backup,     \* the route that a rollback of the running transaction restores
  verified,   \* the E2E probe has passed through the route
  linkLeft,   \* the user was told that client.vless could not be removed
  dirs,       \* the state directories of probe and frontend: "none", "marked", or
              \* "bare" when a run ended between the directory and its marker
  egress,     \* the address the frontend's requests come from
  pc,         \* what the run does next; "off" between runs
  first,      \* the phase the run began with
  found,      \* "fresh", "pending" or "resume"
  want,       \* desired_exit
  own,        \* the running call of apply_pc_exit has inserted the pair
  probe, wave, sample, \* the running probe, its wave, the egress it saw
  failing,    \* the exception on its way out
  refusal,    \* why the last run stopped
  faults

local == <<phase, pending, handoff, plan, link, linkLeft, dirs>>
host == <<exit, serving, guarded>>
site == <<route, backup, verified>>
profile == <<link, linkLeft, dirs>>
run == <<first, found, want, own, probe, wave, sample, failing, refusal>>
vars == <<local, host, site, egress, pc, run, faults>>

Init ==
  /\ phase = None
  /\ pending = None /\ handoff = None /\ plan = None /\ link = None
  /\ exit = None
  /\ serving = FALSE
  /\ guarded = FALSE
  /\ route = Original
  /\ backup = [route |-> Original, verified |-> FALSE]
  /\ verified = FALSE
  /\ linkLeft = FALSE
  /\ dirs = [d \in {"probe", "front"} |-> "none"]
  /\ egress \in Egresses
  /\ pc = "off"
  /\ first = None
  /\ found = "fresh"
  /\ want = None
  /\ own = FALSE
  /\ probe = "control"
  /\ wave = 1
  /\ sample = None
  /\ failing = FALSE
  /\ refusal = "none"
  /\ faults = 0

-------------------------------------------------------------------------------
\* Control.

Goto(label) == pc' = label

Charge ==
  /\ faults < MaxFaults
  /\ faults' = faults + 1

\* An exception that no handler between here and the user changes anything for.
Raise(why) ==
  /\ Goto("off")
  /\ refusal' = why
  /\ UNCHANGED <<first, found, want, own, probe, wave, sample, failing>>

WritePhase(value) ==
  /\ phase' = value
  /\ UNCHANGED <<pending, handoff, plan, profile>>

-------------------------------------------------------------------------------
\* The beginning of a run.

\* A front phase stops the run: its .htaccess may need an audit.
Start ==
  /\ pc = "off"
  /\ phase \notin FrontPhases
  /\ Goto("checks")
  /\ first' = phase
  /\ found' = "fresh" /\ want' = None /\ own' = FALSE
  /\ probe' = "control" /\ wave' = 1 /\ sample' = None
  /\ failing' = FALSE /\ refusal' = "none"
  /\ UNCHANGED <<local, host, site, egress, faults>>

StopForAudit ==
  /\ pc = "off"
  /\ phase \in FrontPhases
  /\ refusal # "audit"
  /\ Raise("audit")
  /\ UNCHANGED <<local, host, site, egress, faults>>

\* Bridge, SSH trust and login, ISPmanager, DNS, SFTP, TLS: nothing is changed.
Check ==
  /\ pc = "checks"
  /\ Goto("inspect")
  /\ UNCHANGED <<local, host, site, egress, run, faults>>

\* _load_pending_pc_exit and inspect_existing_pc_exit.
Complete == handoff # None /\ plan # None
Partial == handoff # None \/ plan # None

PartialFits == /\ pending # None
               /\ handoff \in {None, pending}
               /\ plan \in {None, pending}


ResumeFits == /\ exit = handoff /\ plan = handoff
              /\ serving /\ guarded
              /\ pending \in {None, handoff}

Found(kind, intent) ==
  /\ Goto("mark")
  /\ found' = kind
  /\ want' = intent
  /\ UNCHANGED <<first, own, probe, wave, sample, failing, refusal>>

Inspect ==
  /\ pc = "inspect"
  /\ IF Complete THEN IF ResumeFits THEN Found("resume", handoff) ELSE Raise("exit differs")
     ELSE IF Partial /\ ~PartialFits THEN Raise("partial artifacts")
     ELSE IF pending # None THEN Found("pending", pending)
     ELSE IF first \in ExitPhases THEN Raise("no recovery state")
     ELSE IF serving THEN Raise("port")
     ELSE Found("fresh", None)
  /\ UNCHANGED <<local, host, site, egress, faults>>

-------------------------------------------------------------------------------
\* The probes: a temporary route, an observation, the rollback.

MarkProbe ==
  /\ pc = "mark"
  /\ WritePhase("front_probe_in_progress")
  /\ Goto("wave")
  /\ UNCHANGED <<host, site, egress, run, faults>>

\* `_remote_port_is_free`, before and after every egress sample of an exit that
\* has not been verified.
PortMustBeFree == probe = "egress" /\ found # "resume"

Fails(why) ==
  /\ failing' = TRUE
  /\ refusal' = why
  /\ UNCHANGED <<first, found, want, own, probe, wave, sample>>

\* A directory without its marker is not managed.
InstallTemporary ==
  /\ pc = "wave"
  /\ IF (PortMustBeFree /\ serving) \/ dirs["probe"] = "bare"
     THEN /\ Goto("unmark")
          /\ Fails(IF PortMustBeFree /\ serving THEN "port" ELSE "not managed")
          /\ UNCHANGED <<site, dirs>>
     ELSE /\ Goto("observe")
          /\ dirs' = [dirs EXCEPT !["probe"] = "marked"]
          /\ backup' = [route |-> route, verified |-> verified]
          /\ route' = Temporary
          /\ verified' = FALSE
          /\ UNCHANGED run
  /\ UNCHANGED <<phase, pending, handoff, plan, link, linkLeft, host, egress, faults>>

\* The answer of a control, or the source address of the SYN packets.
Observe ==
  /\ pc = "observe"
  /\ Goto("restore")
  /\ IF probe = "egress" /\ sample \notin {None, egress}
     THEN Fails("several egresses")
     ELSE /\ sample' = IF probe = "egress" THEN egress ELSE sample
          /\ UNCHANGED <<first, found, want, own, probe, wave, failing, refusal>>
  /\ UNCHANGED <<local, host, site, egress, faults>>

Restored ==
  /\ route' = backup.route
  /\ verified' = backup.verified
  /\ UNCHANGED backup

RestoreRoute ==
  /\ pc = "restore"
  /\ Restored
  /\ IF ~failing /\ PortMustBeFree /\ serving
     THEN Fails("port") /\ Goto("unmark")
     ELSE IF ~failing /\ wave < Waves[probe]
     THEN /\ Goto("wave")
          /\ wave' = wave + 1
          /\ UNCHANGED <<first, found, want, own, probe, sample, failing, refusal>>
     ELSE Goto("unmark") /\ UNCHANGED run
  /\ UNCHANGED <<local, host, egress, faults>>

\* FrontRollbackError: the phase keeps saying that the site needs an audit.
RestoreIncomplete ==
  /\ pc = "restore"
  /\ Charge
  /\ route' = Unknown
  /\ UNCHANGED <<backup, verified>>
  /\ Raise("rollback incomplete")
  /\ UNCHANGED <<local, host, egress>>

\* A measured egress that is not the one of the exit to go on with is refused.
EgressFits == found = "fresh" \/ want.front = sample

UnmarkProbe ==
  /\ pc = "unmark"
  /\ WritePhase("preparing")
  /\ IF failing THEN Goto("off") /\ UNCHANGED run
     ELSE IF probe = "control"
     THEN /\ Goto("prepare")
          /\ probe' = "egress" /\ wave' = 1
          /\ UNCHANGED <<first, found, want, own, sample, failing, refusal>>
     ELSE IF EgressFits
     THEN Goto("confirm") /\ UNCHANGED run
     ELSE Raise("egress changed")
  /\ UNCHANGED <<host, site, egress, faults>>

\* prepare_remote_exit on a fresh exit.
Prepare ==
  /\ pc = "prepare"
  /\ Goto("mark")
  /\ UNCHANGED <<local, host, site, egress, run, faults>>

-------------------------------------------------------------------------------
\* The exit.

Known == {x.id : x \in {pending, handoff, plan, exit, link, route} \cap Intent}

\* The user has restricted the provider's firewall; new secrets for a fresh exit.
Confirm ==
  /\ pc = "confirm"
  /\ IF found = "fresh"
     THEN \E id \in Ids \ Known : want' = [id |-> id, front |-> sample]
     ELSE UNCHANGED want
  /\ Goto(IF found = "resume" THEN "ready" ELSE "pend")
  /\ UNCHANGED <<first, found, own, probe, wave, sample, failing, refusal>>
  /\ UNCHANGED <<local, host, site, egress, faults>>

\* Write-once: another transaction's marker is not replaced.
WritePending ==
  /\ pc = "pend"
  /\ IF pending \in {None, want}
     THEN pending' = want /\ Goto("applying") /\ UNCHANGED run
     ELSE UNCHANGED pending /\ Raise("other pending")
  /\ UNCHANGED <<phase, handoff, plan, profile, host, site, egress, faults>>

MarkApplying ==
  /\ pc = "applying"
  /\ WritePhase("exit_applying")
  /\ Goto("guard")
  /\ UNCHANGED <<host, site, egress, run, faults>>

\* apply_pc_exit: the UFW pair first.
GuardExit ==
  /\ pc = "guard"
  /\ guarded' = TRUE
  /\ own' = ~guarded
  /\ Goto("install")
  /\ UNCHANGED <<first, found, want, probe, wave, sample, failing, refusal>>
  /\ UNCHANGED <<local, exit, serving, site, egress, faults>>

\* A failed apply takes away the pair that this call has inserted.
Undone == guarded' = (guarded /\ ~own)

\* Mutant: the /32 is measured anew instead of taken from the marker.
InstallExitMeasured ==
  /\ pc = "install"
  /\ IF exit = None \/ exit.id = want.id
     THEN /\ exit' = [want EXCEPT !.front = egress]
          /\ serving' = TRUE
          /\ Goto("handoff")
          /\ UNCHANGED <<guarded, run>>
     ELSE Raise("credentials") /\ Undone /\ UNCHANGED <<exit, serving>>
  /\ UNCHANGED <<local, site, egress, faults>>

\* Credentials of another installation are not rotated: see ExitInstaller.
InstallExit ==
  /\ pc = "install"
  /\ IF exit = None \/ exit.id = want.id
     THEN /\ exit' = want
          /\ serving' = TRUE
          /\ Goto("handoff")
          /\ UNCHANGED <<guarded, run>>
     ELSE Raise("credentials") /\ Undone /\ UNCHANGED <<exit, serving>>
  /\ UNCHANGED <<local, site, egress, faults>>

\* Mutant: the marker is removed as soon as the handoff is there.
SaveHandoffUnmarked ==
  /\ pc = "handoff"
  /\ handoff' = want
  /\ pending' = None
  /\ Goto("plan")
  /\ UNCHANGED <<phase, plan, profile, host, site, egress, run, faults>>

SaveHandoff ==
  /\ pc = "handoff"
  /\ handoff' = want
  /\ Goto("plan")
  /\ UNCHANGED <<phase, pending, plan, profile, host, site, egress, run, faults>>

SavePlan ==
  /\ pc = "plan"
  /\ plan' = want
  /\ Goto("ready")
  /\ UNCHANGED <<phase, pending, handoff, profile, host, site, egress, run, faults>>

\* The installation fails, or its fate is unknown: the program is there or not,
\* and started or not.  A pair of an earlier call stays.  One that this call has
\* inserted may be gone in front of an installed exit: the installer was killed
\* and its status taken for a failure, or a local directory could not be made or
\* removed, which apply_pc_exit takes for a failure before the installer.
ApplyFails ==
  /\ pc \in {"guard", "install", "handoff", "plan"}
  /\ Charge
  /\ \/ /\ pc = "install" /\ (exit # None => exit.id = want.id)
        /\ exit' = want /\ serving' \in BOOLEAN
     \/ UNCHANGED <<exit, serving>>
  /\ guarded' \in CASE pc = "guard" -> {guarded, TRUE}
                   [] pc # "guard" /\ own -> BOOLEAN
                   [] OTHER -> {guarded}
  /\ plan' \in IF pc = "plan" THEN {plan, want} ELSE {plan}
  /\ Raise("apply failed")
  /\ UNCHANGED <<phase, pending, handoff, profile, site, egress>>

MarkReady ==
  /\ pc = "ready"
  /\ WritePhase("exit_ready")
  /\ Goto("clear")
  /\ UNCHANGED <<host, site, egress, run, faults>>

\* Mutant: the marker stays.
ClearPendingNot ==
  /\ pc = "clear"
  /\ Goto("markFront")
  /\ UNCHANGED <<local, host, site, egress, run, faults>>

ClearPending ==
  /\ pc = "clear"
  /\ pending' = None
  /\ Goto("markFront")
  /\ UNCHANGED <<phase, handoff, plan, profile, host, site, egress, run, faults>>

-------------------------------------------------------------------------------
\* The frontend and the profile.

MarkFront ==
  /\ pc = "markFront"
  /\ WritePhase("front_in_progress")
  /\ Goto("enter")
  /\ UNCHANGED <<host, site, egress, run, faults>>

RecordFailure(why) ==
  /\ refusal' = why
  /\ UNCHANGED <<first, found, want, own, probe, wave, sample, failing>>

\* The state directory and its marker; no on_failure yet.
EnterFront ==
  /\ pc = "enter"
  /\ IF dirs["front"] = "bare"
     THEN Goto("unmarkFront") /\ RecordFailure("not managed") /\ UNCHANGED dirs
     ELSE /\ Goto("withhold")
          /\ dirs' = [dirs EXCEPT !["front"] = "marked"]
          /\ UNCHANGED run
  /\ UNCHANGED <<phase, pending, handoff, plan, link, linkLeft, host, site, egress, faults>>

\* pre_apply: an earlier profile is not valid until the E2E has passed again.
WithholdLink ==
  /\ pc = "withhold"
  /\ link' = None /\ linkLeft' = FALSE
  /\ Goto("switch")
  /\ UNCHANGED <<dirs, phase, pending, handoff, plan, host, site, egress, run, faults>>

SwitchRoute ==
  /\ pc = "switch"
  /\ backup' = [route |-> route, verified |-> verified]
  /\ route' = want
  /\ verified' = FALSE
  /\ Goto("e2e")
  /\ UNCHANGED <<local, host, egress, run, faults>>

\* The bundled Xray goes through the site to the exit.
EndToEnd ==
  /\ pc = "e2e"
  /\ serving /\ guarded /\ egress = want.front
  /\ verified' = TRUE
  /\ Goto("issue")
  /\ UNCHANGED <<local, host, route, backup, egress, run, faults>>

IssueLink ==
  /\ pc = "issue"
  /\ link' = want
  /\ Goto("committed")
  /\ UNCHANGED <<phase, pending, handoff, plan, linkLeft, dirs, host, site, egress, run, faults>>

\* The session is closed, the phase written.
Finish ==
  /\ pc = "committed"
  /\ WritePhase("complete")
  /\ Goto("off")
  /\ UNCHANGED <<host, site, egress, run, faults>>

\* Nothing to roll back: the old profile cannot be removed, the site does not
\* pass its checks, or the session fails to close after the last command.
FrontRefused ==
  /\ pc \in {"withhold", "switch", "committed"}
  /\ Charge
  /\ Goto("record")
  /\ RecordFailure("front failed")
  /\ UNCHANGED <<local, host, site, egress>>

\* A command of the transaction fails, or the profile cannot be issued or shown.
FrontFails ==
  /\ pc \in {"e2e", "issue"}
  /\ Charge
  /\ Goto("rollback")
  /\ RecordFailure("front failed")
  /\ link' \in IF pc = "issue" THEN {link, want} ELSE {link}
  /\ UNCHANGED <<phase, pending, handoff, plan, linkLeft, dirs, host, site, egress>>

\* The exit is not to be reached through the site.
EndToEndFails ==
  /\ pc = "e2e"
  /\ ~(serving /\ guarded /\ egress = want.front)
  /\ Goto("rollback")
  /\ RecordFailure("e2e")
  /\ UNCHANGED <<local, host, site, egress, faults>>

RollBack ==
  /\ pc = "rollback"
  /\ Restored
  /\ Goto("record")
  /\ UNCHANGED <<local, host, egress, run, faults>>

RollBackIncomplete ==
  /\ pc = "rollback"
  /\ Charge
  /\ route' = Unknown /\ verified' = FALSE
  /\ Goto("record")
  /\ RecordFailure("rollback incomplete")
  /\ UNCHANGED <<local, host, backup, egress>>

\* Mutant: the profile of a transaction that was rolled back stays.
WithdrawLinkNot ==
  /\ pc = "record"
  /\ Goto("unmarkFront")
  /\ UNCHANGED <<local, host, site, egress, run, faults>>

\* on_failure: a profile of this transaction is withdrawn.
WithdrawLink ==
  /\ pc = "record"
  /\ \/ link' = None /\ linkLeft' = FALSE /\ UNCHANGED faults
     \/ Charge /\ linkLeft' = (link # None) /\ UNCHANGED link
  /\ Goto("unmarkFront")
  /\ UNCHANGED <<dirs, phase, pending, handoff, plan, host, site, egress, run>>

\* Mutant: an incomplete rollback does not keep the phase.
UnmarkFrontAlways ==
  /\ pc = "unmarkFront"
  /\ WritePhase("exit_ready")
  /\ Goto("off")
  /\ UNCHANGED <<host, site, egress, run, faults>>

UnmarkFront ==
  /\ pc = "unmarkFront"
  /\ IF refusal = "rollback incomplete" THEN UNCHANGED local ELSE WritePhase("exit_ready")
  /\ Goto("off")
  /\ UNCHANGED <<host, site, egress, run, faults>>

-------------------------------------------------------------------------------
\* Failures without a handler, kills, and the world outside.

StepFails ==
  /\ pc \in {"checks", "inspect", "mark", "unmark", "prepare", "confirm", "pend", "applying",
            "ready", "clear", "markFront"}
  /\ Charge
  /\ Raise("failed")
  /\ UNCHANGED <<local, host, site, egress>>

\* The directory is there, its marker is not: an error, or a kill.
MarkerFails ==
  /\ Charge
  /\ \/ /\ pc = "wave" /\ dirs["probe"] = "none"
        /\ dirs' = [dirs EXCEPT !["probe"] = "bare"]
        /\ (Goto("unmark") /\ Fails("failed")) \/ Raise("killed")
     \/ /\ pc = "enter" /\ dirs["front"] = "none"
        /\ dirs' = [dirs EXCEPT !["front"] = "bare"]
        /\ (Goto("unmarkFront") /\ RecordFailure("failed")) \/ Raise("killed")
  /\ UNCHANGED <<phase, pending, handoff, plan, link, linkLeft, host, site, egress>>

\* Before the temporary route is there, or while it is observed.
ProbeFails ==
  /\ pc \in {"wave", "observe"}
  /\ Charge
  /\ Goto(IF pc = "wave" THEN "unmark" ELSE "restore")
  /\ Fails("failed")
  /\ UNCHANGED <<local, host, site, egress>>

Killed ==
  /\ pc # "off"
  /\ Charge
  /\ Raise("killed")
  /\ UNCHANGED <<local, host, site, egress>>

EgressChanges ==
  /\ Charge
  /\ egress' \in Egresses \ {egress}
  /\ UNCHANGED <<local, host, site, pc, run>>

ExitStops ==
  /\ Charge
  /\ serving
  /\ serving' = FALSE
  /\ UNCHANGED <<local, exit, guarded, site, egress, pc, run>>

-------------------------------------------------------------------------------

Step ==
  \/ Check \/ Inspect \/ MarkProbe \/ InstallTemporary \/ Observe \/ RestoreRoute
  \/ UnmarkProbe \/ Prepare \/ Confirm \/ WritePending \/ MarkApplying \/ GuardExit
  \/ InstallExit \/ SaveHandoff \/ SavePlan \/ MarkReady \/ ClearPending \/ MarkFront
  \/ EnterFront \/ WithholdLink \/ SwitchRoute \/ EndToEnd \/ EndToEndFails \/ IssueLink \/ Finish
  \/ RollBack \/ WithdrawLink \/ UnmarkFront

Next ==
  \/ Start \/ StopForAudit \/ Step
  \/ RestoreIncomplete \/ ApplyFails \/ FrontRefused \/ FrontFails \/ RollBackIncomplete
  \/ StepFails \/ MarkerFails \/ ProbeFails \/ Killed \/ EgressChanges \/ ExitStops

Spec == Init /\ [][Next]_vars

\* A process that runs goes on, and the user starts the wizard again.
FairSpec == Spec /\ WF_vars(Step) /\ WF_vars(Start)

-------------------------------------------------------------------------------
\* Properties.

Routes == {Original, Temporary, Unknown} \cup Intent
Optional(S) == S \cup {None}

\* Types; and the markers are written before what they announce.
TypeOK ==
  /\ phase \in Optional(Phases)
  /\ pending \in Optional(Intent) /\ handoff \in Optional(Intent) /\ plan \in Optional(Intent)
  /\ link \in Optional(Intent) /\ exit \in Optional(Intent) /\ want \in Optional(Intent)
  /\ serving \in BOOLEAN /\ guarded \in BOOLEAN /\ verified \in BOOLEAN
  /\ linkLeft \in BOOLEAN /\ failing \in BOOLEAN /\ own \in BOOLEAN
  /\ dirs \in [{"probe", "front"} -> {"none", "bare", "marked"}]
  /\ route \in Routes
  /\ backup \in [route : Routes, verified : BOOLEAN]
  /\ egress \in Egresses
  /\ first \in Optional(Phases) \ FrontPhases
  /\ found \in {"fresh", "pending", "resume"}
  /\ probe \in DOMAIN Waves /\ wave \in 1..Waves[probe]
  /\ sample \in Optional(Egresses)
  /\ faults \in 0..MaxFaults
  /\ pc \in {"guard", "install", "handoff", "plan"} => pending = want /\ phase = "exit_applying"

\* What is installed on the exit can be found again: whatever step a run dies
\* at, the PC holds its UUID, path and /32 in the pending marker or in both
\* artifacts.
IntentKept ==
  exit # None => pending = exit \/ (handoff = exit /\ plan = exit)

\* An installed exit is not given another UUID, path or /32, however often the
\* wizard is started and whatever it measures later.
ExitIntentStable == [][exit # None => exit' = exit]_vars

\* Outside of the two front phases the site has its original block, or a route
\* that has passed the E2E probe: a kill or an incomplete rollback that leaves
\* anything else is seen by the next run.
SiteIsMarked ==
  phase \notin FrontPhases => route = Original \/ (route \in Intent /\ verified)

\* A profile that the user is left with leads through the site to the exit
\* that is installed, unless its removal failed and was reported.
LinkIsVerified ==
  link # None /\ phase \notin FrontPhases /\ ~linkLeft =>
    route = link /\ verified /\ exit = link

\* "complete" means all of it, the pair of rules included: no failed call of an
\* earlier run has left the exit without them.
CompleteIsWhole ==
  phase = "complete" =>
    /\ guarded
    /\ link # None /\ ~linkLeft
    /\ exit = link /\ handoff = link /\ plan = link /\ route = link
    /\ pending = None

\* A stopped run after which the user has to do something first: audit the site;
\* remove a state directory that has no marker; bring back the exit or its pair
\* of rules; or give up an installation because the egress is another one.
NeedsUser ==
  /\ pc = "off"
  /\ \/ phase \in FrontPhases
     \/ \E d \in DOMAIN dirs : dirs[d] = "bare"
     \/ Complete /\ ~(serving /\ guarded)
     \/ \E x \in {pending, handoff} \ {None} : x.front # egress

\* An apply that was interrupted after the exit had come up: until both artifacts
\* are there, its own service is what occupies TCP/8083 for every later run.
HoldsItsPort == pc = "off" /\ pending # None /\ serving /\ ~Complete

\* Everywhere else the next runs come to an end by themselves: no interrupted
\* run leaves the markers in a combination that all later runs refuse.
Recovers == []<>(phase = "complete" \/ NeedsUser \/ HoldsItsPort)

\* docs/home-pc-linux-windows.txt:378-380 and README.md:286-288: after a failure
\* in exit_applying the wizard, started again, repeats the apply with the same
\* UUID and path.  The code's egress probe refuses an occupied TCP/8083 unless
\* both artifacts are there (pc_autosetup.py:992).
InterruptedApplyResumes == []<>(phase = "complete" \/ NeedsUser)
===============================================================================
