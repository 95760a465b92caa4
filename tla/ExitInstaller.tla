---------------------------- MODULE ExitInstaller -----------------------------
(***************************************************************************)
(* apply_exit of xhttp_setup/exit_installer.py: the installation of Xray   *)
(* and of its systemd service on the exit host, and its rollback.  Calls   *)
(* follow one another under the exclusive lock; a call may be killed (or   *)
(* interrupted: KeyboardInterrupt is not an Exception) between any two     *)
(* steps, and systemd restarts the service on failure by itself.           *)
(*                                                                         *)
(* One action is one file replaced or one systemctl command.  Owner and    *)
(* mode are told apart only for the unit ("loose"), where they decide      *)
(* whether systemd is reloaded.                                            *)
(***************************************************************************)
EXTENDS Integers, Sequences

CONSTANTS
  Requests,  \* records [client, port, build]: ExitDesired, and the version
             \* of the program whose template renders the configuration
  Absent,    \* no such file, no such process
  Surprises, \* which rarities happen: see SurpriseKinds
  MaxCalls,  \* bound: calls of apply_exit, one after another
  MaxFaults  \* bound: failed steps, kills, failures of the service

\* "killed": the installer dies between two steps, or the host reboots;
\* "flap":   the service fails, and systemd starts it again or gives up.
SurpriseKinds == {"killed", "flap"}

ASSUME ExitInstallerAssumption ==
  /\ Surprises \subseteq SurpriseKinds
  /\ MaxCalls \in Nat \ {0}
  /\ MaxFaults \in Nat

\* managed_paths, in the order in which the rollback restores them.
Managed == <<"secrets", "config", "unit", "handoff", "receipt", "plan">>
File == {"secrets", "config", "unit", "handoff", "receipt", "plan"}

\* The program's files, in the order in which they are written.
Program == <<"xray", "geoip.dat", "geosite.dat", "manifest.json">>
ProgramFile == {"xray", "geoip.dat", "geosite.dat", "manifest.json"}

\* A key pair per call at most, and one that is there from the start.
Keys == 0..MaxCalls

Content(file, r, k) ==
  CASE file = "secrets" -> [client |-> r.client, key |-> k]
    [] file = "unit" -> "current"
    [] file = "plan" -> [port |-> r.port]
    [] OTHER -> [client |-> r.client, key |-> k, port |-> r.port, build |-> r.build]

KeyOf(secrets) == secrets.key

\* No file is the absence of one.
ASSUME AbsentAssumption ==
  /\ Absent \notin {"foreign", "older", "loose", "current"}
  /\ \A f \in File, r \in Requests, k \in Keys : Content(f, r, k) # Absent

VARIABLES
  files,      \* the managed files
  loaded,     \* the unit as systemd has read it
  enabled,    \* the service starts at boot
  active,     \* systemctl is-active: "active", "waiting" to be restarted, "inactive"
  runs,       \* the configuration the process has loaded
  account,    \* the service account: "absent", "ours", or "unfit" for it
  program,    \* files of the managed Xray directory that exist
  lastKey,    \* the last key pair generated
  pc,         \* phase of the call
  todo,       \* the steps it has still to make
  want, key,  \* the request, and the key pair it is installed with
  before,     \* the host when the call began: the snapshots
  wasActive, wasEnabled, \* the probes before the first write
  touched,    \* systemd_touched
  failed,     \* a step of the rollback failed
  outcome,    \* how the last call ended
  doubt,      \* the process, or systemd, may have loaded something else than the
              \* files say
  flapped,    \* history: the service failed or came back while the last call ran
  given,      \* the secrets behind the last handoff that was returned
  calls, faults

host == <<files, loaded, enabled, active, runs>>
base == <<account, program>>
control == <<pc, todo, touched, failed, outcome>>
request == <<want, key, before, wasActive, wasEnabled, flapped>>
budget == <<calls, faults>>
vars == <<host, base, lastKey, control, request, doubt, given, budget>>

Now == [files |-> files, enabled |-> enabled, runs |-> runs, doubt |-> doubt]

InstalledFiles(r, unit) == [f \in File |-> IF f = "unit" THEN unit ELSE Content(f, r, 0)]

\* A fresh host, one that an earlier version has installed, one whose unit of
\* this name is somebody else's.
Init ==
  /\ \/ /\ files = [f \in File |-> Absent]
        /\ program = {}
        /\ account \in {"absent", "unfit"}
        /\ enabled = FALSE
        /\ active = "inactive"
     \/ /\ files = [f \in File |-> IF f = "unit" THEN "foreign" ELSE Absent]
        /\ program = {}
        /\ account \in {"absent", "unfit"}
        /\ enabled = FALSE
        /\ active = "inactive"
     \/ /\ \E r \in Requests, unit \in {"older", "loose", "current"} :
             files = InstalledFiles(r, unit)
        /\ program \in {ProgramFile, ProgramFile \ {"geoip.dat"}}
        /\ account = "ours"
        /\ enabled \in BOOLEAN
        /\ active \in {"active", "waiting", "inactive"}
  /\ active = "waiting" => "flap" \in Surprises
  /\ loaded = files["unit"]
  /\ runs = IF active = "active" THEN files["config"] ELSE Absent
  /\ lastKey = 0
  /\ pc = "idle"
  /\ todo = <<>>
  /\ want \in Requests
  /\ key = 0
  /\ doubt = FALSE
  /\ before = Now
  /\ wasActive = FALSE
  /\ wasEnabled = FALSE
  /\ flapped = FALSE
  /\ touched = FALSE
  /\ failed = FALSE
  /\ outcome = "none"
  /\ given = Absent
  /\ calls = 0
  /\ faults = 0

-------------------------------------------------------------------------------
\* Ends of a call, and faults.

Charge ==
  /\ faults < MaxFaults
  /\ faults' = faults + 1

Finish(result) ==
  /\ pc' = "idle"
  /\ outcome' = result
  /\ todo' = <<>>
  /\ UNCHANGED <<touched, failed>>

\* An exception before the try block: nothing has been written.
Refuse == Finish("unchanged") /\ UNCHANGED <<host, base, lastKey, request, doubt, given, budget>>

Goto(phase) ==
  /\ pc' = phase
  /\ UNCHANGED <<todo, touched, failed, outcome>>

\* exclusive_lock: a second process is turned away without having done anything.
LockFree == pc = "idle"

Begin ==
  /\ LockFree
  /\ calls < MaxCalls
  /\ calls' = calls + 1
  /\ want' \in Requests
  /\ before' = Now
  /\ flapped' = FALSE
  /\ pc' = "account"
  /\ todo' = <<>>
  /\ touched' = FALSE
  /\ failed' = FALSE
  /\ outcome' = "running"
  /\ UNCHANGED <<host, base, lastKey, key, wasActive, wasEnabled, doubt, given, faults>>

-------------------------------------------------------------------------------
\* Before the first write.

\* _ensure_service_user creates the account, or accepts only one like it.
EnsureUser ==
  /\ pc = "account"
  /\ IF account = "unfit" THEN Refuse
     ELSE /\ account' = "ours"
          /\ Goto("inspect")
          /\ UNCHANGED <<host, program, lastKey, request, doubt, given, budget>>

\* systemd drops a unit that nothing holds: neither a process nor a target.
Collectable == active = "inactive" /\ ~enabled

\* The unit that `systemctl show` finds: one that is loaded is not read again,
\* and one that is not may be looked up on disk.
ShownUnits ==
  {loaded} \cup IF loaded = Absent \/ Collectable THEN {files["unit"]} ELSE {}

\* Ownership of the unit, _verify_service_namespace, _check_port_available: the
\* unit on disk and the one systemd knows must both be there, or neither; that
\* they say the same is not looked at.
Inspect ==
  /\ pc = "inspect"
  /\ \E shown \in ShownUnits :
       IF files["unit"] # "foreign" /\ (shown = Absent <=> files["unit"] = Absent)
       THEN /\ Goto("program")
            /\ loaded' = shown
            /\ UNCHANGED <<files, enabled, active, runs>>
            /\ UNCHANGED <<base, lastKey, request, doubt, given, budget>>
       ELSE Refuse

\* install_xray_binary: the manifest is written last, and vouches for the rest.
WriteProgram ==
  /\ pc = "program"
  /\ "manifest.json" \notin program
  /\ \E i \in DOMAIN Program :
       /\ Program[i] \notin program
       /\ \A j \in 1..(i - 1) : Program[j] \in program
       /\ program' = program \cup {Program[i]}
  /\ UNCHANGED <<host, account, control, lastKey, request, doubt, given, budget>>

\* _verify_installed_xray: a program that has been tampered with is not started.
VerifyProgram ==
  /\ pc = "program"
  /\ "manifest.json" \in program
  /\ IF program = ProgramFile
     THEN Goto("keys") /\ UNCHANGED <<host, base, lastKey, request, doubt, given, budget>>
     ELSE Refuse

\* Mutant: credentials of the same client are generated anew.
ChooseKeysAnew ==
  /\ pc = "keys"
  /\ IF files["secrets"] = Absent \/ files["secrets"].client = want.client
     THEN /\ lastKey' = lastKey + 1
          /\ key' = lastKey + 1
          /\ Goto("probe")
          /\ UNCHANGED <<host, base, want, before, wasActive, wasEnabled, flapped, doubt, given, budget>>
     ELSE Refuse

\* Existing credentials must be those of the request; otherwise new keys.
ChooseKeys ==
  /\ pc = "keys"
  /\ IF files["secrets"] = Absent
     THEN /\ lastKey' = lastKey + 1
          /\ key' = lastKey + 1
          /\ Goto("probe")
          /\ UNCHANGED <<host, base, want, before, wasActive, wasEnabled, flapped, doubt, given, budget>>
     ELSE IF files["secrets"].client = want.client
          THEN /\ key' = KeyOf(files["secrets"])
               /\ Goto("probe")
               /\ UNCHANGED lastKey
               /\ UNCHANGED <<host, base, want, before, wasActive, wasEnabled, flapped, doubt, given, budget>>
          ELSE Refuse

\* A check of these phases fails for a reason of its own.
CheckFails(phase) ==
  /\ pc = phase
  /\ Charge
  /\ Finish("unchanged")
  /\ UNCHANGED <<host, base, lastKey, request, doubt, given, calls>>

\* The port is taken, or the owner or mode of something is not safe.
UnsafeHost == CheckFails("inspect")

\* The archive cannot be had, or is not the pinned one.
DownloadFails == CheckFails("program") /\ "manifest.json" \notin program

\* `xray run -test` rejects the candidate.
CandidateFails == CheckFails("probe")

-------------------------------------------------------------------------------
\* The steps, and what each of them does to the host.

New(file) == Content(file, want, key)

ConfigChanged == before.files["config"] # New("config")
UnitRewrite == before.files["unit"] # "current"
UnitChanged == before.files["unit"] \notin {"current", "loose"}

Only(condition, step) == IF condition THEN <<step>> ELSE <<>>

\* Mutant: an active service is restarted for a new unit only.
ForwardStepsUnitOnly(activeBefore, enabledBefore) ==
  <<"secrets", "config", "unit">>
  \o Only(UnitRewrite, "daemon-reload")
  \o Only(~enabledBefore, "enable")
  \o Only(activeBefore /\ UnitChanged, "restart")
  \o Only(~activeBefore, "start")
  \o <<"listen", "settle", "handoff", "receipt", "plan">>

\* The order of the try block.
ForwardSteps(activeBefore, enabledBefore) ==
  <<"secrets", "config", "unit">>
  \o Only(UnitRewrite, "daemon-reload")
  \o Only(~enabledBefore, "enable")
  \o Only(activeBefore /\ (ConfigChanged \/ UnitChanged), "restart")
  \o Only(~activeBefore, "start")
  \o <<"listen", "settle", "handoff", "receipt", "plan">>

\* The order of the except block.
HadUnit == before.files["unit"] # Absent

\* Mutant: the service is started again before its files are back.
UndoStepsStartFirst(systemdTouched) ==
  Only(systemdTouched, "stop") \o Only(systemdTouched /\ ~HadUnit, "disable")
  \o Only(systemdTouched /\ HadUnit, IF wasActive THEN "start" ELSE "stop")
  \o Managed \o Only(systemdTouched, "daemon-reload")
  \o Only(systemdTouched /\ HadUnit, IF wasEnabled THEN "enable" ELSE "disable")

UndoSteps(systemdTouched) ==
  Only(systemdTouched, "stop")
  \o Only(systemdTouched /\ ~HadUnit, "disable")
  \o Managed
  \o Only(systemdTouched, "daemon-reload")
  \o Only(systemdTouched /\ HadUnit, IF wasEnabled THEN "enable" ELSE "disable")
  \o Only(systemdTouched /\ HadUnit, IF wasActive THEN "start" ELSE "stop")

\* Xray starts when its unit, its configuration and its program are there.
CanStart(unit) == /\ unit \notin {Absent, "foreign"}
                  /\ files["config"] # Absent
                  /\ program = ProgramFile
                  /\ account = "ours"

Process(state, config) == active' = state /\ runs' = config

Started(unit) == IF CanStart(unit) THEN Process("active", files["config"]) ELSE Process("inactive", Absent)

\* What the process has loaded is on disk, and so is its unit.
Settled == doubt' = (doubt /\ loaded # files["unit"])

WriteFile(file, content) ==
  /\ files' = [files EXCEPT ![file] = content]
  /\ UNCHANGED <<loaded, enabled, active, runs, doubt>>

\* Commands of systemctl; enable and disable reload the manager's configuration.
Systemctl(command) ==
  /\ UNCHANGED files
  /\ CASE command = "daemon-reload" ->
            loaded' = files["unit"] /\ UNCHANGED <<enabled, active, runs, doubt>>
       [] command \in {"enable", "disable"} ->
            /\ enabled' = (command = "enable")
            /\ loaded' = files["unit"]
            /\ UNCHANGED <<active, runs, doubt>>
       [] command = "restart" ->
            Started(loaded) /\ Settled /\ UNCHANGED <<loaded, enabled>>
       [] command = "start" ->
            /\ IF active = "active" THEN UNCHANGED <<active, runs, doubt>> ELSE Started(loaded) /\ Settled
            /\ UNCHANGED <<loaded, enabled>>
       [] command = "stop" ->
            Process("inactive", Absent) /\ Settled /\ UNCHANGED <<loaded, enabled>>

SystemctlCommands == {"daemon-reload", "enable", "disable", "restart", "start", "stop"}

\* The probes of the waiting loop: they change nothing.
Listening == active = "active" /\ runs.port = want.port
Probe(step) ==
  /\ step = "listen" => Listening
  /\ step = "settle" => active = "active"
  /\ UNCHANGED <<host, doubt>>

Do(step, contents) ==
  IF step \in File THEN WriteFile(step, contents[step])
  ELSE IF step \in SystemctlCommands THEN Systemctl(step)
  ELSE Probe(step)

ProbeService ==
  /\ pc = "probe"
  /\ IF files["unit"] = Absent /\ (active = "active" \/ enabled)
     THEN Refuse
     ELSE /\ wasActive' = (active = "active")
          /\ wasEnabled' = enabled
          /\ pc' = "apply"
          /\ todo' = ForwardSteps(active = "active", enabled)
          /\ UNCHANGED <<touched, failed, outcome>>
          /\ UNCHANGED <<host, base, lastKey, want, key, before, flapped, doubt, given, budget>>

-------------------------------------------------------------------------------
\* The try block and the except block.

Touches(step) == touched \/ step \in SystemctlCommands

Apply ==
  /\ pc = "apply"
  /\ todo # <<>>
  /\ Do(Head(todo), [f \in File |-> New(f)])
  /\ todo' = Tail(todo)
  /\ touched' = Touches(Head(todo))
  /\ UNCHANGED <<pc, failed, outcome, base, lastKey, request, given, budget>>

Succeed ==
  /\ pc = "apply"
  /\ todo = <<>>
  /\ Finish("applied")
  /\ given' = files["secrets"]
  /\ UNCHANGED <<host, base, lastKey, request, doubt, budget>>

\* A step that did nothing, or whose failure is noticed when it is done.
MayHaveDone(step, contents) ==
  \/ step \notin {"listen", "settle"} /\ Do(step, contents)
  \/ UNCHANGED <<host, doubt>>
  \/ /\ step = "restart"
     /\ Process("inactive", Absent)
     /\ UNCHANGED <<files, loaded, enabled, doubt>>

\* `except Exception`: the steps of the rollback, whatever the error was.
StartUndo(step) ==
  /\ pc' = "undo"
  /\ touched' = Touches(step)
  /\ todo' = UndoSteps(Touches(step))
  /\ UNCHANGED <<failed, outcome>>

StepFails ==
  /\ pc = "apply"
  /\ todo # <<>>
  /\ Charge
  /\ MayHaveDone(Head(todo), [f \in File |-> New(f)])
  /\ StartUndo(Head(todo))
  /\ UNCHANGED <<base, lastKey, request, given, calls>>

\* The service is not there after ten seconds, or not a second later.
NotServing ==
  /\ pc = "apply"
  /\ todo # <<>>
  /\ \/ Head(todo) = "listen" /\ ~Listening
     \/ Head(todo) = "settle" /\ active # "active"
  /\ StartUndo(Head(todo))
  /\ UNCHANGED <<host, base, lastKey, request, doubt, given, budget>>

Undo ==
  /\ pc = "undo"
  /\ todo # <<>>
  /\ Do(Head(todo), before.files)
  /\ todo' = Tail(todo)
  /\ UNCHANGED <<pc, touched, failed, outcome, base, lastKey, request, given, budget>>

\* The error is recorded, and the rollback goes on.
UndoFails ==
  /\ pc = "undo"
  /\ todo # <<>>
  /\ Charge
  /\ MayHaveDone(Head(todo), before.files)
  /\ todo' = Tail(todo)
  /\ failed' = TRUE
  /\ UNCHANGED <<pc, touched, outcome, base, lastKey, request, given, calls>>

\* The original error, or "rollback incomplete".
Raise ==
  /\ pc = "undo"
  /\ todo = <<>>
  /\ Finish(IF failed THEN "incomplete" ELSE "unchanged")
  /\ doubt' = (doubt \/ failed)
  /\ UNCHANGED <<host, base, lastKey, request, given, budget>>

-------------------------------------------------------------------------------
\* Surprises.

Killed ==
  /\ "killed" \in Surprises
  /\ pc # "idle"
  /\ Charge
  /\ Finish("cut")
  /\ doubt' = TRUE
  /\ UNCHANGED <<host, base, lastKey, request, given, calls>>

Reboot ==
  /\ "killed" \in Surprises
  /\ Charge
  /\ IF pc = "idle" THEN UNCHANGED control ELSE Finish("cut")
  /\ loaded' = files["unit"]
  /\ IF enabled THEN Started(files["unit"]) ELSE Process("inactive", Absent)
  /\ doubt' = FALSE
  /\ UNCHANGED <<files, enabled, base, lastKey, request, given, calls>>

\* What happens to the service while a call runs is nobody's doing.
Doubted == IF pc = "idle" THEN UNCHANGED doubt ELSE doubt' = TRUE

\* It is remembered when that was so.
Meddled ==
  /\ flapped' = (flapped \/ pc # "idle")
  /\ UNCHANGED <<want, key, before, wasActive, wasEnabled>>

ServiceFails ==
  /\ "flap" \in Surprises
  /\ active = "active"
  /\ Charge
  /\ Process("waiting", Absent)
  /\ Doubted
  /\ Meddled
  /\ UNCHANGED <<files, loaded, enabled, base, lastKey, control, given, calls>>

\* Restart=on-failure, or the start limit.
ServiceComesBack ==
  /\ active = "waiting"
  /\ Started(loaded)
  /\ IF pc = "idle" THEN Settled ELSE doubt' = TRUE
  /\ Meddled
  /\ UNCHANGED <<files, loaded, enabled, base, lastKey, control, given, budget>>

ServiceGivesUp ==
  /\ active = "waiting"
  /\ Process("inactive", Absent)
  /\ Doubted
  /\ Meddled
  /\ UNCHANGED <<files, loaded, enabled, base, lastKey, control, given, budget>>

Next ==
  \/ Begin \/ EnsureUser \/ Inspect \/ WriteProgram \/ VerifyProgram \/ ChooseKeys \/ ProbeService
  \/ UnsafeHost \/ DownloadFails \/ CandidateFails
  \/ Apply \/ Succeed \/ StepFails \/ NotServing
  \/ Undo \/ UndoFails \/ Raise
  \/ Killed \/ Reboot \/ ServiceFails \/ ServiceComesBack \/ ServiceGivesUp

Spec == Init /\ [][Next]_vars

-------------------------------------------------------------------------------
\* Properties.

Units == {"foreign", "older", "loose", "current"}
Contents(file) == IF file = "unit" THEN Units \cup {Absent}
                  ELSE {Content(file, r, k) : r \in Requests, k \in Keys} \cup {Absent}
Steps == File \cup SystemctlCommands \cup {"listen", "settle"}

\* Types.  A call never brings a foreign unit to systemd, and a rollback has
\* systemctl steps only when a command was tried (systemd_touched).
TypeOK ==
  /\ \A f \in File : files[f] \in Contents(f)
  /\ loaded \in Contents("unit")
  /\ enabled \in BOOLEAN
  /\ active \in {"active", "waiting", "inactive"}
  /\ runs \in Contents("config")
  /\ (runs # Absent) = (active = "active")
  /\ program \subseteq ProgramFile
  /\ account \in {"absent", "ours", "unfit"}
  /\ lastKey \in 0..calls
  /\ pc \in {"idle", "account", "inspect", "program", "keys", "probe", "apply", "undo"}
  /\ todo \in Seq(Steps)
  /\ want \in Requests /\ key \in Keys
  /\ \A f \in File : before.files[f] \in Contents(f)
  /\ {wasActive, wasEnabled, touched, failed, doubt, flapped} \subseteq BOOLEAN
  /\ outcome \in {"none", "running", "applied", "unchanged", "incomplete", "cut"}
  /\ given \in Contents("secrets")
  /\ calls \in 0..MaxCalls /\ faults \in 0..MaxFaults
  /\ pc = "undo" /\ ~touched => \A i \in DOMAIN todo : todo[i] \in File

\* The credentials of a handoff that was returned are never lost: whatever is
\* asked, refused, undone or cut off later, the secrets on disk are still
\* those (a client configured once goes on working).
CredentialsKept == given # Absent => files["secrets"] = given

\* Between calls, and unless a kill, a failed rollback or the service's own
\* restart has made it doubtful, the process runs the configuration on disk,
\* systemd has read the unit on disk, and the handoff and receipt of a call that
\* succeeded belong to the configuration.  (After a kill between the writing of
\* the unit and daemon-reload the doubt may stay: a later call finds the unit
\* written, and has no reason to reload it.)
ServesItsFiles ==
  pc = "idle" /\ ~doubt =>
    /\ runs \in {Absent, files["config"]}
    /\ loaded = files["unit"]
    /\ outcome = "applied" => /\ files["handoff"] = files["config"]
                              /\ files["receipt"] = files["config"]

\* apply_exit as one step: see ExitPromise.  While a call runs, the outside
\* is told nothing but what was there before.
Shown == IF pc = "idle" THEN Now ELSE before

Promise == INSTANCE ExitPromise
             WITH files <- Shown.files, enabled <- Shown.enabled,
                  runs <- Shown.runs, doubt <- Shown.doubt, asked <- want

KeepsPromise == Promise!Spec

\* docs/home-pc-linux-windows.txt:380 calls the apply idempotent and has an
\* interrupted one repeated: a successful apply serves the applied config.
AppliedIsServed ==
  pc = "idle" /\ outcome = "applied" /\ active = "active" => runs = files["config"]
===============================================================================
