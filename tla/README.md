# Verification of xhttp-setup

xhttp-setup installs, from an operator's PC, a VLESS/XHTTP service on a VPS (the
*exit*) and a managed block in the `.htaccess` of a shared-hosting site (the
*frontend*) that proxies to it. Everything remote happens over OpenSSH: SSH commands
and SFTP batches that may be refused, lost, cut short or executed without the PC ever
learning of it, on machines that other people use at the same time. The program is
sequential Python; what is hard in it is *undoing* and *resuming*: after any failure
every mutation must be rolled back exactly, or be kept on purpose, the report the
operator gets must be true, and the next run has only a few small files to go by.

This directory holds TLA+ models of the program, TLC configurations that check them on
small instances, and TLAPS proofs for all instances. All paths below are relative to
`src/`; module files of the program are under `src/xhttp_setup/`.

## Files

| file | contents |
|---|---|
| `FrontTransaction.tla` | the SFTP transaction of the frontend, command by command |
| `MCFront.tla`, `front*.cfg` | its small instances |
| `GuardedExit.tla` | abstract: an exit is installed only behind its pair of firewall rules |
| `PcExit.tla` | the exit transaction of the PC: UFW rules, remote installer, rollback, recovery |
| `MCPcExit.tla`, `exit.cfg` | its small instance |
| `ExitPromise.tla` | abstract: what one call of the exit installer promises |
| `ExitInstaller.tla` | the exit installer, step by step: six files and a systemd service |
| `MCExitInstaller.tla`, `installer*.cfg` | its small instances |
| `PcInstall.tla` | the PC wizard: markers, probes, exit, frontend, profile, one run after another |
| `MCPcInstall.tla`, `wizard*.cfg` | its small instances |
| `UfwGuard.tla` | the enabling of UFW under a timed rollback guard |
| `MCUfwGuard.tla`, `ufw.cfg` | its small instance |
| `ExitNetwork.tla` | the optional network profile of the exit |
| `MCExitNetwork.tla`, `network.cfg` | its small instance |
| `TrustPin.tla` | trust on first use: SSH host keys and TLS leaves, several wizards at once |
| `MCTrustPin.tla`, `trust.cfg` | its small instance |
| `RemoteFront.tla` | the installation of the frontend through a bridge |
| `MCRemoteFront.tla`, `remote.cfg` | its small instance |
| `FrontTransactionProofs`, `PcExitProofs`, `ExitInstallerProofs`, `PcInstallProofs`, `UfwGuardProofs`, `ExitNetworkProofs`, `TrustPinProofs`, `RemoteFrontProofs` (`.tla`) | theorems about the module of the name, with proofs |
| `PROJECT.json` | components, runs, mutants, the map from definitions to source lines, findings, hazards, theorems |

`tlc -config X.cfg M` runs a configuration (module and configuration are paired under
"runs" in `PROJECT.json`), `tlapm M.tla` checks a proof module. Definitions whose comment
begins with "Mutant:" are no part of the model: each is a plausible bug that makes one
property fail when it stands in for the definition below it.

## 1. Inventory of the system

Status: **M** modelled, **P** partly modelled, **N** not modelled.

**Frontend SFTP transaction** (`front.py`, `placeholder.py`) — **P**, `FrontTransaction`.
*State:* the files on the server (target, temp, backup, quarantine, "late" file, each
with a random name), the journal of `_RemoteMutation` records (original digest,
desired digest, `switch_attempted`), a local backup directory.
*Operations:* `_apply_front_sftp_transaction` downloads `.htaccess` (and `index.html`),
merges the block, uploads with `_upload_verified` (snapshot, put, compare, rename aside,
rename in place, chmod), checks the site over HTTPS, runs the caller's E2E probe and on
any failure rolls the journal back in reverse (`_rollback_journal`), a second time over
a new session if the first pass lost its transport (`_rollback_journal_with_recovery`).
*Hard:* the site's owner edits the same files; a switch is two renames; a command may be
executed and its reply lost; nested bounded loops; plain SFTP rename refuses an existing
destination, `posix-rename` replaces it.
*Correct when:* nothing the owner wrote is destroyed; a reported rollback is exact; a
failure without interference is rolled back; success is never reported of a half-switched
journal; a conflict says where the hidden content is; the installer stops.
Not modelled: the local backups, the DNS/TLS/status checks before the transaction.

**Temporary frontend route** (`front_probe.py`) — **P**. `run_with_temporary_front_route`
installs a block with a nonce, lets a callback observe the site and *always* rolls back.
Command by command it is `FrontTransaction` with `Temporary = TRUE`; the sequence of
probes is part of `PcInstall`. The classification of an observation
(`verify_front_rewrite_control`, `verify_front_proxy_capability`: HTTPS requests, then a
verdict) has no state and is the choice whether the callback raises.

**Managed block** (`render.py`) — **P** as the operator `Desired` (`merge_managed_block`:
replace the block, keep the rest). URI and Xray rendering is formatting.

**SSH and SFTP transport** (`ssh_transport.py`) — **P**. *State:* a ControlMaster per
session, `SSHSession._broken`, known-hosts pins, bridge forwards. *Operations:*
`command` and `batch` over the master, `fresh_command` over a new connection, teardown,
`trust_host_key_tofu`/`pin_host_key`. *Hard:* exit status 255 or a timeout means
*unknown*, a broken session must never be reused, teardown may fail after success,
wizards share a trust file. *Correct when:* after a transport loss nothing more is sent
over the session; a pin is created once and never replaced. The failure semantics are in
every module that talks to a host, master and teardown in `RemoteFront`, trust in
`TrustPin`. `SSHBridgeSession` and its forwards are not modelled.

**Exit host firewall, from the PC** (`remote_network.py`) — **P**, `PcExit`.
*State:* the managed `allow <frontend>/32` and `deny` rules in UFW, the recovery journal
(`RemoteExitNetworkRecovery`: comments whose insertion was attempted).
*Operations:* preflight, insert allow, insert deny, verification after each, a proof over
a fresh connection, `_rollback_actions`, `rollback_remote_exit_network`,
`reconcile_remote_exit_network`. *Hard:* an insertion may take effect without an answer,
or after its connection is gone; the rollback of one rule must not depend on the other's;
the rules of an earlier installation are not this call's to remove.
*Correct when:* a failed call leaves the rules as found, and only its own rules go.

**Remote exit installation** (`remote_exit.py`, `pc_orchestrator.py`) — **P**, `PcExit`:
the shared-session mode. *State:* the staging directory on the host, `handoff.json` and
`firewall-plan.txt` on the PC, the fields of `RemoteExitError` (`remote_status`,
`artifacts_status`, `cleanup_status`). *Operations:* `apply_pc_exit` =
`apply_remote_exit_network`, then `apply_remote_exit` (mktemp, upload, run the installer,
fetch, persist, remove the staging directory), then keep or undo the rules; a second
session recovers after a transport loss (`_raise_after_recovery`).
*Correct when:* an exit that may be installed keeps both rules; rules are undone only if it
definitely is not (with the two exceptions of section 13); every reported status is true.
The standalone mode of `apply_remote_exit` and the bridge preflight are left out (same
steps, fewer failures).

**Exit installer** (`exit_installer.py`, runs on the VPS) — **M**, `ExitInstaller`.
*State:* config, secrets, handoff, receipt, unit file and firewall plan, the program's
directory with its manifest, the service account, enabled/running state of the service,
a lock. *Operations:* `apply_exit`: account, namespace and port checks, program,
credentials, six snapshots, writes in a fixed order, reload/enable/restart as needed,
waiting for the port; on failure six restores and the former enablement and activity.
*Hard:* a kill between write and restart; a rollback of which one step fails; systemd
restarts the service by itself and does not read a loaded unit again until it is told to.
*Correct when:* a call applies everything, or changes nothing, or says that it does not
know; credentials given away once are never replaced.

**Exit network profile** (`exit_network.py`) — **M**, `ExitNetwork`. UFW rules, sysctl
file with runtime values and TCPMSS rules, applied under a lock, journalled, undone in
reverse for what this call did. *Hard:* a call killed in the middle leaves no record but
the host; half of a rollback must not close the backend to the frontend.

**Exit host preparation** (`remote_prepare.py`) — **P**, `UfwGuard`. `prepare_remote_exit`
installs packages and enables a pristine UFW under a *timed rollback guard* (a transient
systemd unit that disables UFW unless it is disarmed). *Hard:* the timer fires while it
is being disarmed; the PC dies in any intermediate state. *Correct when:* the PC never
locks itself out for longer than the timer, and a success has UFW active and no guard.
The installation of packages is one step; the parsers of firewall dumps are text
processing, their verdict that of an inspection.

**PC wizard** (`cli.py`, `pc_autosetup.py`) — **P**, `PcInstall`. *State:*
`pc-phase.json` (`preparing`, `front_probe_in_progress`, `exit_applying`, `exit_ready`,
`front_in_progress`, `complete`), the pending-exit marker, handoff and plan,
`client.vless`, two state directories with markers. *Operations:* `_run_pc_install`,
`prepare_pc_install`, `inspect_existing_pc_exit`, `_apply_front_and_issue`. *Hard:*
killed in any phase, the next start must resume or refuse from small files. *Correct
when:* a start after a crash in a frontend phase refuses; an exit that may exist is never
installed over; the link is on disk only after an E2E probe of the present installation.
The older single-host wizards (`wizard_exit`, `wizard_front`, `wizard_full`) and the
prompts are left out.

**Bridge frontend installation** (`remote_front.py`) — **M**, `RemoteFront`. *State:* the
SSH master of the commands and those of the two SFTP sessions, each with its socket, the
staging directory on the bridge, the front command running
there, `client.vless` on both sides, three statuses. *Hard:* the front command goes on
when its connection is gone; recovery and clean-up must not pull its files away; the
report has to be true of three things that fail separately.

**Frontend TLS discovery** (`front_discovery.py`) — **M**, `TrustPin`: leaf observed
twice, compared with an earlier pin, used, persisted. `resolve_front_dns` only reads.

**Local files and lock** (`osutil.py`) — **P**: `exclusive_lock` is a step of `TrustPin`,
`ensure_dir` and the marker after it are two steps of `PcInstall`; `atomic_write` is
atomic in the components that use it.

**Diagnostics** (`doctor.py`, E2E), **ISPmanager client** (`ispmanager.py`), **models and
validation** (`models.py`, `validate.py`), **credential input** (`credential_parser.py`,
`hidden_input.py`, `command_output.py`), **builds and launchers** (`scripts/`, `windows/`)
— **N**: read-only requests, pure field checks, text and terminal handling, packaging.

How they interact: `cli._run_pc_install` → `prepare_pc_install` (which uses the
*temporary route*, host *preparation*, trust and *TLS discovery*) → `apply_pc_exit`
(*firewall*, *remote installation*, which runs the *exit installer* on the VPS) →
`apply_front` (*SFTP transaction*, with the E2E probe as callback) → `client.vless`.
Each remote component gets one multiplexed session from the transport; results come
back as return values or as exceptions whose class and fields decide what is undone.
`apply_remote_front` and `apply_exit_network` are public operations that only tests call.

## 2. How the modules fit together

| module | what it takes from another | where that is shown |
|---|---|---|
| `PcExit` | the installer applies, changes nothing, or leaves the host half installed when it is killed or its rollback fails | `KeepsPromise` of `ExitInstaller` (proved) |
| `PcInstall` | a failed apply takes away only a pair that it has inserted itself (`own`), though possibly from before an installed exit | `OnlyOwnRulesRemoved` of `PcExit` (proved); `KeptWhenMaybeApplied` (proved) says when it may |
| `PcInstall` | a frontend transaction ends committed, rolled back, or says that its rollback is incomplete | `RestoredIsExact`, `CleanRollback`, `CommittedIsWhole` of `FrontTransaction` |
| `PcInstall` | an installed exit is not given other credentials | `CredentialsKept` of `ExitInstaller` |
| `PcInstall` | the preparation of a fresh exit ends with UFW active or nothing changed | `PreparedIsFinal`, `RestoredIsTrue` of `UfwGuard` |

`PcInstall` composes the outcomes of the others; it does not embed their states (their
product would be far beyond TLC). `GuardedExit` and `ExitPromise` are the abstract
specifications; `PcExit` and `ExitInstaller` are proved to implement them (section 12).

The order in which this was built: the frontend transaction and the exit transaction
first (they touch what other people own), then the wizard that resumes them, the
installer, the UFW guard, and the rest. Worth doing next: the
standalone mode of `apply_remote_exit` with the bridge's forwards, and
the local backups.

## 3. FrontTransaction

Per target (`.htaccess`, in neutral mode also `index.html`) there are five places:
`live`, `temp`, `backup`, `quarantine`, `late`, and the set `stray` of files an earlier
rollback call left under names the present call no longer knows. A file's content is a
record of the owner's `text` and whether it carries this run's `block`; `Torn` is a
cut-short upload. Digests are compared in the code and contents in the model: equality
of SHA-256 is taken as equality.

One action is one SFTP command, or one look at a target together with the looks at the
installer's own artifacts that follow it (they have uuid names that nobody else touches,
so nothing can come between that matters). `pc` names the command that is next;
`tries` and `outer` are the counters of the `for` loops; `caller` is the loop that
`cleanup_and_verify` returns to; `pass` is 1 in the session of the apply and 2 in the
recovery session.

| actions | code |
|---|---|
| `ReadBase`, `SkipUnchanged` | downloads and comparisons at the start of `_apply_front_sftp_transaction` |
| `Snapshot`, `PutTemp`, `TornPut`, `Precheck`, `MoveAside`, `Promote`, `Chmod` | `_upload_verified` |
| `VerifyPasses`, `VerifyFails`, `Teardown` | the HTTPS checks and `post_apply`; the `finally` of `SFTPClient.session` |
| `RollbackMutation`, `JournalDone`, `Recover`, `GiveUp` | `_rollback_journal`, `_rollback_journal_with_recovery` |
| `DropTemp` … `CheckRemoved` | rollback of a file that did not exist before |
| `Reconcile`, `Isolate`, `IsolateTarget`, `RestoreBackup`, `StashLate`, `PromoteBackup`, `RmUnusedTemp`, `Discard`, `CheckRestored` | rollback of a file that did |
| `Fault`, `LoseMaster`, `DeadBatch` | a command that is not executed; a lost ControlMaster, after which every batch of the session fails |
| `Reply` (inside the commands) | a command that is executed and whose reply is lost |
| `OwnerEdit` | any edit of a target, at any time |
| `Crash` | the process is killed |

`OwnerEdit` excludes only an edit that happens to reproduce, byte for byte, what this run
installs or that adds this run's block by hand. With `Temporary = TRUE` the callback
always ends in `VerifyFails` and the site does not already show the block (its nonce is
fresh): these behaviours are among those with `FALSE`, so that the runs and theorems hold
of the temporary route too.

| run | states | shows |
|---|---|---|
| `front` | 2.05 million | two files (index.html, then .htaccess), texts `e` (empty) and `a`, one edit and two faults. Where rename refuses an existing destination (`~posixRename`): nothing of the owner is destroyed and a conflict names the hidden content. With either rename: an edit is lost only if it came after the installer's last look, a complete rollback is exact, an undisturbed failure is rolled back, a target seen to be foreign is left alone, both files are switched or success is not reported, and under fairness the installer always comes to an outcome |
| `front_stale_base`, `front_hidden_edit` | | findings, section 11; three texts, so that an edit can differ from the original *and* from what is empty |

Which rename the server has is the variable `posixRename`, chosen in `Init` and never
changed. One edit can hit either file between any two commands, the rollback's and the
recovery's included, and two faults are a lost reply and a lost recovery. The instance has
no second edit (of what was moved aside, or after the rollback has begun): with two files it
would not fit. That is what the theorems of section 12 are for: all safety properties of this
run are proved for any number of edits and faults. `Terminates` is checked under
`WF_vars(Installer)`: the installer is one sequential process whose commands all have
timeouts, so it keeps taking steps until it stops or is killed. Nothing is assumed of the
owner or the server. Deadlock checking is on: the only state without another step is the
end, which `Terminated` makes explicit.

Weaker than one might wish, because the code is: a `put` that is cut short leaves a temp
file with unknown bytes, which the rollback does not delete but reports (`CleanRollback`
exempts `Torn`); a rollback hit by a fault may leave an owner's edit in a forgotten
quarantine (`disturbed` in `RestoredIsExact`, and the second finding); a teardown error
after the commit raises although nothing is rolled back (outcome `unreported`); with
`posix-rename` a window between look and rename remains, which `SECURITY.md:221-228`
documents.

## 4. GuardedExit and PcExit

`GuardedExit` is the promise in the docstring of `apply_pc_exit`: rules are added freely,
an exit is installed only while both rules stand, and a rule is removed only while no
exit is installed. `PcExit` is the protocol. On the host: `rules`, `install`
(`"half"` after an installer that could not roll back), the staging directory `temp`,
and `late`, commands still running after their connection is gone. On the PC: `attempted`
(the journal), the reported `remoteStatus`, `artifacts` and `cleanup`, the local
artifacts, and the control state.

One action is one SSH command or one local step. Each has an answer — `ok`, `error`
(a definite refusal), `transport` (255 or timeout), `interrupt` (Ctrl-C) — and, unless it
is `ok`, the command may or may not have been executed (`Executions`). An inspection of
UFW (`status numbered`, `show added`) is one action; everything that makes it fail
(Docker, foreign or malformed rules) is the answer `error`.

| actions | code |
|---|---|
| `Preflight`, `InsertAllow`, `LookAllow`, `InsertDeny`, `LookPair`, `FreshProof` | `apply_remote_exit_network` |
| `Prepare`, `Identity`, `Mktemp`, `Upload`, `Installer`, `Fetch`, `Persist`, `RemoveTemp` | `apply_remote_exit` |
| `Leave`, `Close` | the removal of the local temporary directory and the handlers of `apply_pc_exit`; the teardown of the session |
| `UndoRoot`, `UndoLook`, `DeleteRule`, `Deleted`, `PairState`, `UndoFresh` | `_rollback_actions`, `rollback_remote_exit_network`, `reconcile_remote_exit_network` |
| `Recover`, `RecoverTemp`, `RecoverClose` | `_raise_after_recovery` |
| `BrokenCommand` | a command on a session that is marked broken |
| `Land`, `Crash`, `Restart` | a late command takes effect; the PC dies; the next call |

`surprises` is what rarities may happen, one of the sets in `Surprises`, and never changes:
`noop`, ufw exits with 0 and changes nothing; `straggler`,
a command outlasts its connection; `killed`, the remote installer is killed or its own
rollback fails; `localTemp`, the removal of the local temporary directory raises.
Assumptions, all from the code or `SECURITY.md`: nobody else administers the host during
the call; no command of a call is still running when the next call begins (`Restart`
requires `late = {}`; a retry starts with a new login and a survey of packages and
firewall, long after a `ufw` command would have ended, but this *is* an assumption); a
crash while a command runs is an interrupt of it followed by a crash; the late removal of
the staging directory is not modelled.

| run | shows |
|---|---|
| `exit` (188 000 states; `noop`, with `straggler`, with all four) | types; the pair is there where a call says that it may have installed the exit, and, as long as answers can be believed, wherever the exit is installed or a lost installer may still install it (`KeptWhenMaybeApplied`); what is reported is so; only rules this call attempted are removed; `PcExit` implements `GuardedExit` as long as answers can be believed (`Believed`); a call that ends in its original error, or with a completed recovery, left the host exactly as found, if moreover no command outlasts its connection (`Plain`) |

Two calls, so that the second meets what the first left; up to four failures, enough for
a failing command, its failing rollback, a failing recovery session and one in the next
call. Only safety is stated, so no fairness is assumed. `Ended` is the end of the last
call; deadlock checking is on.

## 5. ExitPromise and ExitInstaller

`ExitPromise` is a call of `apply_exit` as one step on the files, the enablement and the
running configuration. A `Call` is asked for something and ends (`End`) with an outcome that
is part of the state: `Applied`, all files are those of the request and the service runs
them; `Unchanged`, an error after which everything is as before; or `Broken` (each file old
or new) for a call that was killed or said "rollback incomplete". `Service` is what systemd
does by itself between calls, `Flap` that it did so during one: only then may a call that
ended well leave the service in another state than it promises. `ExitInstaller` is the call in
detail. The refinement mapping shows, while a call runs, what the call found (`Shown`).

State: the six `files`, the unit as systemd has `loaded` it, `enabled`, `active` (with
`"waiting"` between a failure of the service and its restart), the configuration the process
`runs`, the service `account`, the `program`'s files; the call's snapshot `before`, its
remaining steps `todo`, `touched` (`systemd_touched`), and `doubt`, which says that the
process may run, or systemd may have loaded, something else than the files say (a history
variable, like `flapped`: the service failed or came back while the call ran). File modes
and owners are one distinction: a unit that is `"loose"` is rewritten but not a changed
unit.

| actions | code |
|---|---|
| `Begin` | `exclusive_lock`, and the desired state |
| `EnsureUser`, `Inspect` | `_ensure_service_user`; `_verify_service_namespace`, ownership of the unit, the port. `systemctl show` looks up a unit that is not loaded, or that systemd may have dropped (`Collectable`), and does not read a loaded one again (`ShownUnits`) |
| `WriteProgram`, `VerifyProgram` | `install_xray_binary`, the verification of an installed program |
| `ChooseKeys`, `ProbeService` | existing or new credentials; `is-active`, `is-enabled` before the first write |
| `Apply`, `Succeed`, `NotServing` | the `try` block, one step of `ForwardSteps` at a time |
| `StepFails`, `Undo`, `UndoFails`, `Raise` | the `except` block, one step of `UndoSteps` at a time; a failing one is recorded and the rest goes on |
| `UnsafeHost`, `DownloadFails`, `CandidateFails` | refusals before the first write |
| `Killed`, `Reboot`, `ServiceFails`, `ServiceComesBack`, `ServiceGivesUp` | the process, the host, systemd |

| run | shows |
|---|---|
| `installer` (835 000 states) | two calls of four requests (one, the same from a program with another template, another port, another client), from bare, foreign and installed hosts, two faults: the promise is kept, credentials that were returned stay, and after a call that ended well the process runs the configuration on disk and systemd has loaded the unit on disk |
| `installer_stale` | a finding, section 11 |

Two calls and two faults: a call cut off or undone, the same or another call on what it
left, and a failing rollback in between. The last call ends the behaviour, hence
`CHECK_DEADLOCK FALSE`.

## 6. PcInstall

State: the wizard's files (`phase`, `pending`, `handoff`, `plan`, `link`, `dirs`), the exit
(`exit`, `serving`, `guarded`: both rules stand; `own`: this run's call has inserted them),
the site (`route`, what a rollback would restore, and whether the E2E probe has `verified`
the route), the measured `egress`, and the running wizard. An *intent* is the UUID/path pair
with the /32 that the exit's firewall lets in.

| actions | code |
|---|---|
| `Start`, `StopForAudit`, `Check` | the beginning of `_run_pc_install` |
| `Inspect` | `_load_pending_pc_exit`, `inspect_existing_pc_exit`: resume, go on with a pending exit, refuse, or start afresh |
| `MarkProbe`, `InstallTemporary`, `Observe`, `RestoreRoute`, `UnmarkProbe` | the probes of rewrite, proxy and egress with the temporary route |
| `Prepare`, `Confirm`, `WritePending`, `MarkApplying` | `prepare_remote_exit`, new secrets, the markers |
| `GuardExit`, `InstallExit`, `SaveHandoff`, `SavePlan`, `ApplyFails` | `apply_pc_exit` |
| `MarkReady`, `ClearPending`, `MarkFront` | phases between exit and frontend |
| `EnterFront`, `WithholdLink`, `SwitchRoute`, `EndToEnd`, `IssueLink`, `Finish` | `_apply_front_and_issue` |
| `FrontRefused`, `FrontFails`, `EndToEndFails`, `RollBack`, `WithdrawLink`, `UnmarkFront` | its failures, `on_failure`, the phase afterwards |
| `RestoreIncomplete`, `RollBackIncomplete` | a rollback that says it is incomplete: the phase stays |
| `StepFails`, `ProbeFails`, `MarkerFails`, `Killed`, `EgressChanges`, `ExitStops` | failures, kills, and the world |

`ApplyFails` is every failing end of `apply_pc_exit`: the exit is installed or not, and started
or not; a pair of an earlier call stays; one that this call has inserted is gone or not,
also in front of an installed exit (section 13); the plan may be saved already.

The run `wizard` (108 000 states) has any number of runs of the wizard, three identifiers
(so that a fresh one always exists), two egress addresses and three faults: one to
interrupt a run, one to interrupt the next, one outside. It shows that the credentials of
an installed exit are always on the PC (`IntentKept`) and never replaced
(`ExitIntentStable`), that outside the front phases site and profile are what they seem
(`SiteIsMarked`, `LinkIsVerified`), that `complete` is complete, the pair of rules included,
and `Recovers`: unless the user has to do something that `NeedsUser` names, or the exit of an
interrupted apply holds its own port (`HoldsItsPort`), later runs reach `complete`. The second
exception contradicts two documents: the run `wizard_refused` has it as a finding (section 11),
with one fault, one egress and two identifiers. Fairness:
`WF_vars(Step)`, a process that runs goes on; `WF_vars(Start)`, the user starts the wizard
again. A stopped wizard in a front phase stays stopped, hence `CHECK_DEADLOCK FALSE`.

## 7. UfwGuard

Three parties: the runs of the PC (`pc`, `stage` — the flags that `_enable_pristine_ufw` sets
before each command —, the `session`), systemd's `timer` with its service (`"off"`,
`"armed"`, `"firing"`), and the firewall (`active`, `rules`). `fits` says whether a rule for
the port the PC uses lets connections in; a new connection gets through if UFW is
inactive or has the rule and `fits` (`Reachable`). `slow` is the proviso of section 13.

| actions | code |
|---|---|
| `LookForGuard` … `Removed` (`Before`, `StaleInspect`, `StaleDisarm`, `After`, `Remove`) | `_recover_stale_ufw_guard`, `_remove_inactive_managed_ssh_rule` |
| `InspectState`, `Remove` of an orphaned rule, `Packages`, `InspectAgain` | `prepare_remote_exit` up to `_enable_pristine_ufw` |
| `Arm` … `Final` (`VerifyGuard`, `Allow`, `VerifyRule`, `Enable`, `Fresh`, `Disarm`, `Quiet`) | `_enable_pristine_ufw` |
| `RbDisable` … `RbFailed` | `_rollback_new_ufw` |
| `CommandFails`, `SessionLost`, `NoSession`, `Killed` | a command that fails with or without its effect; a lost session; the PC |
| `TimerFires`, `ServiceEnds` | the guard |

The run `ufw` (5 900 states; three faults: one in the enabling, one in its rollback, one in
the next run) shows `LockoutGuarded` (a host that locks the PC out has a running guard),
`PreparedIsFinal`, `RestoredIsTrue`, and the liveness properties `LockoutEnds` and
`Recovers`. Fairness: systemd fires the timer and ends its service, a run goes on, the
user starts it again. A foreign firewall is refused for ever and a locked-out PC cannot
start, hence `CHECK_DEADLOCK FALSE`.

## 8. ExitNetwork

State: the ordered IPv4 `rules` with the IPv6 twin of the deny rule (`deny6`), the sysctl
`file` and the `runtime` values, the TCPMSS rules (`mss`), the default `iface`, and the call
(`before`, `journal`, `errors`, `doubt`: a command that failed had its effect).

| actions | code |
|---|---|
| `Begin` | all inspections before the first change |
| `AddAllow`, `AddDeny`, `WriteFile`, `SetKey`, `ReadBack`, `AddMss`, `Verify`, `StepFails` | the body of `apply_exit_network`, a journal entry with each change |
| `UndoDeny6`, `UndoRule`, `UndoRefused`, `UndoSysctl`, `UndoMss`, `UndoFails`, `Undone` | its rollback, last change first |
| `Killed`, `Reboot`, `IfaceChanges` | the world; a reboot loses the TCPMSS rules |

The run `network` (37 000 states) repeats calls from bare, half configured and foreign
hosts with two keys (so that one can be set and the other not yet), two interfaces and two
faults: what a call has found stays (`EarlierKept`), a rollback is exact (`RolledBack`), a
success admits the frontend and nobody else by the order of the rules (`AppliedIsWhole`),
the rollback never cuts the frontend off (`FrontNeverDenied`), and `Recovers` outside
`NeedsUser`, with calls that go on and are repeated. Deadlock checking is on.

## 9. TrustPin

Wizards of different output directories share the `trust` file of an endpoint; each
directory has a `lock`, a `known_hosts` (`pins`) and a leaf pin. `ReadTrust`, `Scan`,
`CreateTrust` are `trust_host_key_tofu` (the file is created by a link, which never
replaces); `Login` and `Apply` send passwords under `StrictHostKeyChecking`; `PinOutput` is
`pin_host_key`; `TlsPublic`, `FirstHandshake`, `SecondHandshake`, `Request`, `Persist` are
`discover_front_tls_policy`. `KeysChange` and `LeafChanges` are the endpoint and the site
(or somebody in their place), `Fail` a timeout or a kill.

The run `trust` (367 000 states) has three wizards, two of them of one directory, one change
and one failure: passwords go under one key only (`OneKey`), the profiles of a directory pin
one leaf, that on disk (`OneLeaf`), and only a real change is refused for ever (`Recovers`).
Fairness: each wizard is a process (`WF` of its steps); its user starts it again, also after
it was refused by a lock that others hold on and off (`SF` of `Start`: `LOCK_NB` makes a
refused start a stutter).

## 10. RemoteFront

State: the bridge (`temp`, the staging directory; `job`, the front command; `front`, what it
left), `client.vless` on the PC, the SSH `master` of the commands with its `socket` and
`broken`, the master and socket directory of an SFTP session (`sftpMaster`, `sftpSocket`),
the three statuses of the report, and the recovery. `Transfer` and `TransferFails` are the
upload and the download, each a session of its own from handshake to teardown. `Succeeds`
and `Fails` are a step of the body (`NextLabel` has their order); a step fails with an
answer, without one (`transport`: it may have been carried out, or still be running), or by
Ctrl-C. `Remove` … `RemoveFails` are `_cleanup_remote_temp`, `Close` … `CloseRecovery` the
teardown, the choice of the report and the one recovery session; `JobEnds` is a front
command that outlasts its connection.

The run `remote` (2 700 states; up to four failures, one in each of body, clean-up, recovery
and teardown) shows that a report is true in each of its parts (`ReportIsTrue`), and that a
running installer keeps its files (`StagingKept`). What the report says of sessions
(`session_cleanup_failed`) is true of the session of the commands and of the recovery's. Of
the SFTP sessions it says nothing, though one whose teardown fails may leave its master or its
directory behind; the property says where: only with an error before the front command or
after it, and never with a profile that was fetched. Only safety is
stated; `Ended` is the end of the call, deadlock checking is on.

## 11. Findings

Each is a run that violates one property, which states what a document of the
repository says; `PROJECT.json` quotes the lines.

1. `front_stale_base`: the block is merged into one download of `.htaccess` and the check
   before the switch compares with a second one; a foreign line added between the two is
   superseded and survives only in the hidden backup.
2. `front_hidden_edit`: an owner's edit that is renamed into quarantine by a command whose
   reply is lost stays there: the recovery pass has new names, does not see it and reports a
   complete rollback.
3. `installer_stale`: an apply that is killed between the write of `config.json` and the
   restart is repeated; the second call finds equal bytes, does not restart, and reports
   success while the process goes on with the configuration it had loaded before.
4. `wizard_refused`: an apply whose exit came up and whose artifacts were not saved is
   repeated, say the README and the PC guide of the repository; but every later run is refused
   by its probe of TCP/8083, which that exit occupies.

## 12. Proofs

The theorems hold for all constants that satisfy the `...Assumption` of the module: any
number of calls, runs, edits, faults and changes. Each safety theorem has an inductive
invariant, named below with the reason why the property alone is not enough; the proof of
preservation has one step per action. An action property follows from the invariant in
the state before the step.

**`FrontTransactionProofs`**

* `TypeCorrect`: `Spec => []TypeOK`. `TypeInv` = `TypeOK` and `Staged`, which says at which
  labels the temp file is known to be whole; without it a torn upload could be promoted.
* `OwnerContentKept`: `Spec => []OwnerContentPreserved` (`~posixRename` is in the property).
  `KeptInv` =
  `TypeInv` and `Kept`, which says, for each label that precedes a removal, that what the
  removal would hit is the installer's own content or a copy of what is also elsewhere.
  Needed because the property says nothing of *which* copy the next `rm` deletes.
* `ForeignIsLeftAlone`: `Spec => ForeignTargetLeftAlone`, for either rename. `SeenInv` =
  `TypeInv` and `Seen`, which ties what the installer last saw of a target to the labels at
  which it goes on to move it.
* `CommitsAreWhole`: `Spec => []CommittedIsWhole`. `WholeInv` = `TypeInv` and `Whole`: as long
  as the transaction goes forward, what it has uploaded is what the plan lists up to here,
  each with its backup, and no other file of its own is left on the server.
* `VisibleEditsAreKept`: `Spec => NoVisibleEditDestroyed`, for either rename. `ShapeInv` =
  `WholeInv`, `Seen`, `Known` and `Shape`: `Placed` says of every target in which of the five
  places its contents can be, `Here` what each command of the rollback relies on in the files
  of the current one. A rename may replace only what `Here` says is absent, unless an edit
  came since the look.
* `RestoredIsExactAlways`: `Spec => []RestoredIsExact`. `AloneInv` is about a rollback that no
  fault hit and fewer than five edits came in the way of (`Alone`). `Stashes`: what it leaves
  under the names it forgets is the installer's own, and a master that is lost was lost
  before it began. `Loops`: what the counters of the bounded loops say of the files. The
  target is moved away once, in the first iteration; an iteration that fails to promote the
  backup costs the owner two edits (`PromoteLoop`), so that the loop does not run out before
  the fifth. `Exactly`, on top of these, says it of each target the rollback is done with.
* `ConflictsNameOwner`: `Spec => []ConflictNamesOwner` (here too). `ToldInv` =
  `KeptInv`, `ShapeInv`, `AloneInv`, `Faultless` (whatever disturbs a rollback was counted)
  and, without faults, `Telling` (of the targets that are done with) and `Tracked` (where the
  owner's content is at each command of a restore: on display, in `late`, or in the
  quarantine that the next look reports).
* `RollbackIsClean`: `Spec => []CleanRollback`. `CalmInv` = `ShapeInv`, `AloneInv` and, as long
  as nothing interferes, `Steady` (nothing but the lost master fails; every target still to be
  rolled back, and after a lost master every target, is in one of the three states of an
  interrupted switch) and `Within` (each loop's iterations one by one, two at the most).

The bound of five edits came out of the proof: the properties said nothing of it before, and
the third iteration of a rollback that meets an edit in each was reported with the fifth
edit in a forgotten quarantine. TLC reaches it with five edits on one file and no fault; with
four it does not.

**`PcExitProofs`**

* `PairKept`: `Spec => []KeptWhenMaybeApplied`: wherever the call says that the exit is or may
  be installed, for *all* surprises; and, as long as `Believed` holds, in every state in which
  the exit is installed or an installer without a connection may still install it, whatever the
  call says. The first part is from `StandingInv`: from the last look at the pair until the
  call decides to undo it, both rules stand and no ufw command is still running. The second is
  from `GuardInv`, below; without `Believed` it is false (section 13).
* `ExitTypeCorrect`: `Spec => []TypeOK`. `TypeInv`, with `Prefix`: the deny rule joins the
  journal only after allow.
* `OnlyOwnRulesGo`: `Spec => OnlyOwnRulesRemoved`, for all surprises. `OwnInv`: at every
  deletion, and for every late deletion, the rule is in the journal, and the journal has no
  rule that was there when the call began.
* `ReportsAreTrue`: `Spec => []ReportIsTrue`, for all surprises. `ToldInv` says, along the call,
  what each status promises from the moment it is set, late commands included.
* `Implements`, `UndoneInTime`: as long as `Believed` holds (neither `killed` nor
  `localTemp`, which break them: section 13) `PcExit` implements `GuardedExit`; rules are
  removed only while the exit is as the call found it. `GuardInv` = `StandingInv`, `Certain`
  (the status `not_started` or `failed` means that nothing was, or is being, installed),
  `Owned` (only a call with a journal comes to the undoing), `LateEffects` (what late
  commands may still do). `LateEffects` is what carries the argument through `straggler`.
* `UndoneIsExact`: `Spec => []BaselineRestored` (`Plain`, at most `noop`, is in the
  property). `UndoableInv` = `OwnInv`, `ToldInv` and `Undoable`: until it is undone, the
  host has the rules that were found and some of those in the journal, and only a call that
  installed nothing undoes.

**`ExitInstallerProofs`**

* `CredentialsAreKept`: `Spec => []CredentialsKept`. `Inv` says that the secrets are the
  snapshot's or the call's, and that these are the same once there are any; the order of the
  steps plays no part.
* `TypesAreKept`, `FilesAreServed`, `PromiseIsKept`: `Spec => []TypeOK`, `[]ServesItsFiles`
  and `KeepsPromise`, for any requests, calls and faults. Here the order of the steps is the
  argument: a command does what it should because of what was done before it. The steps of
  the `try` block have a rank each (`ForwardRank`), those of the `except` block behind its
  first `stop` another (`UndoRank`), and the sequences ascend (`ForwardStepsAscend`,
  `UndoStepsAscend`, from lemmas on concatenation); so the *set* `Left` of the steps that
  are left says what has been done, and one step removes its element and nothing of a lower
  rank (`StepLeaves`). `HostInv` = `TypeOK`; `BetweenCalls`, the property itself;
  `DuringCall` and `BeforeWriting`, the snapshot is of a settled state and still true;
  `WhileWriting`, each file is old or new; `Applying`, a file is new iff it is not left,
  systemd has the new unit once it was reloaded (and until then the one that a settled state
  had loaded), the service runs the new configuration once it was (re)started; `Undoing`,
  the same for the restoration, as long as no step of it failed. The property alone is not
  inductive: it says nothing while a call runs. `PromiseStep` maps every step to one of
  `ExitPromise` or to a stutter.

**`PcInstallProofs`** — `TypeCorrect`, `IntentIsKept`, `SiteIsAlwaysMarked`,
`LinkIsAlwaysVerified`, `CompleteMeansWhole`, `ExitIntentNeverChanges`. One `Inv`: each label
has its phase (`PhaseKnown`); a probe that ended has its sample (`SampleKnown`); what a run
has decided about the exit agrees with what is on disk until the decision is carried out
(`WantKnown`); and the site, the profile and what a rollback would restore are what the phase
says (`SiteKnown`, `LinkKnown`). The properties speak of the files only; what keeps them is
what the running wizard knows. `CompleteIsWhole` has the pair of rules in it: a failed apply
may take away the pair, so `SiteKnown` says that the run which goes on to the E2E probe has put
it (back) in place.

**`UfwGuardProofs`** — `TypeCorrect`, `LockoutsAreGuarded`, `PreparedLasts`, `RestoredIsSo`,
`ForeignRulesAreLeftAlone`. `Control` ties the labels to the flags, to what is known of UFW and
to the guard: UFW is inactive while the guard is being armed, and where the run has
disarmed it a new connection has been seen.

**`ExitNetworkProofs`** — `TypeCorrect`, `EarlierIsKept`, `RollbackIsExact`, `ProfileIsWhole`,
`FrontIsNeverDenied`, for any keys, interfaces and number of faults. `Layered`: as long as no
undoing has failed and no failed command has worked, the host is what the call has found
under one layer for each journal entry (the allow rule in front, the deny rule behind it).
`Ordered`: the journal has the order of the steps, so that its last entry is the topmost
layer and the allow rule goes only when the deny rule has gone. `Fresh`: an entry is for what
the call has not found. The lemmas before it say what inserting into a sequence of rules and
removing from it do, and that one takes back the other.

**`TrustPinProofs`** — `TypeCorrect`, `OneKeyIsTrusted`, `OneLeafIsPinned`, for any number of
wizards and directories. `KeyKnown`: every wizard beyond the trust file has the key that is
in it; `LeafKnown`: what a wizard has read of the leaf pin is still so when it writes it,
because it holds the lock.

**`RemoteFrontProofs`** — `TypeCorrect`, `ReportsAreTrue`, `InstallerIsNotPulledAway`. The
report is set before the sessions end; `Inv` says what each of its words promises from there
on, and that a front command of unknown fate leaves a broken session, over which nothing is
removed. `SftpKnown`: a transfer that has left a master or a directory was the last step of the
body.

Every safety property of a passing run is a theorem. Only model-checked, because it is out of
the prover's reach: liveness under fairness (`Terminates`, `LockoutEnds`, the four `Recovers`),
which needs `ENABLED`. Nothing else had to be left out: the modules have no recursive operator
and need no induction over data (the sequences of steps are ordered by rank instead).

## 13. Known limits

What the program does and the properties therefore exempt, or the models do not have.

*Frontend.* A rename into quarantine whose reply is lost leaves the owner's edit under a name
that the recovery pass does not know (`front.py:531`, `:638-639`; `disturbed`, the second
finding); so do five edits that come between the looks and the renames of one rollback, with
no fault at all (`front.py:770-873`, retried by `:903-979` with new names). The conflict for an
absent target does not name the backup (`front.py:951`), against `SECURITY.md:219-220`.

*Exit.* Every exit status of the installer but 0 and 255 counts as "rolled back", also that
of one that was killed or says its rollback is incomplete (`remote_exit.py:661`), and an
`OSError` from removing the local temporary directory after a success is taken for a
pre-apply failure (`remote_exit.py:609-611`, `pc_orchestrator.py:373`): in both cases the
rules are removed from before an exit that may run (`Believed`). A `ufw insert` that outlasts
its connection may take effect after the recovery reported the host as restored
(`pc_orchestrator.py:231`; `Plain`).

*Installer.* A service in auto-restart when it is probed is not restarted for new files
(`doubt`), like that of the third finding. A call that is killed between the write of the unit
and `daemon-reload` (`exit_installer.py:830`, `:834`) leaves systemd with the older unit; the
next call finds equal bytes and reloads nothing, unless it has to enable the service (`doubt`,
as above).

*Wizard.* An interrupted apply is resumed only when TCP/8083 is free, though the exit of
that apply may hold it itself (`pc_autosetup.py:992`; so `SECURITY.md:179-182`, but not the
documents of the fourth finding; `HoldsItsPort`). Where a failed apply has taken the pair
from before an exit whose artifacts are saved, later runs refuse to go on until somebody
puts it back (`NeedsUser`). A kill between the creation of a state directory and its marker
makes later runs refuse the directory (`front.py:1087-1099`, `front_probe.py:124-138`; in
`NeedsUser`).

*UFW guard.* The guard has 120 seconds, the timeouts of the commands between arming it and
enabling UFW add up to more (`remote_prepare.py:1183`); if they are used up, UFW can be
enabled after the guard has fired: `slow`, the proviso of `LockoutGuarded`, `LockoutEnds` and
`Recovers`. A ufw command that timed out is taken to have had its effect, or never to have
it, when the next one runs (ufw takes a lock). The units of the guard are keyed by the SSH
port; two privileged users at once are not modelled.

*Network profile.* `FrontNeverDenied` exempts a rollback of which a step failed or whose deny
rule was inserted by a command that seemed to fail; then the allow rule goes alone. A
failed deletion can leave the IPv6 twin, which later calls refuse (`NeedsUser`). A
`KeyboardInterrupt` is not rolled back (it is `Killed`). UFW is taken to be active.

*Bridge frontend.* The teardown of an SFTP session that fails (`ssh_transport.py:1072-1103`)
makes the transfer fail, and the error has `session_cleanup_failed` False although that
session's master or socket directory may remain (`remote_front.py:731`, `:768`). A Ctrl-C
during the front command removes the staging directory under the running command; a second
one, or a kill, in the teardown leaves an authenticated master; a `mktemp` whose reply is
lost leaves a directory that is reported as `unknown`. The branch `returncode == 255` is
never taken (the transport raises first). A late `rm` is not modelled.

*Trust.* A user who removes a pin while wizards run, and key types beyond "a scan may miss
some", are not modelled.

## 14. Not modelled

Texts and formats (`.htaccess` merging beyond "block in, rest kept", JSON, UFW output),
cryptography and key generation, package installation, DNS, TLS and HTTPS requests (their
verdict is a nondeterministic choice), terminal input, packaging; permissions except where
section 5 says so. Of the partly modelled components: the local backups of the frontend
transaction and its checks before the first command; the forwards of `SSHBridgeSession`; the
standalone mode of `apply_remote_exit`; the older wizards for a single host; the parsers of
firewall dumps. The components marked **N** keep no state that outlasts a call and change
nothing on any host.
