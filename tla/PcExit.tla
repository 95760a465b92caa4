-------------------------------- MODULE PcExit --------------------------------
(***************************************************************************)
(* The PC's side of an exit installation: the pair of UFW rules on the     *)
(* exit host (xhttp_setup/remote_network.py), the run of the installer     *)
(* over SSH and the collection of its artifacts (remote_exit.py), and what *)
(* is undone when a step fails (pc_orchestrator.py).                       *)
(*                                                                         *)
(* One action is one SSH command, or one local step.  A command is         *)
(* answered, refused, or cut off by the loss of its connection or by       *)
(* Ctrl-C, and when it is not answered the PC does not know whether it was *)
(* executed.  UFW is inspected in one action (status numbered and show     *)
(* added); what makes the inspection fail is the answer "error".  As       *)
(* SECURITY.md has it, nobody else administers the host at the time.       *)
(***************************************************************************)
EXTENDS Integers, FiniteSets

CONSTANTS
  Surprises,  \* the sets of rarities that are looked at: see SurpriseKinds
  MaxCalls,   \* bound: calls of apply_pc_exit, one after another
  MaxFaults   \* bound: failed commands and local steps

\* "noop":      ufw exits with 0 and has changed nothing;
\* "straggler": a command goes on running when its connection is gone;
\* "killed":    the remote installer may be killed, or its rollback fail;
\* "localTemp": the local temporary directory may refuse to be removed.
SurpriseKinds == {"noop", "straggler", "killed", "localTemp"}

ASSUME PcExitAssumption ==
  /\ Surprises \subseteq SUBSET SurpriseKinds
  /\ MaxCalls \in Nat \ {0}
  /\ MaxFaults \in Nat

\* The managed rules: allow from the frontend's /32, then deny for all others.
Pair == {"allow", "deny"}

UfwCommands == [do : {"insert", "delete"}, rule : Pair]
OtherCommands == {[do |-> "mktemp"], [do |-> "install"]}

VARIABLES
  rules,      \* the managed rules that exist; the SSH guard rule always does
  install,    \* the exit: "none", "done" or "half" (not rolled back)
  temp,       \* the staging directory of this call exists on the host
  late,       \* commands still running without a connection
  local,      \* handoff.json and firewall-plan.txt on the PC
  pc,         \* what the PC does next
  link,       \* SSHSession._broken
  caller,     \* who runs the rollback of the rules
  cause,      \* why the call fails
  lost,       \* RemoteExitError.transport_failure
  todo,       \* rules the rollback has still to look at
  undoErrors, \* the kinds of its errors
  incomplete, \* the recovery session could not remove the staging directory
  attempted,  \* the journal: rules whose insertion was attempted by this call
  remoteStatus, artifacts, cleanup,  \* what RemoteExitError reports
  tempKnown,  \* mktemp has answered
  outcome,    \* how the call ended
  before,     \* rules and install when the call began
  calls, faults,
  surprises   \* which rarities may happen at all

server == <<rules, install, temp, late>>
control == <<pc, link, caller, cause, lost, todo, undoErrors, incomplete, outcome>>
report == <<attempted, remoteStatus, artifacts, cleanup, tempKnown>>
vars == <<server, local, control, report, before, calls, faults, surprises>>

CallStart ==
  /\ pc = "preflight"
  /\ link = "up"
  /\ caller = "apply"
  /\ cause = "none"
  /\ lost = FALSE
  /\ todo = {}
  /\ undoErrors = {}
  /\ incomplete = FALSE
  /\ attempted = {}
  /\ remoteStatus = "not_started"
  /\ artifacts = "not_saved"
  /\ cleanup = "not_needed"
  /\ tempKnown = FALSE
  /\ outcome = "running"

\* A fresh host, one whose rules outlived a failed call, or an installed exit.
Init ==
  /\ CallStart
  /\ \/ rules = {} /\ install = "none"
     \/ rules = Pair /\ install \in {"none", "done"}
  /\ temp = FALSE
  /\ late = {}
  /\ local \in {"none", "saved"}
  /\ before = [rules |-> rules, install |-> install]
  /\ calls = 1
  /\ faults = 0
  /\ surprises \in Surprises

-------------------------------------------------------------------------------
\* Control transfers.

Goto(label) ==
  /\ pc' = label
  /\ UNCHANGED <<caller, cause, lost, todo, undoErrors, incomplete, outcome>>

Finish(result) ==
  /\ pc' = "done"
  /\ outcome' = result
  /\ UNCHANGED <<caller, cause, lost, todo, undoErrors, incomplete>>

\* The original exception is raised; there is nothing to undo any more.
Raised(kind) == IF kind = "interrupt" THEN "interrupted" ELSE "aborted"

\* _PcExitRecoveryRequired: a second session that only undoes.
StartRecovery ==
  /\ pc' = "recover"
  /\ caller' = "recovery"
  /\ todo' = attempted
  /\ undoErrors' = {}
  /\ UNCHANGED <<cause, lost, incomplete, outcome>>

StartUndo(who, kind) ==
  /\ pc' = IF who = "apply" THEN "undo" ELSE "undoRoot"
  /\ caller' = who
  /\ cause' = kind
  /\ todo' = attempted
  /\ undoErrors' = {}
  /\ UNCHANGED <<lost, incomplete, outcome>>

\* An exception in apply_remote_exit_network.
NetFails(kind) ==
  \/ attempted = {} /\ Finish(Raised(kind))
  \/ attempted # {} /\ kind = "transport" /\ pc # "freshProof" /\ StartRecovery
  \/ /\ attempted # {}
     /\ kind = "transport" => pc = "freshProof"
     /\ StartUndo("apply", kind)

\* Mutant: the rules stay.
PlainExceptionOwnsNothing(kind) == Finish(Raised(kind))

\* An exception of apply_remote_exit that is not a RemoteExitError.
PlainException(kind) ==
  \/ kind = "interrupt" /\ Finish("interrupted")
  \/ kind # "interrupt" /\ attempted = {} /\ Finish("aborted")
  \/ kind # "interrupt" /\ attempted # {} /\ StartUndo("rollback", kind)

\* An exception in the try of apply_remote_exit; its finally comes next.
RemoteFails(kind) ==
  /\ pc' = IF tempKnown THEN "removeTemp" ELSE "leave"
  /\ cause' = kind
  /\ lost' = (lost \/ kind = "transport")
  /\ UNCHANGED <<caller, todo, undoErrors, incomplete, outcome>>

\* The rollback of the rules failed.
UndoFails(kinds) ==
  IF caller = "apply" /\ cause = "interrupt" THEN Finish("interrupted")
  ELSE IF caller # "recovery" /\ kinds = {"transport"} THEN StartRecovery
  ELSE Finish("unrecovered")

Undone == IF "deny" \in todo THEN "deny" ELSE "allow"

\* _rollback_actions goes on to the next rule whatever became of this one.
NextUndo(kinds) ==
  \/ /\ todo # {Undone}
     /\ pc' = "undo"
     /\ todo' = todo \ {Undone}
     /\ undoErrors' = undoErrors \cup kinds
     /\ UNCHANGED <<caller, cause, lost, incomplete, outcome>>
  \/ todo = {Undone} /\ undoErrors \cup kinds = {} /\ Goto("pairState")
  \/ /\ todo = {Undone}
     /\ undoErrors \cup kinds # {}
     /\ UndoFails(undoErrors \cup kinds)

-------------------------------------------------------------------------------
\* Answers and faults.

Answers == {"ok", "error", "transport", "interrupt"}

\* Whether a command was, or will be, executed.
Executions(answer) ==
  IF answer = "ok" THEN {"yes"}
  ELSE {"yes", "no"} \cup
       (IF answer # "error" /\ "straggler" \in surprises THEN {"late"} ELSE {})

UfwExecutions(answer) ==
  Executions(answer) \cup (IF "noop" \in surprises THEN {"no"} ELSE {})

Charge(answer) ==
  /\ answer # "ok" => faults < MaxFaults
  /\ faults' = IF answer = "ok" THEN faults ELSE faults + 1

\* Over the multiplexed session, which a lost command breaks for good.
Answered(answer) ==
  /\ Charge(answer)
  /\ link' = IF answer = "transport" THEN "broken" ELSE link

NetLabels == {"insertAllow", "lookAllow", "insertDeny", "lookPair"}
RemoteLabels == {"identity", "mktemp", "upload", "installer", "fetch"}
UndoLabels == {"undo", "delete", "deleted"}
OnceLabels == {"undoRoot", "pairState"}
SessionLabels == NetLabels \cup RemoteLabels \cup UndoLabels \cup OnceLabels

Fails(kind) ==
  \/ pc \in NetLabels /\ NetFails(kind)
  \/ pc \in RemoteLabels /\ RemoteFails(kind)
  \/ pc \in UndoLabels \cup OnceLabels /\ kind = "interrupt" /\ Finish("interrupted")
  \/ pc \in UndoLabels /\ kind # "interrupt" /\ NextUndo({kind})
  \/ pc \in OnceLabels /\ kind # "interrupt" /\ UndoFails({kind})

Session(label) == pc = label /\ link = "up"

\* SSHSession.command on a broken session: nothing is sent.  Only the undoing
\* goes on after a loss; whatever else meets one ends there.
BrokenCommand ==
  /\ link = "broken"
  /\ pc \in {"undo", "undoRoot"}
  /\ Fails("transport")
  /\ UNCHANGED <<server, local, report, link, before, calls, faults>>

Effect(command) ==
  IF command.do = "insert" THEN rules \cup {command.rule}
                           ELSE rules \ {command.rule}

Ufw(command, execution) ==
  /\ rules' = IF execution = "yes" THEN Effect(command) ELSE rules
  /\ late' = IF execution = "late" THEN late \cup {command} ELSE late
  /\ UNCHANGED <<install, temp>>

-------------------------------------------------------------------------------
\* apply_remote_exit_network.

\* Mutant: whatever the inspection has found.
AllowJournalAlways == {"allow"}

\* The journal is written before the command is sent.
AllowJournal == IF rules = {} THEN {"allow"} ELSE {}

\* Mutant: the journal forgets the allow rule.
DenyJournalOnly == IF "deny" \in rules THEN attempted ELSE {"deny"}

DenyJournal == IF "deny" \in rules THEN attempted ELSE attempted \cup {"deny"}

\* Open the session, require root, inspect UFW: a partial pair is refused.
Preflight ==
  /\ pc = "preflight"
  /\ \E answer \in Answers :
       /\ Charge(answer)
       /\ \/ answer # "ok" /\ Finish(Raised(answer)) /\ UNCHANGED attempted
          \/ /\ answer = "ok" /\ rules \in {{}, Pair}
             /\ attempted' = AllowJournal
             /\ Goto(IF rules = {} THEN "insertAllow" ELSE "lookAllow")
          \/ /\ answer = "ok" /\ rules \notin {{}, Pair}
             /\ Finish("aborted") /\ UNCHANGED attempted
  /\ UNCHANGED <<server, local, link, remoteStatus, artifacts, cleanup, tempKnown,
                 before, calls>>

\* One `ufw insert`.
Insert(rule, next) ==
  /\ \E answer \in Answers :
       /\ Answered(answer)
       /\ \E execution \in UfwExecutions(answer) :
            Ufw([do |-> "insert", rule |-> rule], execution)
       /\ IF answer = "ok" THEN Goto(next) ELSE NetFails(answer)
  /\ UNCHANGED <<local, report, before, calls>>

InsertAllow == Session("insertAllow") /\ Insert("allow", "lookAllow")

InsertDeny == Session("insertDeny") /\ Insert("deny", "lookPair")

\* The allow rule must show; the deny rule is inserted unless it shows too.
LookAllow ==
  /\ Session("lookAllow")
  /\ \E answer \in Answers :
       /\ Answered(answer)
       /\ \/ answer # "ok" /\ NetFails(answer) /\ UNCHANGED attempted
          \/ /\ answer = "ok" /\ "allow" \notin rules
             /\ NetFails("error") /\ UNCHANGED attempted
          \/ /\ answer = "ok" /\ "allow" \in rules
             /\ attempted' = DenyJournal
             /\ Goto(IF "deny" \in rules THEN "lookPair" ELSE "insertDeny")
  /\ UNCHANGED <<server, local, remoteStatus, artifacts, cleanup, tempKnown, before,
                 calls>>

\* Mutant: the exit status of ufw is enough.
LookPairTrusting ==
  /\ Session("lookPair")
  /\ \E answer \in Answers :
       /\ Answered(answer)
       /\ \/ answer # "ok" /\ NetFails(answer)
          \/ answer = "ok" /\ Goto(IF attempted = {} THEN "prepare" ELSE "freshProof")
  /\ UNCHANGED <<server, local, report, before, calls>>

LookPair ==
  /\ Session("lookPair")
  /\ \E answer \in Answers :
       /\ Answered(answer)
       /\ \/ answer # "ok" /\ NetFails(answer)
          \/ answer = "ok" /\ rules # Pair /\ NetFails("error")
          \/ answer = "ok" /\ rules = Pair /\ attempted # {} /\ Goto("freshProof")
          \/ answer = "ok" /\ rules = Pair /\ attempted = {} /\ Goto("prepare")
  /\ UNCHANGED <<server, local, report, before, calls>>

\* A new connection through the changed rules; its loss leaves the session up.
FreshProof ==
  /\ pc = "freshProof"
  /\ \E answer \in Answers :
       /\ Charge(answer)
       /\ IF answer = "ok" THEN Goto("prepare") ELSE NetFails(answer)
  /\ UNCHANGED <<server, local, report, link, before, calls>>

-------------------------------------------------------------------------------
\* apply_remote_exit.

\* Local: validation, the pinned host key, the temporary directory.
Prepare ==
  /\ pc = "prepare"
  /\ \E answer \in Answers \ {"transport"} :
       /\ Charge(answer)
       /\ IF answer = "ok" THEN Goto("identity") ELSE PlainException(answer)
  /\ UNCHANGED <<server, local, report, link, before, calls>>

Identity ==
  /\ Session("identity")
  /\ \E answer \in Answers :
       /\ Answered(answer)
       /\ IF answer = "ok" THEN Goto("mktemp") ELSE RemoteFails(answer)
  /\ UNCHANGED <<server, local, report, before, calls>>

Mktemp ==
  /\ Session("mktemp")
  /\ cleanup' = "unknown"
  /\ \E answer \in Answers :
       /\ Answered(answer)
       /\ \E execution \in Executions(answer) :
            /\ temp' = (execution = "yes")
            /\ late' = IF execution = "late" THEN late \cup {[do |-> "mktemp"]} ELSE late
       /\ tempKnown' = (answer = "ok")
       /\ IF answer = "ok" THEN Goto("upload") ELSE RemoteFails(answer)
  /\ UNCHANGED <<rules, install, local, attempted, remoteStatus, artifacts, before,
                 calls>>

\* chmod, an SFTP session of its own, a digest comparison over SSH: only a loss
\* of the SSH command breaks the session.
Upload ==
  /\ Session("upload")
  /\ \E answer \in Answers :
       /\ Charge(answer)
       /\ link' \in IF answer = "transport" THEN {link, "broken"} ELSE {link}
       /\ IF answer = "ok" THEN Goto("installer") ELSE RemoteFails(answer)
  /\ UNCHANGED <<server, local, report, before, calls>>

\* What the installer leaves behind.  It rolls back what it could not finish,
\* so a definite error leaves the exit as it was, unless it was killed.
Installs(answer) ==
  (CASE answer = "ok"    -> {"done"}
     [] answer = "error" -> {install}
     [] OTHER            -> {install, "done"})
  \cup (IF answer # "ok" /\ "killed" \in surprises THEN {"half", "done"} ELSE {})

\* Mutant: remote_status becomes "unknown" nowhere.
StatusLate(answer) ==
  CASE answer = "ok"    -> "succeeded"
    [] answer = "error" -> "failed"
    [] OTHER            -> remoteStatus

\* remote_status is "unknown" from before the command until its answer.
Status(answer) ==
  CASE answer = "ok"    -> "succeeded"
    [] answer = "error" -> "failed"
    [] OTHER            -> "unknown"

Installer ==
  /\ Session("installer")
  /\ \E answer \in Answers :
       /\ Answered(answer)
       /\ remoteStatus' = Status(answer)
       /\ \E execution \in Executions(answer) :
            /\ install' \in IF execution = "yes" THEN Installs(answer) ELSE {install}
            /\ late' = IF execution = "late" THEN late \cup {[do |-> "install"]} ELSE late
       /\ IF answer = "ok" THEN Goto("fetch") ELSE RemoteFails(answer)
  /\ UNCHANGED <<rules, temp, local, attempted, artifacts, cleanup, tempKnown, before,
                 calls>>

\* Stage, download (SFTP) and validate handoff.json and firewall-plan.txt.
Fetch ==
  /\ Session("fetch")
  /\ \E answer \in Answers :
       /\ Charge(answer)
       /\ link' \in IF answer = "transport" THEN {link, "broken"} ELSE {link}
       /\ IF answer = "ok" THEN Goto("persist") ELSE RemoteFails(answer)
  /\ UNCHANGED <<server, local, report, before, calls>>

\* Two files are written, and on an error both are restored as far as possible.
Persist ==
  /\ pc = "persist"
  /\ \E answer \in Answers \ {"transport"} :
       /\ Charge(answer)
       /\ local' \in IF answer = "ok" THEN {"saved"} ELSE {local, "mixed"}
       /\ artifacts' = CASE answer = "ok"                        -> "saved"
                         [] answer = "error" /\ local' # local  -> "partial"
                         [] OTHER                                -> artifacts
       /\ IF answer = "ok" THEN Goto("removeTemp") ELSE RemoteFails(answer)
  /\ UNCHANGED <<server, link, attempted, remoteStatus, cleanup, tempKnown, before,
                 calls>>

\* rm and rmdir of the staging directory, the finally of apply_remote_exit.  (A
\* late removal is not modelled: it only comes to what was wanted.)
RemoveTemp ==
  /\ pc = "removeTemp"
  /\ \/ /\ link = "broken"
        /\ cleanup' = "failed"
        /\ pc' = "leave"
        /\ lost' = TRUE
        /\ UNCHANGED <<temp, link, caller, cause, todo, undoErrors, incomplete,
                       outcome, faults>>
     \/ /\ link = "up"
        /\ \E answer \in Answers :
             /\ Answered(answer)
             /\ temp' \in IF answer = "ok" THEN {FALSE} ELSE {FALSE, temp}
             /\ cleanup' = CASE answer = "ok"        -> "succeeded"
                             [] answer = "interrupt" -> cleanup
                             [] OTHER                -> "failed"
             /\ \/ answer = "interrupt" /\ Finish("interrupted")
                \/ /\ answer # "interrupt"
                   /\ pc' = "leave"
                   /\ lost' = (lost \/ answer = "transport")
                   /\ UNCHANGED <<caller, cause, todo, undoErrors, incomplete, outcome>>
  /\ UNCHANGED <<rules, install, late, local, attempted, remoteStatus, artifacts,
                 tempKnown, before, calls>>

-------------------------------------------------------------------------------
\* apply_pc_exit, once apply_remote_exit is over.

\* The staging directory is known and may still be there.
NeedsTemp == tempKnown /\ cleanup # "succeeded"

\* The handler of RemoteExitError, or no error at all.
Decide ==
  \/ cause = "none" /\ cleanup = "succeeded" /\ Goto("close")
  \/ cause = "none" /\ cleanup # "succeeded" /\ Finish("kept")
  \/ cause = "interrupt" /\ Finish("interrupted")
  \/ cause \in {"error", "transport"} /\ remoteStatus = "unknown" /\ Finish("unknown")
  \/ cause \in {"error", "transport"} /\ remoteStatus = "succeeded" /\ Finish("kept")
  \/ /\ cause \in {"error", "transport"} /\ remoteStatus \in {"not_started", "failed"}
     /\ \/ lost /\ (NeedsTemp \/ attempted # {}) /\ StartRecovery
        \/ ~lost /\ attempted # {} /\ StartUndo("rollback", cause)
        \/ attempted = {} /\ ~(lost /\ NeedsTemp) /\ Finish("aborted")

\* The local temporary directory is removed; an OSError here takes the place of
\* whatever was on its way, success included, and names no staging directory.
Leave ==
  /\ pc = "leave"
  /\ \/ Decide /\ UNCHANGED <<tempKnown, faults>>
     \/ /\ "localTemp" \in surprises
        /\ Charge("error")
        /\ PlainException("error")
        /\ tempKnown' = FALSE
  /\ UNCHANGED <<server, local, attempted, remoteStatus, artifacts, cleanup, link,
                 before, calls>>

\* The session is torn down after a success: a failure there is an error.
Close ==
  /\ pc = "close"
  /\ \E answer \in Answers \ {"transport"} :
       /\ Charge(answer)
       /\ Finish(IF answer = "ok" THEN "applied" ELSE "unreported")
  /\ UNCHANGED <<server, local, report, link, before, calls>>

-------------------------------------------------------------------------------
\* The rollback of the rules: by apply_remote_exit_network itself, by
\* rollback_remote_exit_network, or by reconcile_remote_exit_network.  The
\* journal is a prefix of allow, deny, as _validated_recovery requires.

UndoRoot ==
  /\ Session("undoRoot")
  /\ \E answer \in Answers :
       /\ Answered(answer)
       /\ IF answer = "ok" THEN Goto("undo") ELSE Fails(answer)
  /\ UNCHANGED <<server, local, report, before, calls>>

\* _delete_comment: look for the rule, delete it, look again.
UndoLook ==
  /\ Session("undo")
  /\ \E answer \in Answers :
       /\ Answered(answer)
       /\ \/ answer # "ok" /\ Fails(answer)
          \/ answer = "ok" /\ Undone \notin rules /\ NextUndo({})
          \/ answer = "ok" /\ Undone \in rules /\ Goto("delete")
  /\ UNCHANGED <<server, local, report, before, calls>>

DeleteRule ==
  /\ Session("delete")
  /\ \E answer \in Answers :
       /\ Answered(answer)
       /\ \E execution \in UfwExecutions(answer) :
            Ufw([do |-> "delete", rule |-> Undone], execution)
       /\ IF answer = "ok" THEN Goto("deleted") ELSE Fails(answer)
  /\ UNCHANGED <<local, report, before, calls>>

Deleted ==
  /\ Session("deleted")
  /\ \E answer \in Answers :
       /\ Answered(answer)
       /\ \/ answer # "ok" /\ Fails(answer)
          \/ answer = "ok" /\ Undone \notin rules /\ NextUndo({})
          \/ answer = "ok" /\ Undone \in rules /\ NextUndo({"error"})
  /\ UNCHANGED <<server, local, report, before, calls>>

\* _require_pair_state: neither rule may be left.
PairState ==
  /\ Session("pairState")
  /\ \E answer \in Answers :
       /\ Answered(answer)
       /\ \/ answer # "ok" /\ Fails(answer)
          \/ answer = "ok" /\ rules # {} /\ Fails("error")
          \/ /\ answer = "ok" /\ rules = {}
             /\ \/ caller = "apply" /\ Finish(Raised(cause))
                \/ caller = "rollback" /\ Goto("undoFresh")
                \/ caller = "recovery" /\ Goto("recoverClose")
  /\ UNCHANGED <<server, local, report, before, calls>>

\* A last look over a new connection.
UndoFresh ==
  /\ pc = "undoFresh"
  /\ \E answer \in Answers :
       /\ Charge(answer)
       /\ \/ answer = "ok" /\ Finish("aborted")
          \/ answer = "transport" /\ StartRecovery
          \/ answer = "error" /\ Finish("unrecovered")
          \/ answer = "interrupt" /\ Finish("interrupted")
  /\ UNCHANGED <<server, local, report, link, before, calls>>

-------------------------------------------------------------------------------
\* _raise_after_recovery.

Failed(answer) == IF answer = "interrupt" THEN "interrupted" ELSE "unrecovered"

\* Open the second session and require root.
Recover ==
  /\ pc = "recover"
  /\ \E answer \in Answers :
       /\ Charge(answer)
       /\ link' = IF answer = "ok" THEN "up" ELSE link
       /\ IF answer = "ok" THEN Goto(IF NeedsTemp THEN "recoverTemp" ELSE "undoRoot")
                           ELSE Finish(Failed(answer))
  /\ UNCHANGED <<server, local, report, before, calls>>

\* The rules are undone whether or not the staging directory could be removed.
RecoverTemp ==
  /\ Session("recoverTemp")
  /\ \E answer \in Answers :
       /\ Answered(answer)
       /\ temp' \in IF answer = "ok" THEN {FALSE} ELSE {FALSE, temp}
       /\ cleanup' = IF answer = "ok" THEN "succeeded" ELSE cleanup
       /\ \/ answer = "interrupt" /\ Finish("interrupted")
          \/ /\ answer # "interrupt"
             /\ pc' = IF attempted = {} THEN "recoverClose" ELSE "undoRoot"
             /\ incomplete' = (answer # "ok")
             /\ UNCHANGED <<caller, cause, lost, todo, undoErrors, outcome>>
  /\ UNCHANGED <<rules, install, late, local, attempted, remoteStatus, artifacts,
                 tempKnown, before, calls>>

RecoverClose ==
  /\ pc = "recoverClose"
  /\ \E answer \in Answers \ {"transport"} :
       /\ Charge(answer)
       /\ Finish(IF answer # "ok" THEN Failed(answer)
                 ELSE IF incomplete THEN "unrecovered" ELSE "recovered")
  /\ UNCHANGED <<server, local, report, link, before, calls>>

-------------------------------------------------------------------------------
\* The host and the PC.

\* A command that was left running takes effect.
Land ==
  /\ \E command \in late :
       /\ late' = late \ {command}
       /\ rules' = IF command \in UfwCommands THEN Effect(command) ELSE rules
       /\ install' \in IF command.do = "install" THEN {install, "done"} ELSE {install}
       /\ temp' = (temp \/ command.do = "mktemp")
  /\ UNCHANGED <<local, control, report, before, calls, faults>>

\* The PC process is killed; while a command runs, this is an interrupt of it
\* and then a crash.
Crash ==
  /\ pc # "done"
  /\ Charge("error")
  /\ Finish("crashed")
  /\ local' \in IF pc = "persist" THEN {local, "mixed"} ELSE {local}
  /\ UNCHANGED <<server, report, link, before, calls>>

\* The wizard, or its bounded retry, calls again.  No command of the call before
\* is still running by then.
Restart ==
  /\ pc = "done"
  /\ calls < MaxCalls
  /\ late = {}
  /\ calls' = calls + 1
  /\ pc' = "preflight"
  /\ link' = "up"
  /\ caller' = "apply"
  /\ cause' = "none"
  /\ lost' = FALSE
  /\ todo' = {}
  /\ undoErrors' = {}
  /\ incomplete' = FALSE
  /\ attempted' = {}
  /\ remoteStatus' = "not_started"
  /\ artifacts' = "not_saved"
  /\ cleanup' = "not_needed"
  /\ tempKnown' = FALSE
  /\ outcome' = "running"
  /\ temp' = FALSE
  /\ before' = [rules |-> rules, install |-> install]
  /\ UNCHANGED <<rules, install, late, local, faults>>

\* No call follows.
Ended == pc = "done" /\ UNCHANGED vars

Step ==
  \/ BrokenCommand \/ Preflight \/ InsertAllow \/ LookAllow \/ InsertDeny \/ LookPair
  \/ FreshProof \/ Prepare \/ Identity \/ Mktemp \/ Upload \/ Installer \/ Fetch
  \/ Persist \/ RemoveTemp \/ Leave \/ Close
  \/ UndoRoot \/ UndoLook \/ DeleteRule \/ Deleted \/ PairState \/ UndoFresh
  \/ Recover \/ RecoverTemp \/ RecoverClose
  \/ Land \/ Crash \/ Restart \/ Ended

Next == Step /\ UNCHANGED surprises

Spec == Init /\ [][Next]_vars

-------------------------------------------------------------------------------
\* Properties.

HostTyped ==
  /\ rules \in SUBSET Pair
  /\ install \in {"none", "half", "done"}
  /\ temp \in BOOLEAN
  /\ late \subseteq UfwCommands \cup OtherCommands
  /\ local \in {"none", "saved", "mixed"}

ControlTyped ==
  /\ pc \in SessionLabels \cup {"preflight", "freshProof", "prepare", "persist",
              "removeTemp", "leave", "close", "undoFresh", "recover", "recoverTemp",
              "recoverClose", "done"}
  /\ link \in {"up", "broken"}
  /\ caller \in {"apply", "rollback", "recovery"}
  /\ cause \in {"none", "error", "transport", "interrupt"}
  /\ lost \in BOOLEAN /\ incomplete \in BOOLEAN
  /\ todo \in SUBSET Pair
  /\ undoErrors \subseteq {"error", "transport"}
  /\ outcome \in {"running", "applied", "unreported", "kept", "unknown", "aborted",
                  "recovered", "unrecovered", "interrupted", "crashed"}

\* The journal is a prefix of allow, deny.
ReportTyped ==
  /\ attempted \in {{}, {"allow"}, Pair}
  /\ remoteStatus \in {"not_started", "unknown", "failed", "succeeded"}
  /\ artifacts \in {"not_saved", "partial", "saved"}
  /\ cleanup \in {"not_needed", "unknown", "failed", "succeeded"}
  /\ tempKnown \in BOOLEAN

HistoryTyped ==
  /\ before \in [rules : SUBSET Pair, install : {"none", "half", "done"}]
  /\ calls \in 1..MaxCalls
  /\ faults \in 0..MaxFaults
  /\ surprises \in Surprises

TypeOK == HostTyped /\ ControlTyped /\ ReportTyped /\ HistoryTyped

\* A call that ends with the original error alone, or with a completed exact
\* recovery, leaves the host as the call found it (_raise_after_recovery,
\* pc_orchestrator.py), if every command ends before its connection does, the
\* installer's answer is final, and the call hears of it.
Plain == surprises \subseteq {"noop"}
BaselineRestored ==
  Plain /\ outcome \in {"aborted", "recovered"} =>
    [rules |-> rules, install |-> install] = before

\* The answer of the installer is final, and the call hears of it.
Believed == surprises \cap {"killed", "localTemp"} = {}

\* "An unknown or successful remote apply keeps the restrictive rules in place"
\* (the docstring of apply_pc_exit): where the call says so itself, and, however
\* it ends or while it still runs, wherever the exit is installed or an
\* installer is still running without a connection.  The second part has two
\* exceptions, both against that docstring and the comment at
\* pc_orchestrator.py:373: an installer that is killed after it has installed
\* the exit counts as one that has rolled back, and a local temporary directory
\* that cannot be removed as a failure before the installer; then the pair goes
\* although the exit may stay.
KeptWhenMaybeApplied ==
  /\ outcome \in {"applied", "unreported", "kept", "unknown"} => rules = Pair
  /\ Believed /\ (install = "done" \/ [do |-> "install"] \in late) => rules = Pair

\* What RemoteExitError and PcExitResult report is so.  Nothing is claimed of an
\* unknown status.
ReportIsTrue ==
  /\ pc # "preflight" /\ remoteStatus = "not_started" => install = before.install
  /\ remoteStatus = "succeeded" => install = "done"
  /\ artifacts = "saved" => local = "saved" /\ remoteStatus = "succeeded"
  /\ cleanup \in {"not_needed", "succeeded"} => ~temp
  /\ outcome = "applied" =>
       artifacts = "saved" /\ cleanup = "succeeded" /\ install = "done"

\* Only a rule whose insertion this call attempted is ever removed: the rules of
\* an earlier installation are not this call's to take
\* (_require_pair_state and the journal of remote_network.py).
OnlyOwnRulesRemoved ==
  [][rules \ rules' \subseteq attempted \ before.rules]_vars

\* The rules of this call go only while the exit is as the call found it: "if the
\* exit transaction definitely did not start or definitely rolled back"
\* (the docstring of apply_pc_exit).
UndoneOnlyWhenRolledBack ==
  [][Believed /\ rules \ rules' # {} => install = before.install]_vars

\* The detailed protocol implements the promise: what it does is Guard!Spec as long
\* as the answers can be believed (surprises never changes).
Guard == INSTANCE GuardedExit
ImplementsGuardedExit ==
  /\ Believed => Guard!Init
  /\ [][Believed => Guard!Next]_Guard!vars
===============================================================================
