------------------------------ MODULE ExitNetwork ------------------------------
(***************************************************************************)
(* apply_exit_network of xhttp_setup/exit_network.py: on the exit itself,  *)
(* under network.lock, two UFW rules, a sysctl file with its runtime       *)
(* values and two TCPMSS rules.  Every change is journalled with its       *)
(* undoing; an exception undoes the journal, the last change first.  A     *)
(* call may be killed at any step or the host rebooted; the next call has  *)
(* the host itself to go by, there is no other record.                     *)
(***************************************************************************)
EXTENDS Integers, Sequences, SequencesExt, FiniteSets

CONSTANTS
  Keys,      \* the keys of SYSCTL_VALUES
  Ifaces,    \* default interfaces the host may have
  None,      \* the interface of a rule for all of them, and a missing file
  MaxFaults  \* bound: failed commands, kills, reboots, changed interfaces

ASSUME ExitNetworkAssumption ==
  /\ IsFiniteSet(Keys)
  /\ Ifaces # {} /\ None \notin Ifaces
  /\ MaxFaults \in Nat

VARIABLES
  rules,    \* the IPv4 rules of UFW: "allow" and "deny" are the managed ones,
            \* "open" allows everybody, "other" the frontend of another profile
  deny6,    \* the IPv6 twin of "deny"
  file,     \* the sysctl file: None, "foreign", "stale", "managed"
  runtime,  \* the keys that have their managed value
  mss,      \* TCPMSS rules, each a chain and an interface
  iface,    \* the default interface
  pc,       \* the next step of the call; "off" between calls
  before,   \* what the call found
  using,    \* the interface that the call found
  todo,     \* keys that the call has not set yet
  journal,  \* what the call has to undo, in the order it was done
  errors,   \* some undoing has failed
  doubt,    \* a command that failed had its effect nevertheless
  outcome, faults

firewall == <<rules, deny6>>
host == <<rules, deny6, file, runtime, mss>>
call == <<before, using, todo, journal, errors, doubt>>
vars == <<host, iface, pc, call, outcome, faults>>

Chains == {"OUTPUT", "POSTROUTING"}
Mss(chain, i) == <<chain, IF chain = "OUTPUT" THEN None ELSE i>>

Now == [rules |-> rules, deny6 |-> deny6, file |-> file, runtime |-> runtime, mss |-> mss]

\* Hosts without, with a part of and with the whole profile; and such that a
\* call has to refuse.
Init ==
  /\ rules \in {<<"open">>, <<"allow", "open">>, <<"deny", "open">>,
                <<"allow", "deny", "open">>, <<"open", "deny">>, <<"other", "open">>}
  /\ deny6 \in {FALSE, \E i \in DOMAIN rules : rules[i] = "deny"}
  /\ file \in {None, "foreign", "stale", "managed"}
  /\ runtime \in {{}, Keys}
  /\ mss = {}
  /\ iface \in Ifaces
  /\ pc = "off"
  /\ before = Now
  /\ using = iface
  /\ todo = {}
  /\ journal = <<>>
  /\ errors = FALSE
  /\ doubt = FALSE
  /\ outcome = "none"
  /\ faults = 0

-------------------------------------------------------------------------------
\* What an inspection accepts.

At(rule) == { i \in DOMAIN rules : rules[i] = rule }
Has(rule) == At(rule) # {}

\* Mutant: the position of the deny rule is not looked at.
LegibleAnywhere ==
  /\ ~Has("other")
  /\ deny6 => Has("deny")
  /\ At("allow") \subseteq {1}

\* _inspect_ufw: at most one of each, in the first places.
Legible ==
  /\ ~Has("other")
  /\ deny6 => Has("deny")
  /\ At("allow") \subseteq {1}
  /\ At("deny") \subseteq {IF Has("allow") THEN 2 ELSE 1}

\* _inspect_mss_rules
MssLegible(i) == \A rule \in mss : rule[1] = "POSTROUTING" => rule[2] = i

-------------------------------------------------------------------------------
\* Control.

Charge ==
  /\ faults < MaxFaults
  /\ faults' = faults + 1

Goto(label) == pc' = label /\ UNCHANGED outcome

End(report) == pc' = "off" /\ outcome' = report

Log(entry) == journal' = Append(journal, entry)

Except == Goto("undo") /\ UNCHANGED <<host, journal, todo>>

-------------------------------------------------------------------------------
\* A call.

Enter ==
  /\ pc' = "allow" /\ outcome' = "none"
  /\ before' = Now
  /\ using' = iface
  /\ todo' = Keys
  /\ journal' = <<>> /\ errors' = FALSE /\ doubt' = FALSE

\* Mutant: half a pair is somebody else's.
BeginWholePair ==
  /\ pc = "off"
  /\ IF Legible /\ MssLegible(iface) /\ file # "foreign" /\ Has("allow") = Has("deny")
     THEN Enter
     ELSE End("refused") /\ UNCHANGED call
  /\ UNCHANGED <<host, iface, faults>>

\* Everything is read before anything is changed.
Begin ==
  /\ pc = "off"
  /\ IF Legible /\ MssLegible(iface) /\ file # "foreign"
     THEN Enter
     ELSE End("refused") /\ UNCHANGED call
  /\ UNCHANGED <<host, iface, faults>>

InsertAllow == rules' = <<"allow">> \o rules /\ UNCHANGED <<deny6, file, runtime, mss>>
InsertDeny == /\ rules' = InsertAt(rules, 2, "deny") /\ deny6' = TRUE
              /\ UNCHANGED <<file, runtime, mss>>
AppendMss(chain) == mss' = mss \cup {Mss(chain, using)} /\ UNCHANGED <<firewall, file, runtime>>

AddAllow ==
  /\ pc = "allow"
  /\ IF \E i \in DOMAIN before.rules : before.rules[i] = "allow"
     THEN UNCHANGED <<host, journal>>
     ELSE InsertAllow /\ Log("allow")
  /\ Goto("deny")
  /\ UNCHANGED <<iface, before, using, todo, errors, doubt, faults>>

\* Mutant: the deny rule is journalled whoever inserted it.
AddDenyLogged ==
  /\ pc = "deny"
  /\ IF ~(Legible /\ Has("allow")) THEN Except
     ELSE /\ IF Has("deny") THEN UNCHANGED host ELSE InsertDeny
          /\ Log("deny")
          /\ Goto("file")
          /\ UNCHANGED todo
  /\ UNCHANGED <<iface, before, using, errors, doubt, faults>>

AddDeny ==
  /\ pc = "deny"
  /\ IF ~(Legible /\ Has("allow")) THEN Except
     ELSE /\ IF Has("deny") THEN UNCHANGED <<host, journal>> ELSE InsertDeny /\ Log("deny")
          /\ Goto("file")
          /\ UNCHANGED todo
  /\ UNCHANGED <<iface, before, using, errors, doubt, faults>>

SysctlDone == before.file = "managed" /\ before.runtime = Keys

\* Mutant: the journal gets its entry when the file has been written.
WriteFileLate ==
  /\ pc = "file"
  /\ IF ~(Legible /\ Has("allow") /\ Has("deny")) THEN Except
     ELSE IF SysctlDone THEN Goto("OUTPUT") /\ UNCHANGED <<host, journal, todo>>
     ELSE /\ file' = "managed"
          /\ UNCHANGED <<firewall, runtime, mss, journal>>
          /\ Goto("keys")
          /\ UNCHANGED todo
  /\ UNCHANGED <<iface, before, using, errors, doubt, faults>>

\* Journalled before it is written: file and runtime values are undone together.
WriteFile ==
  /\ pc = "file"
  /\ IF ~(Legible /\ Has("allow") /\ Has("deny")) THEN Except
     ELSE IF SysctlDone THEN Goto("OUTPUT") /\ UNCHANGED <<host, journal, todo>>
     ELSE /\ file' = "managed"
          /\ UNCHANGED <<firewall, runtime, mss>>
          /\ Log("sysctl")
          /\ Goto("keys")
          /\ UNCHANGED todo
  /\ UNCHANGED <<iface, before, using, errors, doubt, faults>>

SetKey ==
  /\ pc = "keys"
  /\ \E key \in todo :
       /\ runtime' = runtime \cup {key}
       /\ todo' = todo \ {key}
  /\ Goto("keys")
  /\ UNCHANGED <<firewall, file, mss, iface, before, using, journal, errors, doubt, faults>>

ReadBack ==
  /\ pc = "keys"
  /\ todo = {}
  /\ IF runtime = Keys THEN Goto("OUTPUT") /\ UNCHANGED <<host, journal, todo>> ELSE Except
  /\ UNCHANGED <<iface, before, using, errors, doubt, faults>>

NextChain == [OUTPUT |-> "POSTROUTING", POSTROUTING |-> "verify"]

AddMss ==
  /\ pc \in Chains
  /\ IF Mss(pc, using) \in before.mss
     THEN UNCHANGED <<host, journal>>
     ELSE AppendMss(pc) /\ Log(pc)
  /\ Goto(NextChain[pc])
  /\ UNCHANGED <<iface, before, using, todo, errors, doubt, faults>>

Verify ==
  /\ pc = "verify"
  /\ IF MssLegible(using) /\ \A chain \in Chains : Mss(chain, using) \in mss
     THEN End("applied") /\ UNCHANGED <<host, journal, todo>>
     ELSE Except
  /\ UNCHANGED <<iface, before, using, errors, doubt, faults>>

\* A command or a check fails; a command may have done its work: then nothing
\* in the journal says so, except for the sysctl values.
StepFails ==
  /\ pc \in {"allow", "deny", "file", "keys", "verify"} \cup Chains
  /\ Charge
  /\ \/ UNCHANGED <<host, doubt>>
     \/ pc = "allow" /\ ~Has("allow") /\ InsertAllow /\ doubt' = TRUE
     \/ pc = "deny" /\ Legible /\ Has("allow") /\ ~Has("deny") /\ InsertDeny /\ doubt' = TRUE
     \/ pc \in Chains /\ AppendMss(pc) /\ doubt' = (doubt \/ Mss(pc, using) \notin before.mss)
     \/ /\ pc = "file" /\ ~SysctlDone
        /\ file' = "managed" /\ UNCHANGED <<firewall, runtime, mss, doubt>>
     \/ /\ pc = "keys"
        /\ \E key \in todo : runtime' = runtime \cup {key}
        /\ UNCHANGED <<firewall, file, mss, doubt>>
  /\ IF pc = "file" /\ ~SysctlDone THEN Log("sysctl") ELSE UNCHANGED journal
  /\ Goto("undo")
  /\ UNCHANGED <<iface, before, using, todo, errors>>

-------------------------------------------------------------------------------
\* The undoing.

\* Mutant: in the order of the changes.
EntryFirst == Head(journal)

Entry == Last(journal)

Undoing(entry) ==
  /\ pc = "undo"
  /\ journal # <<>>
  /\ Entry = entry

Popped == journal' = Front(journal)

\* By number: both numbers are read before the first deletion, the higher one,
\* of the IPv6 rule, goes first.
UndoDeny6 ==
  /\ Undoing("deny")
  /\ Legible /\ deny6
  /\ deny6' = FALSE
  /\ Goto("undo")
  /\ UNCHANGED <<rules, file, runtime, mss, iface, call, faults>>

DeleteRule(rule) ==
  /\ Legible /\ Has(rule)
  /\ rules' = RemoveAt(rules, CHOOSE i \in At(rule) : TRUE)
  /\ UNCHANGED <<deny6, file, runtime, mss>>

UndoRule ==
  /\ \/ Undoing("deny") /\ ~deny6 /\ DeleteRule("deny")
     \/ Undoing("allow") /\ DeleteRule("allow")
  /\ Popped
  /\ Goto("undo")
  /\ UNCHANGED <<iface, before, using, todo, errors, doubt, faults>>

\* The inventory is not what an inspection accepts, or the rule is not in it.
UndoRefused ==
  /\ \E rule \in {"deny", "allow"} : Undoing(rule) /\ ~(Legible /\ Has(rule))
  /\ Popped
  /\ errors' = TRUE
  /\ Goto("undo")
  /\ UNCHANGED <<host, iface, before, using, todo, doubt, faults>>

UndoSysctl ==
  /\ Undoing("sysctl")
  /\ file' = before.file
  /\ runtime' = before.runtime
  /\ Popped
  /\ Goto("undo")
  /\ UNCHANGED <<firewall, mss, iface, before, using, todo, errors, doubt, faults>>

UndoMss ==
  /\ \E chain \in Chains : Undoing(chain) /\ mss' = mss \ {Mss(chain, using)}
  /\ Popped
  /\ Goto("undo")
  /\ UNCHANGED <<firewall, file, runtime, iface, before, using, todo, errors, doubt, faults>>

\* One of the commands of an entry fails; the rest of the journal goes on.
UndoFails ==
  /\ pc = "undo" /\ journal # <<>>
  /\ Charge
  /\ \/ UNCHANGED host
     \/ /\ Entry = "deny" /\ Legible /\ Has("deny")
        /\ rules' = RemoveAt(rules, CHOOSE i \in At("deny") : TRUE)
        /\ UNCHANGED <<deny6, file, runtime, mss>>
     \/ /\ Entry = "sysctl"
        /\ file' \in {file, before.file}
        /\ \E kept \in SUBSET Keys : runtime' = (runtime \cap kept) \cup (before.runtime \ kept)
        /\ UNCHANGED <<firewall, mss>>
  /\ Popped
  /\ errors' = TRUE
  /\ Goto("undo")
  /\ UNCHANGED <<iface, before, using, todo, doubt>>

Undone ==
  /\ pc = "undo"
  /\ journal = <<>>
  /\ End(IF errors THEN "incomplete" ELSE "failed")
  /\ UNCHANGED <<host, iface, call, faults>>

-------------------------------------------------------------------------------
\* The world.

\* Also KeyboardInterrupt, which no handler here sees.
Killed ==
  /\ pc # "off"
  /\ Charge
  /\ End("killed")
  /\ UNCHANGED <<host, iface, call>>

\* UFW and the sysctl file outlast a reboot, the TCPMSS rules do not.
Reboot ==
  /\ Charge
  /\ End("killed")
  /\ mss' = {}
  /\ runtime' = IF file = "managed" THEN Keys ELSE {}
  /\ UNCHANGED <<firewall, file, iface, call>>

IfaceChanges ==
  /\ Charge
  /\ iface' \in Ifaces \ {iface}
  /\ UNCHANGED <<host, pc, call, outcome>>

Step ==
  \/ AddAllow \/ AddDeny \/ WriteFile \/ SetKey \/ ReadBack \/ AddMss \/ Verify
  \/ UndoDeny6 \/ UndoRule \/ UndoRefused \/ UndoSysctl \/ UndoMss \/ Undone

Next == Begin \/ Step \/ StepFails \/ UndoFails \/ Killed \/ Reboot \/ IfaceChanges

Spec == Init /\ [][Next]_vars

\* A call goes on, and is repeated.
FairSpec == Spec /\ WF_vars(Step) /\ WF_vars(Begin)

-------------------------------------------------------------------------------
\* Properties.

\* UFW takes the first rule that matches; without one, the default policy denies.
Matches(rule) ==
  CASE rule \in {"deny", "open"} -> {"front", "others"}
    [] rule = "allow" -> {"front"}
    [] rule = "other" -> {"others"}

Admitted(source) ==
  \E i \in DOMAIN rules :
    /\ source \in Matches(rules[i])
    /\ rules[i] # "deny"
    /\ \A j \in 1..(i - 1) : source \notin Matches(rules[j])

In(seq, rule) == \E i \in DOMAIN seq : seq[i] = rule

\* Types; and the journal has at most one entry of each kind, and none for what
\* the call has found.
TypeOK ==
  /\ \A i \in DOMAIN rules : rules[i] \in {"allow", "deny", "open", "other"}
  /\ {deny6, errors, doubt} \subseteq BOOLEAN
  /\ file \in {None, "foreign", "stale", "managed"}
  /\ runtime \subseteq Keys
  /\ mss \subseteq {Mss(chain, i) : chain \in Chains, i \in Ifaces}
  /\ {iface, using} \subseteq Ifaces
  /\ todo \subseteq Keys
  /\ faults \in 0..MaxFaults
  /\ pc \in {"off", "allow", "deny", "file", "keys", "verify", "undo"} \cup Chains
  /\ pc # "off" =>
       /\ IsInjective(journal)
       /\ \A rule \in {"allow", "deny"} : In(journal, rule) => ~In(before.rules, rule)
       /\ \A chain \in Chains : In(journal, chain) => Mss(chain, using) \notin before.mss

\* What a call has found of the profile is there as long as it runs, however its
\* rollback goes: a repeated call that fails does not uninstall.
EarlierKept ==
  pc # "off" =>
    /\ \A rule \in {"allow", "deny"} : In(before.rules, rule) => Has(rule)
    /\ before.mss \subseteq mss
    /\ before.file = "managed" => file = "managed"
    /\ before.runtime \subseteq runtime

\* A call that fails, and does not say that its rollback is incomplete, leaves the
\* host as it was, unless a command that failed has worked.
RolledBack ==
  outcome = "failed" /\ ~doubt => Now = before

\* After a successful call the backend admits the frontend and nobody else,
\* whatever other rules there are, and the rest of the profile is in force.
AppliedIsWhole ==
  outcome = "applied" =>
    /\ Admitted("front") /\ ~Admitted("others")
    /\ file = "managed" /\ runtime = Keys
    /\ \A chain \in Chains : Mss(chain, using) \in mss

\* While the profile is undone, the frontend is not cut off by a half of it: the
\* allow rule does not go from in front of a deny rule of the call.  It does when the
\* deletion of the deny rule has failed, or its insertion seemed to: the rollback
\* goes on with the rest of the journal.
FrontNeverDenied ==
  [][ Has("allow") /\ Has("deny") /\ ~In(before.rules, "deny") =>
        In(rules', "allow") \/ ~In(rules', "deny") \/ errors \/ doubt ]_vars

\* What makes a call refuse: rules that it cannot have made, or the twin of a deny
\* rule whose deletion has failed; a foreign file; a TCPMSS rule for an interface
\* that was the default before.
NeedsUser ==
  \/ Has("other")
  \/ rules[1] = "open" /\ Has("deny")
  \/ deny6 /\ ~Has("deny")
  \/ file = "foreign"
  \/ \E rule \in mss : rule[1] = "POSTROUTING" /\ rule[2] # iface

\* From everything else a later call gets through.
Recovers == []<>(outcome = "applied" \/ NeedsUser)
===============================================================================
