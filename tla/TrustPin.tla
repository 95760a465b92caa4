-------------------------------- MODULE TrustPin --------------------------------
(***************************************************************************)
(* Trust on first use in xhttp_setup/ssh_transport.py and                  *)
(* front_discovery.py, along one run of the PC wizard: the SSH key of an   *)
(* endpoint goes into a trust file that all wizards of the user share, is  *)
(* used to log in, and is then copied into the known_hosts of the output   *)
(* directory; the TLS leaf of a site without a public certificate is       *)
(* pinned in the output directory.  Wizards of different domains, hence of *)
(* different output directories, run at the same time; wizard.lock keeps   *)
(* apart those of one.                                                     *)
(***************************************************************************)
EXTENDS Integers, FiniteSets

CONSTANTS
  Wizards,    \* processes on the PC
  Outputs,    \* output directories, one per domain
  Home,       \* the output directory of each wizard
  Keys,       \* SSH host keys that the endpoint may present
  Leaves,     \* TLS leaves that the site may present
  None,
  MaxChanges, \* bound: changes at the endpoint and at the site
  MaxFaults   \* bound: failed connections, kills

ASSUME TrustAssumption ==
  /\ Home \in [Wizards -> Outputs]
  /\ None \notin Keys \cup Leaves \cup Wizards
  /\ MaxChanges \in Nat /\ MaxFaults \in Nat

VARIABLES
  keys,      \* the keys that the endpoint presents, at most one of a type
  leaf,      \* the leaf that the site presents
  public,    \* it passes the verification by CA and host name
  trust,     \* the trust file of the endpoint
  pins,      \* known_hosts of each output directory
  leafPins,  \* the leaf pin of each output directory
  lock,      \* the holder of each wizard.lock
  pc,        \* the next step of each wizard
  seen,      \* the host key that the wizard has read or scanned
  first,     \* the leaf of the wizard's first handshake
  persisted, \* the leaf pin that the wizard has read
  sent,      \* host keys that a password was sent under
  returned,  \* leaves that went into the client profiles of each output directory
  changes, faults

world == <<keys, leaf, public, changes>>
local == <<seen, first, persisted>>
files == <<trust, pins, leafPins>>
vars == <<world, files, lock, pc, local, sent, returned, faults>>

Init ==
  /\ keys \in SUBSET Keys \ {{}}
  /\ leaf \in Leaves
  /\ public \in BOOLEAN
  /\ trust = None
  /\ pins = [o \in Outputs |-> None]
  /\ leafPins = [o \in Outputs |-> None]
  /\ lock = [o \in Outputs |-> None]
  /\ pc = [w \in Wizards |-> "idle"]
  /\ seen = [w \in Wizards |-> None]
  /\ first = [w \in Wizards |-> None]
  /\ persisted = [w \in Wizards |-> None]
  /\ sent = {}
  /\ returned = [o \in Outputs |-> {}]
  /\ changes = 0
  /\ faults = 0

-------------------------------------------------------------------------------
\* Control.

Labels == {"idle", "trust", "scan", "create", "login", "tls", "first", "second", "request",
           "persist", "pin", "apply", "done"}

Goto(w, label) == pc' = [pc EXCEPT ![w] = label] /\ UNCHANGED lock

\* The lock goes with the process.
Exit(w, result) ==
  /\ pc' = [pc EXCEPT ![w] = result]
  /\ lock' = [lock EXCEPT ![Home[w]] = IF @ = w THEN None ELSE @]
  /\ seen' = [seen EXCEPT ![w] = None]
  /\ first' = [first EXCEPT ![w] = None]
  /\ persisted' = [persisted EXCEPT ![w] = None]

Stop(w) == Exit(w, "idle")
Running(w) == pc[w] \notin {"idle", "done"}

\* Mutant: the lock is not waited for.
StartUnlocked(w) ==
  /\ ~Running(w)
  /\ lock' = [lock EXCEPT ![Home[w]] = w]
  /\ pc' = [pc EXCEPT ![w] = "trust"]
  /\ UNCHANGED <<world, files, local, sent, returned, faults>>

Start(w) ==
  /\ ~Running(w)
  /\ lock[Home[w]] = None
  /\ lock' = [lock EXCEPT ![Home[w]] = w]
  /\ pc' = [pc EXCEPT ![w] = "trust"]
  /\ UNCHANGED <<world, files, local, sent, returned, faults>>

-------------------------------------------------------------------------------
\* The SSH key.

ReadTrust(w) ==
  /\ pc[w] = "trust"
  /\ seen' = [seen EXCEPT ![w] = trust]
  /\ Goto(w, IF trust = None THEN "scan" ELSE "login")
  /\ UNCHANGED <<world, files, first, persisted, sent, returned, faults>>

\* ssh-keyscan may miss some of the types; of the others the preferred is taken.
Scan(w) ==
  /\ pc[w] = "scan"
  /\ \E k \in keys : seen' = [seen EXCEPT ![w] = k]
  /\ Goto(w, "create")
  /\ UNCHANGED <<world, files, first, persisted, sent, returned, faults>>

\* Mutant: os.replace instead of os.link.
CreateTrustReplacing(w) ==
  /\ pc[w] = "create"
  /\ trust' = seen[w] /\ Goto(w, "login")
  /\ UNCHANGED <<world, pins, leafPins, local, sent, returned, faults>>

\* A link never replaces what another wizard has decided meanwhile.
CreateTrust(w) ==
  /\ pc[w] = "create"
  /\ IF trust = None THEN trust' = seen[w] /\ Goto(w, "login") /\ UNCHANGED local
                     ELSE Stop(w) /\ UNCHANGED trust
  /\ UNCHANGED <<world, pins, leafPins, sent, returned, faults>>

\* StrictHostKeyChecking with the trust file; the password follows only then.
Login(w) ==
  /\ pc[w] = "login"
  /\ IF trust \in keys
     THEN Goto(w, "tls") /\ sent' = sent \cup {trust} /\ UNCHANGED local
     ELSE Stop(w) /\ UNCHANGED sent
  /\ UNCHANGED <<world, files, returned, faults>>

-------------------------------------------------------------------------------
\* The TLS leaf.

\* A certificate that is verified publicly is not pinned, and a pin not read.
TlsPublic(w) ==
  /\ pc[w] = "tls"
  /\ IF public
     THEN Goto(w, "pin") /\ UNCHANGED persisted
     ELSE /\ persisted' = [persisted EXCEPT ![w] = leafPins[Home[w]]]
          /\ Goto(w, "first")
  /\ UNCHANGED <<world, files, seen, first, sent, returned, faults>>

FirstHandshake(w) ==
  /\ pc[w] = "first"
  /\ first' = [first EXCEPT ![w] = leaf]
  /\ Goto(w, "second")
  /\ UNCHANGED <<world, files, seen, persisted, sent, returned, faults>>

\* Both handshakes agree, and with an earlier pin.
SecondHandshake(w) ==
  /\ pc[w] = "second"
  /\ IF leaf = first[w] /\ persisted[w] \in {None, first[w]}
     THEN Goto(w, "request") /\ UNCHANGED local
     ELSE Stop(w)
  /\ UNCHANGED <<world, files, sent, returned, faults>>

\* The HTTPS request, under the candidate.
Request(w) ==
  /\ pc[w] = "request"
  /\ IF leaf = first[w] THEN Goto(w, "persist") /\ UNCHANGED local ELSE Stop(w)
  /\ UNCHANGED <<world, files, sent, returned, faults>>

Persist(w) ==
  /\ pc[w] = "persist"
  /\ leafPins' = [leafPins EXCEPT ![Home[w]] = IF persisted[w] = None THEN first[w] ELSE @]
  /\ returned' = [returned EXCEPT ![Home[w]] = @ \cup {first[w]}]
  /\ Goto(w, "pin")
  /\ UNCHANGED <<world, trust, pins, local, sent, faults>>

-------------------------------------------------------------------------------
\* The known_hosts of the output directory.

\* Mutant: a file that is there already is an error.
PinOutputAnew(w) ==
  /\ pc[w] = "pin"
  /\ IF pins[Home[w]] = None /\ trust = seen[w]
     THEN pins' = [pins EXCEPT ![Home[w]] = trust] /\ Goto(w, "apply") /\ UNCHANGED local
     ELSE Stop(w) /\ UNCHANGED pins
  /\ UNCHANGED <<world, trust, leafPins, sent, returned, faults>>

\* A pin that is there has to be the expected key, and so has the trust file
\* that a new one is copied from.
PinOutput(w) ==
  /\ pc[w] = "pin"
  /\ IF pins[Home[w]] = None /\ trust = seen[w]
     THEN pins' = [pins EXCEPT ![Home[w]] = trust] /\ Goto(w, "apply") /\ UNCHANGED local
     ELSE /\ IF pins[Home[w]] = seen[w] THEN Goto(w, "apply") /\ UNCHANGED local ELSE Stop(w)
          /\ UNCHANGED pins
  /\ UNCHANGED <<world, trust, leafPins, sent, returned, faults>>

Apply(w) ==
  /\ pc[w] = "apply"
  /\ IF pins[Home[w]] \in keys
     THEN Exit(w, "done") /\ sent' = sent \cup {pins[Home[w]]}
     ELSE Stop(w) /\ UNCHANGED sent
  /\ UNCHANGED <<world, files, returned, faults>>

-------------------------------------------------------------------------------
\* The world.

\* A timeout, a kill, a scan without any key; temporary files stay behind.
Fail(w) ==
  /\ Running(w)
  /\ faults < MaxFaults
  /\ faults' = faults + 1
  /\ Stop(w)
  /\ UNCHANGED <<world, files, sent, returned>>

\* The endpoint gets or loses keys, or somebody else answers in its place.
KeysChange ==
  /\ changes < MaxChanges
  /\ changes' = changes + 1
  /\ keys' \in SUBSET Keys \ {{}, keys}
  /\ UNCHANGED <<leaf, public, files, lock, pc, local, sent, returned, faults>>

LeafChanges ==
  /\ changes < MaxChanges
  /\ changes' = changes + 1
  /\ leaf' \in Leaves
  /\ public' \in BOOLEAN
  /\ <<leaf, public>> # <<leaf', public'>>
  /\ UNCHANGED <<keys, files, lock, pc, local, sent, returned, faults>>

Step(w) ==
  \/ ReadTrust(w) \/ Scan(w) \/ CreateTrust(w) \/ Login(w)
  \/ TlsPublic(w) \/ FirstHandshake(w) \/ SecondHandshake(w) \/ Request(w) \/ Persist(w)
  \/ PinOutput(w) \/ Apply(w)

Next ==
  \/ \E w \in Wizards : Start(w) \/ Step(w) \/ Fail(w)
  \/ KeysChange \/ LeafChanges

Spec == Init /\ [][Next]_vars

\* Every wizard is a process of its own, and is started again.
FairSpec ==
  Spec /\ \A w \in Wizards : WF_vars(Step(w)) /\ SF_vars(Start(w))

-------------------------------------------------------------------------------
\* Properties.

\* Types; and a wizard that runs holds its lock.
TypeOK ==
  /\ keys \in SUBSET Keys
  /\ leaf \in Leaves
  /\ public \in BOOLEAN
  /\ trust \in Keys \cup {None}
  /\ pins \in [Outputs -> Keys \cup {None}]
  /\ leafPins \in [Outputs -> Leaves \cup {None}]
  /\ lock \in [Outputs -> Wizards \cup {None}]
  /\ pc \in [Wizards -> Labels]
  /\ seen \in [Wizards -> Keys \cup {None}]
  /\ first \in [Wizards -> Leaves \cup {None}]
  /\ persisted \in [Wizards -> Leaves \cup {None}]
  /\ sent \subseteq Keys
  /\ returned \in [Outputs -> SUBSET Leaves]
  /\ changes \in 0..MaxChanges
  /\ faults \in 0..MaxFaults
  /\ \A w \in Wizards : Running(w) => lock[Home[w]] = w

\* Whatever keys the endpoint presents, to whom, and in which order concurrent
\* wizards see them, passwords are sent under one key only, and every
\* known_hosts has that key.
OneKey ==
  /\ sent \subseteq {trust}
  /\ \A o \in Outputs : pins[o] \in {None, trust}

\* The profiles of an output directory never pin two leaves, and none that the
\* next run would not insist on.
OneLeaf == \A o \in Outputs : returned[o] \subseteq {leafPins[o]}

\* A change that the user has to confirm by removing a pin.
Changed(w) ==
  \/ trust # None /\ trust \notin keys
  \/ ~public /\ leafPins[Home[w]] \notin {None, leaf}

\* Nothing but such a change is refused for ever: not what a collision with
\* another wizard, a kill or a failed connection leaves behind.
Recovers == \A w \in Wizards : <>[]Changed(w) \/ []<>(pc[w] = "done")
===============================================================================
