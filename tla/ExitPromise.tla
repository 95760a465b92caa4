----------------------------- MODULE ExitPromise ------------------------------
(***************************************************************************)
(* What one call of apply_exit (xhttp_setup/exit_installer.py) promises    *)
(* about the exit host, as if it ended in one step: what was asked for is  *)
(* installed and serves, or nothing has changed, or the call says that it  *)
(* does not know.  The detailed module ExitInstaller implements this       *)
(* specification.                                                          *)
(***************************************************************************)

CONSTANTS
  Requests,         \* what a call may be asked to install
  Keys,             \* key pairs of `xray vlessenc`
  File,             \* the managed files
  Content(_, _, _), \* what a file holds for a request and a key pair
  KeyOf(_),         \* the key pair in a secrets file
  Absent            \* a missing file, and no process

VARIABLES
  files,   \* the managed files
  enabled, \* the service starts at boot
  runs,    \* the configuration the service has loaded
  doubt,   \* the service may run something else than the files say
  asked,   \* the request of the last call
  outcome, \* "running", or how the last call ended
  flapped  \* the service failed or came back while the last call ran

vars == <<files, enabled, runs, doubt, asked, outcome, flapped>>

Init ==
  /\ runs \in {Absent, files["config"]}
  /\ doubt = FALSE
  /\ asked \in Requests
  /\ outcome = "none"
  /\ flapped = FALSE

Call ==
  /\ outcome # "running"
  /\ outcome' = "running"
  /\ asked' \in Requests
  /\ flapped' = FALSE
  /\ UNCHANGED <<files, enabled, runs, doubt>>

\* What becomes of the service while a call runs is seen when the call ends.
Flap ==
  /\ outcome = "running"
  /\ flapped' = TRUE
  /\ UNCHANGED <<files, enabled, runs, doubt, asked, outcome>>

End(result) ==
  /\ outcome = "running"
  /\ outcome' = result
  /\ UNCHANGED <<asked, flapped>>

\* Existing credentials are never rotated.
UsableKeys == IF files["secrets"] = Absent THEN Keys ELSE {KeyOf(files["secrets"])}

Owned(key) == [f \in File |-> Content(f, asked, key)]

\* A service that did not fail of itself runs what is installed.
Applied ==
  /\ End("applied")
  /\ \E k \in UsableKeys :
       /\ files["secrets"] \in {Absent, Content("secrets", asked, k)}
       /\ files' = Owned(k)
  /\ enabled' = TRUE
  /\ doubt' \in {FALSE, doubt \/ flapped}
  /\ runs' \in {runs, files["config"], files'["config"], Absent}
  /\ ~doubt' => runs' = files'["config"]

\* A service that ran its configuration goes on running it, and one that did
\* not run still does not.
Unchanged ==
  /\ End("unchanged")
  /\ UNCHANGED <<files, enabled>>
  /\ doubt' \in {FALSE, doubt \/ flapped}
  /\ ~doubt' => runs' \in {Absent, files["config"]}
  /\ runs' \in {runs, files["config"], Absent}
               \cup (IF flapped THEN {Content("config", asked, k) : k \in UsableKeys} ELSE {})
  /\ ~doubt /\ ~flapped => runs' = runs

\* A killed installer or a failed rollback: each file is old or new.
Broken ==
  /\ \E result \in {"incomplete", "cut"} : End(result)
  /\ \E k \in UsableKeys, written \in SUBSET File :
       files' = [f \in File |-> IF f \in written THEN Content(f, asked, k) ELSE files[f]]
  /\ enabled' \in BOOLEAN
  /\ doubt' \in BOOLEAN
  /\ runs' \in {runs, files["config"], Absent} \cup {Content("config", asked, k) : k \in UsableKeys}
  /\ ~doubt' => runs' \in {Absent, files'["config"]}

\* systemd restarts a failed process, or gives up; so does a reboot.
Service ==
  /\ outcome # "running"
  /\ runs' \in {Absent, files["config"]}
  /\ doubt' \in {doubt, FALSE}
  /\ UNCHANGED <<files, enabled, asked, outcome, flapped>>

Next == Call \/ Flap \/ Applied \/ Unchanged \/ Broken \/ Service

Spec == Init /\ [][Next]_vars
===============================================================================
