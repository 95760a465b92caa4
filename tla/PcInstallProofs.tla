---------------------------- MODULE PcInstallProofs ----------------------------
(***************************************************************************)
(* What holds of PcInstall for any number of runs, kills, failed steps and *)
(* changes outside.  The markers are written before what they announce, so *)
(* that each label of a run knows its phase; what a run has decided about  *)
(* the exit then agrees with what is on disk until the decision is carried *)
(* out, and the site and the profile are what the phase says of them.      *)
(***************************************************************************)
EXTENDS PcInstall, TLAPS

Fronting ==
  {"enter", "withhold", "switch", "e2e", "issue", "committed", "rollback", "record", "unmarkFront"}

\* Each part of a run has its phase.
PhaseKnown ==
  /\ pc \in {"checks", "inspect", "mark"} => phase \notin FrontPhases
  /\ pc \in {"wave", "observe", "restore", "unmark"} => phase = "front_probe_in_progress"
  /\ pc \in {"prepare", "confirm", "pend", "applying"} => phase = "preparing"
  /\ pc \in {"guard", "install", "handoff", "plan"} => phase = "exit_applying"
  /\ pc = "ready" => phase \in {"preparing", "exit_applying"}
  /\ pc \in {"clear", "markFront"} => phase = "exit_ready"
  /\ pc \in Fronting => phase = "front_in_progress"

\* A probe that has been observed has a sample of the egress.
SampleKnown ==
  /\ pc \in {"restore", "unmark"} /\ probe = "egress" /\ ~failing => sample # None
  /\ pc = "confirm" => sample # None

\* The installation that the run goes on with, and what is on disk of it.
WantKnown ==
  /\ pc \in {"mark", "wave", "observe", "restore", "unmark", "prepare", "confirm"} =>
       /\ found = "resume" => want # None /\ exit = want /\ handoff = want /\ plan = want
       /\ found = "pending" => want # None /\ pending = want /\ ~Complete
       /\ found = "fresh" => pending = None /\ handoff = None /\ plan = None
  /\ pc = "pend" =>
       /\ want # None /\ ~Complete
       /\ pending # want => handoff = None /\ plan = None
  /\ pc \in {"applying", "guard", "install"} => want # None /\ pending = want /\ ~Complete
  /\ pc \in {"handoff", "plan"} => want # None /\ pending = want /\ exit = want
  /\ pc = "plan" => handoff = want
  /\ pc \in Fronting \cup {"ready", "clear", "markFront"} =>
       want # None /\ exit = want /\ handoff = want /\ plan = want
  /\ pc \in Fronting \cup {"markFront"} => pending = None

Sound(r, v) == r = Original \/ (r \in Intent /\ v)

\* The site, and what its rollback will restore.
SiteKnown ==
  /\ Sound(backup.route, backup.verified)
  /\ phase \notin FrontPhases \/ pc \in {"wave", "unmark", "enter", "withhold", "switch", "committed"} =>
       Sound(route, verified)
  /\ pc \in {"record", "unmarkFront"} => Sound(route, verified) \/ refusal = "rollback incomplete"
  /\ pc \in {"e2e", "issue", "committed"} => route = want
  /\ pc \in {"issue", "committed"} => verified /\ guarded

Leads(r, v) == link # None /\ ~linkLeft => r = link /\ v /\ exit = link

\* The profile, and where it leads.
LinkKnown ==
  /\ phase \notin FrontPhases \/ pc \in {"wave", "unmark", "enter", "withhold", "unmarkFront"} =>
       Leads(route, verified)
  /\ pc \in {"observe", "restore"} => Leads(backup.route, backup.verified)
  /\ pc \in {"switch", "e2e", "issue"} => link = None /\ ~linkLeft
  /\ pc = "committed" => link = want /\ ~linkLeft

Inv ==
  /\ TypeOK /\ PhaseKnown /\ SampleKnown /\ WantKnown /\ SiteKnown /\ LinkKnown
  /\ IntentKept /\ CompleteIsWhole

-------------------------------------------------------------------------------
\* Before the first run nothing is installed and nothing announced.
LEMMA InvInit ==
  ASSUME Init
  PROVE  Inv
<1> USE PcInstallAssumption DEF Init
<1>1. TypeOK
  <2>1. /\ serving \in BOOLEAN /\ guarded \in BOOLEAN /\ verified \in BOOLEAN
        /\ linkLeft \in BOOLEAN /\ failing \in BOOLEAN /\ own \in BOOLEAN
    OBVIOUS
  <2>2. backup \in [route : Routes, verified : BOOLEAN] /\ route \in Routes
    BY DEF Routes
  <2>3. dirs \in [{"probe", "front"} -> {"none", "bare", "marked"}]
    OBVIOUS
  <2>4. probe \in DOMAIN Waves /\ wave \in 1..Waves[probe]
    BY DEF Waves
  <2>5. first \in Optional(Phases) \ FrontPhases /\ faults \in 0..MaxFaults
    BY DEF Optional, Phases, FrontPhases
  <2> QED
    BY <2>1, <2>2, <2>3, <2>4, <2>5 DEF TypeOK, Optional
<1> QED
  BY <1>1 DEF Inv, PhaseKnown, SampleKnown, WantKnown, Fronting, SiteKnown, Sound, LinkKnown,
              Leads, IntentKept, CompleteIsWhole, Phases, ExitPhases

\* A stuttering step changes nothing that the invariant mentions.
LEMMA InvStutter ==
  ASSUME Inv, UNCHANGED vars
  PROVE  Inv'
<1> USE DEF vars, local, host, site, profile, run
<1>1. TypeOK'
  BY DEF Inv, TypeOK
<1>2. PhaseKnown' /\ SampleKnown' /\ WantKnown'
  BY DEF Inv, PhaseKnown, SampleKnown, WantKnown, Complete
<1>3. SiteKnown' /\ LinkKnown'
  BY DEF Inv, SiteKnown, Sound, LinkKnown, Leads
<1> QED
  BY <1>1, <1>2, <1>3 DEF Inv, IntentKept, CompleteIsWhole

\* The bound of the faults.
LEMMA ChargeTyped ==
  ASSUME TypeOK, Charge
  PROVE  faults' \in 0..MaxFaults
BY PcInstallAssumption DEF TypeOK, Charge

\* The beginning of a run.
LEMMA InvBegin ==
  ASSUME Inv,
         Start \/ StopForAudit \/ Check \/ Inspect
  PROVE  Inv'
<1> USE PcInstallAssumption
<1> USE DEF Inv, Goto, Optional, Routes, Fronting, FrontPhases, ExitPhases, Phases, Complete,
            Sound, Leads, local, host, site, profile, run
<1>1. CASE Start
  <2>1. TypeOK'
    <3>1. /\ phase' \in Phases \cup {None} /\ pending' \in Intent \cup {None}
          /\ handoff' \in Intent \cup {None} /\ plan' \in Intent \cup {None}
          /\ link' \in Intent \cup {None} /\ exit' \in Intent \cup {None}
          /\ want' \in Intent \cup {None}
      BY <1>1 DEF Start, TypeOK, SampleKnown, WantKnown
    <3>2. serving' \in BOOLEAN /\ guarded' \in BOOLEAN /\ verified' \in BOOLEAN
      BY <1>1 DEF Start, TypeOK
    <3>3. linkLeft' \in BOOLEAN /\ failing' \in BOOLEAN /\ own' \in BOOLEAN
      BY <1>1 DEF Start, TypeOK
    <3>4. dirs' \in [{"probe", "front"} -> {"none", "bare", "marked"}]
      BY <1>1 DEF Start, TypeOK
    <3>5. route' \in Routes /\ egress' \in Egresses
      BY <1>1 DEF Start, TypeOK, WantKnown
    <3>6. backup' \in [route : Routes, verified : BOOLEAN]
      BY <1>1 DEF Start, TypeOK
    <3>7. /\ first' \in (Phases \cup {None}) \ FrontPhases
          /\ found' \in {"fresh", "pending", "resume"}
          /\ sample' \in Egresses \cup {None}
      BY <1>1 DEF Start, TypeOK
    <3>8. probe' \in DOMAIN Waves /\ wave' \in 1..Waves[probe']
      BY <1>1 DEF Start, TypeOK, Waves
    <3>9. faults' \in 0..MaxFaults
      BY <1>1 DEF Start, TypeOK
    <3>10. pc' \in {"guard", "install", "handoff", "plan"} =>
             pending' = want' /\ phase' = "exit_applying"
      BY <1>1 DEF Start, TypeOK, WantKnown
    <3> QED
      BY <3>1, <3>2, <3>3, <3>4, <3>5, <3>6, <3>7, <3>8, <3>9, <3>10 DEF TypeOK
  <2>2. PhaseKnown'
    BY <1>1 DEF Start, TypeOK, PhaseKnown
  <2>3. SampleKnown'
    BY <1>1 DEF Start, TypeOK, SampleKnown
  <2>4. WantKnown'
    BY <1>1 DEF Start, TypeOK, WantKnown, IntentKept
  <2>5. SiteKnown'
    BY <1>1 DEF Start, TypeOK, PhaseKnown, SiteKnown, WantKnown
  <2>6. LinkKnown'
    BY <1>1 DEF Start, TypeOK, PhaseKnown, SiteKnown, LinkKnown, WantKnown, IntentKept
  <2>7. IntentKept'
    BY <1>1 DEF Start, TypeOK, WantKnown, IntentKept
  <2>8. CompleteIsWhole'
    BY <1>1 DEF Start, TypeOK, PhaseKnown, WantKnown, SiteKnown, LinkKnown, CompleteIsWhole
  <2> QED
    BY <2>1, <2>2, <2>3, <2>4, <2>5, <2>6, <2>7, <2>8
<1>2. CASE StopForAudit
  <2>1. TypeOK'
    BY <1>2 DEF StopForAudit, Raise, TypeOK, SampleKnown, WantKnown
  <2>2. PhaseKnown'
    BY <1>2 DEF StopForAudit, Raise, TypeOK, PhaseKnown
  <2>3. SampleKnown'
    BY <1>2 DEF StopForAudit, Raise, TypeOK, SampleKnown
  <2>4. WantKnown'
    BY <1>2 DEF StopForAudit, Raise, TypeOK, WantKnown, IntentKept
  <2>5. SiteKnown'
    BY <1>2 DEF StopForAudit, Raise, TypeOK, PhaseKnown, SiteKnown, WantKnown
  <2>6. LinkKnown'
    BY <1>2 DEF StopForAudit, Raise, TypeOK, PhaseKnown, SiteKnown, LinkKnown, WantKnown, IntentKept
  <2>7. IntentKept'
    BY <1>2 DEF StopForAudit, Raise, TypeOK, WantKnown, IntentKept
  <2>8. CompleteIsWhole'
    BY <1>2 DEF StopForAudit, Raise, TypeOK, PhaseKnown, WantKnown, SiteKnown, LinkKnown, CompleteIsWhole
  <2> QED
    BY <2>1, <2>2, <2>3, <2>4, <2>5, <2>6, <2>7, <2>8
<1>3. CASE Check
  <2>1. TypeOK'
    BY <1>3 DEF Check, TypeOK, SampleKnown, WantKnown
  <2>2. PhaseKnown'
    BY <1>3 DEF Check, TypeOK, PhaseKnown
  <2>3. SampleKnown'
    BY <1>3 DEF Check, TypeOK, SampleKnown
  <2>4. WantKnown'
    BY <1>3 DEF Check, TypeOK, WantKnown, IntentKept
  <2>5. SiteKnown'
    BY <1>3 DEF Check, TypeOK, PhaseKnown, SiteKnown, WantKnown
  <2>6. LinkKnown'
    BY <1>3 DEF Check, TypeOK, PhaseKnown, SiteKnown, LinkKnown, WantKnown, IntentKept
  <2>7. IntentKept'
    BY <1>3 DEF Check, TypeOK, WantKnown, IntentKept
  <2>8. CompleteIsWhole'
    BY <1>3 DEF Check, TypeOK, PhaseKnown, WantKnown, SiteKnown, LinkKnown, CompleteIsWhole
  <2> QED
    BY <2>1, <2>2, <2>3, <2>4, <2>5, <2>6, <2>7, <2>8
<1>4. CASE Inspect
  <2>1. TypeOK'
    <3>1. /\ phase' \in Phases \cup {None} /\ pending' \in Intent \cup {None}
          /\ handoff' \in Intent \cup {None} /\ plan' \in Intent \cup {None}
          /\ link' \in Intent \cup {None} /\ exit' \in Intent \cup {None}
          /\ want' \in Intent \cup {None}
      BY <1>4 DEF Inspect, Complete, Partial, PartialFits, ResumeFits, Found, Raise, TypeOK, SampleKnown, WantKnown
    <3>2. serving' \in BOOLEAN /\ guarded' \in BOOLEAN /\ verified' \in BOOLEAN
      BY <1>4 DEF Inspect, Complete, Partial, PartialFits, ResumeFits, Found, Raise, TypeOK
    <3>3. linkLeft' \in BOOLEAN /\ failing' \in BOOLEAN /\ own' \in BOOLEAN
      BY <1>4 DEF Inspect, Complete, Partial, PartialFits, ResumeFits, Found, Raise, TypeOK
    <3>4. dirs' \in [{"probe", "front"} -> {"none", "bare", "marked"}]
      BY <1>4 DEF Inspect, Complete, Partial, PartialFits, ResumeFits, Found, Raise, TypeOK
    <3>5. route' \in Routes /\ egress' \in Egresses
      BY <1>4 DEF Inspect, Complete, Partial, PartialFits, ResumeFits, Found, Raise, TypeOK, WantKnown
    <3>6. backup' \in [route : Routes, verified : BOOLEAN]
      BY <1>4 DEF Inspect, Complete, Partial, PartialFits, ResumeFits, Found, Raise, TypeOK
    <3>7. /\ first' \in (Phases \cup {None}) \ FrontPhases
          /\ found' \in {"fresh", "pending", "resume"}
          /\ sample' \in Egresses \cup {None}
      BY <1>4 DEF Inspect, Complete, Partial, PartialFits, ResumeFits, Found, Raise, TypeOK
    <3>8. probe' \in DOMAIN Waves /\ wave' \in 1..Waves[probe']
      BY <1>4 DEF Inspect, Complete, Partial, PartialFits, ResumeFits, Found, Raise, TypeOK, Waves
    <3>9. faults' \in 0..MaxFaults
      BY <1>4 DEF Inspect, Complete, Partial, PartialFits, ResumeFits, Found, Raise, TypeOK
    <3>10. pc' \in {"guard", "install", "handoff", "plan"} =>
             pending' = want' /\ phase' = "exit_applying"
      BY <1>4 DEF Inspect, Complete, Partial, PartialFits, ResumeFits, Found, Raise, TypeOK, WantKnown
    <3> QED
      BY <3>1, <3>2, <3>3, <3>4, <3>5, <3>6, <3>7, <3>8, <3>9, <3>10 DEF TypeOK
  <2>2. PhaseKnown'
    BY <1>4 DEF Inspect, Complete, Partial, PartialFits, ResumeFits, Found, Raise, TypeOK, PhaseKnown
  <2>3. SampleKnown'
    BY <1>4 DEF Inspect, Complete, Partial, PartialFits, ResumeFits, Found, Raise, TypeOK, SampleKnown
  <2>4. WantKnown'
    BY <1>4 DEF Inspect, Complete, Partial, PartialFits, ResumeFits, Found, Raise, TypeOK, WantKnown, IntentKept
  <2>5. SiteKnown'
    BY <1>4 DEF Inspect, Complete, Partial, PartialFits, ResumeFits, Found, Raise, TypeOK, PhaseKnown, SiteKnown, WantKnown
  <2>6. LinkKnown'
    BY <1>4 DEF Inspect, Complete, Partial, PartialFits, ResumeFits, Found, Raise, TypeOK, PhaseKnown, SiteKnown, LinkKnown, WantKnown, IntentKept
  <2>7. IntentKept'
    BY <1>4 DEF Inspect, Complete, Partial, PartialFits, ResumeFits, Found, Raise, TypeOK, WantKnown, IntentKept
  <2>8. CompleteIsWhole'
    BY <1>4 DEF Inspect, Complete, Partial, PartialFits, ResumeFits, Found, Raise, TypeOK, PhaseKnown, WantKnown, SiteKnown, LinkKnown, CompleteIsWhole
  <2> QED
    BY <2>1, <2>2, <2>3, <2>4, <2>5, <2>6, <2>7, <2>8
<1> QED
  BY <1>1, <1>2, <1>3, <1>4

\* The probes.
LEMMA InvProbe ==
  ASSUME Inv,
                  MarkProbe \/ InstallTemporary \/ Observe \/ RestoreRoute \/ UnmarkProbe \/
         RestoreIncomplete \/ ProbeFails \/ Prepare
  PROVE  Inv'
<1> USE PcInstallAssumption
<1> USE DEF Inv, Goto, Optional, Routes, Fronting, FrontPhases, ExitPhases, Phases, Complete,
            Sound, Leads, local, host, site, profile, run
<1>1. CASE MarkProbe
  <2>1. TypeOK'
    BY <1>1 DEF MarkProbe, WritePhase, TypeOK, SampleKnown, WantKnown
  <2>2. PhaseKnown'
    BY <1>1 DEF MarkProbe, WritePhase, TypeOK, PhaseKnown
  <2>3. SampleKnown'
    BY <1>1 DEF MarkProbe, WritePhase, TypeOK, SampleKnown
  <2>4. WantKnown'
    BY <1>1 DEF MarkProbe, WritePhase, TypeOK, WantKnown, IntentKept
  <2>5. SiteKnown'
    BY <1>1 DEF MarkProbe, WritePhase, TypeOK, PhaseKnown, SiteKnown, WantKnown
  <2>6. LinkKnown'
    BY <1>1 DEF MarkProbe, WritePhase, TypeOK, PhaseKnown, SiteKnown, LinkKnown, WantKnown, IntentKept
  <2>7. IntentKept'
    BY <1>1 DEF MarkProbe, WritePhase, TypeOK, WantKnown, IntentKept
  <2>8. CompleteIsWhole'
    BY <1>1 DEF MarkProbe, WritePhase, TypeOK, PhaseKnown, WantKnown, SiteKnown, LinkKnown, CompleteIsWhole
  <2> QED
    BY <2>1, <2>2, <2>3, <2>4, <2>5, <2>6, <2>7, <2>8
<1>2. CASE InstallTemporary
  <2> DEFINE Kept == UNCHANGED site /\ pc' = "unmark"
             Saved == /\ backup' = [route |-> route, verified |-> verified]
                      /\ pc' = "observe"
  <2>0. pc = "wave" /\ (Kept \/ Saved) /\ UNCHANGED <<phase, link, linkLeft, exit>>
    BY <1>2 DEF InstallTemporary
  <2>1. TypeOK'
    <3>1. /\ phase' \in Phases \cup {None} /\ pending' \in Intent \cup {None}
          /\ handoff' \in Intent \cup {None} /\ plan' \in Intent \cup {None}
          /\ link' \in Intent \cup {None} /\ exit' \in Intent \cup {None}
          /\ want' \in Intent \cup {None}
      BY <1>2 DEF InstallTemporary, Fails, TypeOK, SampleKnown, WantKnown
    <3>2. serving' \in BOOLEAN /\ guarded' \in BOOLEAN /\ verified' \in BOOLEAN
      BY <1>2 DEF InstallTemporary, Fails, TypeOK
    <3>3. linkLeft' \in BOOLEAN /\ failing' \in BOOLEAN /\ own' \in BOOLEAN
      BY <1>2 DEF InstallTemporary, Fails, TypeOK
    <3>4. dirs' \in [{"probe", "front"} -> {"none", "bare", "marked"}]
      BY <1>2 DEF InstallTemporary, Fails, TypeOK
    <3>5. route' \in Routes /\ egress' \in Egresses
      BY <1>2 DEF InstallTemporary, Fails, TypeOK, WantKnown
    <3>6. backup' \in [route : Routes, verified : BOOLEAN]
      BY <2>0 DEF TypeOK
    <3>7. /\ first' \in (Phases \cup {None}) \ FrontPhases
          /\ found' \in {"fresh", "pending", "resume"}
          /\ sample' \in Egresses \cup {None}
      BY <1>2 DEF InstallTemporary, Fails, TypeOK
    <3>8. probe' \in DOMAIN Waves /\ wave' \in 1..Waves[probe']
      BY <1>2 DEF InstallTemporary, Fails, TypeOK, Waves
    <3>9. faults' \in 0..MaxFaults
      BY <1>2 DEF InstallTemporary, Fails, TypeOK
    <3>10. pc' \in {"guard", "install", "handoff", "plan"} =>
             pending' = want' /\ phase' = "exit_applying"
      BY <1>2 DEF InstallTemporary, Fails, TypeOK, WantKnown
    <3> QED
      BY <3>1, <3>2, <3>3, <3>4, <3>5, <3>6, <3>7, <3>8, <3>9, <3>10 DEF TypeOK
  <2>2. PhaseKnown'
    BY <1>2 DEF InstallTemporary, Fails, TypeOK, PhaseKnown
  <2>3. SampleKnown'
    BY <1>2 DEF InstallTemporary, Fails, TypeOK, SampleKnown
  <2>4. WantKnown'
    BY <1>2 DEF InstallTemporary, Fails, TypeOK, WantKnown, IntentKept
  <2>5. SiteKnown'
    <3>1. phase' = "front_probe_in_progress"
      BY <2>0 DEF PhaseKnown
    <3>2. Sound(backup'.route, backup'.verified)
      BY <2>0 DEF SiteKnown
    <3> QED
      BY <2>0, <3>1, <3>2 DEF SiteKnown
  <2>6. LinkKnown'
    <3>1. phase' = "front_probe_in_progress"
      BY <2>0 DEF PhaseKnown
    <3> QED
      BY <2>0, <3>1 DEF LinkKnown
  <2>7. IntentKept'
    BY <1>2 DEF InstallTemporary, Fails, TypeOK, WantKnown, IntentKept
  <2>8. CompleteIsWhole'
    BY <1>2 DEF InstallTemporary, Fails, TypeOK, PhaseKnown, WantKnown, SiteKnown, LinkKnown, CompleteIsWhole
  <2> QED
    BY <2>1, <2>2, <2>3, <2>4, <2>5, <2>6, <2>7, <2>8
<1>3. CASE Observe
  <2>1. TypeOK'
    <3>1. /\ phase' \in Phases \cup {None} /\ pending' \in Intent \cup {None}
          /\ handoff' \in Intent \cup {None} /\ plan' \in Intent \cup {None}
          /\ link' \in Intent \cup {None} /\ exit' \in Intent \cup {None}
          /\ want' \in Intent \cup {None}
      BY <1>3 DEF Observe, Fails, TypeOK, SampleKnown, WantKnown
    <3>2. serving' \in BOOLEAN /\ guarded' \in BOOLEAN /\ verified' \in BOOLEAN
      BY <1>3 DEF Observe, Fails, TypeOK
    <3>3. linkLeft' \in BOOLEAN /\ failing' \in BOOLEAN /\ own' \in BOOLEAN
      BY <1>3 DEF Observe, Fails, TypeOK
    <3>4. dirs' \in [{"probe", "front"} -> {"none", "bare", "marked"}]
      BY <1>3 DEF Observe, Fails, TypeOK
    <3>5. route' \in Routes /\ egress' \in Egresses
      BY <1>3 DEF Observe, Fails, TypeOK, WantKnown
    <3>6. backup' \in [route : Routes, verified : BOOLEAN]
      BY <1>3 DEF Observe, Fails, TypeOK
    <3>7. /\ first' \in (Phases \cup {None}) \ FrontPhases
          /\ found' \in {"fresh", "pending", "resume"}
          /\ sample' \in Egresses \cup {None}
      BY <1>3 DEF Observe, Fails, TypeOK
    <3>8. probe' \in DOMAIN Waves /\ wave' \in 1..Waves[probe']
      BY <1>3 DEF Observe, Fails, TypeOK, Waves
    <3>9. faults' \in 0..MaxFaults
      BY <1>3 DEF Observe, Fails, TypeOK
    <3>10. pc' \in {"guard", "install", "handoff", "plan"} =>
             pending' = want' /\ phase' = "exit_applying"
      BY <1>3 DEF Observe, Fails, TypeOK, WantKnown
    <3> QED
      BY <3>1, <3>2, <3>3, <3>4, <3>5, <3>6, <3>7, <3>8, <3>9, <3>10 DEF TypeOK
  <2>2. PhaseKnown'
    BY <1>3 DEF Observe, Fails, TypeOK, PhaseKnown
  <2>3. SampleKnown'
    BY <1>3 DEF Observe, Fails, TypeOK, SampleKnown
  <2>4. WantKnown'
    BY <1>3 DEF Observe, Fails, TypeOK, WantKnown, IntentKept
  <2>5. SiteKnown'
    BY <1>3 DEF Observe, Fails, TypeOK, PhaseKnown, SiteKnown, WantKnown
  <2>6. LinkKnown'
    BY <1>3 DEF Observe, Fails, TypeOK, PhaseKnown, SiteKnown, LinkKnown, WantKnown, IntentKept
  <2>7. IntentKept'
    BY <1>3 DEF Observe, Fails, TypeOK, WantKnown, IntentKept
  <2>8. CompleteIsWhole'
    BY <1>3 DEF Observe, Fails, TypeOK, PhaseKnown, WantKnown, SiteKnown, LinkKnown, CompleteIsWhole
  <2> QED
    BY <2>1, <2>2, <2>3, <2>4, <2>5, <2>6, <2>7, <2>8
<1>4. CASE RestoreRoute
  <2>1. TypeOK'
    <3>1. /\ phase' \in Phases \cup {None} /\ pending' \in Intent \cup {None}
          /\ handoff' \in Intent \cup {None} /\ plan' \in Intent \cup {None}
          /\ link' \in Intent \cup {None} /\ exit' \in Intent \cup {None}
          /\ want' \in Intent \cup {None}
      BY <1>4 DEF RestoreRoute, Restored, Fails, Waves, TypeOK, SampleKnown, WantKnown
    <3>2. serving' \in BOOLEAN /\ guarded' \in BOOLEAN /\ verified' \in BOOLEAN
      BY <1>4 DEF RestoreRoute, Restored, Fails, Waves, TypeOK
    <3>3. linkLeft' \in BOOLEAN /\ failing' \in BOOLEAN /\ own' \in BOOLEAN
      BY <1>4 DEF RestoreRoute, Restored, Fails, Waves, TypeOK
    <3>4. dirs' \in [{"probe", "front"} -> {"none", "bare", "marked"}]
      BY <1>4 DEF RestoreRoute, Restored, Fails, Waves, TypeOK
    <3>5. route' \in Routes /\ egress' \in Egresses
      BY <1>4 DEF RestoreRoute, Restored, Fails, Waves, TypeOK, WantKnown
    <3>6. backup' \in [route : Routes, verified : BOOLEAN]
      BY <1>4 DEF RestoreRoute, Restored, Fails, Waves, TypeOK
    <3>7. /\ first' \in (Phases \cup {None}) \ FrontPhases
          /\ found' \in {"fresh", "pending", "resume"}
          /\ sample' \in Egresses \cup {None}
      BY <1>4 DEF RestoreRoute, Restored, Fails, Waves, TypeOK
    <3>8. probe' \in DOMAIN Waves /\ wave' \in 1..Waves[probe']
      BY <1>4 DEF RestoreRoute, Restored, Fails, Waves, TypeOK
    <3>9. faults' \in 0..MaxFaults
      BY <1>4 DEF RestoreRoute, Restored, Fails, Waves, TypeOK
    <3>10. pc' \in {"guard", "install", "handoff", "plan"} =>
             pending' = want' /\ phase' = "exit_applying"
      BY <1>4 DEF RestoreRoute, Restored, Fails, Waves, TypeOK, WantKnown
    <3> QED
      BY <3>1, <3>2, <3>3, <3>4, <3>5, <3>6, <3>7, <3>8, <3>9, <3>10 DEF TypeOK
  <2>2. PhaseKnown'
    BY <1>4 DEF RestoreRoute, Restored, Fails, Waves, TypeOK, PhaseKnown
  <2>3. SampleKnown'
    BY <1>4 DEF RestoreRoute, Restored, Fails, Waves, TypeOK, SampleKnown
  <2>4. WantKnown'
    BY <1>4 DEF RestoreRoute, Restored, Fails, Waves, TypeOK, WantKnown, IntentKept
  <2>5. SiteKnown'
    BY <1>4 DEF RestoreRoute, Restored, Fails, Waves, TypeOK, PhaseKnown, SiteKnown, WantKnown
  <2>6. LinkKnown'
    BY <1>4 DEF RestoreRoute, Restored, Fails, Waves, TypeOK, PhaseKnown, SiteKnown, LinkKnown, WantKnown, IntentKept
  <2>7. IntentKept'
    BY <1>4 DEF RestoreRoute, Restored, Fails, Waves, TypeOK, WantKnown, IntentKept
  <2>8. CompleteIsWhole'
    BY <1>4 DEF RestoreRoute, Restored, Fails, Waves, TypeOK, PhaseKnown, WantKnown, SiteKnown, LinkKnown, CompleteIsWhole
  <2> QED
    BY <2>1, <2>2, <2>3, <2>4, <2>5, <2>6, <2>7, <2>8
<1>5. CASE UnmarkProbe
  <2>1. TypeOK'
    <3>1. /\ phase' \in Phases \cup {None} /\ pending' \in Intent \cup {None}
          /\ handoff' \in Intent \cup {None} /\ plan' \in Intent \cup {None}
          /\ link' \in Intent \cup {None} /\ exit' \in Intent \cup {None}
          /\ want' \in Intent \cup {None}
      BY <1>5 DEF UnmarkProbe, WritePhase, Raise, EgressFits, Waves, TypeOK, SampleKnown, WantKnown
    <3>2. serving' \in BOOLEAN /\ guarded' \in BOOLEAN /\ verified' \in BOOLEAN
      BY <1>5 DEF UnmarkProbe, WritePhase, Raise, EgressFits, Waves, TypeOK
    <3>3. linkLeft' \in BOOLEAN /\ failing' \in BOOLEAN /\ own' \in BOOLEAN
      BY <1>5 DEF UnmarkProbe, WritePhase, Raise, EgressFits, Waves, TypeOK
    <3>4. dirs' \in [{"probe", "front"} -> {"none", "bare", "marked"}]
      BY <1>5 DEF UnmarkProbe, WritePhase, Raise, EgressFits, Waves, TypeOK
    <3>5. route' \in Routes /\ egress' \in Egresses
      BY <1>5 DEF UnmarkProbe, WritePhase, Raise, EgressFits, Waves, TypeOK, WantKnown
    <3>6. backup' \in [route : Routes, verified : BOOLEAN]
      BY <1>5 DEF UnmarkProbe, WritePhase, Raise, EgressFits, Waves, TypeOK
    <3>7. /\ first' \in (Phases \cup {None}) \ FrontPhases
          /\ found' \in {"fresh", "pending", "resume"}
          /\ sample' \in Egresses \cup {None}
      BY <1>5 DEF UnmarkProbe, WritePhase, Raise, EgressFits, Waves, TypeOK
    <3>8. probe' \in DOMAIN Waves /\ wave' \in 1..Waves[probe']
      <4>1. CASE probe' = "egress" /\ wave' = 1
        BY <4>1 DEF Waves
      <4>2. CASE UNCHANGED <<probe, wave>>
        BY <4>2 DEF TypeOK
      <4> QED
        BY <1>5, <4>1, <4>2 DEF UnmarkProbe, Raise
    <3>9. faults' \in 0..MaxFaults
      BY <1>5 DEF UnmarkProbe, WritePhase, Raise, EgressFits, Waves, TypeOK
    <3>10. pc' \in {"guard", "install", "handoff", "plan"} =>
             pending' = want' /\ phase' = "exit_applying"
      BY <1>5 DEF UnmarkProbe, WritePhase, Raise, EgressFits, Waves, TypeOK, WantKnown
    <3> QED
      BY <3>1, <3>2, <3>3, <3>4, <3>5, <3>6, <3>7, <3>8, <3>9, <3>10 DEF TypeOK
  <2>2. PhaseKnown'
    BY <1>5 DEF UnmarkProbe, WritePhase, Raise, EgressFits, Waves, TypeOK, PhaseKnown
  <2>3. SampleKnown'
    BY <1>5 DEF UnmarkProbe, WritePhase, Raise, EgressFits, Waves, TypeOK, SampleKnown
  <2>4. WantKnown'
    BY <1>5 DEF UnmarkProbe, WritePhase, Raise, EgressFits, Waves, TypeOK, WantKnown, IntentKept
  <2>5. SiteKnown'
    BY <1>5 DEF UnmarkProbe, WritePhase, Raise, EgressFits, Waves, TypeOK, PhaseKnown, SiteKnown, WantKnown
  <2>6. LinkKnown'
    BY <1>5 DEF UnmarkProbe, WritePhase, Raise, EgressFits, Waves, TypeOK, PhaseKnown, SiteKnown, LinkKnown, WantKnown, IntentKept
  <2>7. IntentKept'
    BY <1>5 DEF UnmarkProbe, WritePhase, Raise, EgressFits, Waves, TypeOK, WantKnown, IntentKept
  <2>8. CompleteIsWhole'
    BY <1>5 DEF UnmarkProbe, WritePhase, Raise, EgressFits, Waves, TypeOK, PhaseKnown, WantKnown, SiteKnown, LinkKnown, CompleteIsWhole
  <2> QED
    BY <2>1, <2>2, <2>3, <2>4, <2>5, <2>6, <2>7, <2>8
<1>6. CASE RestoreIncomplete
  <2>1. TypeOK'
    <3>1. /\ phase' \in Phases \cup {None} /\ pending' \in Intent \cup {None}
          /\ handoff' \in Intent \cup {None} /\ plan' \in Intent \cup {None}
          /\ link' \in Intent \cup {None} /\ exit' \in Intent \cup {None}
          /\ want' \in Intent \cup {None}
      BY <1>6 DEF RestoreIncomplete, Charge, Raise, TypeOK, SampleKnown, WantKnown
    <3>2. serving' \in BOOLEAN /\ guarded' \in BOOLEAN /\ verified' \in BOOLEAN
      BY <1>6 DEF RestoreIncomplete, Charge, Raise, TypeOK
    <3>3. linkLeft' \in BOOLEAN /\ failing' \in BOOLEAN /\ own' \in BOOLEAN
      BY <1>6 DEF RestoreIncomplete, Charge, Raise, TypeOK
    <3>4. dirs' \in [{"probe", "front"} -> {"none", "bare", "marked"}]
      BY <1>6 DEF RestoreIncomplete, Charge, Raise, TypeOK
    <3>5. route' \in Routes /\ egress' \in Egresses
      BY <1>6 DEF RestoreIncomplete, Charge, Raise, TypeOK, WantKnown
    <3>6. backup' \in [route : Routes, verified : BOOLEAN]
      BY <1>6 DEF RestoreIncomplete, Charge, Raise, TypeOK
    <3>7. /\ first' \in (Phases \cup {None}) \ FrontPhases
          /\ found' \in {"fresh", "pending", "resume"}
          /\ sample' \in Egresses \cup {None}
      BY <1>6 DEF RestoreIncomplete, Charge, Raise, TypeOK
    <3>8. probe' \in DOMAIN Waves /\ wave' \in 1..Waves[probe']
      BY <1>6 DEF RestoreIncomplete, Charge, Raise, TypeOK, Waves
    <3>9. faults' \in 0..MaxFaults
      BY <1>6, ChargeTyped DEF RestoreIncomplete
    <3>10. pc' \in {"guard", "install", "handoff", "plan"} =>
             pending' = want' /\ phase' = "exit_applying"
      BY <1>6 DEF RestoreIncomplete, Charge, Raise, TypeOK, WantKnown
    <3> QED
      BY <3>1, <3>2, <3>3, <3>4, <3>5, <3>6, <3>7, <3>8, <3>9, <3>10 DEF TypeOK
  <2>2. PhaseKnown'
    BY <1>6 DEF RestoreIncomplete, Charge, Raise, TypeOK, PhaseKnown
  <2>3. SampleKnown'
    BY <1>6 DEF RestoreIncomplete, Charge, Raise, TypeOK, SampleKnown
  <2>4. WantKnown'
    BY <1>6 DEF RestoreIncomplete, Charge, Raise, TypeOK, WantKnown, IntentKept
  <2>5. SiteKnown'
    BY <1>6 DEF RestoreIncomplete, Charge, Raise, TypeOK, PhaseKnown, SiteKnown, WantKnown
  <2>6. LinkKnown'
    BY <1>6 DEF RestoreIncomplete, Charge, Raise, TypeOK, PhaseKnown, SiteKnown, LinkKnown, WantKnown, IntentKept
  <2>7. IntentKept'
    BY <1>6 DEF RestoreIncomplete, Charge, Raise, TypeOK, WantKnown, IntentKept
  <2>8. CompleteIsWhole'
    BY <1>6 DEF RestoreIncomplete, Charge, Raise, TypeOK, PhaseKnown, WantKnown, SiteKnown, LinkKnown, CompleteIsWhole
  <2> QED
    BY <2>1, <2>2, <2>3, <2>4, <2>5, <2>6, <2>7, <2>8
<1>7. CASE ProbeFails
  <2>1. TypeOK'
    BY <1>7 DEF ProbeFails, Charge, Fails, TypeOK, SampleKnown, WantKnown
  <2>2. PhaseKnown'
    BY <1>7 DEF ProbeFails, Charge, Fails, TypeOK, PhaseKnown
  <2>3. SampleKnown'
    BY <1>7 DEF ProbeFails, Charge, Fails, TypeOK, SampleKnown
  <2>4. WantKnown'
    BY <1>7 DEF ProbeFails, Charge, Fails, TypeOK, WantKnown, IntentKept
  <2>5. SiteKnown'
    BY <1>7 DEF ProbeFails, Charge, Fails, TypeOK, PhaseKnown, SiteKnown, WantKnown
  <2>6. LinkKnown'
    BY <1>7 DEF ProbeFails, Charge, Fails, TypeOK, PhaseKnown, SiteKnown, LinkKnown, WantKnown, IntentKept
  <2>7. IntentKept'
    BY <1>7 DEF ProbeFails, Charge, Fails, TypeOK, WantKnown, IntentKept
  <2>8. CompleteIsWhole'
    BY <1>7 DEF ProbeFails, Charge, Fails, TypeOK, PhaseKnown, WantKnown, SiteKnown, LinkKnown, CompleteIsWhole
  <2> QED
    BY <2>1, <2>2, <2>3, <2>4, <2>5, <2>6, <2>7, <2>8
<1>8. CASE Prepare
  <2>1. TypeOK'
    BY <1>8 DEF Prepare, TypeOK, SampleKnown, WantKnown
  <2>2. PhaseKnown'
    BY <1>8 DEF Prepare, TypeOK, PhaseKnown
  <2>3. SampleKnown'
    BY <1>8 DEF Prepare, TypeOK, SampleKnown
  <2>4. WantKnown'
    BY <1>8 DEF Prepare, TypeOK, WantKnown, IntentKept
  <2>5. SiteKnown'
    BY <1>8 DEF Prepare, TypeOK, PhaseKnown, SiteKnown, WantKnown
  <2>6. LinkKnown'
    BY <1>8 DEF Prepare, TypeOK, PhaseKnown, SiteKnown, LinkKnown, WantKnown, IntentKept
  <2>7. IntentKept'
    BY <1>8 DEF Prepare, TypeOK, WantKnown, IntentKept
  <2>8. CompleteIsWhole'
    BY <1>8 DEF Prepare, TypeOK, PhaseKnown, WantKnown, SiteKnown, LinkKnown, CompleteIsWhole
  <2> QED
    BY <2>1, <2>2, <2>3, <2>4, <2>5, <2>6, <2>7, <2>8
<1> QED
  BY <1>1, <1>2, <1>3, <1>4, <1>5, <1>6, <1>7, <1>8

\* A pair and the sample make an installation.
LEMMA SampleTyped ==
  ASSUME NEW id \in Ids, TypeOK, SampleKnown, pc = "confirm"
  PROVE  [id |-> id, front |-> sample] \in Intent /\ [id |-> id, front |-> sample] # None
<1>1. [id |-> id, front |-> sample] \in Intent
  BY DEF TypeOK, SampleKnown, Optional, Intent
<1> QED
  BY <1>1, PcInstallAssumption

\* The exit.
LEMMA InvExit ==
  ASSUME Inv,
                  Confirm \/ WritePending \/ MarkApplying \/ GuardExit \/ InstallExit \/
         SaveHandoff \/ SavePlan \/ ApplyFails \/ MarkReady \/ ClearPending
  PROVE  Inv'
<1> USE PcInstallAssumption
<1> USE DEF Inv, Goto, Optional, Routes, Fronting, FrontPhases, ExitPhases, Phases, Complete,
            Sound, Leads, local, host, site, profile, run
<1>1. CASE Confirm
  <2>1. TypeOK'
    <3>1. /\ phase' \in Phases \cup {None} /\ pending' \in Intent \cup {None}
          /\ handoff' \in Intent \cup {None} /\ plan' \in Intent \cup {None}
          /\ link' \in Intent \cup {None} /\ exit' \in Intent \cup {None}
          /\ want' \in Intent \cup {None}
      BY <1>1 DEF Confirm, Intent, TypeOK, SampleKnown, WantKnown
    <3>2. serving' \in BOOLEAN /\ guarded' \in BOOLEAN /\ verified' \in BOOLEAN
      BY <1>1 DEF Confirm, Intent, TypeOK
    <3>3. linkLeft' \in BOOLEAN /\ failing' \in BOOLEAN /\ own' \in BOOLEAN
      BY <1>1 DEF Confirm, Intent, TypeOK
    <3>4. dirs' \in [{"probe", "front"} -> {"none", "bare", "marked"}]
      BY <1>1 DEF Confirm, Intent, TypeOK
    <3>5. route' \in Routes /\ egress' \in Egresses
      BY <1>1 DEF Confirm, Intent, TypeOK, WantKnown
    <3>6. backup' \in [route : Routes, verified : BOOLEAN]
      BY <1>1 DEF Confirm, Intent, TypeOK
    <3>7. /\ first' \in (Phases \cup {None}) \ FrontPhases
          /\ found' \in {"fresh", "pending", "resume"}
          /\ sample' \in Egresses \cup {None}
      BY <1>1 DEF Confirm, Intent, TypeOK
    <3>8. probe' \in DOMAIN Waves /\ wave' \in 1..Waves[probe']
      BY <1>1 DEF Confirm, Intent, TypeOK, Waves
    <3>9. faults' \in 0..MaxFaults
      BY <1>1 DEF Confirm, Intent, TypeOK
    <3>10. pc' \in {"guard", "install", "handoff", "plan"} =>
             pending' = want' /\ phase' = "exit_applying"
      BY <1>1 DEF Confirm, Intent, TypeOK, WantKnown
    <3> QED
      BY <3>1, <3>2, <3>3, <3>4, <3>5, <3>6, <3>7, <3>8, <3>9, <3>10 DEF TypeOK
  <2>2. PhaseKnown'
    BY <1>1 DEF Confirm, Intent, TypeOK, PhaseKnown
  <2>3. SampleKnown'
    BY <1>1 DEF Confirm, Intent, TypeOK, SampleKnown
  <2>4. WantKnown'
    <3>1. pc = "confirm" /\ UNCHANGED <<pending, handoff, plan, exit, found>>
      BY <1>1 DEF Confirm
    <3>2. CASE found = "fresh"
      <4>1. want' # None /\ pc' = "pend"
        BY <1>1, <3>2, SampleTyped DEF Confirm
      <4> QED
        BY <3>1, <3>2, <4>1 DEF WantKnown
    <3>3. CASE found # "fresh"
      <4>1. want' = want /\ pc' = IF found = "resume" THEN "ready" ELSE "pend"
        BY <1>1, <3>3 DEF Confirm
      <4> QED
        BY <3>1, <3>3, <4>1 DEF WantKnown, TypeOK
    <3> QED
      BY <3>2, <3>3
  <2>5. SiteKnown'
    BY <1>1 DEF Confirm, Intent, TypeOK, PhaseKnown, SiteKnown, WantKnown
  <2>6. LinkKnown'
    BY <1>1 DEF Confirm, Intent, TypeOK, PhaseKnown, SiteKnown, LinkKnown, WantKnown, IntentKept
  <2>7. IntentKept'
    BY <1>1 DEF Confirm, IntentKept
  <2>8. CompleteIsWhole'
    BY <1>1 DEF Confirm, Intent, TypeOK, PhaseKnown, WantKnown, SiteKnown, LinkKnown, CompleteIsWhole
  <2> QED
    BY <2>1, <2>2, <2>3, <2>4, <2>5, <2>6, <2>7, <2>8
<1>2. CASE WritePending
  <2>1. TypeOK'
    <3>1. /\ phase' \in Phases \cup {None} /\ pending' \in Intent \cup {None}
          /\ handoff' \in Intent \cup {None} /\ plan' \in Intent \cup {None}
          /\ link' \in Intent \cup {None} /\ exit' \in Intent \cup {None}
          /\ want' \in Intent \cup {None}
      BY <1>2 DEF WritePending, Raise, TypeOK, SampleKnown, WantKnown
    <3>2. serving' \in BOOLEAN /\ guarded' \in BOOLEAN /\ verified' \in BOOLEAN
      BY <1>2 DEF WritePending, Raise, TypeOK
    <3>3. linkLeft' \in BOOLEAN /\ failing' \in BOOLEAN /\ own' \in BOOLEAN
      BY <1>2 DEF WritePending, Raise, TypeOK
    <3>4. dirs' \in [{"probe", "front"} -> {"none", "bare", "marked"}]
      BY <1>2 DEF WritePending, Raise, TypeOK
    <3>5. route' \in Routes /\ egress' \in Egresses
      BY <1>2 DEF WritePending, Raise, TypeOK, WantKnown
    <3>6. backup' \in [route : Routes, verified : BOOLEAN]
      BY <1>2 DEF WritePending, Raise, TypeOK
    <3>7. /\ first' \in (Phases \cup {None}) \ FrontPhases
          /\ found' \in {"fresh", "pending", "resume"}
          /\ sample' \in Egresses \cup {None}
      BY <1>2 DEF WritePending, Raise, TypeOK
    <3>8. probe' \in DOMAIN Waves /\ wave' \in 1..Waves[probe']
      BY <1>2 DEF WritePending, Raise, TypeOK, Waves
    <3>9. faults' \in 0..MaxFaults
      BY <1>2 DEF WritePending, Raise, TypeOK
    <3>10. pc' \in {"guard", "install", "handoff", "plan"} =>
             pending' = want' /\ phase' = "exit_applying"
      BY <1>2 DEF WritePending, Raise, TypeOK, WantKnown
    <3> QED
      BY <3>1, <3>2, <3>3, <3>4, <3>5, <3>6, <3>7, <3>8, <3>9, <3>10 DEF TypeOK
  <2>2. PhaseKnown'
    BY <1>2 DEF WritePending, Raise, TypeOK, PhaseKnown
  <2>3. SampleKnown'
    BY <1>2 DEF WritePending, Raise, TypeOK, SampleKnown
  <2>4. WantKnown'
    BY <1>2 DEF WritePending, Raise, TypeOK, WantKnown, IntentKept
  <2>5. SiteKnown'
    BY <1>2 DEF WritePending, Raise, TypeOK, PhaseKnown, SiteKnown, WantKnown
  <2>6. LinkKnown'
    BY <1>2 DEF WritePending, Raise, TypeOK, PhaseKnown, SiteKnown, LinkKnown, WantKnown, IntentKept
  <2>7. IntentKept'
    BY <1>2 DEF WritePending, Raise, TypeOK, WantKnown, IntentKept
  <2>8. CompleteIsWhole'
    BY <1>2 DEF WritePending, Raise, TypeOK, PhaseKnown, WantKnown, SiteKnown, LinkKnown, CompleteIsWhole
  <2> QED
    BY <2>1, <2>2, <2>3, <2>4, <2>5, <2>6, <2>7, <2>8
<1>3. CASE MarkApplying
  <2>1. TypeOK'
    BY <1>3 DEF MarkApplying, WritePhase, TypeOK, SampleKnown, WantKnown
  <2>2. PhaseKnown'
    BY <1>3 DEF MarkApplying, WritePhase, TypeOK, PhaseKnown
  <2>3. SampleKnown'
    BY <1>3 DEF MarkApplying, WritePhase, TypeOK, SampleKnown
  <2>4. WantKnown'
    BY <1>3 DEF MarkApplying, WritePhase, TypeOK, WantKnown, IntentKept
  <2>5. SiteKnown'
    BY <1>3 DEF MarkApplying, WritePhase, TypeOK, PhaseKnown, SiteKnown, WantKnown
  <2>6. LinkKnown'
    BY <1>3 DEF MarkApplying, WritePhase, TypeOK, PhaseKnown, SiteKnown, LinkKnown, WantKnown, IntentKept
  <2>7. IntentKept'
    BY <1>3 DEF MarkApplying, WritePhase, TypeOK, WantKnown, IntentKept
  <2>8. CompleteIsWhole'
    BY <1>3 DEF MarkApplying, WritePhase, TypeOK, PhaseKnown, WantKnown, SiteKnown, LinkKnown, CompleteIsWhole
  <2> QED
    BY <2>1, <2>2, <2>3, <2>4, <2>5, <2>6, <2>7, <2>8
<1>4. CASE GuardExit
  <2>1. TypeOK'
    BY <1>4 DEF GuardExit, TypeOK, SampleKnown, WantKnown
  <2>2. PhaseKnown'
    BY <1>4 DEF GuardExit, TypeOK, PhaseKnown
  <2>3. SampleKnown'
    BY <1>4 DEF GuardExit, TypeOK, SampleKnown
  <2>4. WantKnown'
    BY <1>4 DEF GuardExit, TypeOK, WantKnown, IntentKept
  <2>5. SiteKnown'
    BY <1>4 DEF GuardExit, TypeOK, PhaseKnown, SiteKnown, WantKnown
  <2>6. LinkKnown'
    BY <1>4 DEF GuardExit, TypeOK, PhaseKnown, SiteKnown, LinkKnown, WantKnown, IntentKept
  <2>7. IntentKept'
    BY <1>4 DEF GuardExit, TypeOK, WantKnown, IntentKept
  <2>8. CompleteIsWhole'
    BY <1>4 DEF GuardExit, TypeOK, PhaseKnown, WantKnown, SiteKnown, LinkKnown, CompleteIsWhole
  <2> QED
    BY <2>1, <2>2, <2>3, <2>4, <2>5, <2>6, <2>7, <2>8
<1>5. CASE InstallExit
  <2>1. TypeOK'
    <3>1. /\ phase' \in Phases \cup {None} /\ pending' \in Intent \cup {None}
          /\ handoff' \in Intent \cup {None} /\ plan' \in Intent \cup {None}
          /\ link' \in Intent \cup {None} /\ exit' \in Intent \cup {None}
          /\ want' \in Intent \cup {None}
      BY <1>5 DEF InstallExit, Raise, TypeOK, SampleKnown, WantKnown
    <3>2. serving' \in BOOLEAN /\ guarded' \in BOOLEAN /\ verified' \in BOOLEAN
      <4>1. serving' \in BOOLEAN /\ verified' \in BOOLEAN
        BY <1>5 DEF InstallExit, Raise, TypeOK
      <4>2. UNCHANGED guarded \/ Undone
        BY <1>5 DEF InstallExit
      <4>3. guarded' \in BOOLEAN
        BY <4>2 DEF Undone, TypeOK
      <4> QED
        BY <4>1, <4>3
    <3>3. linkLeft' \in BOOLEAN /\ failing' \in BOOLEAN /\ own' \in BOOLEAN
      BY <1>5 DEF InstallExit, Raise, TypeOK
    <3>4. dirs' \in [{"probe", "front"} -> {"none", "bare", "marked"}]
      BY <1>5 DEF InstallExit, Raise, TypeOK
    <3>5. route' \in Routes /\ egress' \in Egresses
      BY <1>5 DEF InstallExit, Raise, TypeOK, WantKnown
    <3>6. backup' \in [route : Routes, verified : BOOLEAN]
      BY <1>5 DEF InstallExit, Raise, TypeOK
    <3>7. /\ first' \in (Phases \cup {None}) \ FrontPhases
          /\ found' \in {"fresh", "pending", "resume"}
          /\ sample' \in Egresses \cup {None}
      BY <1>5 DEF InstallExit, Raise, TypeOK
    <3>8. probe' \in DOMAIN Waves /\ wave' \in 1..Waves[probe']
      BY <1>5 DEF InstallExit, Raise, TypeOK, Waves
    <3>9. faults' \in 0..MaxFaults
      BY <1>5 DEF InstallExit, Raise, TypeOK
    <3>10. pc' \in {"guard", "install", "handoff", "plan"} =>
             pending' = want' /\ phase' = "exit_applying"
      BY <1>5 DEF InstallExit, Raise, TypeOK, WantKnown
    <3> QED
      BY <3>1, <3>2, <3>3, <3>4, <3>5, <3>6, <3>7, <3>8, <3>9, <3>10 DEF TypeOK
  <2>2. PhaseKnown'
    BY <1>5 DEF InstallExit, Raise, TypeOK, PhaseKnown
  <2>3. SampleKnown'
    BY <1>5 DEF InstallExit, Raise, TypeOK, SampleKnown
  <2>4. WantKnown'
    BY <1>5 DEF InstallExit, Raise, TypeOK, WantKnown, IntentKept
  <2>5. SiteKnown'
    BY <1>5 DEF InstallExit, Raise, TypeOK, PhaseKnown, SiteKnown, WantKnown
  <2>6. LinkKnown'
    BY <1>5 DEF InstallExit, Raise, TypeOK, PhaseKnown, SiteKnown, LinkKnown, WantKnown, IntentKept
  <2>7. IntentKept'
    BY <1>5 DEF InstallExit, Raise, TypeOK, WantKnown, IntentKept
  <2>8. CompleteIsWhole'
    BY <1>5 DEF InstallExit, Raise, TypeOK, PhaseKnown, WantKnown, SiteKnown, LinkKnown, CompleteIsWhole
  <2> QED
    BY <2>1, <2>2, <2>3, <2>4, <2>5, <2>6, <2>7, <2>8
<1>6. CASE SaveHandoff
  <2>1. TypeOK'
    BY <1>6 DEF SaveHandoff, TypeOK, SampleKnown, WantKnown
  <2>2. PhaseKnown'
    BY <1>6 DEF SaveHandoff, TypeOK, PhaseKnown
  <2>3. SampleKnown'
    BY <1>6 DEF SaveHandoff, TypeOK, SampleKnown
  <2>4. WantKnown'
    BY <1>6 DEF SaveHandoff, TypeOK, WantKnown, IntentKept
  <2>5. SiteKnown'
    BY <1>6 DEF SaveHandoff, TypeOK, PhaseKnown, SiteKnown, WantKnown
  <2>6. LinkKnown'
    BY <1>6 DEF SaveHandoff, TypeOK, PhaseKnown, SiteKnown, LinkKnown, WantKnown, IntentKept
  <2>7. IntentKept'
    BY <1>6 DEF SaveHandoff, TypeOK, WantKnown, IntentKept
  <2>8. CompleteIsWhole'
    BY <1>6 DEF SaveHandoff, TypeOK, PhaseKnown, WantKnown, SiteKnown, LinkKnown, CompleteIsWhole
  <2> QED
    BY <2>1, <2>2, <2>3, <2>4, <2>5, <2>6, <2>7, <2>8
<1>7. CASE SavePlan
  <2>1. TypeOK'
    BY <1>7 DEF SavePlan, TypeOK, SampleKnown, WantKnown
  <2>2. PhaseKnown'
    BY <1>7 DEF SavePlan, TypeOK, PhaseKnown
  <2>3. SampleKnown'
    BY <1>7 DEF SavePlan, TypeOK, SampleKnown
  <2>4. WantKnown'
    BY <1>7 DEF SavePlan, TypeOK, WantKnown, IntentKept
  <2>5. SiteKnown'
    BY <1>7 DEF SavePlan, TypeOK, PhaseKnown, SiteKnown, WantKnown
  <2>6. LinkKnown'
    BY <1>7 DEF SavePlan, TypeOK, PhaseKnown, SiteKnown, LinkKnown, WantKnown, IntentKept
  <2>7. IntentKept'
    BY <1>7 DEF SavePlan, TypeOK, WantKnown, IntentKept
  <2>8. CompleteIsWhole'
    BY <1>7 DEF SavePlan, TypeOK, PhaseKnown, WantKnown, SiteKnown, LinkKnown, CompleteIsWhole
  <2> QED
    BY <2>1, <2>2, <2>3, <2>4, <2>5, <2>6, <2>7, <2>8
<1>8. CASE ApplyFails
  <2>1. TypeOK'
    <3>1. /\ phase' \in Phases \cup {None} /\ pending' \in Intent \cup {None}
          /\ handoff' \in Intent \cup {None} /\ plan' \in Intent \cup {None}
          /\ link' \in Intent \cup {None} /\ exit' \in Intent \cup {None}
          /\ want' \in Intent \cup {None}
      BY <1>8 DEF ApplyFails, Charge, Raise, TypeOK, SampleKnown, WantKnown
    <3>2. serving' \in BOOLEAN /\ guarded' \in BOOLEAN /\ verified' \in BOOLEAN
      BY <1>8 DEF ApplyFails, Charge, Raise, TypeOK
    <3>3. linkLeft' \in BOOLEAN /\ failing' \in BOOLEAN /\ own' \in BOOLEAN
      BY <1>8 DEF ApplyFails, Charge, Raise, TypeOK
    <3>4. dirs' \in [{"probe", "front"} -> {"none", "bare", "marked"}]
      BY <1>8 DEF ApplyFails, Charge, Raise, TypeOK
    <3>5. route' \in Routes /\ egress' \in Egresses
      BY <1>8 DEF ApplyFails, Charge, Raise, TypeOK, WantKnown
    <3>6. backup' \in [route : Routes, verified : BOOLEAN]
      BY <1>8 DEF ApplyFails, Charge, Raise, TypeOK
    <3>7. /\ first' \in (Phases \cup {None}) \ FrontPhases
          /\ found' \in {"fresh", "pending", "resume"}
          /\ sample' \in Egresses \cup {None}
      BY <1>8 DEF ApplyFails, Charge, Raise, TypeOK
    <3>8. probe' \in DOMAIN Waves /\ wave' \in 1..Waves[probe']
      BY <1>8 DEF ApplyFails, Charge, Raise, TypeOK, Waves
    <3>9. faults' \in 0..MaxFaults
      BY <1>8, ChargeTyped DEF ApplyFails
    <3>10. pc' \in {"guard", "install", "handoff", "plan"} =>
             pending' = want' /\ phase' = "exit_applying"
      BY <1>8 DEF ApplyFails, Charge, Raise, TypeOK, WantKnown
    <3> QED
      BY <3>1, <3>2, <3>3, <3>4, <3>5, <3>6, <3>7, <3>8, <3>9, <3>10 DEF TypeOK
  <2>2. PhaseKnown'
    BY <1>8 DEF ApplyFails, Charge, Raise, TypeOK, PhaseKnown
  <2>3. SampleKnown'
    BY <1>8 DEF ApplyFails, Charge, Raise, TypeOK, SampleKnown
  <2>4. WantKnown'
    BY <1>8 DEF ApplyFails, Charge, Raise, TypeOK, WantKnown, IntentKept
  <2>5. SiteKnown'
    BY <1>8 DEF ApplyFails, Charge, Raise, TypeOK, PhaseKnown, SiteKnown, WantKnown
  <2>6. LinkKnown'
    BY <1>8 DEF ApplyFails, Charge, Raise, TypeOK, PhaseKnown, SiteKnown, LinkKnown, WantKnown, IntentKept
  <2>7. IntentKept'
    BY <1>8 DEF ApplyFails, Charge, Raise, TypeOK, WantKnown, IntentKept
  <2>8. CompleteIsWhole'
    BY <1>8 DEF ApplyFails, Charge, Raise, TypeOK, PhaseKnown, WantKnown, SiteKnown, LinkKnown, CompleteIsWhole
  <2> QED
    BY <2>1, <2>2, <2>3, <2>4, <2>5, <2>6, <2>7, <2>8
<1>9. CASE MarkReady
  <2>1. TypeOK'
    BY <1>9 DEF MarkReady, WritePhase, TypeOK, SampleKnown, WantKnown
  <2>2. PhaseKnown'
    BY <1>9 DEF MarkReady, WritePhase, TypeOK, PhaseKnown
  <2>3. SampleKnown'
    BY <1>9 DEF MarkReady, WritePhase, TypeOK, SampleKnown
  <2>4. WantKnown'
    BY <1>9 DEF MarkReady, WritePhase, TypeOK, WantKnown, IntentKept
  <2>5. SiteKnown'
    BY <1>9 DEF MarkReady, WritePhase, TypeOK, PhaseKnown, SiteKnown, WantKnown
  <2>6. LinkKnown'
    BY <1>9 DEF MarkReady, WritePhase, TypeOK, PhaseKnown, SiteKnown, LinkKnown, WantKnown, IntentKept
  <2>7. IntentKept'
    BY <1>9 DEF MarkReady, WritePhase, TypeOK, WantKnown, IntentKept
  <2>8. CompleteIsWhole'
    BY <1>9 DEF MarkReady, WritePhase, TypeOK, PhaseKnown, WantKnown, SiteKnown, LinkKnown, CompleteIsWhole
  <2> QED
    BY <2>1, <2>2, <2>3, <2>4, <2>5, <2>6, <2>7, <2>8
<1>10. CASE ClearPending
  <2>1. TypeOK'
    BY <1>10 DEF ClearPending, TypeOK, SampleKnown, WantKnown
  <2>2. PhaseKnown'
    BY <1>10 DEF ClearPending, TypeOK, PhaseKnown
  <2>3. SampleKnown'
    BY <1>10 DEF ClearPending, TypeOK, SampleKnown
  <2>4. WantKnown'
    BY <1>10 DEF ClearPending, TypeOK, WantKnown, IntentKept
  <2>5. SiteKnown'
    BY <1>10 DEF ClearPending, TypeOK, PhaseKnown, SiteKnown, WantKnown
  <2>6. LinkKnown'
    BY <1>10 DEF ClearPending, TypeOK, PhaseKnown, SiteKnown, LinkKnown, WantKnown, IntentKept
  <2>7. IntentKept'
    BY <1>10 DEF ClearPending, TypeOK, WantKnown, IntentKept
  <2>8. CompleteIsWhole'
    BY <1>10 DEF ClearPending, TypeOK, PhaseKnown, WantKnown, SiteKnown, LinkKnown, CompleteIsWhole
  <2> QED
    BY <2>1, <2>2, <2>3, <2>4, <2>5, <2>6, <2>7, <2>8
<1> QED
  BY <1>1, <1>2, <1>3, <1>4, <1>5, <1>6, <1>7, <1>8, <1>9, <1>10

\* The frontend and the profile.
LEMMA InvFront ==
  ASSUME Inv,
                  MarkFront \/ EnterFront \/ WithholdLink \/ SwitchRoute \/ EndToEnd \/
         IssueLink \/ Finish \/ FrontRefused \/ FrontFails \/ EndToEndFails \/ RollBack \/
         RollBackIncomplete \/ WithdrawLink \/ UnmarkFront
  PROVE  Inv'
<1> USE PcInstallAssumption
<1> USE DEF Inv, Goto, Optional, Routes, Fronting, FrontPhases, ExitPhases, Phases, Complete,
            Sound, Leads, local, host, site, profile, run
<1>1. CASE MarkFront
  <2>1. TypeOK'
    BY <1>1 DEF MarkFront, WritePhase, TypeOK, SampleKnown, WantKnown
  <2>2. PhaseKnown'
    BY <1>1 DEF MarkFront, WritePhase, TypeOK, PhaseKnown
  <2>3. SampleKnown'
    BY <1>1 DEF MarkFront, WritePhase, TypeOK, SampleKnown
  <2>4. WantKnown'
    BY <1>1 DEF MarkFront, WritePhase, TypeOK, WantKnown, IntentKept
  <2>5. SiteKnown'
    BY <1>1 DEF MarkFront, WritePhase, TypeOK, PhaseKnown, SiteKnown, WantKnown
  <2>6. LinkKnown'
    BY <1>1 DEF MarkFront, WritePhase, TypeOK, PhaseKnown, SiteKnown, LinkKnown, WantKnown, IntentKept
  <2>7. IntentKept'
    BY <1>1 DEF MarkFront, WritePhase, TypeOK, WantKnown, IntentKept
  <2>8. CompleteIsWhole'
    BY <1>1 DEF MarkFront, WritePhase, TypeOK, PhaseKnown, WantKnown, SiteKnown, LinkKnown, CompleteIsWhole
  <2> QED
    BY <2>1, <2>2, <2>3, <2>4, <2>5, <2>6, <2>7, <2>8
<1>2. CASE EnterFront
  <2>1. TypeOK'
    <3>1. /\ phase' \in Phases \cup {None} /\ pending' \in Intent \cup {None}
          /\ handoff' \in Intent \cup {None} /\ plan' \in Intent \cup {None}
          /\ link' \in Intent \cup {None} /\ exit' \in Intent \cup {None}
          /\ want' \in Intent \cup {None}
      BY <1>2 DEF EnterFront, RecordFailure, TypeOK, SampleKnown, WantKnown
    <3>2. serving' \in BOOLEAN /\ guarded' \in BOOLEAN /\ verified' \in BOOLEAN
      BY <1>2 DEF EnterFront, RecordFailure, TypeOK
    <3>3. linkLeft' \in BOOLEAN /\ failing' \in BOOLEAN /\ own' \in BOOLEAN
      BY <1>2 DEF EnterFront, RecordFailure, TypeOK
    <3>4. dirs' \in [{"probe", "front"} -> {"none", "bare", "marked"}]
      BY <1>2 DEF EnterFront, RecordFailure, TypeOK
    <3>5. route' \in Routes /\ egress' \in Egresses
      BY <1>2 DEF EnterFront, RecordFailure, TypeOK, WantKnown
    <3>6. backup' \in [route : Routes, verified : BOOLEAN]
      BY <1>2 DEF EnterFront, RecordFailure, TypeOK
    <3>7. /\ first' \in (Phases \cup {None}) \ FrontPhases
          /\ found' \in {"fresh", "pending", "resume"}
          /\ sample' \in Egresses \cup {None}
      BY <1>2 DEF EnterFront, RecordFailure, TypeOK
    <3>8. probe' \in DOMAIN Waves /\ wave' \in 1..Waves[probe']
      BY <1>2 DEF EnterFront, RecordFailure, TypeOK, Waves
    <3>9. faults' \in 0..MaxFaults
      BY <1>2 DEF EnterFront, RecordFailure, TypeOK
    <3>10. pc' \in {"guard", "install", "handoff", "plan"} =>
             pending' = want' /\ phase' = "exit_applying"
      BY <1>2 DEF EnterFront, RecordFailure, TypeOK, WantKnown
    <3> QED
      BY <3>1, <3>2, <3>3, <3>4, <3>5, <3>6, <3>7, <3>8, <3>9, <3>10 DEF TypeOK
  <2>2. PhaseKnown'
    BY <1>2 DEF EnterFront, RecordFailure, TypeOK, PhaseKnown
  <2>3. SampleKnown'
    BY <1>2 DEF EnterFront, RecordFailure, TypeOK, SampleKnown
  <2>4. WantKnown'
    BY <1>2 DEF EnterFront, RecordFailure, TypeOK, WantKnown, IntentKept
  <2>5. SiteKnown'
    BY <1>2 DEF EnterFront, RecordFailure, TypeOK, PhaseKnown, SiteKnown, WantKnown
  <2>6. LinkKnown'
    BY <1>2 DEF EnterFront, RecordFailure, TypeOK, PhaseKnown, SiteKnown, LinkKnown, WantKnown, IntentKept
  <2>7. IntentKept'
    BY <1>2 DEF EnterFront, RecordFailure, TypeOK, WantKnown, IntentKept
  <2>8. CompleteIsWhole'
    BY <1>2 DEF EnterFront, RecordFailure, TypeOK, PhaseKnown, WantKnown, SiteKnown, LinkKnown, CompleteIsWhole
  <2> QED
    BY <2>1, <2>2, <2>3, <2>4, <2>5, <2>6, <2>7, <2>8
<1>3. CASE WithholdLink
  <2>1. TypeOK'
    <3>1. /\ phase' \in Phases \cup {None} /\ pending' \in Intent \cup {None}
          /\ handoff' \in Intent \cup {None} /\ plan' \in Intent \cup {None}
          /\ link' \in Intent \cup {None} /\ exit' \in Intent \cup {None}
          /\ want' \in Intent \cup {None}
      BY <1>3 DEF WithholdLink, TypeOK, SampleKnown, WantKnown
    <3>2. serving' \in BOOLEAN /\ guarded' \in BOOLEAN /\ verified' \in BOOLEAN
      BY <1>3 DEF WithholdLink, TypeOK
    <3>3. linkLeft' \in BOOLEAN /\ failing' \in BOOLEAN /\ own' \in BOOLEAN
      BY <1>3 DEF WithholdLink, TypeOK
    <3>4. dirs' \in [{"probe", "front"} -> {"none", "bare", "marked"}]
      BY <1>3 DEF WithholdLink, TypeOK
    <3>5. route' \in Routes /\ egress' \in Egresses
      BY <1>3 DEF WithholdLink, TypeOK, WantKnown
    <3>6. backup' \in [route : Routes, verified : BOOLEAN]
      BY <1>3 DEF WithholdLink, TypeOK
    <3>7. /\ first' \in (Phases \cup {None}) \ FrontPhases
          /\ found' \in {"fresh", "pending", "resume"}
          /\ sample' \in Egresses \cup {None}
      BY <1>3 DEF WithholdLink, TypeOK
    <3>8. probe' \in DOMAIN Waves /\ wave' \in 1..Waves[probe']
      BY <1>3 DEF WithholdLink, TypeOK, Waves
    <3>9. faults' \in 0..MaxFaults
      BY <1>3 DEF WithholdLink, TypeOK
    <3>10. pc' \in {"guard", "install", "handoff", "plan"} =>
             pending' = want' /\ phase' = "exit_applying"
      BY <1>3 DEF WithholdLink, TypeOK, WantKnown
    <3> QED
      BY <3>1, <3>2, <3>3, <3>4, <3>5, <3>6, <3>7, <3>8, <3>9, <3>10 DEF TypeOK
  <2>2. PhaseKnown'
    BY <1>3 DEF WithholdLink, TypeOK, PhaseKnown
  <2>3. SampleKnown'
    BY <1>3 DEF WithholdLink, TypeOK, SampleKnown
  <2>4. WantKnown'
    BY <1>3 DEF WithholdLink, TypeOK, WantKnown, IntentKept
  <2>5. SiteKnown'
    BY <1>3 DEF WithholdLink, TypeOK, PhaseKnown, SiteKnown, WantKnown
  <2>6. LinkKnown'
    BY <1>3 DEF WithholdLink, TypeOK, PhaseKnown, SiteKnown, LinkKnown, WantKnown, IntentKept
  <2>7. IntentKept'
    BY <1>3 DEF WithholdLink, TypeOK, WantKnown, IntentKept
  <2>8. CompleteIsWhole'
    BY <1>3 DEF WithholdLink, TypeOK, PhaseKnown, WantKnown, SiteKnown, LinkKnown, CompleteIsWhole
  <2> QED
    BY <2>1, <2>2, <2>3, <2>4, <2>5, <2>6, <2>7, <2>8
<1>4. CASE SwitchRoute
  <2>1. TypeOK'
    <3>1. /\ phase' \in Phases \cup {None} /\ pending' \in Intent \cup {None}
          /\ handoff' \in Intent \cup {None} /\ plan' \in Intent \cup {None}
          /\ link' \in Intent \cup {None} /\ exit' \in Intent \cup {None}
          /\ want' \in Intent \cup {None}
      BY <1>4 DEF SwitchRoute, TypeOK, SampleKnown, WantKnown
    <3>2. serving' \in BOOLEAN /\ guarded' \in BOOLEAN /\ verified' \in BOOLEAN
      BY <1>4 DEF SwitchRoute, TypeOK
    <3>3. linkLeft' \in BOOLEAN /\ failing' \in BOOLEAN /\ own' \in BOOLEAN
      BY <1>4 DEF SwitchRoute, TypeOK
    <3>4. dirs' \in [{"probe", "front"} -> {"none", "bare", "marked"}]
      BY <1>4 DEF SwitchRoute, TypeOK
    <3>5. route' \in Routes /\ egress' \in Egresses
      BY <1>4 DEF SwitchRoute, TypeOK, WantKnown
    <3>6. backup' \in [route : Routes, verified : BOOLEAN]
      BY <1>4 DEF SwitchRoute, TypeOK
    <3>7. /\ first' \in (Phases \cup {None}) \ FrontPhases
          /\ found' \in {"fresh", "pending", "resume"}
          /\ sample' \in Egresses \cup {None}
      BY <1>4 DEF SwitchRoute, TypeOK
    <3>8. probe' \in DOMAIN Waves /\ wave' \in 1..Waves[probe']
      BY <1>4 DEF SwitchRoute, TypeOK, Waves
    <3>9. faults' \in 0..MaxFaults
      BY <1>4 DEF SwitchRoute, TypeOK
    <3>10. pc' \in {"guard", "install", "handoff", "plan"} =>
             pending' = want' /\ phase' = "exit_applying"
      BY <1>4 DEF SwitchRoute, TypeOK, WantKnown
    <3> QED
      BY <3>1, <3>2, <3>3, <3>4, <3>5, <3>6, <3>7, <3>8, <3>9, <3>10 DEF TypeOK
  <2>2. PhaseKnown'
    BY <1>4 DEF SwitchRoute, TypeOK, PhaseKnown
  <2>3. SampleKnown'
    BY <1>4 DEF SwitchRoute, TypeOK, SampleKnown
  <2>4. WantKnown'
    BY <1>4 DEF SwitchRoute, TypeOK, WantKnown, IntentKept
  <2>5. SiteKnown'
    BY <1>4 DEF SwitchRoute, TypeOK, PhaseKnown, SiteKnown, WantKnown
  <2>6. LinkKnown'
    BY <1>4 DEF SwitchRoute, TypeOK, PhaseKnown, SiteKnown, LinkKnown, WantKnown, IntentKept
  <2>7. IntentKept'
    BY <1>4 DEF SwitchRoute, TypeOK, WantKnown, IntentKept
  <2>8. CompleteIsWhole'
    BY <1>4 DEF SwitchRoute, TypeOK, PhaseKnown, WantKnown, SiteKnown, LinkKnown, CompleteIsWhole
  <2> QED
    BY <2>1, <2>2, <2>3, <2>4, <2>5, <2>6, <2>7, <2>8
<1>5. CASE EndToEnd
  <2>1. TypeOK'
    BY <1>5 DEF EndToEnd, TypeOK, SampleKnown, WantKnown
  <2>2. PhaseKnown'
    BY <1>5 DEF EndToEnd, TypeOK, PhaseKnown
  <2>3. SampleKnown'
    BY <1>5 DEF EndToEnd, TypeOK, SampleKnown
  <2>4. WantKnown'
    BY <1>5 DEF EndToEnd, TypeOK, WantKnown, IntentKept
  <2>5. SiteKnown'
    BY <1>5 DEF EndToEnd, TypeOK, PhaseKnown, SiteKnown, WantKnown
  <2>6. LinkKnown'
    BY <1>5 DEF EndToEnd, TypeOK, PhaseKnown, SiteKnown, LinkKnown, WantKnown, IntentKept
  <2>7. IntentKept'
    BY <1>5 DEF EndToEnd, TypeOK, WantKnown, IntentKept
  <2>8. CompleteIsWhole'
    BY <1>5 DEF EndToEnd, TypeOK, PhaseKnown, WantKnown, SiteKnown, LinkKnown, CompleteIsWhole
  <2> QED
    BY <2>1, <2>2, <2>3, <2>4, <2>5, <2>6, <2>7, <2>8
<1>6. CASE IssueLink
  <2>1. TypeOK'
    BY <1>6 DEF IssueLink, TypeOK, SampleKnown, WantKnown
  <2>2. PhaseKnown'
    BY <1>6 DEF IssueLink, TypeOK, PhaseKnown
  <2>3. SampleKnown'
    BY <1>6 DEF IssueLink, TypeOK, SampleKnown
  <2>4. WantKnown'
    BY <1>6 DEF IssueLink, TypeOK, WantKnown, IntentKept
  <2>5. SiteKnown'
    BY <1>6 DEF IssueLink, TypeOK, PhaseKnown, SiteKnown, WantKnown
  <2>6. LinkKnown'
    BY <1>6 DEF IssueLink, TypeOK, PhaseKnown, SiteKnown, LinkKnown, WantKnown, IntentKept
  <2>7. IntentKept'
    BY <1>6 DEF IssueLink, TypeOK, WantKnown, IntentKept
  <2>8. CompleteIsWhole'
    BY <1>6 DEF IssueLink, TypeOK, PhaseKnown, WantKnown, SiteKnown, LinkKnown, CompleteIsWhole
  <2> QED
    BY <2>1, <2>2, <2>3, <2>4, <2>5, <2>6, <2>7, <2>8
<1>7. CASE Finish
  <2>1. TypeOK'
    BY <1>7 DEF Finish, WritePhase, TypeOK, SampleKnown, WantKnown
  <2>2. PhaseKnown'
    BY <1>7 DEF Finish, WritePhase, TypeOK, PhaseKnown
  <2>3. SampleKnown'
    BY <1>7 DEF Finish, WritePhase, TypeOK, SampleKnown
  <2>4. WantKnown'
    BY <1>7 DEF Finish, WritePhase, TypeOK, WantKnown, IntentKept
  <2>5. SiteKnown'
    BY <1>7 DEF Finish, WritePhase, TypeOK, PhaseKnown, SiteKnown, WantKnown
  <2>6. LinkKnown'
    BY <1>7 DEF Finish, WritePhase, TypeOK, PhaseKnown, SiteKnown, LinkKnown, WantKnown, IntentKept
  <2>7. IntentKept'
    BY <1>7 DEF Finish, WritePhase, TypeOK, WantKnown, IntentKept
  <2>8. CompleteIsWhole'
    BY <1>7 DEF Finish, WritePhase, TypeOK, PhaseKnown, WantKnown, SiteKnown, LinkKnown, CompleteIsWhole
  <2> QED
    BY <2>1, <2>2, <2>3, <2>4, <2>5, <2>6, <2>7, <2>8
<1>8. CASE FrontRefused
  <2>1. TypeOK'
    <3>1. /\ phase' \in Phases \cup {None} /\ pending' \in Intent \cup {None}
          /\ handoff' \in Intent \cup {None} /\ plan' \in Intent \cup {None}
          /\ link' \in Intent \cup {None} /\ exit' \in Intent \cup {None}
          /\ want' \in Intent \cup {None}
      BY <1>8 DEF FrontRefused, Charge, RecordFailure, TypeOK, SampleKnown, WantKnown
    <3>2. serving' \in BOOLEAN /\ guarded' \in BOOLEAN /\ verified' \in BOOLEAN
      BY <1>8 DEF FrontRefused, Charge, RecordFailure, TypeOK
    <3>3. linkLeft' \in BOOLEAN /\ failing' \in BOOLEAN /\ own' \in BOOLEAN
      BY <1>8 DEF FrontRefused, Charge, RecordFailure, TypeOK
    <3>4. dirs' \in [{"probe", "front"} -> {"none", "bare", "marked"}]
      BY <1>8 DEF FrontRefused, Charge, RecordFailure, TypeOK
    <3>5. route' \in Routes /\ egress' \in Egresses
      BY <1>8 DEF FrontRefused, Charge, RecordFailure, TypeOK, WantKnown
    <3>6. backup' \in [route : Routes, verified : BOOLEAN]
      BY <1>8 DEF FrontRefused, Charge, RecordFailure, TypeOK
    <3>7. /\ first' \in (Phases \cup {None}) \ FrontPhases
          /\ found' \in {"fresh", "pending", "resume"}
          /\ sample' \in Egresses \cup {None}
      BY <1>8 DEF FrontRefused, Charge, RecordFailure, TypeOK
    <3>8. probe' \in DOMAIN Waves /\ wave' \in 1..Waves[probe']
      BY <1>8 DEF FrontRefused, Charge, RecordFailure, TypeOK, Waves
    <3>9. faults' \in 0..MaxFaults
      BY <1>8, ChargeTyped DEF FrontRefused
    <3>10. pc' \in {"guard", "install", "handoff", "plan"} =>
             pending' = want' /\ phase' = "exit_applying"
      BY <1>8 DEF FrontRefused, Charge, RecordFailure, TypeOK, WantKnown
    <3> QED
      BY <3>1, <3>2, <3>3, <3>4, <3>5, <3>6, <3>7, <3>8, <3>9, <3>10 DEF TypeOK
  <2>2. PhaseKnown'
    BY <1>8 DEF FrontRefused, Charge, RecordFailure, TypeOK, PhaseKnown
  <2>3. SampleKnown'
    BY <1>8 DEF FrontRefused, Charge, RecordFailure, TypeOK, SampleKnown
  <2>4. WantKnown'
    BY <1>8 DEF FrontRefused, Charge, RecordFailure, TypeOK, WantKnown, IntentKept
  <2>5. SiteKnown'
    BY <1>8 DEF FrontRefused, Charge, RecordFailure, TypeOK, PhaseKnown, SiteKnown, WantKnown
  <2>6. LinkKnown'
    BY <1>8 DEF FrontRefused, Charge, RecordFailure, TypeOK, PhaseKnown, SiteKnown, LinkKnown, WantKnown, IntentKept
  <2>7. IntentKept'
    BY <1>8 DEF FrontRefused, Charge, RecordFailure, TypeOK, WantKnown, IntentKept
  <2>8. CompleteIsWhole'
    BY <1>8 DEF FrontRefused, Charge, RecordFailure, TypeOK, PhaseKnown, WantKnown, SiteKnown, LinkKnown, CompleteIsWhole
  <2> QED
    BY <2>1, <2>2, <2>3, <2>4, <2>5, <2>6, <2>7, <2>8
<1>9. CASE FrontFails
  <2>1. TypeOK'
    <3>1. /\ phase' \in Phases \cup {None} /\ pending' \in Intent \cup {None}
          /\ handoff' \in Intent \cup {None} /\ plan' \in Intent \cup {None}
          /\ link' \in Intent \cup {None} /\ exit' \in Intent \cup {None}
          /\ want' \in Intent \cup {None}
      BY <1>9 DEF FrontFails, Charge, RecordFailure, TypeOK, SampleKnown, WantKnown
    <3>2. serving' \in BOOLEAN /\ guarded' \in BOOLEAN /\ verified' \in BOOLEAN
      BY <1>9 DEF FrontFails, Charge, RecordFailure, TypeOK
    <3>3. linkLeft' \in BOOLEAN /\ failing' \in BOOLEAN /\ own' \in BOOLEAN
      BY <1>9 DEF FrontFails, Charge, RecordFailure, TypeOK
    <3>4. dirs' \in [{"probe", "front"} -> {"none", "bare", "marked"}]
      BY <1>9 DEF FrontFails, Charge, RecordFailure, TypeOK
    <3>5. route' \in Routes /\ egress' \in Egresses
      BY <1>9 DEF FrontFails, Charge, RecordFailure, TypeOK, WantKnown
    <3>6. backup' \in [route : Routes, verified : BOOLEAN]
      BY <1>9 DEF FrontFails, Charge, RecordFailure, TypeOK
    <3>7. /\ first' \in (Phases \cup {None}) \ FrontPhases
          /\ found' \in {"fresh", "pending", "resume"}
          /\ sample' \in Egresses \cup {None}
      BY <1>9 DEF FrontFails, Charge, RecordFailure, TypeOK
    <3>8. probe' \in DOMAIN Waves /\ wave' \in 1..Waves[probe']
      BY <1>9 DEF FrontFails, Charge, RecordFailure, TypeOK, Waves
    <3>9. faults' \in 0..MaxFaults
      BY <1>9, ChargeTyped DEF FrontFails
    <3>10. pc' \in {"guard", "install", "handoff", "plan"} =>
             pending' = want' /\ phase' = "exit_applying"
      BY <1>9 DEF FrontFails, Charge, RecordFailure, TypeOK, WantKnown
    <3> QED
      BY <3>1, <3>2, <3>3, <3>4, <3>5, <3>6, <3>7, <3>8, <3>9, <3>10 DEF TypeOK
  <2>2. PhaseKnown'
    BY <1>9 DEF FrontFails, Charge, RecordFailure, TypeOK, PhaseKnown
  <2>3. SampleKnown'
    BY <1>9 DEF FrontFails, Charge, RecordFailure, TypeOK, SampleKnown
  <2>4. WantKnown'
    BY <1>9 DEF FrontFails, Charge, RecordFailure, TypeOK, WantKnown, IntentKept
  <2>5. SiteKnown'
    BY <1>9 DEF FrontFails, Charge, RecordFailure, TypeOK, PhaseKnown, SiteKnown, WantKnown
  <2>6. LinkKnown'
    BY <1>9 DEF FrontFails, Charge, RecordFailure, TypeOK, PhaseKnown, SiteKnown, LinkKnown, WantKnown, IntentKept
  <2>7. IntentKept'
    BY <1>9 DEF FrontFails, Charge, RecordFailure, TypeOK, WantKnown, IntentKept
  <2>8. CompleteIsWhole'
    BY <1>9 DEF FrontFails, Charge, RecordFailure, TypeOK, PhaseKnown, WantKnown, SiteKnown, LinkKnown, CompleteIsWhole
  <2> QED
    BY <2>1, <2>2, <2>3, <2>4, <2>5, <2>6, <2>7, <2>8
<1>10. CASE EndToEndFails
  <2>1. TypeOK'
    BY <1>10 DEF EndToEndFails, RecordFailure, TypeOK, SampleKnown, WantKnown
  <2>2. PhaseKnown'
    BY <1>10 DEF EndToEndFails, RecordFailure, TypeOK, PhaseKnown
  <2>3. SampleKnown'
    BY <1>10 DEF EndToEndFails, RecordFailure, TypeOK, SampleKnown
  <2>4. WantKnown'
    BY <1>10 DEF EndToEndFails, RecordFailure, TypeOK, WantKnown, IntentKept
  <2>5. SiteKnown'
    BY <1>10 DEF EndToEndFails, RecordFailure, TypeOK, PhaseKnown, SiteKnown, WantKnown
  <2>6. LinkKnown'
    BY <1>10 DEF EndToEndFails, RecordFailure, TypeOK, PhaseKnown, SiteKnown, LinkKnown, WantKnown, IntentKept
  <2>7. IntentKept'
    BY <1>10 DEF EndToEndFails, RecordFailure, TypeOK, WantKnown, IntentKept
  <2>8. CompleteIsWhole'
    BY <1>10 DEF EndToEndFails, RecordFailure, TypeOK, PhaseKnown, WantKnown, SiteKnown, LinkKnown, CompleteIsWhole
  <2> QED
    BY <2>1, <2>2, <2>3, <2>4, <2>5, <2>6, <2>7, <2>8
<1>11. CASE RollBack
  <2>1. TypeOK'
    BY <1>11 DEF RollBack, Restored, TypeOK, SampleKnown, WantKnown
  <2>2. PhaseKnown'
    BY <1>11 DEF RollBack, Restored, TypeOK, PhaseKnown
  <2>3. SampleKnown'
    BY <1>11 DEF RollBack, Restored, TypeOK, SampleKnown
  <2>4. WantKnown'
    BY <1>11 DEF RollBack, Restored, TypeOK, WantKnown, IntentKept
  <2>5. SiteKnown'
    BY <1>11 DEF RollBack, Restored, TypeOK, PhaseKnown, SiteKnown, WantKnown
  <2>6. LinkKnown'
    BY <1>11 DEF RollBack, Restored, TypeOK, PhaseKnown, SiteKnown, LinkKnown, WantKnown, IntentKept
  <2>7. IntentKept'
    BY <1>11 DEF RollBack, Restored, TypeOK, WantKnown, IntentKept
  <2>8. CompleteIsWhole'
    BY <1>11 DEF RollBack, Restored, TypeOK, PhaseKnown, WantKnown, SiteKnown, LinkKnown, CompleteIsWhole
  <2> QED
    BY <2>1, <2>2, <2>3, <2>4, <2>5, <2>6, <2>7, <2>8
<1>12. CASE RollBackIncomplete
  <2>1. TypeOK'
    <3>1. /\ phase' \in Phases \cup {None} /\ pending' \in Intent \cup {None}
          /\ handoff' \in Intent \cup {None} /\ plan' \in Intent \cup {None}
          /\ link' \in Intent \cup {None} /\ exit' \in Intent \cup {None}
          /\ want' \in Intent \cup {None}
      BY <1>12 DEF RollBackIncomplete, Charge, RecordFailure, TypeOK, SampleKnown, WantKnown
    <3>2. serving' \in BOOLEAN /\ guarded' \in BOOLEAN /\ verified' \in BOOLEAN
      BY <1>12 DEF RollBackIncomplete, Charge, RecordFailure, TypeOK
    <3>3. linkLeft' \in BOOLEAN /\ failing' \in BOOLEAN /\ own' \in BOOLEAN
      BY <1>12 DEF RollBackIncomplete, Charge, RecordFailure, TypeOK
    <3>4. dirs' \in [{"probe", "front"} -> {"none", "bare", "marked"}]
      BY <1>12 DEF RollBackIncomplete, Charge, RecordFailure, TypeOK
    <3>5. route' \in Routes /\ egress' \in Egresses
      BY <1>12 DEF RollBackIncomplete, Charge, RecordFailure, TypeOK, WantKnown
    <3>6. backup' \in [route : Routes, verified : BOOLEAN]
      BY <1>12 DEF RollBackIncomplete, Charge, RecordFailure, TypeOK
    <3>7. /\ first' \in (Phases \cup {None}) \ FrontPhases
          /\ found' \in {"fresh", "pending", "resume"}
          /\ sample' \in Egresses \cup {None}
      BY <1>12 DEF RollBackIncomplete, Charge, RecordFailure, TypeOK
    <3>8. probe' \in DOMAIN Waves /\ wave' \in 1..Waves[probe']
      BY <1>12 DEF RollBackIncomplete, Charge, RecordFailure, TypeOK, Waves
    <3>9. faults' \in 0..MaxFaults
      BY <1>12, ChargeTyped DEF RollBackIncomplete
    <3>10. pc' \in {"guard", "install", "handoff", "plan"} =>
             pending' = want' /\ phase' = "exit_applying"
      BY <1>12 DEF RollBackIncomplete, Charge, RecordFailure, TypeOK, WantKnown
    <3> QED
      BY <3>1, <3>2, <3>3, <3>4, <3>5, <3>6, <3>7, <3>8, <3>9, <3>10 DEF TypeOK
  <2>2. PhaseKnown'
    BY <1>12 DEF RollBackIncomplete, Charge, RecordFailure, TypeOK, PhaseKnown
  <2>3. SampleKnown'
    BY <1>12 DEF RollBackIncomplete, Charge, RecordFailure, TypeOK, SampleKnown
  <2>4. WantKnown'
    BY <1>12 DEF RollBackIncomplete, Charge, RecordFailure, TypeOK, WantKnown, IntentKept
  <2>5. SiteKnown'
    BY <1>12 DEF RollBackIncomplete, Charge, RecordFailure, TypeOK, PhaseKnown, SiteKnown, WantKnown
  <2>6. LinkKnown'
    BY <1>12 DEF RollBackIncomplete, Charge, RecordFailure, TypeOK, PhaseKnown, SiteKnown, LinkKnown, WantKnown, IntentKept
  <2>7. IntentKept'
    BY <1>12 DEF RollBackIncomplete, Charge, RecordFailure, TypeOK, WantKnown, IntentKept
  <2>8. CompleteIsWhole'
    BY <1>12 DEF RollBackIncomplete, Charge, RecordFailure, TypeOK, PhaseKnown, WantKnown, SiteKnown, LinkKnown, CompleteIsWhole
  <2> QED
    BY <2>1, <2>2, <2>3, <2>4, <2>5, <2>6, <2>7, <2>8
<1>13. CASE WithdrawLink
  <2>1. TypeOK'
    <3>1. /\ phase' \in Phases \cup {None} /\ pending' \in Intent \cup {None}
          /\ handoff' \in Intent \cup {None} /\ plan' \in Intent \cup {None}
          /\ link' \in Intent \cup {None} /\ exit' \in Intent \cup {None}
          /\ want' \in Intent \cup {None}
      BY <1>13 DEF WithdrawLink, Charge, TypeOK, SampleKnown, WantKnown
    <3>2. serving' \in BOOLEAN /\ guarded' \in BOOLEAN /\ verified' \in BOOLEAN
      BY <1>13 DEF WithdrawLink, Charge, TypeOK
    <3>3. linkLeft' \in BOOLEAN /\ failing' \in BOOLEAN /\ own' \in BOOLEAN
      BY <1>13 DEF WithdrawLink, Charge, TypeOK
    <3>4. dirs' \in [{"probe", "front"} -> {"none", "bare", "marked"}]
      BY <1>13 DEF WithdrawLink, Charge, TypeOK
    <3>5. route' \in Routes /\ egress' \in Egresses
      BY <1>13 DEF WithdrawLink, Charge, TypeOK, WantKnown
    <3>6. backup' \in [route : Routes, verified : BOOLEAN]
      BY <1>13 DEF WithdrawLink, Charge, TypeOK
    <3>7. /\ first' \in (Phases \cup {None}) \ FrontPhases
          /\ found' \in {"fresh", "pending", "resume"}
          /\ sample' \in Egresses \cup {None}
      BY <1>13 DEF WithdrawLink, Charge, TypeOK
    <3>8. probe' \in DOMAIN Waves /\ wave' \in 1..Waves[probe']
      BY <1>13 DEF WithdrawLink, Charge, TypeOK, Waves
    <3>9. faults' \in 0..MaxFaults
      BY <1>13 DEF WithdrawLink, Charge, TypeOK
    <3>10. pc' \in {"guard", "install", "handoff", "plan"} =>
             pending' = want' /\ phase' = "exit_applying"
      BY <1>13 DEF WithdrawLink, Charge, TypeOK, WantKnown
    <3> QED
      BY <3>1, <3>2, <3>3, <3>4, <3>5, <3>6, <3>7, <3>8, <3>9, <3>10 DEF TypeOK
  <2>2. PhaseKnown'
    BY <1>13 DEF WithdrawLink, Charge, TypeOK, PhaseKnown
  <2>3. SampleKnown'
    BY <1>13 DEF WithdrawLink, Charge, TypeOK, SampleKnown
  <2>4. WantKnown'
    BY <1>13 DEF WithdrawLink, Charge, TypeOK, WantKnown, IntentKept
  <2>5. SiteKnown'
    BY <1>13 DEF WithdrawLink, Charge, TypeOK, PhaseKnown, SiteKnown, WantKnown
  <2>6. LinkKnown'
    BY <1>13 DEF WithdrawLink, Charge, TypeOK, PhaseKnown, SiteKnown, LinkKnown, WantKnown, IntentKept
  <2>7. IntentKept'
    BY <1>13 DEF WithdrawLink, Charge, TypeOK, WantKnown, IntentKept
  <2>8. CompleteIsWhole'
    BY <1>13 DEF WithdrawLink, Charge, TypeOK, PhaseKnown, WantKnown, SiteKnown, LinkKnown, CompleteIsWhole
  <2> QED
    BY <2>1, <2>2, <2>3, <2>4, <2>5, <2>6, <2>7, <2>8
<1>14. CASE UnmarkFront
  <2>1. TypeOK'
    <3>1. /\ phase' \in Phases \cup {None} /\ pending' \in Intent \cup {None}
          /\ handoff' \in Intent \cup {None} /\ plan' \in Intent \cup {None}
          /\ link' \in Intent \cup {None} /\ exit' \in Intent \cup {None}
          /\ want' \in Intent \cup {None}
      BY <1>14 DEF UnmarkFront, WritePhase, TypeOK, SampleKnown, WantKnown
    <3>2. serving' \in BOOLEAN /\ guarded' \in BOOLEAN /\ verified' \in BOOLEAN
      BY <1>14 DEF UnmarkFront, WritePhase, TypeOK
    <3>3. linkLeft' \in BOOLEAN /\ failing' \in BOOLEAN /\ own' \in BOOLEAN
      BY <1>14 DEF UnmarkFront, WritePhase, TypeOK
    <3>4. dirs' \in [{"probe", "front"} -> {"none", "bare", "marked"}]
      BY <1>14 DEF UnmarkFront, WritePhase, TypeOK
    <3>5. route' \in Routes /\ egress' \in Egresses
      BY <1>14 DEF UnmarkFront, WritePhase, TypeOK, WantKnown
    <3>6. backup' \in [route : Routes, verified : BOOLEAN]
      BY <1>14 DEF UnmarkFront, WritePhase, TypeOK
    <3>7. /\ first' \in (Phases \cup {None}) \ FrontPhases
          /\ found' \in {"fresh", "pending", "resume"}
          /\ sample' \in Egresses \cup {None}
      BY <1>14 DEF UnmarkFront, WritePhase, TypeOK
    <3>8. probe' \in DOMAIN Waves /\ wave' \in 1..Waves[probe']
      BY <1>14 DEF UnmarkFront, WritePhase, TypeOK, Waves
    <3>9. faults' \in 0..MaxFaults
      BY <1>14 DEF UnmarkFront, WritePhase, TypeOK
    <3>10. pc' \in {"guard", "install", "handoff", "plan"} =>
             pending' = want' /\ phase' = "exit_applying"
      BY <1>14 DEF UnmarkFront, WritePhase, TypeOK, WantKnown
    <3> QED
      BY <3>1, <3>2, <3>3, <3>4, <3>5, <3>6, <3>7, <3>8, <3>9, <3>10 DEF TypeOK
  <2>2. PhaseKnown'
    BY <1>14 DEF UnmarkFront, WritePhase, TypeOK, PhaseKnown
  <2>3. SampleKnown'
    BY <1>14 DEF UnmarkFront, WritePhase, TypeOK, SampleKnown
  <2>4. WantKnown'
    BY <1>14 DEF UnmarkFront, WritePhase, TypeOK, WantKnown, IntentKept
  <2>5. SiteKnown'
    BY <1>14 DEF UnmarkFront, WritePhase, TypeOK, PhaseKnown, SiteKnown, WantKnown
  <2>6. LinkKnown'
    BY <1>14 DEF UnmarkFront, WritePhase, TypeOK, PhaseKnown, SiteKnown, LinkKnown, WantKnown, IntentKept
  <2>7. IntentKept'
    BY <1>14 DEF UnmarkFront, WritePhase, TypeOK, WantKnown, IntentKept
  <2>8. CompleteIsWhole'
    BY <1>14 DEF UnmarkFront, WritePhase, TypeOK, PhaseKnown, WantKnown, SiteKnown, LinkKnown, CompleteIsWhole
  <2> QED
    BY <2>1, <2>2, <2>3, <2>4, <2>5, <2>6, <2>7, <2>8
<1> QED
  BY <1>1, <1>2, <1>3, <1>4, <1>5, <1>6, <1>7, <1>8, <1>9, <1>10, <1>11, <1>12, <1>13, <1>14

\* Failures without a handler, kills, and the world outside.
LEMMA InvWorld ==
  ASSUME Inv,
         StepFails \/ MarkerFails \/ Killed \/ EgressChanges \/ ExitStops
  PROVE  Inv'
<1> USE PcInstallAssumption
<1> USE DEF Inv, Goto, Optional, Routes, Fronting, FrontPhases, ExitPhases, Phases, Complete,
            Sound, Leads, local, host, site, profile, run
<1>1. CASE StepFails
  <2>1. TypeOK'
    BY <1>1 DEF StepFails, Charge, Raise, TypeOK, SampleKnown, WantKnown
  <2>2. PhaseKnown'
    BY <1>1 DEF StepFails, Charge, Raise, TypeOK, PhaseKnown
  <2>3. SampleKnown'
    BY <1>1 DEF StepFails, Charge, Raise, TypeOK, SampleKnown
  <2>4. WantKnown'
    BY <1>1 DEF StepFails, Charge, Raise, TypeOK, WantKnown, IntentKept
  <2>5. SiteKnown'
    BY <1>1 DEF StepFails, Charge, Raise, TypeOK, PhaseKnown, SiteKnown, WantKnown
  <2>6. LinkKnown'
    BY <1>1 DEF StepFails, Charge, Raise, TypeOK, PhaseKnown, SiteKnown, LinkKnown, WantKnown, IntentKept
  <2>7. IntentKept'
    BY <1>1 DEF StepFails, Charge, Raise, TypeOK, WantKnown, IntentKept
  <2>8. CompleteIsWhole'
    BY <1>1 DEF StepFails, Charge, Raise, TypeOK, PhaseKnown, WantKnown, SiteKnown, LinkKnown, CompleteIsWhole
  <2> QED
    BY <2>1, <2>2, <2>3, <2>4, <2>5, <2>6, <2>7, <2>8
<1>2. CASE MarkerFails
  <2>1. TypeOK'
    <3>1. /\ phase' \in Phases \cup {None} /\ pending' \in Intent \cup {None}
          /\ handoff' \in Intent \cup {None} /\ plan' \in Intent \cup {None}
          /\ link' \in Intent \cup {None} /\ exit' \in Intent \cup {None}
          /\ want' \in Intent \cup {None}
      BY <1>2 DEF MarkerFails, Charge, Raise, Fails, RecordFailure, TypeOK, SampleKnown, WantKnown
    <3>2. serving' \in BOOLEAN /\ guarded' \in BOOLEAN /\ verified' \in BOOLEAN
      BY <1>2 DEF MarkerFails, Charge, Raise, Fails, RecordFailure, TypeOK
    <3>3. linkLeft' \in BOOLEAN /\ failing' \in BOOLEAN /\ own' \in BOOLEAN
      BY <1>2 DEF MarkerFails, Charge, Raise, Fails, RecordFailure, TypeOK
    <3>4. dirs' \in [{"probe", "front"} -> {"none", "bare", "marked"}]
      BY <1>2 DEF MarkerFails, Charge, Raise, Fails, RecordFailure, TypeOK
    <3>5. route' \in Routes /\ egress' \in Egresses
      BY <1>2 DEF MarkerFails, Charge, Raise, Fails, RecordFailure, TypeOK, WantKnown
    <3>6. backup' \in [route : Routes, verified : BOOLEAN]
      BY <1>2 DEF MarkerFails, Charge, Raise, Fails, RecordFailure, TypeOK
    <3>7. /\ first' \in (Phases \cup {None}) \ FrontPhases
          /\ found' \in {"fresh", "pending", "resume"}
          /\ sample' \in Egresses \cup {None}
      BY <1>2 DEF MarkerFails, Charge, Raise, Fails, RecordFailure, TypeOK
    <3>8. probe' \in DOMAIN Waves /\ wave' \in 1..Waves[probe']
      BY <1>2 DEF MarkerFails, Charge, Raise, Fails, RecordFailure, TypeOK, Waves
    <3>9. faults' \in 0..MaxFaults
      BY <1>2 DEF MarkerFails, Charge, Raise, Fails, RecordFailure, TypeOK
    <3>10. pc' \in {"guard", "install", "handoff", "plan"} =>
             pending' = want' /\ phase' = "exit_applying"
      BY <1>2 DEF MarkerFails, Charge, Raise, Fails, RecordFailure, TypeOK, WantKnown
    <3> QED
      BY <3>1, <3>2, <3>3, <3>4, <3>5, <3>6, <3>7, <3>8, <3>9, <3>10 DEF TypeOK
  <2>2. PhaseKnown'
    BY <1>2 DEF MarkerFails, Charge, Raise, Fails, RecordFailure, TypeOK, PhaseKnown
  <2>3. SampleKnown'
    BY <1>2 DEF MarkerFails, Charge, Raise, Fails, RecordFailure, TypeOK, SampleKnown
  <2>4. WantKnown'
    BY <1>2 DEF MarkerFails, Charge, Raise, Fails, RecordFailure, TypeOK, WantKnown, IntentKept
  <2>5. SiteKnown'
    BY <1>2 DEF MarkerFails, Charge, Raise, Fails, RecordFailure, TypeOK, PhaseKnown, SiteKnown, WantKnown
  <2>6. LinkKnown'
    BY <1>2 DEF MarkerFails, Charge, Raise, Fails, RecordFailure, TypeOK, PhaseKnown, SiteKnown, LinkKnown, WantKnown, IntentKept
  <2>7. IntentKept'
    BY <1>2 DEF MarkerFails, Charge, Raise, Fails, RecordFailure, TypeOK, WantKnown, IntentKept
  <2>8. CompleteIsWhole'
    BY <1>2 DEF MarkerFails, Charge, Raise, Fails, RecordFailure, TypeOK, PhaseKnown, WantKnown, SiteKnown, LinkKnown, CompleteIsWhole
  <2> QED
    BY <2>1, <2>2, <2>3, <2>4, <2>5, <2>6, <2>7, <2>8
<1>3. CASE Killed
  <2>1. TypeOK'
    BY <1>3 DEF Killed, Charge, Raise, TypeOK, SampleKnown, WantKnown
  <2>2. PhaseKnown'
    BY <1>3 DEF Killed, Charge, Raise, TypeOK, PhaseKnown
  <2>3. SampleKnown'
    BY <1>3 DEF Killed, Charge, Raise, TypeOK, SampleKnown
  <2>4. WantKnown'
    BY <1>3 DEF Killed, Charge, Raise, TypeOK, WantKnown, IntentKept
  <2>5. SiteKnown'
    BY <1>3 DEF Killed, Charge, Raise, TypeOK, PhaseKnown, SiteKnown, WantKnown
  <2>6. LinkKnown'
    BY <1>3 DEF Killed, Charge, Raise, TypeOK, PhaseKnown, SiteKnown, LinkKnown, WantKnown, IntentKept
  <2>7. IntentKept'
    BY <1>3 DEF Killed, Charge, Raise, TypeOK, WantKnown, IntentKept
  <2>8. CompleteIsWhole'
    BY <1>3 DEF Killed, Charge, Raise, TypeOK, PhaseKnown, WantKnown, SiteKnown, LinkKnown, CompleteIsWhole
  <2> QED
    BY <2>1, <2>2, <2>3, <2>4, <2>5, <2>6, <2>7, <2>8
<1>4. CASE EgressChanges
  <2>1. TypeOK'
    BY <1>4 DEF EgressChanges, Charge, TypeOK, SampleKnown, WantKnown
  <2>2. PhaseKnown'
    BY <1>4 DEF EgressChanges, Charge, TypeOK, PhaseKnown
  <2>3. SampleKnown'
    BY <1>4 DEF EgressChanges, Charge, TypeOK, SampleKnown
  <2>4. WantKnown'
    BY <1>4 DEF EgressChanges, Charge, TypeOK, WantKnown, IntentKept
  <2>5. SiteKnown'
    BY <1>4 DEF EgressChanges, Charge, TypeOK, PhaseKnown, SiteKnown, WantKnown
  <2>6. LinkKnown'
    BY <1>4 DEF EgressChanges, Charge, TypeOK, PhaseKnown, SiteKnown, LinkKnown, WantKnown, IntentKept
  <2>7. IntentKept'
    BY <1>4 DEF EgressChanges, Charge, TypeOK, WantKnown, IntentKept
  <2>8. CompleteIsWhole'
    BY <1>4 DEF EgressChanges, Charge, TypeOK, PhaseKnown, WantKnown, SiteKnown, LinkKnown, CompleteIsWhole
  <2> QED
    BY <2>1, <2>2, <2>3, <2>4, <2>5, <2>6, <2>7, <2>8
<1>5. CASE ExitStops
  <2>1. TypeOK'
    <3>1. /\ phase' \in Phases \cup {None} /\ pending' \in Intent \cup {None}
          /\ handoff' \in Intent \cup {None} /\ plan' \in Intent \cup {None}
          /\ link' \in Intent \cup {None} /\ exit' \in Intent \cup {None}
          /\ want' \in Intent \cup {None}
      BY <1>5 DEF ExitStops, Charge, TypeOK, SampleKnown, WantKnown
    <3>2. serving' \in BOOLEAN /\ guarded' \in BOOLEAN /\ verified' \in BOOLEAN
      BY <1>5 DEF ExitStops, Charge, TypeOK
    <3>3. linkLeft' \in BOOLEAN /\ failing' \in BOOLEAN /\ own' \in BOOLEAN
      BY <1>5 DEF ExitStops, Charge, TypeOK
    <3>4. dirs' \in [{"probe", "front"} -> {"none", "bare", "marked"}]
      BY <1>5 DEF ExitStops, Charge, TypeOK
    <3>5. route' \in Routes /\ egress' \in Egresses
      BY <1>5 DEF ExitStops, Charge, TypeOK, WantKnown
    <3>6. backup' \in [route : Routes, verified : BOOLEAN]
      BY <1>5 DEF ExitStops, Charge, TypeOK
    <3>7. /\ first' \in (Phases \cup {None}) \ FrontPhases
          /\ found' \in {"fresh", "pending", "resume"}
          /\ sample' \in Egresses \cup {None}
      BY <1>5 DEF ExitStops, Charge, TypeOK
    <3>8. probe' \in DOMAIN Waves /\ wave' \in 1..Waves[probe']
      BY <1>5 DEF ExitStops, Charge, TypeOK, Waves
    <3>9. faults' \in 0..MaxFaults
      BY <1>5 DEF ExitStops, Charge, TypeOK
    <3>10. pc' \in {"guard", "install", "handoff", "plan"} =>
             pending' = want' /\ phase' = "exit_applying"
      BY <1>5 DEF ExitStops, Charge, TypeOK, WantKnown
    <3> QED
      BY <3>1, <3>2, <3>3, <3>4, <3>5, <3>6, <3>7, <3>8, <3>9, <3>10 DEF TypeOK
  <2>2. PhaseKnown'
    BY <1>5 DEF ExitStops, Charge, TypeOK, PhaseKnown
  <2>3. SampleKnown'
    BY <1>5 DEF ExitStops, Charge, TypeOK, SampleKnown
  <2>4. WantKnown'
    BY <1>5 DEF ExitStops, Charge, TypeOK, WantKnown, IntentKept
  <2>5. SiteKnown'
    BY <1>5 DEF ExitStops, Charge, TypeOK, PhaseKnown, SiteKnown, WantKnown
  <2>6. LinkKnown'
    BY <1>5 DEF ExitStops, Charge, TypeOK, PhaseKnown, SiteKnown, LinkKnown, WantKnown, IntentKept
  <2>7. IntentKept'
    BY <1>5 DEF ExitStops, Charge, TypeOK, WantKnown, IntentKept
  <2>8. CompleteIsWhole'
    BY <1>5 DEF ExitStops, Charge, TypeOK, PhaseKnown, WantKnown, SiteKnown, LinkKnown, CompleteIsWhole
  <2> QED
    BY <2>1, <2>2, <2>3, <2>4, <2>5, <2>6, <2>7, <2>8
<1> QED
  BY <1>1, <1>2, <1>3, <1>4, <1>5

LEMMA InvNext ==
  ASSUME Inv, [Next]_vars
  PROVE  Inv'
BY InvStutter, InvBegin, InvProbe, InvExit, InvFront, InvWorld DEF Next, Step

LEMMA Invariance == Spec => []Inv
<1>1. Init => Inv
  BY InvInit
<1>2. Inv /\ [Next]_vars => Inv'
  BY InvNext
<1> QED
  BY <1>1, <1>2, PTL DEF Spec

-------------------------------------------------------------------------------
\* Every state has the types of the program's, and both markers are written
\* before the exit is touched.
THEOREM TypeCorrect == Spec => []TypeOK
<1>1. Inv => TypeOK
  BY DEF Inv
<1> QED
  BY <1>1, Invariance, PTL

\* Wherever a run dies, the PC still has the UUID, the path and the /32 of what
\* is installed on the exit.
THEOREM IntentIsKept == Spec => []IntentKept
<1>1. Inv => IntentKept
  BY DEF Inv
<1> QED
  BY <1>1, Invariance, PTL

\* The site has its own block, or a route that has passed the E2E probe, unless
\* the phase marker makes the next run stop.
THEOREM SiteIsAlwaysMarked == Spec => []SiteIsMarked
<1>1. Inv => SiteIsMarked
  BY DEF Inv, SiteKnown, Sound, SiteIsMarked
<1> QED
  BY <1>1, Invariance, PTL

\* A profile that the user is left with leads to the exit that is installed.
THEOREM LinkIsAlwaysVerified == Spec => []LinkIsVerified
<1>1. Inv => LinkIsVerified
  BY DEF Inv, LinkKnown, Leads, LinkIsVerified
<1> QED
  BY <1>1, Invariance, PTL

\* The phase "complete" is written only when everything agrees, and is taken back
\* before anything is changed again.
THEOREM CompleteMeansWhole == Spec => []CompleteIsWhole
<1>1. Inv => CompleteIsWhole
  BY DEF Inv
<1> QED
  BY <1>1, Invariance, PTL

\* No run replaces the UUID, the path or the /32 of an installed exit.
THEOREM ExitIntentNeverChanges == Spec => ExitIntentStable
<1>1. ASSUME Inv, [Next]_vars, exit # None
      PROVE  exit' = exit
  <2>1. CASE InstallExit \/ ApplyFails
    <3>1. CASE pc = "install"
      <4>1. exit = want
        BY <1>1, <3>1 DEF Inv, WantKnown, IntentKept, Complete
      <4> QED
        BY <2>1, <3>1, <4>1 DEF InstallExit, ApplyFails
    <3>2. CASE pc # "install"
      BY <2>1, <3>2 DEF InstallExit, ApplyFails
    <3> QED
      BY <3>1, <3>2
  <2>2. CASE UNCHANGED vars
    BY <2>2 DEF vars, host
  <2>3. CASE \/ Start \/ StopForAudit \/ RestoreIncomplete \/ FrontRefused \/ FrontFails
             \/ RollBackIncomplete \/ StepFails \/ MarkerFails \/ ProbeFails \/ Killed
             \/ EgressChanges \/ ExitStops
    BY <2>3 DEF Start, StopForAudit, RestoreIncomplete, FrontRefused, FrontFails,
       RollBackIncomplete, StepFails, MarkerFails, ProbeFails, Killed, EgressChanges, ExitStops,
       host
  <2>4. CASE Step /\ ~InstallExit
    BY <2>4 DEF Step, Check, Inspect, MarkProbe, InstallTemporary, Observe, RestoreRoute,
       UnmarkProbe, Prepare, Confirm, WritePending, MarkApplying, GuardExit, SaveHandoff,
       SavePlan, MarkReady, ClearPending, MarkFront, EnterFront, WithholdLink, SwitchRoute,
       EndToEnd, EndToEndFails, IssueLink, Finish, RollBack, WithdrawLink, UnmarkFront, host
  <2> QED
    BY <1>1, <2>1, <2>2, <2>3, <2>4 DEF Next
<1>2. Inv /\ [Next]_vars => [exit # None => exit' = exit]_vars
  BY <1>1
<1> QED
  BY <1>2, Invariance, PTL DEF Spec, ExitIntentStable

===============================================================================
