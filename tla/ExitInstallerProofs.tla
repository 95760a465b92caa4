-------------------------- MODULE ExitInstallerProofs --------------------------
(***************************************************************************)
(* What holds of ExitInstaller for any number of calls, requests, kills    *)
(* and failed steps, wherever among the steps they come.                   *)
(*                                                                         *)
(* The credentials of a handoff that was returned stay on the exit, and    *)
(* the manifest of the program is the last of its files.  The order of the *)
(* steps does not matter to the first: whichever of them are carried out,  *)
(* the secrets are those of the snapshot or those of the call, and these   *)
(* are the same once there are any.                                        *)
(*                                                                         *)
(* It matters to the rest: that the service runs the files on disk, and    *)
(* that a call is one step of ExitPromise.  The steps of the try block,    *)
(* and those of the except block behind its first command, are ordered by  *)
(* a rank, and the set of the steps that are left tells what has been done *)
(* (HostInv).                                                              *)
(***************************************************************************)
EXTENDS ExitInstaller, SequenceTheorems, TLAPS

Secrets(r, k) == Content("secrets", r, k)

\* The secrets file has the form that the program writes.
SecretsTyped(secrets) ==
  secrets = Absent \/ secrets = [client |-> secrets.client, key |-> secrets.key]

\* Before it has chosen its key pair a call has written nothing; afterwards the
\* secrets are the old or the new ones, and old ones are the new ones.
SecretsKnown ==
  /\ files = [f \in File |-> files[f]]
  /\ before.files = [f \in File |-> before.files[f]]
  /\ SecretsTyped(files["secrets"])
  /\ pc # "idle" => SecretsTyped(before.files["secrets"])
  /\ pc \in {"account", "inspect", "program", "keys", "probe"} =>
       files["secrets"] = before.files["secrets"]
  /\ pc \in {"probe", "apply", "undo"} =>
       /\ files["secrets"] \in {before.files["secrets"], New("secrets")}
       /\ before.files["secrets"] \in {Absent, New("secrets")}

\* The credentials that were given away are those of the snapshot.
GivenKnown ==
  given # Absent => files["secrets"] = given /\ (pc # "idle" => before.files["secrets"] = given)

Inv == SecretsKnown /\ GivenKnown /\ program \subseteq ProgramFile

-------------------------------------------------------------------------------
\* A file that the program writes has its form.
LEMMA NewIsTyped == SecretsTyped(New("secrets"))
BY DEF New, Content, SecretsTyped

\* What a step leaves of the secrets: they are as they were, or as it writes them.
LEMMA DoWritesSecrets ==
  ASSUME NEW step, NEW contents, SecretsKnown, Do(step, contents)
  PROVE  /\ files' = [f \in File |-> files'[f]]
         /\ files'["secrets"] \in {files["secrets"], contents["secrets"]}
<1>1. CASE step \in File
  <2>1. files' = [files EXCEPT ![step] = contents[step]]
    BY <1>1 DEF Do, WriteFile
  <2> QED
    BY <2>1, <1>1 DEF SecretsKnown, File
<1>2. CASE step \notin File
  <2>1. files' = files
    BY <1>2 DEF Do, Systemctl, Probe, host
  <2> QED
    BY <2>1 DEF SecretsKnown
<1> QED
  BY <1>1, <1>2

\* The same of a step that fails.
LEMMA FailureWritesSecrets ==
  ASSUME NEW step, NEW contents, SecretsKnown, MayHaveDone(step, contents)
  PROVE  /\ files' = [f \in File |-> files'[f]]
         /\ files'["secrets"] \in {files["secrets"], contents["secrets"]}
<1>1. CASE Do(step, contents)
  BY <1>1, DoWritesSecrets
<1>2. CASE files' = files
  BY <1>2 DEF SecretsKnown
<1> QED
  BY <1>1, <1>2 DEF MayHaveDone, host

\* Before the first call nothing has been given away.
LEMMA InvInit ==
  ASSUME Init
  PROVE  Inv
<1>1. /\ files = [f \in File |-> files[f]]
      /\ SecretsTyped(files["secrets"])
  <2>1. CASE \E r \in Requests, unit \in {"older", "loose", "current"} : files = InstalledFiles(r, unit)
    BY <2>1 DEF InstalledFiles, Content, SecretsTyped, File
  <2>2. CASE files = [f \in File |-> Absent]
    BY <2>2 DEF SecretsTyped, File
  <2>3. CASE files = [f \in File |-> IF f = "unit" THEN "foreign" ELSE Absent]
    BY <2>3 DEF SecretsTyped, File
  <2> QED
    BY <2>1, <2>2, <2>3 DEF Init
<1>2. before.files = files /\ pc = "idle" /\ given = Absent
  BY DEF Init, Now
<1>3. program \subseteq ProgramFile
  BY DEF Init
<1> QED
  BY <1>1, <1>2, <1>3 DEF Inv, SecretsKnown, GivenKnown

\* One step of anybody.
LEMMA InvNext ==
  ASSUME Inv, [Next]_vars
  PROVE  Inv'
<1> USE DEF Inv, SecretsKnown, GivenKnown, host, base, control, request, budget, New
<1>1. CASE Begin
  BY <1>1 DEF Begin, Now
<1>2. CASE EnsureUser
  BY <1>2 DEF EnsureUser, Refuse, Finish, Goto
<1>3. CASE Inspect
  BY <1>3 DEF Inspect, Refuse, Finish, Goto
<1>4. CASE WriteProgram
  <2>1. program' \subseteq ProgramFile
    BY <1>4 DEF WriteProgram, Program, ProgramFile
  <2> QED
    BY <1>4, <2>1 DEF WriteProgram
<1>5. CASE VerifyProgram
  BY <1>5 DEF VerifyProgram, Refuse, Finish, Goto
<1>6. CASE ChooseKeys
  <2>1. CASE files["secrets"] # Absent /\ files["secrets"].client = want.client
    <3>1. /\ key' = files["secrets"].key /\ pc' = "probe"
          /\ UNCHANGED <<files, before, want, given, program>>
      BY <1>6, <2>1 DEF ChooseKeys, KeyOf, Goto
    <3>2. New("secrets")' = files["secrets"]
      BY <3>1, <2>1 DEF SecretsTyped, Content
    <3> QED
      BY <1>6, <3>1, <3>2 DEF ChooseKeys
  <2>2. CASE files["secrets"] = Absent
    BY <1>6, <2>2 DEF ChooseKeys, Goto
  <2>3. CASE files["secrets"] # Absent /\ files["secrets"].client # want.client
    BY <1>6, <2>3 DEF ChooseKeys, Refuse, Finish
  <2> QED
    BY <2>1, <2>2, <2>3
<1>7. CASE ProbeService
  BY <1>7 DEF ProbeService, Refuse, Finish
<1>8. CASE UnsafeHost
  BY <1>8 DEF UnsafeHost, CheckFails, Finish
<1>9. CASE DownloadFails
  BY <1>9 DEF DownloadFails, CheckFails, Finish
<1>10. CASE CandidateFails
  BY <1>10 DEF CandidateFails, CheckFails, Finish
<1>11. CASE Apply
  <2>1. /\ pc = "apply" /\ pc' \in {"apply", "undo"}
        /\ UNCHANGED <<before, want, key, given, program>>
    BY <1>11 DEF Apply
  <2>2. /\ files' = [f \in File |-> files'[f]]
        /\ files'["secrets"] \in {files["secrets"], New("secrets")}
    BY <1>11, DoWritesSecrets DEF Apply, File
  <2> QED
    BY <2>1, <2>2, NewIsTyped
<1>12. CASE Succeed
  BY <1>12 DEF Succeed, Finish
<1>13. CASE StepFails
  <2>1. /\ pc = "apply" /\ pc' \in {"apply", "undo"}
        /\ UNCHANGED <<before, want, key, given, program>>
    BY <1>13 DEF StepFails, StartUndo
  <2>2. /\ files' = [f \in File |-> files'[f]]
        /\ files'["secrets"] \in {files["secrets"], New("secrets")}
    BY <1>13, FailureWritesSecrets DEF StepFails, StartUndo, File
  <2> QED
    BY <2>1, <2>2, NewIsTyped
<1>14. CASE NotServing
  BY <1>14 DEF NotServing, StartUndo
<1>15. CASE Undo
  <2>1. /\ pc = "undo" /\ pc' \in {"apply", "undo"}
        /\ UNCHANGED <<before, want, key, given, program>>
    BY <1>15 DEF Undo
  <2>2. /\ files' = [f \in File |-> files'[f]]
        /\ files'["secrets"] \in {files["secrets"], before.files["secrets"]}
    BY <1>15, DoWritesSecrets DEF Undo, File
  <2> QED
    BY <2>1, <2>2, NewIsTyped
<1>16. CASE UndoFails
  <2>1. /\ pc = "undo" /\ pc' \in {"apply", "undo"}
        /\ UNCHANGED <<before, want, key, given, program>>
    BY <1>16 DEF UndoFails
  <2>2. /\ files' = [f \in File |-> files'[f]]
        /\ files'["secrets"] \in {files["secrets"], before.files["secrets"]}
    BY <1>16, FailureWritesSecrets DEF UndoFails, File
  <2> QED
    BY <2>1, <2>2, NewIsTyped
<1>17. CASE Raise
  BY <1>17 DEF Raise, Finish
<1>18. CASE Killed
  BY <1>18 DEF Killed, Finish
<1>19. CASE Reboot
  BY <1>19 DEF Reboot, Finish
<1>20. CASE ServiceFails
  BY <1>20 DEF ServiceFails, Meddled
<1>21. CASE ServiceComesBack
  BY <1>21 DEF ServiceComesBack, Meddled
<1>22. CASE ServiceGivesUp
  BY <1>22 DEF ServiceGivesUp, Meddled
<1>23. CASE UNCHANGED vars
  BY <1>23 DEF vars
<1> QED
  BY <1>1, <1>2, <1>3, <1>4, <1>5, <1>6, <1>7, <1>8, <1>9, <1>10, <1>11, <1>12, <1>13, <1>14,
     <1>15, <1>16, <1>17, <1>18, <1>19, <1>20, <1>21, <1>22, <1>23 DEF Next

-------------------------------------------------------------------------------
\* What is known of the secrets holds always.
LEMMA Invariance == Spec => []Inv
<1>1. Init => Inv
  BY InvInit
<1>2. Inv /\ [Next]_vars => Inv'
  BY InvNext
<1> QED
  BY <1>1, <1>2, PTL DEF Spec

\* The credentials of a handoff that was returned are never lost, whatever later
\* calls are asked for and wherever they are cut off: a configured client goes on
\* working.
THEOREM CredentialsAreKept == Spec => []CredentialsKept
<1>1. Inv => CredentialsKept
  BY DEF Inv, GivenKnown, CredentialsKept
<1> QED
  BY <1>1, Invariance, PTL

-------------------------------------------------------------------------------
\* The steps that are left, in order.

\* Every step comes before the ones of a higher rank, and none comes twice.
Ascending(rank, steps) == \A i, j \in 1..Len(steps) : i < j => rank[steps[i]] < rank[steps[j]]

\* The order of the try block.
ForwardRank ==
  [step \in Steps |->
     CASE step = "secrets" -> 1
       [] step = "config" -> 2
       [] step = "unit" -> 3
       [] step = "daemon-reload" -> 4
       [] step \in {"enable", "disable"} -> 5
       [] step \in {"restart", "start", "stop"} -> 6
       [] step = "listen" -> 7
       [] step = "settle" -> 8
       [] step = "handoff" -> 9
       [] step = "receipt" -> 10
       [] step = "plan" -> 11]

\* The order of the except block behind its first command.
UndoRank(hadUnit) ==
  [step \in Steps |->
     CASE step = "disable" -> IF hadUnit THEN 8 ELSE 0
       [] step = "secrets" -> 1
       [] step = "config" -> 2
       [] step = "unit" -> 3
       [] step = "handoff" -> 4
       [] step = "receipt" -> 5
       [] step = "plan" -> 6
       [] step = "daemon-reload" -> 7
       [] step = "enable" -> 8
       [] OTHER -> 9]

\* Without its first step an ascending sequence still ascends.
LEMMA TailAscends ==
  ASSUME NEW S, NEW steps \in Seq(S), steps # <<>>, NEW rank \in [S -> Int], Ascending(rank, steps)
  PROVE  /\ Ascending(rank, Tail(steps))
         /\ Head(steps) \in Range(steps)
         /\ Range(Tail(steps)) = Range(steps) \ {Head(steps)}
         /\ \A x \in Range(Tail(steps)) : rank[Head(steps)] < rank[x]
<1>1. /\ Len(steps) \in Nat \ {0}
      /\ DOMAIN steps = 1..Len(steps)
      /\ \A i \in 1..Len(steps) : steps[i] \in S
      /\ Head(steps) = steps[1]
  BY EmptySeq, LenProperties, ElementOfSeq
<1>2. /\ Tail(steps) \in Seq(S)
      /\ Len(Tail(steps)) = Len(steps) - 1
      /\ \A i \in 1..Len(Tail(steps)) : Tail(steps)[i] = steps[i + 1]
      /\ DOMAIN Tail(steps) = 1..Len(Tail(steps))
  BY HeadTailProperties, LenProperties
<1>3. \A i \in 2..Len(steps) : rank[steps[1]] < rank[steps[i]] /\ steps[i] # steps[1]
  <2>1. \A i \in 2..Len(steps) : rank[steps[1]] < rank[steps[i]]
    BY <1>1 DEF Ascending
  <2>2. \A x \in S : rank[x] \in Int
    OBVIOUS
  <2> QED
    BY <2>1, <2>2, <1>1
<1>4. Range(steps) = {steps[i] : i \in 1..Len(steps)} /\ Range(Tail(steps)) = {steps[i] : i \in 2..Len(steps)}
  <2>1. Range(steps) = {steps[i] : i \in 1..Len(steps)}
    BY <1>1 DEF Range
  <2>2. ASSUME NEW x \in Range(Tail(steps))
        PROVE  \E i \in 2..Len(steps) : x = steps[i]
    <3>1. PICK j \in 1..Len(Tail(steps)) : x = Tail(steps)[j]
      BY <1>2 DEF Range
    <3> QED
      BY <3>1, <1>1, <1>2
  <2>3. ASSUME NEW i \in 2..Len(steps)
        PROVE  steps[i] \in Range(Tail(steps))
    <3>1. i - 1 \in 1..Len(Tail(steps)) /\ Tail(steps)[i - 1] = steps[i]
      BY <1>1, <1>2
    <3> QED
      BY <3>1, <1>2 DEF Range
  <2> QED
    BY <2>1, <2>2, <2>3
<1>5. Ascending(rank, Tail(steps))
  BY <1>1, <1>2 DEF Ascending
<1>6. Range(Tail(steps)) = Range(steps) \ {Head(steps)}
  BY <1>1, <1>3, <1>4
<1> QED
  BY <1>1, <1>3, <1>4, <1>5, <1>6

\* The rest of a sequence has no other steps.
LEMMA TailRange ==
  ASSUME NEW S, NEW steps \in Seq(S), steps # <<>>
  PROVE  Range(Tail(steps)) \subseteq Range(steps)
<1>1. /\ Len(steps) \in Nat \ {0} /\ DOMAIN steps = 1..Len(steps)
  BY EmptySeq, LenProperties
<1>2. /\ Tail(steps) \in Seq(S) /\ Len(Tail(steps)) = Len(steps) - 1
      /\ \A i \in 1..Len(Tail(steps)) : Tail(steps)[i] = steps[i + 1]
      /\ DOMAIN Tail(steps) = 1..Len(Tail(steps))
  BY HeadTailProperties, LenProperties
<1>3. ASSUME NEW i \in 1..Len(Tail(steps))
      PROVE  Tail(steps)[i] \in Range(steps)
  <2>1. i + 1 \in DOMAIN steps /\ Tail(steps)[i] = steps[i + 1]
    BY <1>1, <1>2
  <2> QED
    BY <2>1 DEF Range
<1> QED
  BY <1>2, <1>3 DEF Range

\* A sequence is its first step and the rest.
LEMMA HeadAndTail ==
  ASSUME NEW S, NEW steps \in Seq(S), steps # <<>>
  PROVE  Range(steps) = {Head(steps)} \cup Range(Tail(steps))
<1>1. /\ Len(steps) \in Nat \ {0} /\ DOMAIN steps = 1..Len(steps) /\ Head(steps) = steps[1]
  BY EmptySeq, LenProperties
<1>2. Range(Tail(steps)) \subseteq Range(steps)
  BY TailRange
<1>3. /\ Tail(steps) \in Seq(S) /\ Len(Tail(steps)) = Len(steps) - 1
      /\ \A i \in 1..Len(Tail(steps)) : Tail(steps)[i] = steps[i + 1]
      /\ DOMAIN Tail(steps) = 1..Len(Tail(steps))
  BY HeadTailProperties, LenProperties
<1>4. Head(steps) \in Range(steps)
  BY <1>1 DEF Range
<1>5. ASSUME NEW i \in DOMAIN steps, i # 1
      PROVE  steps[i] \in Range(Tail(steps))
  <2>1. i - 1 \in 1..Len(Tail(steps)) /\ Tail(steps)[i - 1] = steps[(i - 1) + 1]
    BY <1>1, <1>3, <1>5
  <2>2. (i - 1) + 1 = i
    BY <1>1
  <2> QED
    BY <1>3, <2>1, <2>2 DEF Range
<1> QED
  BY <1>1, <1>2, <1>4, <1>5 DEF Range

\* Two ascending sequences follow one another.
LEMMA ConcatAscends ==
  ASSUME NEW S, NEW s \in Seq(S), NEW t \in Seq(S), NEW rank \in [S -> Int],
         Ascending(rank, s), Ascending(rank, t),
         \A x \in Range(s), y \in Range(t) : rank[x] < rank[y]
  PROVE  /\ s \o t \in Seq(S)
         /\ Ascending(rank, s \o t)
         /\ Range(s \o t) = Range(s) \cup Range(t)
<1>1. /\ Len(s) \in Nat /\ Len(t) \in Nat
      /\ DOMAIN s = 1..Len(s) /\ DOMAIN t = 1..Len(t)
  BY LenProperties
<1>2. /\ s \o t \in Seq(S)
      /\ Len(s \o t) = Len(s) + Len(t)
      /\ DOMAIN (s \o t) = 1..(Len(s) + Len(t))
      /\ \A i \in 1..(Len(s) + Len(t)) : (s \o t)[i] = IF i <= Len(s) THEN s[i] ELSE t[i - Len(s)]
  BY ConcatProperties, LenProperties
<1>3. ASSUME NEW i \in 1..Len(s \o t), NEW j \in 1..Len(s \o t), i < j
      PROVE  rank[(s \o t)[i]] < rank[(s \o t)[j]]
  <2>1. CASE j <= Len(s)
    BY <2>1, <1>1, <1>2, <1>3 DEF Ascending
  <2>2. CASE i > Len(s)
    <3>1. i - Len(s) \in 1..Len(t) /\ j - Len(s) \in 1..Len(t) /\ i - Len(s) < j - Len(s)
      BY <2>2, <1>1, <1>2, <1>3
    <3>2. rank[t[i - Len(s)]] < rank[t[j - Len(s)]]
      BY <3>1 DEF Ascending
    <3>3. /\ i \in 1..(Len(s) + Len(t)) /\ j \in 1..(Len(s) + Len(t))
          /\ ~(i <= Len(s)) /\ ~(j <= Len(s))
      BY <2>2, <1>1, <1>2, <1>3
    <3> QED
      BY <3>2, <3>3, <1>2
  <2>3. CASE i <= Len(s) /\ j > Len(s)
    <3>1. i \in 1..Len(s) /\ j - Len(s) \in 1..Len(t)
      BY <2>3, <1>1, <1>2
    <3>2. s[i] \in Range(s) /\ t[j - Len(s)] \in Range(t)
      BY <3>1, <1>1 DEF Range
    <3> QED
      BY <3>1, <3>2, <2>3, <1>1, <1>2
  <2> QED
    BY <2>1, <2>2, <2>3, <1>1, <1>2
<1>4. Range(s \o t) = Range(s) \cup Range(t)
  <2>1. ASSUME NEW x \in Range(s \o t)
        PROVE  x \in Range(s) \cup Range(t)
    <3>1. PICK i \in 1..(Len(s) + Len(t)) : x = (s \o t)[i]
      BY <1>2 DEF Range
    <3>2. CASE i <= Len(s)
      BY <3>1, <3>2, <1>1, <1>2 DEF Range
    <3>3. CASE i > Len(s)
      <4>1. i - Len(s) \in 1..Len(t) /\ x = t[i - Len(s)]
        BY <3>1, <3>3, <1>1, <1>2
      <4> QED
        BY <4>1, <1>1 DEF Range
    <3> QED
      BY <3>2, <3>3, <1>1
  <2>2. ASSUME NEW i \in 1..Len(s)
        PROVE  s[i] \in Range(s \o t)
    <3>1. i \in 1..(Len(s) + Len(t)) /\ (s \o t)[i] = s[i]
      BY <1>1, <1>2
    <3> QED
      BY <3>1, <1>2 DEF Range
  <2>3. ASSUME NEW i \in 1..Len(t)
        PROVE  t[i] \in Range(s \o t)
    <3>1. i + Len(s) \in 1..(Len(s) + Len(t)) /\ (s \o t)[i + Len(s)] = t[i]
      BY <1>1, <1>2
    <3> QED
      BY <3>1, <1>2 DEF Range
  <2> QED
    BY <2>1, <2>2, <2>3, <1>1 DEF Range
<1> QED
  BY <1>2, <1>3, <1>4 DEF Ascending

\* The sequence lists the given steps, in the order of their ranks.
Lists(rank, steps, these) == steps \in Seq(Steps) /\ Ascending(rank, steps) /\ Range(steps) = these

\* The same of what two sequences list.
LEMMA ListsConcat ==
  ASSUME NEW rank \in [Steps -> Int], NEW s, NEW t, NEW first, NEW second,
         Lists(rank, s, first), Lists(rank, t, second),
         \A x \in first, y \in second : rank[x] < rank[y]
  PROVE  Lists(rank, s \o t, first \cup second)
<1>1. /\ s \in Seq(Steps) /\ t \in Seq(Steps) /\ Ascending(rank, s) /\ Ascending(rank, t)
      /\ Range(s) = first /\ Range(t) = second
  BY DEF Lists
<1>2. \A x \in Range(s), y \in Range(t) : rank[x] < rank[y]
  BY <1>1
<1>3. s \o t \in Seq(Steps) /\ Ascending(rank, s \o t) /\ Range(s \o t) = Range(s) \cup Range(t)
  <2>1. s \in Seq(Steps) /\ t \in Seq(Steps) /\ Ascending(rank, s) /\ Ascending(rank, t)
    BY <1>1
  <2> QED
    BY <1>2, <2>1, ConcatAscends
<1> QED
  BY <1>1, <1>3 DEF Lists

\* A step that is taken on a condition.
LEMMA OnlyLists ==
  ASSUME NEW condition \in BOOLEAN, NEW step \in Steps, NEW rank
  PROVE  Lists(rank, Only(condition, step), IF condition THEN {step} ELSE {})
BY DEF Only, Ascending, Range, Lists

\* Every step has a rank.
LEMMA RanksAreNumbers ==
  /\ ForwardRank \in [Steps -> Int]
  /\ \A hadUnit \in BOOLEAN : UndoRank(hadUnit) \in [Steps -> Int]
<1>1. \A step \in Steps : ForwardRank[step] \in Int
  BY DEF ForwardRank, Steps, File, SystemctlCommands
<1>2. \A hadUnit \in BOOLEAN : \A step \in Steps : UndoRank(hadUnit)[step] \in Int
  BY DEF UndoRank, Steps, File, SystemctlCommands
<1> QED
  BY <1>1, <1>2 DEF ForwardRank, UndoRank

\* The steps of the try block.
ForwardSet(activeBefore, enabledBefore) ==
  {"secrets", "config", "unit"}
    \cup (IF UnitRewrite THEN {"daemon-reload"} ELSE {})
    \cup (IF ~enabledBefore THEN {"enable"} ELSE {})
    \cup (IF activeBefore /\ (ConfigChanged \/ UnitChanged) THEN {"restart"} ELSE {})
    \cup (IF ~activeBefore THEN {"start"} ELSE {})
    \cup {"listen", "settle", "handoff", "receipt", "plan"}

\* They come in the order of their ranks.
LEMMA ForwardStepsAscend ==
  ASSUME NEW activeBefore \in BOOLEAN, NEW enabledBefore \in BOOLEAN
  PROVE  Lists(ForwardRank, ForwardSteps(activeBefore, enabledBefore), ForwardSet(activeBefore, enabledBefore))
<1> DEFINE a == <<"secrets", "config", "unit">>
           b == Only(UnitRewrite, "daemon-reload")
           c == Only(~enabledBefore, "enable")
           d == Only(activeBefore /\ (ConfigChanged \/ UnitChanged), "restart")
           e == Only(~activeBefore, "start")
           f == <<"listen", "settle", "handoff", "receipt", "plan">>
           A == {"secrets", "config", "unit"}
           B == IF UnitRewrite THEN {"daemon-reload"} ELSE {}
           C == IF ~enabledBefore THEN {"enable"} ELSE {}
           D == IF activeBefore /\ (ConfigChanged \/ UnitChanged) THEN {"restart"} ELSE {}
           E == IF ~activeBefore THEN {"start"} ELSE {}
           F == {"listen", "settle", "handoff", "receipt", "plan"}
           R == ForwardRank
<1>1. /\ R \in [Steps -> Int]
      /\ R["secrets"] = 1 /\ R["config"] = 2 /\ R["unit"] = 3 /\ R["daemon-reload"] = 4 /\ R["enable"] = 5
      /\ R["restart"] = 6 /\ R["start"] = 6 /\ R["listen"] = 7 /\ R["settle"] = 8
      /\ R["handoff"] = 9 /\ R["receipt"] = 10 /\ R["plan"] = 11
  BY RanksAreNumbers DEF ForwardRank, Steps, File, SystemctlCommands
<1>2. Lists(R, a, A)
  BY <1>1 DEF Ascending, Range, Steps, File, Lists
<1>3. Lists(R, f, F)
  <2>1. /\ f \in Seq(Steps) /\ Len(f) = 5
        /\ f[1] = "listen" /\ f[2] = "settle" /\ f[3] = "handoff" /\ f[4] = "receipt" /\ f[5] = "plan"
    BY DEF Steps, File
  <2>2. Ascending(R, f)
    BY <1>1, <2>1 DEF Ascending
  <2>3. Range(f) = F
    BY <2>1 DEF Range
  <2> QED
    BY <2>1, <2>2, <2>3 DEF Lists
<1>4. Lists(R, b, B) /\ Lists(R, c, C) /\ Lists(R, d, D) /\ Lists(R, e, E)
  BY OnlyLists DEF Steps, SystemctlCommands, UnitRewrite, ConfigChanged, UnitChanged
<1>5. /\ \A x \in A : R[x] < 4
      /\ \A x \in B : R[x] = 4
      /\ \A x \in C : R[x] = 5
      /\ \A x \in D : R[x] = 6 /\ E = {}
      /\ \A x \in E : R[x] = 6
      /\ \A x \in F : R[x] > 6
      /\ A \subseteq Steps /\ B \subseteq Steps /\ C \subseteq Steps /\ D \subseteq Steps
      /\ E \subseteq Steps /\ F \subseteq Steps
  BY <1>1 DEF Steps, File, SystemctlCommands
<1>6. ForwardSteps(activeBefore, enabledBefore) = a \o b \o c \o d \o e \o f
  BY DEF ForwardSteps
<1>7. ForwardSet(activeBefore, enabledBefore) = A \cup B \cup C \cup D \cup E \cup F
  BY DEF ForwardSet
<1> HIDE DEF a, b, c, d, e, f, A, B, C, D, E, F, R
<1>8. R \in [Steps -> Int] /\ \A x \in Steps : R[x] \in Int
  BY <1>1
<1>9. Lists(R, a \o b, A \cup B)
  BY <1>2, <1>4, <1>5, <1>8, ListsConcat
<1>10. Lists(R, a \o b \o c, A \cup B \cup C)
  <2>1. \A x \in A \cup B, y \in C : R[x] < R[y]
    BY <1>5, <1>8
  <2> QED
    BY <1>4, <1>8, <1>9, <2>1, ListsConcat
<1>11. Lists(R, a \o b \o c \o d, A \cup B \cup C \cup D)
  <2>1. \A x \in A \cup B \cup C, y \in D : R[x] < R[y]
    BY <1>5, <1>8
  <2> QED
    BY <1>4, <1>8, <1>10, <2>1, ListsConcat
<1>12. Lists(R, a \o b \o c \o d \o e, A \cup B \cup C \cup D \cup E)
  <2>1. \A x \in A \cup B \cup C \cup D, y \in E : R[x] < R[y]
    BY <1>5, <1>8
  <2> QED
    BY <1>4, <1>8, <1>11, <2>1, ListsConcat
<1>13. Lists(R, a \o b \o c \o d \o e \o f, A \cup B \cup C \cup D \cup E \cup F)
  <2>1. \A x \in A \cup B \cup C \cup D \cup E, y \in F : R[x] < R[y]
    BY <1>5, <1>8
  <2> QED
    BY <1>3, <1>8, <1>12, <2>1, ListsConcat
<1> QED
  BY <1>6, <1>7, <1>13 DEF R

\* The managed files, as the rollback restores them.
LEMMA ManagedAscends ==
  ASSUME NEW hadUnit \in BOOLEAN
  PROVE  Lists(UndoRank(hadUnit), Managed, File)
<1>1. /\ Managed \in Seq(Steps) /\ Len(Managed) = 6
      /\ Managed[1] = "secrets" /\ Managed[2] = "config" /\ Managed[3] = "unit"
      /\ Managed[4] = "handoff" /\ Managed[5] = "receipt" /\ Managed[6] = "plan"
  BY DEF Managed, Steps, File
<1>2. /\ UndoRank(hadUnit)["secrets"] = 1 /\ UndoRank(hadUnit)["config"] = 2 /\ UndoRank(hadUnit)["unit"] = 3
      /\ UndoRank(hadUnit)["handoff"] = 4 /\ UndoRank(hadUnit)["receipt"] = 5 /\ UndoRank(hadUnit)["plan"] = 6
  BY DEF UndoRank, Steps, File
<1>3. Ascending(UndoRank(hadUnit), Managed)
  BY <1>1, <1>2 DEF Ascending
<1>4. Range(Managed) = File
  BY <1>1 DEF Range, File, Managed
<1> QED
  BY <1>1, <1>3, <1>4 DEF Lists

\* When no command was tried, the except block restores the files.
LEMMA UndoOfFiles == UndoSteps(FALSE) = Managed
<1>1. Managed \in Seq(Steps)
  BY ManagedAscends DEF Lists
<1> QED
  BY <1>1, ConcatEmptySeq, EmptySeq DEF UndoSteps, Only

\* Otherwise it stops the service first, and this comes then.
Afterwards ==
  (IF ~HadUnit THEN {"disable"} ELSE {})
    \cup File
    \cup {"daemon-reload"}
    \cup (IF HadUnit THEN {IF wasEnabled THEN "enable" ELSE "disable"} ELSE {})
    \cup (IF HadUnit THEN {IF wasActive THEN "start" ELSE "stop"} ELSE {})

\* The sequence lists these steps behind its first one.
StopsThen(rank, steps, these) ==
  steps \in Seq(Steps) /\ steps # <<>> /\ Head(steps) = "stop" /\ Lists(rank, Tail(steps), these)

\* Steps that follow on the stop of the service and on those behind it.
LEMMA StopsConcat ==
  ASSUME NEW rank \in [Steps -> Int], NEW s, NEW t, NEW first, NEW second,
         StopsThen(rank, s, first), Lists(rank, t, second),
         \A x \in first, y \in second : rank[x] < rank[y]
  PROVE  StopsThen(rank, s \o t, first \cup second)
<1>1. /\ s \in Seq(Steps) /\ s # <<>> /\ Head(s) = "stop" /\ Lists(rank, Tail(s), first)
      /\ t \in Seq(Steps)
  BY DEF StopsThen, Lists
<1>2. Len(s) \in Nat \ {0} /\ Len(t) \in Nat /\ s[1] = "stop"
  BY <1>1, EmptySeq, LenProperties
<1>3. /\ Tail(s) \in Seq(Steps) /\ Len(Tail(s)) = Len(s) - 1
      /\ \A i \in 1..Len(Tail(s)) : Tail(s)[i] = s[i + 1]
  BY <1>1, HeadTailProperties
<1> DEFINE all == s \o t
<1>4. /\ all \in Seq(Steps) /\ Len(all) = Len(s) + Len(t)
      /\ \A i \in 1..(Len(s) + Len(t)) : all[i] = IF i <= Len(s) THEN s[i] ELSE t[i - Len(s)]
  BY <1>1, ConcatProperties
<1> DEFINE rest == Tail(s) \o t
<1>5. /\ rest \in Seq(Steps) /\ Len(rest) = Len(Tail(s)) + Len(t)
      /\ \A i \in 1..(Len(Tail(s)) + Len(t)) :
           rest[i] = IF i <= Len(Tail(s)) THEN Tail(s)[i] ELSE t[i - Len(Tail(s))]
  BY <1>1, <1>3, ConcatProperties
<1>6. Lists(rank, rest, first \cup second)
  BY <1>1, ListsConcat
<1> HIDE DEF all, rest
<1>7. all # <<>> /\ Head(all) = "stop"
  <2>1. Len(all) # 0
    BY <1>2, <1>4
  <2>2. all # <<>>
    BY <2>1, EmptySeq
  <2>3. all[1] = "stop"
    BY <1>2, <1>4
  <2> QED
    BY <2>2, <2>3, <1>4
<1>8. Tail(all) = rest
  <2>1. /\ Tail(all) \in Seq(Steps) /\ Len(Tail(all)) = Len(all) - 1
        /\ \A i \in 1..Len(Tail(all)) : Tail(all)[i] = all[i + 1]
    BY <1>4, <1>7, HeadTailProperties
  <2>2. Len(Tail(all)) = Len(rest) /\ Len(rest) = (Len(s) - 1) + Len(t)
    BY <2>1, <1>2, <1>3, <1>4, <1>5
  <2>3. ASSUME NEW i \in 1..Len(rest)
        PROVE  Tail(all)[i] = rest[i]
    <3>1. Tail(all)[i] = IF i + 1 <= Len(s) THEN s[i + 1] ELSE t[(i + 1) - Len(s)]
      <4>1. i + 1 \in 1..(Len(s) + Len(t)) /\ Tail(all)[i] = all[i + 1]
        BY <2>1, <2>2, <1>2
      <4> QED
        BY <4>1, <1>4
    <3>2. rest[i] = IF i <= Len(s) - 1 THEN s[i + 1] ELSE t[i - (Len(s) - 1)]
      BY <2>2, <1>2, <1>3, <1>5
    <3>3. /\ i + 1 <= Len(s) <=> i <= Len(s) - 1
          /\ (i + 1) - Len(s) = i - (Len(s) - 1)
      BY <2>2, <1>2
    <3>4. CASE i + 1 <= Len(s)
      BY <3>1, <3>2, <3>3, <3>4
    <3>5. CASE ~(i + 1 <= Len(s))
      <4>1. Tail(all)[i] = t[(i + 1) - Len(s)] /\ rest[i] = t[i - (Len(s) - 1)]
        BY <3>1, <3>2, <3>3, <3>5
      <4> QED
        BY <4>1, <3>3
    <3> QED
      BY <3>4, <3>5
  <2> QED
    BY <2>1, <2>2, <2>3, <1>5, SeqEqual
<1> QED
  BY <1>4, <1>6, <1>7, <1>8 DEF StopsThen, all

\* Behind its first command the except block is ordered, too.
LEMMA UndoStepsAscend ==
  ASSUME HadUnit \in BOOLEAN, wasEnabled \in BOOLEAN, wasActive \in BOOLEAN
  PROVE  StopsThen(UndoRank(HadUnit), UndoSteps(TRUE), Afterwards)
<1> DEFINE a == <<"stop">>
           b == Only(~HadUnit, "disable")
           c == Managed
           d == <<"daemon-reload">>
           e == Only(HadUnit, IF wasEnabled THEN "enable" ELSE "disable")
           f == Only(HadUnit, IF wasActive THEN "start" ELSE "stop")
           B == IF ~HadUnit THEN {"disable"} ELSE {}
           D == {"daemon-reload"}
           E == IF HadUnit THEN {IF wasEnabled THEN "enable" ELSE "disable"} ELSE {}
           F == IF HadUnit THEN {IF wasActive THEN "start" ELSE "stop"} ELSE {}
           R == UndoRank(HadUnit)
<1>1. /\ R \in [Steps -> Int]
      /\ \A x \in B : R[x] = 0
      /\ \A x \in File : R[x] > 0 /\ R[x] < 7
      /\ \A x \in D : R[x] = 7
      /\ \A x \in E : R[x] = 8
      /\ \A x \in F : R[x] = 9
      /\ B \subseteq Steps /\ File \subseteq Steps /\ D \subseteq Steps
      /\ E \subseteq Steps /\ F \subseteq Steps
  <2>1. R \in [Steps -> Int]
    BY RanksAreNumbers
  <2>2. /\ R["disable"] = IF HadUnit THEN 8 ELSE 0
        /\ R["daemon-reload"] = 7 /\ R["enable"] = 8 /\ R["start"] = 9 /\ R["stop"] = 9
    BY DEF UndoRank, Steps, File, SystemctlCommands
  <2>3. \A x \in File : R[x] > 0 /\ R[x] < 7
    BY DEF UndoRank, Steps, File, SystemctlCommands
  <2>4. /\ B \subseteq Steps /\ File \subseteq Steps /\ D \subseteq Steps
        /\ E \subseteq Steps /\ F \subseteq Steps
    BY DEF Steps, SystemctlCommands
  <2> QED
    BY <2>1, <2>2, <2>3, <2>4
<1>2. StopsThen(R, a, {})
  <2>1. a \in Seq(Steps) /\ a # <<>> /\ Head(a) = "stop" /\ Tail(a) = <<>>
    BY DEF Steps, SystemctlCommands
  <2>2. Lists(R, <<>>, {})
    BY DEF Lists, Ascending, Range
  <2> QED
    BY <2>1, <2>2 DEF StopsThen
<1>3. Lists(R, c, File)
  BY ManagedAscends
<1>4. Lists(R, d, D)
  BY DEF Steps, SystemctlCommands, Ascending, Range, Lists
<1>5. Lists(R, b, B) /\ Lists(R, e, E) /\ Lists(R, f, F)
  BY OnlyLists DEF Steps, SystemctlCommands
<1>6. UndoSteps(TRUE) = a \o b \o c \o d \o e \o f
  BY DEF UndoSteps, Only
<1>7. Afterwards = B \cup File \cup D \cup E \cup F
  BY DEF Afterwards
<1> HIDE DEF a, b, c, d, e, f, B, D, E, F, R
<1>8. \A x \in Steps : R[x] \in Int
  BY <1>1
<1>9. StopsThen(R, a \o b, B)
  BY <1>1, <1>2, <1>5, StopsConcat
<1>10. StopsThen(R, a \o b \o c, B \cup File)
  <2>1. \A x \in B, y \in File : R[x] < R[y]
    BY <1>1, <1>8
  <2> QED
    BY <1>1, <1>3, <1>9, <2>1, StopsConcat
<1>11. StopsThen(R, a \o b \o c \o d, B \cup File \cup D)
  <2>1. \A x \in B \cup File, y \in D : R[x] < R[y]
    BY <1>1, <1>8
  <2> QED
    BY <1>1, <1>4, <1>10, <2>1, StopsConcat
<1>12. StopsThen(R, a \o b \o c \o d \o e, B \cup File \cup D \cup E)
  <2>1. \A x \in B \cup File \cup D, y \in E : R[x] < R[y]
    BY <1>1, <1>8
  <2> QED
    BY <1>1, <1>5, <1>11, <2>1, StopsConcat
<1>13. StopsThen(R, a \o b \o c \o d \o e \o f, B \cup File \cup D \cup E \cup F)
  <2>1. \A x \in B \cup File \cup D \cup E, y \in F : R[x] < R[y]
    BY <1>1, <1>8
  <2> QED
    BY <1>1, <1>5, <1>12, <2>1, StopsConcat
<1> QED
  BY <1>6, <1>7, <1>13 DEF R

-------------------------------------------------------------------------------
\* The inductive invariant of the host.

\* The steps that are left.
Left == Range(todo)

\* A unit of somebody else's is loaded only where it is on disk.
NoneForeign == loaded = "foreign" => files["unit"] = "foreign"

\* The unit on disk is not somebody else's, and systemd has read one if there is one.
UnitFound == files["unit"] # "foreign" /\ (loaded = Absent <=> files["unit"] = Absent)

\* Between calls the process runs the configuration on disk, and systemd has read
\* the unit on disk, unless that is doubtful, and a successful call has left files
\* that belong together.
BetweenCalls ==
  pc = "idle" =>
    /\ outcome # "running"
    /\ doubt \/ (runs \in {Absent, files["config"]} /\ loaded = files["unit"])
    /\ outcome = "applied" => /\ files["handoff"] = files["config"]
                              /\ files["receipt"] = files["config"]

\* A call raises no doubts of its own as long as it goes on, and the snapshot
\* is one of a state between calls.
DuringCall ==
  pc # "idle" =>
    /\ outcome = "running"
    /\ doubt => before.doubt \/ flapped
    /\ before.doubt \/ before.runs \in {Absent, before.files["config"]}

\* Nobody has started or stopped the service in this call.
Untouched ==
  /\ doubt \/ ~(before.doubt \/ flapped)
  /\ flapped \/ runs = before.runs

\* Before the probe of the service a call changes nothing that a later one sees.
Early == {"account", "inspect", "program", "keys", "probe"}
BeforeWriting ==
  pc \in Early =>
    /\ files = before.files
    /\ enabled = before.enabled
    /\ runs \in {before.runs, before.files["config"], Absent}
    /\ Untouched
    /\ ~touched /\ ~failed
    /\ doubt \/ loaded = files["unit"]
    /\ pc # "account" => account = "ours"
    /\ pc \in {"program", "keys", "probe"} => UnitFound
    /\ pc \in {"keys", "probe"} => program = ProgramFile
    /\ pc # "probe" => lastKey < calls

\* Then every file is the old one or the new one, and so is what runs.
WhileWriting ==
  pc \in {"apply", "undo"} =>
    /\ account = "ours" /\ program = ProgramFile
    /\ before.files["unit"] # "foreign"
    /\ wasEnabled = before.enabled
    /\ HadUnit \/ ~(wasEnabled \/ wasActive)
    /\ flapped \/ wasActive = (before.runs # Absent)
    /\ \A f \in File : files[f] \in {before.files[f], New(f)}
    /\ runs \in {before.runs, before.files["config"], New("config"), Absent}

\* The try block: what is left of it tells what has been done.
Applying ==
  pc = "apply" =>
    /\ ~failed
    /\ Lists(ForwardRank, todo, Left)
    /\ Left \cap {"disable", "stop"} = {}
    /\ \A f \in File : files[f] = IF f \in Left THEN before.files[f] ELSE New(f)
    /\ enabled = ("enable" \notin Left)
    /\ "daemon-reload" \in Left \/ (loaded # Absent /\ (doubt \/ loaded = "current"))
    /\ touched \/ ((doubt \/ loaded = before.files["unit"]) /\ enabled = wasEnabled)
    /\ "start" \notin Left \/ ~wasActive
    /\ Left \cap {"restart", "start"} # {} \/ ~touched => Untouched
    /\ Left \cap {"restart", "start"} = {} => doubt \/ runs \in {Absent, New("config")}
    /\ "listen" \notin Left => doubt \/ runs # Absent

\* The except block before its first command, if it has one.
Pending == touched /\ todo = UndoSteps(TRUE)

\* As long as nothing fails in it, a file that is not left has been restored,
\* and the service is down until it is started as it was.
Restored ==
  /\ \A f \in File \ Left : files[f] = before.files[f]
  /\ Left \cap {"enable", "disable"} = {} => enabled = before.enabled
  /\ "daemon-reload" \notin Left => loaded = before.files["unit"] \/ (doubt /\ ~touched)
  /\ ~touched => Untouched
  /\ touched /\ ~Pending =>
       /\ todo # <<>> => active = "inactive"
       /\ Left \cap {"start", "stop"} = {} =>
            /\ runs \in {Absent, before.files["config"]}
            /\ before.doubt \/ flapped \/ runs = before.runs

Undoing ==
  pc = "undo" =>
    /\ Pending \/ Lists(UndoRank(HadUnit), todo, Left)
    /\ Left \subseteq File \cup (SystemctlCommands \ {"restart"})
    /\ "enable" \notin Left \/ wasEnabled
    /\ "disable" \notin Left \/ ~wasEnabled
    /\ "start" \notin Left \/ wasActive
    /\ "stop" \notin Left \/ Pending \/ ~wasActive
    /\ IF touched THEN "daemon-reload" \in Left \/ "unit" \notin Left ELSE Left \subseteq File
    /\ failed \/ Restored

HostInv ==
  /\ TypeOK /\ NoneForeign
  /\ BetweenCalls /\ DuringCall
  /\ BeforeWriting /\ WhileWriting
  /\ Applying /\ Undoing

-------------------------------------------------------------------------------
\* What single steps do to the host.

\* A service that is started has loaded the configuration, or is not there.
LEMMA StartEffect ==
  ASSUME NEW unit, TypeOK, Started(unit)
  PROVE  /\ \/ active' = "active" /\ runs' = files["config"] /\ CanStart(unit)
            \/ active' = "inactive" /\ runs' = Absent /\ ~CanStart(unit)
         /\ runs' \in {files["config"], Absent}
         /\ active' \in {"active", "waiting", "inactive"}
         /\ (runs' # Absent) = (active' = "active")
BY DEF Started, Process, CanStart

\* What a step does to each part of the host.
LEMMA DoEffect ==
  ASSUME NEW step \in Steps, NEW contents, TypeOK, SecretsKnown, Do(step, contents)
  PROVE  /\ \A f \in File : files'[f] = IF f = step THEN contents[f] ELSE files[f]
         /\ enabled' = IF step = "enable" THEN TRUE ELSE IF step = "disable" THEN FALSE ELSE enabled
         /\ loaded' = IF step \in {"daemon-reload", "enable", "disable"} THEN files["unit"] ELSE loaded
         /\ step \notin {"restart", "start", "stop"} => UNCHANGED <<active, runs, doubt>>
         /\ step = "stop" => active' = "inactive" /\ runs' = Absent
         /\ step = "restart" => Started(loaded)
         /\ step = "start" => IF active = "active" THEN UNCHANGED <<active, runs, doubt>> ELSE Started(loaded)
         /\ step = "restart" \/ (step = "start" /\ active # "active") => doubt' = (doubt /\ loaded # files["unit"])
         /\ step \in {"listen", "settle"} => active = "active"
<1>0. files = [f \in File |-> files[f]]
  BY DEF SecretsKnown
<1>1. CASE step \in File
  <2>1. files' = [files EXCEPT ![step] = contents[step]] /\ UNCHANGED <<loaded, enabled, active, runs, doubt>>
    BY <1>1 DEF Do, WriteFile
  <2>2. \A f \in File : files'[f] = IF f = step THEN contents[f] ELSE files[f]
    BY <2>1, <1>0
  <2>3. step \notin SystemctlCommands /\ step \notin {"listen", "settle"}
    BY <1>1 DEF File, SystemctlCommands
  <2> QED
    BY <2>1, <2>2, <2>3 DEF SystemctlCommands
<1>2. CASE step \in SystemctlCommands
  <2>1. step \notin File /\ Systemctl(step)
    BY <1>2 DEF Do, File, SystemctlCommands
  <2>2. files' = files
    BY <2>1 DEF Systemctl
  <2>3. CASE step = "daemon-reload"
    BY <2>1, <2>2, <2>3 DEF Systemctl
  <2>4. CASE step = "enable"
    BY <2>1, <2>2, <2>4 DEF Systemctl
  <2>5. CASE step = "disable"
    BY <2>1, <2>2, <2>5 DEF Systemctl
  <2>6. CASE step = "restart"
    BY <2>1, <2>2, <2>6 DEF Systemctl, Settled
  <2>7. CASE step = "start"
    BY <2>1, <2>2, <2>7 DEF Systemctl, Settled
  <2>8. CASE step = "stop"
    BY <2>1, <2>2, <2>8 DEF Systemctl, Settled, Process
  <2> QED
    BY <1>2, <2>3, <2>4, <2>5, <2>6, <2>7, <2>8 DEF SystemctlCommands
<1>3. CASE step \in {"listen", "settle"}
  <2>1. step \notin File /\ step \notin SystemctlCommands
    BY <1>3 DEF File, SystemctlCommands
  <2>2. Probe(step)
    BY <2>1 DEF Do
  <2> QED
    BY <2>1, <2>2, <1>3 DEF Probe, Listening, host, SystemctlCommands
<1> QED
  BY <1>1, <1>2, <1>3 DEF Steps

\* The host stays within its types, whichever step it is.
LEMMA DoTyped ==
  ASSUME NEW step \in Steps, NEW contents, TypeOK, SecretsKnown, Do(step, contents)
  PROVE  /\ enabled' \in BOOLEAN
         /\ loaded' \in {loaded, files["unit"]}
         /\ active' \in {"active", "waiting", "inactive"}
         /\ runs' \in {runs, files["config"], Absent}
         /\ (runs' # Absent) = (active' = "active")
         /\ doubt' \in BOOLEAN
         /\ doubt' => doubt
<1> USE DoEffect
<1>0. (runs # Absent) = (active = "active") /\ runs \in {runs, files["config"], Absent}
      /\ active \in {"active", "waiting", "inactive"} /\ doubt \in BOOLEAN /\ enabled \in BOOLEAN
  BY DEF TypeOK
<1>1. enabled' \in BOOLEAN /\ loaded' \in {loaded, files["unit"]}
  BY <1>0
<1>2. CASE step \notin {"restart", "start", "stop"}
  BY <1>0, <1>1, <1>2
<1>3. CASE step = "restart"
  BY <1>0, <1>1, <1>3, StartEffect
<1>4. CASE step = "start"
  BY <1>0, <1>1, <1>4, StartEffect
<1>5. CASE step = "stop"
  <2>1. doubt' = (doubt /\ loaded # files["unit"])
    <3>1. step \notin File /\ Systemctl(step)
      BY <1>5 DEF Do, File, SystemctlCommands
    <3> QED
      BY <3>1, <1>5 DEF Systemctl, Settled
  <2> QED
    BY <1>0, <1>1, <1>5, <2>1
<1> QED
  BY <1>2, <1>3, <1>4, <1>5

\* The same of a step that fails.
LEMMA FailureTyped ==
  ASSUME NEW step \in Steps, NEW contents, TypeOK, SecretsKnown, MayHaveDone(step, contents)
  PROVE  /\ \A f \in File : files'[f] \in {files[f], contents[f]}
         /\ enabled' \in BOOLEAN
         /\ loaded' \in {loaded, files["unit"]}
         /\ active' \in {"active", "waiting", "inactive"}
         /\ runs' \in {runs, files["config"], Absent}
         /\ (runs' # Absent) = (active' = "active")
         /\ doubt' \in BOOLEAN
         /\ doubt' => doubt
<1>0. /\ (runs # Absent) = (active = "active")
      /\ active \in {"active", "waiting", "inactive"} /\ doubt \in BOOLEAN /\ enabled \in BOOLEAN
  BY DEF TypeOK
<1>1. CASE Do(step, contents)
  <2>1. \A f \in File : files'[f] \in {files[f], contents[f]}
    BY <1>1, DoEffect
  <2> QED
    BY <1>1, <2>1, DoTyped
<1>2. CASE UNCHANGED <<host, doubt>>
  BY <1>0, <1>2 DEF host
<1>3. CASE Process("inactive", Absent) /\ UNCHANGED <<files, loaded, enabled, doubt>>
  BY <1>0, <1>3 DEF Process
<1> QED
  BY <1>1, <1>2, <1>3 DEF MayHaveDone

\* Before any command of systemctl was tried, a failure concerns a file at most.
LEMMA FailureOfFile ==
  ASSUME NEW step \in Steps, step \notin SystemctlCommands, NEW contents, TypeOK, SecretsKnown,
         MayHaveDone(step, contents)
  PROVE  UNCHANGED <<enabled, loaded, active, runs, doubt>>
<1>1. step # "restart"
  BY DEF SystemctlCommands
<1>2. CASE Do(step, contents)
  BY <1>2, DoEffect DEF SystemctlCommands
<1>3. CASE UNCHANGED <<host, doubt>>
  BY <1>3 DEF host
<1> QED
  BY <1>1, <1>2, <1>3 DEF MayHaveDone

-------------------------------------------------------------------------------
\* Types.

\* A file of the request has its type.
LEMMA NewTyped ==
  ASSUME TypeOK
  PROVE  \A f \in File : New(f) \in Contents(f)
BY DEF TypeOK, New, Contents, Content, Units, File

\* The types hold before the first call.
LEMMA TypeInit ==
  ASSUME Init
  PROVE  TypeOK
<1> USE ExitInstallerAssumption, AbsentAssumption
<1>1. \A f \in File : files[f] \in Contents(f)
  <2>1. CASE files = [f \in File |-> Absent]
    BY <2>1 DEF Contents, Units
  <2>2. CASE files = [f \in File |-> IF f = "unit" THEN "foreign" ELSE Absent]
    BY <2>2 DEF Contents, Units
  <2>3. CASE \E r \in Requests, unit \in {"older", "loose", "current"} : files = InstalledFiles(r, unit)
    <3>1. PICK r \in Requests, unit \in {"older", "loose", "current"} : files = InstalledFiles(r, unit)
      BY <2>3
    <3>2. 0 \in Keys
      BY DEF Keys
    <3>3. unit \in Contents("unit")
      BY DEF Contents, Units
    <3>4. \A f \in File \ {"unit"} : Content(f, r, 0) \in Contents(f)
      BY <3>2 DEF Contents
    <3> QED
      BY <3>1, <3>3, <3>4 DEF InstalledFiles
  <2> QED
    BY <2>1, <2>2, <2>3 DEF Init
<1>2. active = "active" => files["config"] # Absent
  <2>1. CASE \E r \in Requests, unit \in {"older", "loose", "current"} : files = InstalledFiles(r, unit)
    BY <2>1 DEF InstalledFiles, File, Keys
  <2> QED
    BY <2>1 DEF Init
<1>3. /\ "unit" \in File /\ "config" \in File /\ Absent \in Contents("config") /\ Absent \in Contents("secrets")
      /\ 0 \in Keys
  BY DEF File, Contents, Keys
<1>4. /\ loaded \in Contents("unit") /\ runs \in Contents("config") /\ (runs # Absent) = (active = "active")
      /\ active \in {"active", "waiting", "inactive"}
  BY <1>1, <1>2, <1>3 DEF Init
<1>5. before.files = files
  BY DEF Init, Now
<1>6. enabled \in BOOLEAN /\ program \subseteq ProgramFile /\ account \in {"absent", "ours", "unfit"}
  BY DEF Init
<1>7. todo \in Seq(Steps)
  BY DEF Init
<1> QED
  <2>0. /\ lastKey \in 0..calls /\ calls \in 0..MaxCalls /\ faults \in 0..MaxFaults
    BY DEF Init
  <2>1. /\ {wasActive, wasEnabled, touched, failed, doubt, flapped} \subseteq BOOLEAN
        /\ given \in Contents("secrets") /\ want \in Requests /\ key \in Keys
    BY <1>3 DEF Init
  <2>2. /\ pc = "idle" /\ outcome = "none"
    BY DEF Init
  <2> QED
    BY <1>1, <1>4, <1>5, <1>6, <1>7, <2>0, <2>1, <2>2 DEF TypeOK

\* A step of the try block or of the except block keeps the types of the host.
LEMMA TypesKept ==
  ASSUME TypeOK, SecretsKnown, NEW contents, \A f \in File : contents[f] \in Contents(f),
         todo # <<>>,
         \/ Do(Head(todo), contents)
         \/ MayHaveDone(Head(todo), contents)
  PROVE  /\ \A f \in File : files'[f] \in Contents(f)
         /\ loaded' \in Contents("unit")
         /\ enabled' \in BOOLEAN
         /\ active' \in {"active", "waiting", "inactive"}
         /\ runs' \in Contents("config")
         /\ (runs' # Absent) = (active' = "active")
         /\ doubt' \in BOOLEAN
         /\ Tail(todo) \in Seq(Steps)
<1>1. Head(todo) \in Steps /\ Tail(todo) \in Seq(Steps)
  BY HeadTailProperties DEF TypeOK
<1>2. /\ \A f \in File : files[f] \in Contents(f)
      /\ loaded \in Contents("unit") /\ files["unit"] \in Contents("unit")
      /\ runs \in Contents("config") /\ files["config"] \in Contents("config") /\ Absent \in Contents("config")
  BY DEF TypeOK, File, Contents
<1>3. CASE Do(Head(todo), contents)
  <2>1. \A f \in File : files'[f] \in {files[f], contents[f]}
    BY <1>1, <1>3, DoEffect
  <2>2. /\ enabled' \in BOOLEAN /\ loaded' \in {loaded, files["unit"]}
        /\ active' \in {"active", "waiting", "inactive"}
        /\ runs' \in {runs, files["config"], Absent}
        /\ (runs' # Absent) = (active' = "active") /\ doubt' \in BOOLEAN
    BY <1>1, <1>3, DoTyped
  <2> QED
    BY <1>1, <1>2, <2>1, <2>2
<1>4. CASE MayHaveDone(Head(todo), contents)
  <2>1. /\ \A f \in File : files'[f] \in {files[f], contents[f]}
        /\ enabled' \in BOOLEAN /\ loaded' \in {loaded, files["unit"]}
        /\ active' \in {"active", "waiting", "inactive"}
        /\ runs' \in {runs, files["config"], Absent}
        /\ (runs' # Absent) = (active' = "active") /\ doubt' \in BOOLEAN
    BY <1>1, <1>4, FailureTyped
  <2> QED
    BY <1>1, <1>2, <2>1
<1> QED
  BY <1>3, <1>4

\* The steps of a rollback; without a command of systemctl it restores files.
LEMMA UndoTyped ==
  ASSUME TypeOK, NEW tried \in BOOLEAN
  PROVE  UndoSteps(tried) \in Seq(Steps) /\ (tried \/ Range(UndoSteps(tried)) = File)
<1>1. HadUnit \in BOOLEAN /\ wasEnabled \in BOOLEAN /\ wasActive \in BOOLEAN
  BY DEF HadUnit, TypeOK
<1>2. CASE tried = TRUE
  BY <1>1, <1>2, UndoStepsAscend DEF StopsThen
<1>3. CASE tried = FALSE
  BY <1>1, <1>3, UndoOfFiles, ManagedAscends DEF Lists
<1> QED
  BY <1>2, <1>3

\* The elements of a sequence by their indices.
LEMMA RangeOfTodo ==
  ASSUME NEW s, NEW S
  PROVE  (\A i \in DOMAIN s : s[i] \in S) <=> Range(s) \subseteq S
BY DEF Range

\* Every step keeps the types.
LEMMA TypeNext ==
  ASSUME HostInv, SecretsKnown, [Next]_vars
  PROVE  TypeOK'
<1> USE ExitInstallerAssumption
<1> USE DEF host, base, control, request, budget
<1>0. TypeOK
  BY DEF HostInv
<1>e. <<>> \in Seq(Steps)
  OBVIOUS
<1>c. Charge => faults' \in 0..MaxFaults
  BY <1>0 DEF Charge, TypeOK
<1>1. CASE Begin
  <2>1. before'.files = files
    BY <1>1 DEF Begin, Now
  <2>2. lastKey' \in 0..calls' /\ calls' \in 0..MaxCalls
    BY <1>0, <1>1 DEF Begin, TypeOK
  <2>3. {wasActive, wasEnabled, touched, failed, doubt, flapped}' \subseteq BOOLEAN
    BY <1>0, <1>1 DEF Begin, TypeOK
  <2> QED
    BY <1>0, <1>1, <1>e, <2>1, <2>2, <2>3 DEF Begin, TypeOK
<1>2. CASE EnsureUser
  <2>1. CASE account = "unfit"
    BY <1>0, <1>2, <1>e, <2>1 DEF EnsureUser, Refuse, Finish, TypeOK
  <2>2. CASE account # "unfit"
    BY <1>0, <1>2, <2>2 DEF EnsureUser, Goto, TypeOK
  <2> QED
    BY <2>1, <2>2
<1>3. CASE Inspect
  <2>1. files["unit"] \in Contents("unit")
    BY <1>0 DEF TypeOK, File
  <2>2. CASE Refuse
    BY <1>0, <1>3, <1>e, <2>2 DEF Refuse, Finish, TypeOK
  <2>3. CASE Goto("program") /\ loaded' \in {loaded, files["unit"]}
    BY <1>0, <1>3, <2>1, <2>3 DEF Inspect, Refuse, Finish, Goto, TypeOK
  <2> QED
    BY <1>3, <2>2, <2>3 DEF Inspect, ShownUnits
<1>4. CASE WriteProgram
  <2>1. program' \subseteq ProgramFile
    <3>1. program \subseteq ProgramFile
      BY <1>0 DEF TypeOK
    <3>2. PICK i \in 1..4 : program' = program \cup {Program[i]}
      BY <1>4 DEF WriteProgram, Program
    <3>3. Program[i] \in ProgramFile
      BY DEF Program, ProgramFile
    <3> QED
      BY <3>1, <3>2, <3>3
  <2> QED
    BY <1>0, <1>4, <2>1 DEF WriteProgram, TypeOK
<1>5. CASE VerifyProgram
  BY <1>0, <1>5, <1>e DEF VerifyProgram, Refuse, Finish, Goto, TypeOK
<1>6. CASE ChooseKeys
  <2>1. CASE files["secrets"] = Absent
    <3>1. lastKey < calls
      BY <1>6 DEF ChooseKeys, HostInv, BeforeWriting, Early
    <3>2. lastKey' \in 0..calls /\ key' \in Keys
      BY <1>0, <1>6, <2>1, <3>1 DEF ChooseKeys, TypeOK, Keys
    <3> QED
      BY <1>0, <1>6, <2>1, <3>2 DEF ChooseKeys, Goto, TypeOK
  <2>2. CASE files["secrets"] # Absent /\ files["secrets"].client = want.client
    <3>1. files["secrets"] \in Contents("secrets")
      BY <1>0 DEF TypeOK, File
    <3>2. PICK r \in Requests, k \in Keys : files["secrets"] = Content("secrets", r, k)
      BY <2>2, <3>1 DEF Contents
    <3>3. KeyOf(files["secrets"]) \in Keys
      BY <3>2 DEF KeyOf, Content
    <3> QED
      BY <1>0, <1>6, <2>2, <3>3 DEF ChooseKeys, Goto, TypeOK
  <2>3. CASE files["secrets"] # Absent /\ files["secrets"].client # want.client
    BY <1>0, <1>6, <2>3 DEF ChooseKeys, Refuse, Finish, TypeOK
  <2> QED
    BY <2>1, <2>2, <2>3
<1>7. CASE ProbeService
  <2>1. ForwardSteps(active = "active", enabled) \in Seq(Steps)
    BY <1>0, ForwardStepsAscend DEF TypeOK, Lists
  <2> QED
    BY <1>0, <1>7, <1>e, <2>1 DEF ProbeService, Refuse, Finish, TypeOK
<1>8. CASE UnsafeHost
  BY <1>0, <1>8, <1>e, <1>c DEF UnsafeHost, CheckFails, Finish, TypeOK
<1>9. CASE DownloadFails
  BY <1>0, <1>9, <1>e, <1>c DEF DownloadFails, CheckFails, Finish, TypeOK
<1>10. CASE CandidateFails
  BY <1>0, <1>10, <1>e, <1>c DEF CandidateFails, CheckFails, Finish, TypeOK
<1>11. CASE Apply
  <2>1. \A f \in File : [x \in File |-> New(x)][f] \in Contents(f)
    BY <1>0, NewTyped
  <2>2. todo # <<>> /\ Do(Head(todo), [x \in File |-> New(x)])
    BY <1>11 DEF Apply
  <2>3. /\ \A f \in File : files'[f] \in Contents(f)
        /\ loaded' \in Contents("unit") /\ enabled' \in BOOLEAN
        /\ active' \in {"active", "waiting", "inactive"}
        /\ runs' \in Contents("config") /\ (runs' # Absent) = (active' = "active")
        /\ doubt' \in BOOLEAN /\ Tail(todo) \in Seq(Steps)
    BY <1>0, <2>1, <2>2, TypesKept
  <2>4. touched' \in BOOLEAN
    BY <1>0, <1>11 DEF Apply, Touches, TypeOK
  <2> QED
    BY <1>0, <1>11, <2>3, <2>4 DEF Apply, TypeOK
<1>12. CASE Succeed
  BY <1>0, <1>12, <1>e DEF Succeed, Finish, TypeOK, File
<1>13. CASE StepFails
  <2>1. \A f \in File : [x \in File |-> New(x)][f] \in Contents(f)
    BY <1>0, NewTyped
  <2>2. todo # <<>> /\ MayHaveDone(Head(todo), [x \in File |-> New(x)])
    BY <1>13 DEF StepFails
  <2>3. /\ \A f \in File : files'[f] \in Contents(f)
        /\ loaded' \in Contents("unit") /\ enabled' \in BOOLEAN
        /\ active' \in {"active", "waiting", "inactive"}
        /\ runs' \in Contents("config") /\ (runs' # Absent) = (active' = "active")
        /\ doubt' \in BOOLEAN
    BY <1>0, <2>1, <2>2, TypesKept
  <2>4. touched' \in BOOLEAN /\ todo' = UndoSteps(touched')
    BY <1>0, <1>13 DEF StepFails, StartUndo, Touches, TypeOK
  <2>5. todo' \in Seq(Steps) /\ (touched' \/ Range(todo') = File)
    BY <1>0, <2>4, UndoTyped
  <2>6. ~touched' => \A i \in DOMAIN todo' : todo'[i] \in File
    BY <2>5, RangeOfTodo
  <2> QED
    BY <1>0, <1>13, <1>c, <2>3, <2>4, <2>5, <2>6 DEF StepFails, StartUndo, TypeOK
<1>14. CASE NotServing
  <2>4. touched' \in BOOLEAN /\ todo' = UndoSteps(touched')
    BY <1>0, <1>14 DEF NotServing, StartUndo, Touches, TypeOK
  <2>5. todo' \in Seq(Steps) /\ (touched' \/ Range(todo') = File)
    BY <1>0, <2>4, UndoTyped
  <2>6. ~touched' => \A i \in DOMAIN todo' : todo'[i] \in File
    BY <2>5, RangeOfTodo
  <2> QED
    BY <1>0, <1>14, <2>4, <2>5, <2>6 DEF NotServing, StartUndo, TypeOK
<1>15. CASE Undo
  <2>1. \A f \in File : before.files[f] \in Contents(f)
    BY <1>0 DEF TypeOK
  <2>2. todo # <<>> /\ Do(Head(todo), before.files)
    BY <1>15 DEF Undo
  <2>3. /\ \A f \in File : files'[f] \in Contents(f)
        /\ loaded' \in Contents("unit") /\ enabled' \in BOOLEAN
        /\ active' \in {"active", "waiting", "inactive"}
        /\ runs' \in Contents("config") /\ (runs' # Absent) = (active' = "active")
        /\ doubt' \in BOOLEAN /\ Tail(todo) \in Seq(Steps)
    BY <1>0, <2>1, <2>2, TypesKept
  <2>4. Range(Tail(todo)) \subseteq Range(todo)
    BY <1>0, <2>2, TailRange DEF TypeOK
  <2>5. pc' = "undo" /\ ~touched' => \A i \in DOMAIN todo' : todo'[i] \in File
    BY <1>0, <1>15, <2>4, RangeOfTodo DEF Undo, TypeOK
  <2> QED
    BY <1>0, <1>15, <2>3, <2>5 DEF Undo, TypeOK
<1>16. CASE UndoFails
  <2>1. \A f \in File : before.files[f] \in Contents(f)
    BY <1>0 DEF TypeOK
  <2>2. todo # <<>> /\ MayHaveDone(Head(todo), before.files)
    BY <1>16 DEF UndoFails
  <2>3. /\ \A f \in File : files'[f] \in Contents(f)
        /\ loaded' \in Contents("unit") /\ enabled' \in BOOLEAN
        /\ active' \in {"active", "waiting", "inactive"}
        /\ runs' \in Contents("config") /\ (runs' # Absent) = (active' = "active")
        /\ doubt' \in BOOLEAN /\ Tail(todo) \in Seq(Steps)
    BY <1>0, <2>1, <2>2, TypesKept
  <2>4. Range(Tail(todo)) \subseteq Range(todo)
    BY <1>0, <2>2, TailRange DEF TypeOK
  <2>5. pc' = "undo" /\ ~touched' => \A i \in DOMAIN todo' : todo'[i] \in File
    BY <1>0, <1>16, <2>4, RangeOfTodo DEF UndoFails, TypeOK
  <2> QED
    BY <1>0, <1>16, <1>c, <2>3, <2>5 DEF UndoFails, TypeOK
<1>17. CASE Raise
  BY <1>0, <1>17, <1>e DEF Raise, Finish, TypeOK
<1>18. CASE Killed
  BY <1>0, <1>18, <1>e, <1>c DEF Killed, Finish, TypeOK
<1>19. CASE Reboot
  <2>1. /\ runs' \in {files["config"], Absent} /\ active' \in {"active", "waiting", "inactive"}
        /\ (runs' # Absent) = (active' = "active")
    BY <1>0, <1>19, StartEffect DEF Reboot, Process
  <2>2. /\ files["config"] \in Contents("config") /\ files["unit"] \in Contents("unit")
        /\ Absent \in Contents("config")
    BY <1>0 DEF TypeOK, File, Contents
  <2> QED
    BY <1>0, <1>19, <1>e, <1>c, <2>1, <2>2 DEF Reboot, Finish, TypeOK
<1>20. CASE ServiceFails
  <2>1. Absent \in Contents("config") /\ runs' = Absent /\ active' = "waiting"
    BY <1>20 DEF Contents, ServiceFails, Process
  <2> QED
    BY <1>0, <1>20, <1>c, <2>1 DEF ServiceFails, Doubted, Meddled, TypeOK
<1>21. CASE ServiceComesBack
  <2>1. /\ runs' \in {files["config"], Absent} /\ active' \in {"active", "waiting", "inactive"}
        /\ (runs' # Absent) = (active' = "active")
    BY <1>0, <1>21, StartEffect DEF ServiceComesBack
  <2>2. files["config"] \in Contents("config") /\ Absent \in Contents("config")
    BY <1>0 DEF TypeOK, File, Contents
  <2> QED
    BY <1>0, <1>21, <2>1, <2>2 DEF ServiceComesBack, Settled, Meddled, TypeOK
<1>22. CASE ServiceGivesUp
  <2>1. Absent \in Contents("config") /\ runs' = Absent /\ active' = "inactive"
    BY <1>22 DEF Contents, ServiceGivesUp, Process
  <2> QED
    BY <1>0, <1>22, <2>1 DEF ServiceGivesUp, Doubted, Meddled, TypeOK
<1>23. CASE UNCHANGED vars
  BY <1>0, <1>23 DEF vars, TypeOK
<1> QED
  BY <1>1, <1>2, <1>3, <1>4, <1>5, <1>6, <1>7, <1>8, <1>9, <1>10, <1>11, <1>12, <1>13, <1>14,
     <1>15, <1>16, <1>17, <1>18, <1>19, <1>20, <1>21, <1>22, <1>23 DEF Next

-------------------------------------------------------------------------------
\* The beginning and the end of a call.

\* What remains of the invariant when the types are known.
Progress ==
  /\ BetweenCalls /\ DuringCall
  /\ BeforeWriting /\ WhileWriting
  /\ Applying /\ Undoing

\* Between calls only BetweenCalls says something.
LEMMA Ended ==
  ASSUME pc' = "idle", BetweenCalls'
  PROVE  Progress'
BY DEF Progress, DuringCall, BeforeWriting, WhileWriting, Applying, Undoing, Early

\* No call has begun yet.
LEMMA ProgressInit ==
  ASSUME Init
  PROVE  Progress
<1>1. /\ pc = "idle" /\ outcome = "none"
      /\ runs \in {Absent, files["config"]} /\ loaded = files["unit"]
  BY DEF Init
<1> QED
  BY <1>1 DEF Progress, BetweenCalls, DuringCall, BeforeWriting, WhileWriting, Applying,
     Undoing, Early

\* The snapshot is taken.
LEMMA BeginProgress ==
  ASSUME HostInv, Begin
  PROVE  Progress'
<1>1. /\ pc' = "account" /\ outcome' = "running" /\ flapped' = FALSE /\ UNCHANGED <<host, doubt>>
      /\ UNCHANGED <<lastKey, account, program>> /\ calls' = calls + 1 /\ ~touched' /\ ~failed'
  BY DEF Begin, host, base
<1>2. before'.files = files /\ before'.enabled = enabled /\ before'.runs = runs /\ before'.doubt = doubt
  BY DEF Begin, Now
<1>3. doubt \/ (runs \in {Absent, files["config"]} /\ loaded = files["unit"])
  BY DEF Begin, LockFree, HostInv, BetweenCalls
<1>4. lastKey < calls + 1
  BY DEF HostInv, TypeOK
<1>5. DuringCall'
  BY <1>1, <1>2, <1>3 DEF DuringCall, host
<1>6. BeforeWriting'
  BY <1>1, <1>2, <1>3, <1>4 DEF BeforeWriting, Untouched, host
<1> QED
  BY <1>1, <1>5, <1>6 DEF Progress, BetweenCalls, WhileWriting, Applying, Undoing

\* A call that has not written anything leaves what it found.
LEMMA RefusedProgress ==
  ASSUME HostInv, pc \in Early, Finish("unchanged"), UNCHANGED <<host, doubt>>
  PROVE  Progress'
<1>1. pc' = "idle" /\ outcome' = "unchanged"
  BY DEF Finish
<1>2. doubt \/ (runs \in {Absent, files["config"]} /\ loaded = files["unit"])
  BY DEF HostInv, BeforeWriting, DuringCall, Untouched, Early
<1> QED
  BY <1>1, <1>2, Ended DEF BetweenCalls, host

\* A call that goes on without having written anything.
LEMMA EarlyProgress ==
  ASSUME HostInv, pc \in Early, pc' \in Early,
         UNCHANGED <<files, enabled, runs, outcome, doubt, before, flapped, calls, touched, failed>>,
         pc' # "account" => account' = "ours",
         doubt \/ loaded' = files["unit"],
         pc' \in {"program", "keys", "probe"} => UnitFound',
         pc' \in {"keys", "probe"} => program' = ProgramFile,
         pc' # "probe" => lastKey' < calls
  PROVE  Progress'
<1>1. DuringCall'
  BY DEF HostInv, DuringCall, Early
<1>2. BeforeWriting'
  BY DEF HostInv, BeforeWriting, Untouched
<1>3. pc' \notin {"idle", "apply", "undo"}
  BY DEF Early
<1> QED
  BY <1>1, <1>2, <1>3 DEF Progress, BetweenCalls, WhileWriting, Applying, Undoing

\* The service account.
LEMMA EnsureUserProgress ==
  ASSUME HostInv, EnsureUser
  PROVE  Progress'
<1> USE DEF host, base, control, request, budget
<1>1. CASE account = "unfit"
  BY <1>1, RefusedProgress DEF EnsureUser, Refuse, Early
<1>2. CASE account # "unfit"
  <2>1. lastKey < calls
    BY DEF HostInv, BeforeWriting, EnsureUser, Early
  <2> QED
    BY <1>2, <2>1, EarlyProgress DEF EnsureUser, HostInv, BeforeWriting, Goto, Early
<1> QED
  BY <1>1, <1>2

\* The unit and its namespace.
LEMMA InspectProgress ==
  ASSUME HostInv, Inspect
  PROVE  Progress'
<1> USE DEF host, base, control, request, budget
<1>1. pc = "inspect" /\ pc \in Early
  BY DEF Inspect, Early
<1>2. CASE Refuse
  BY <1>1, <1>2, RefusedProgress DEF Refuse
<1>3. CASE /\ UnitFound'
           /\ Goto("program") /\ loaded' \in {loaded, files["unit"]}
           /\ UNCHANGED <<files, enabled, active, runs>>
           /\ UNCHANGED <<base, lastKey, request, doubt, given, budget>>
  <2>1. lastKey < calls /\ account = "ours" /\ (doubt \/ loaded = files["unit"])
    BY <1>1 DEF HostInv, BeforeWriting
  <2> QED
    BY <1>1, <1>3, <2>1, EarlyProgress DEF Goto, Early
<1> QED
  BY <1>2, <1>3 DEF Inspect, ShownUnits, UnitFound

\* The phases that inspect the program, and the key pair.
LEMMA ProgramProgress ==
  ASSUME HostInv, WriteProgram \/ VerifyProgram \/ ChooseKeys
  PROVE  Progress'
<1> USE DEF host, base, control, request, budget
<1>1. pc \in {"program", "keys"} /\ pc \in Early
  BY DEF WriteProgram, VerifyProgram, ChooseKeys, Early
<1>2. /\ lastKey < calls /\ account = "ours" /\ UnitFound /\ (doubt \/ loaded = files["unit"])
      /\ pc = "keys" => program = ProgramFile
  BY <1>1 DEF HostInv, BeforeWriting
<1>3. CASE Refuse
  BY <1>1, <1>3, RefusedProgress DEF Refuse
<1>4. CASE WriteProgram
  BY <1>1, <1>2, <1>4, EarlyProgress DEF WriteProgram, UnitFound, Early
<1>5. CASE VerifyProgram /\ ~Refuse
  BY <1>1, <1>2, <1>5, EarlyProgress DEF VerifyProgram, UnitFound, Goto, Early
<1>6. CASE ChooseKeys /\ ~Refuse
  <2>1. pc = "keys" /\ Goto("probe")
    BY <1>6 DEF ChooseKeys
  <2>2. UNCHANGED <<host, base, want, before, wasActive, wasEnabled, flapped, doubt, given, budget>>
    BY <1>6 DEF ChooseKeys
  <2> QED
    BY <1>1, <1>2, <2>1, <2>2, EarlyProgress DEF UnitFound, Goto, Early
<1> QED
  BY <1>3, <1>4, <1>5, <1>6

\* A check that fails before the first write.
LEMMA CheckFailsProgress ==
  ASSUME HostInv, UnsafeHost \/ DownloadFails \/ CandidateFails
  PROVE  Progress'
BY RefusedProgress DEF UnsafeHost, DownloadFails, CandidateFails, CheckFails, Early, host

\* The call ends because it is killed, or the host reboots.
LEMMA CutProgress ==
  ASSUME HostInv, Killed \/ Reboot
  PROVE  Progress'
<1>1. CASE Killed
  <2>1. pc' = "idle" /\ outcome' = "cut" /\ doubt' = TRUE
    BY <1>1 DEF Killed, Finish
  <2> QED
    BY <2>1, Ended DEF BetweenCalls
<1>2. CASE Reboot
  <2>1. pc' = "idle" /\ (outcome' = "cut" \/ (pc = "idle" /\ outcome' = outcome))
    BY <1>2 DEF Reboot, Finish, control
  <2>2. runs' \in {Absent, files["config"]} /\ loaded' = files["unit"] /\ files' = files
    BY <1>2, StartEffect DEF Reboot, Process, HostInv
  <2> QED
    BY <2>1, <2>2, Ended DEF BetweenCalls, HostInv
<1> QED
  BY <1>1, <1>2

\* The probe of the service, and the steps that follow from it.
LEMMA ProbeProgress ==
  ASSUME HostInv, ProbeService
  PROVE  Progress'
<1> USE DEF host, base, control, request, budget
<1>1. pc = "probe" /\ pc \in Early
  BY DEF ProbeService, Early
<1>2. CASE Refuse
  BY <1>1, <1>2, RefusedProgress DEF Refuse
<1>3. CASE ~Refuse
  <2>1. /\ ~(files["unit"] = Absent /\ (active = "active" \/ enabled))
        /\ wasActive' = (active = "active") /\ wasEnabled' = enabled
        /\ pc' = "apply" /\ todo' = ForwardSteps(active = "active", enabled)
        /\ UNCHANGED <<touched, failed, outcome>>
        /\ UNCHANGED <<host, base, lastKey, want, key, before, flapped, doubt, given, budget>>
    BY <1>3 DEF ProbeService
  <2>2. /\ files = before.files /\ enabled = before.enabled
        /\ runs \in {before.runs, before.files["config"], Absent}
        /\ Untouched /\ ~touched /\ ~failed
        /\ account = "ours" /\ UnitFound /\ (doubt \/ loaded = files["unit"]) /\ program = ProgramFile
    BY <1>1 DEF HostInv, BeforeWriting
  <2>3. /\ enabled \in BOOLEAN /\ active \in {"active", "waiting", "inactive"}
        /\ (runs # Absent) = (active = "active")
    BY DEF HostInv, TypeOK
  <2>4. /\ doubt => before.doubt \/ flapped
        /\ outcome = "running"
        /\ before.doubt \/ before.runs \in {Absent, before.files["config"]}
    BY <1>1 DEF HostInv, DuringCall
  <2> DEFINE A == active = "active"
  <2>5. Lists(ForwardRank, todo', ForwardSet(A, enabled)) /\ Left' = ForwardSet(A, enabled)
    <3>1. Lists(ForwardRank, todo', ForwardSet(A, enabled))
      BY <2>1, <2>3, ForwardStepsAscend
    <3> QED
      BY <3>1 DEF Lists, Left
  <2>6. DuringCall'
    BY <2>1, <2>4 DEF DuringCall
  <2>7. WhileWriting'
    <3>1. \A f \in File : files'[f] \in {before'.files[f], New(f)'}
      BY <2>1, <2>2
    <3>2. HadUnit' \/ ~(wasEnabled' \/ wasActive')
      BY <2>1, <2>2 DEF HadUnit
    <3>3. flapped' \/ wasActive' = (before'.runs # Absent)
      BY <2>1, <2>2, <2>3 DEF Untouched
    <3> QED
      BY <2>1, <2>2, <3>1, <3>2, <3>3 DEF WhileWriting, UnitFound
  <2>8. Applying'
    <3>1. /\ File \subseteq Left' /\ Left' \cap {"disable", "stop"} = {}
          /\ "enable" \in Left' <=> ~enabled
          /\ "daemon-reload" \in Left' <=> UnitRewrite
          /\ "start" \in Left' <=> ~A
          /\ "restart" \in Left' <=> A /\ (ConfigChanged \/ UnitChanged)
          /\ "listen" \in Left'
      BY <2>5 DEF ForwardSet, File
    <3>2. \A f \in File : files'[f] = IF f \in Left' THEN before'.files[f] ELSE New(f)'
      BY <2>1, <2>2, <3>1
    <3>3. Left' \cap {"restart", "start"} = {} => doubt' \/ runs' \in {Absent, New("config")'}
      <4>1. New("config")' = New("config")
        BY <2>1 DEF New
      <4> QED
        BY <2>1, <2>2, <2>4, <3>1, <4>1 DEF ConfigChanged, Untouched
    <3>4. "daemon-reload" \in Left' \/ (loaded' # Absent /\ (doubt' \/ loaded' = "current"))
      BY <2>1, <2>2, <3>1, AbsentAssumption DEF UnitRewrite, UnitFound
    <3>5. Untouched'
      BY <2>1, <2>2 DEF Untouched
    <3>6. Lists(ForwardRank, todo', Left')
      BY <2>5
    <3>7. enabled' = ("enable" \notin Left')
      BY <2>1, <2>3, <3>1
    <3>8. Lists(ForwardRank, todo, Left)'
      BY <3>6 DEF Lists, Ascending, ForwardRank
    <3>9. /\ Left' \cap {"disable", "stop"} = {} /\ ("start" \notin Left' \/ ~wasActive') /\ "listen" \in Left'
          /\ doubt' \/ loaded' = before'.files["unit"]
          /\ enabled' = wasEnabled' /\ ~failed'
      BY <2>1, <2>2, <3>1
    <3> QED
      BY <3>2, <3>3, <3>4, <3>5, <3>7, <3>8, <3>9 DEF Applying
  <2> QED
    BY <2>1, <2>6, <2>7, <2>8 DEF Progress, BetweenCalls, BeforeWriting, Undoing, Early
<1> QED
  BY <1>2, <1>3

-------------------------------------------------------------------------------
\* The try block.

\* A step is made when the ones before it have been, and it is the only one
\* that is not left then.
LEMMA StepLeaves ==
  ASSUME NEW rank \in [Steps -> Int], todo # <<>>, Lists(rank, todo, Left), todo' = Tail(todo)
  PROVE  /\ Head(todo) \in Left /\ Left \subseteq Steps
         /\ Left' = Left \ {Head(todo)}
         /\ \A x \in Left' : rank[Head(todo)] < rank[x]
         /\ Lists(rank, todo', Left')
         /\ Left' = {} => todo' = <<>>
<1>1. todo \in Seq(Steps) /\ Ascending(rank, todo)
  BY DEF Lists
<1>2. /\ Ascending(rank, Tail(todo))
      /\ Head(todo) \in Range(todo)
      /\ Range(Tail(todo)) = Range(todo) \ {Head(todo)}
      /\ \A x \in Range(Tail(todo)) : rank[Head(todo)] < rank[x]
  BY <1>1, TailAscends
<1>3. Tail(todo) \in Seq(Steps)
  BY <1>1, HeadTailProperties
<1>4. Range(todo) \subseteq Steps
  BY <1>1, ElementOfSeq, LenProperties DEF Range
<1> DEFINE t == Tail(todo)
<1>5. Range(t) = {} => t = <<>>
  <2>1. t \in Seq(Steps)
    BY <1>3
  <2> HIDE DEF t
  <2>2. Len(t) \in Nat /\ DOMAIN t = 1..Len(t) /\ (t # <<>> => Len(t) # 0)
    BY <2>1, LenProperties, EmptySeq
  <2>3. t # <<>> => 1 \in DOMAIN t
    BY <2>2
  <2> QED
    BY <2>3 DEF Range
<1> QED
  BY <1>2, <1>3, <1>4, <1>5 DEF Left, Lists

\* The order of the steps of the try block.
LEMMA ForwardOrder ==
  /\ ForwardRank \in [Steps -> Int]
  /\ ForwardRank["config"] = 2 /\ ForwardRank["unit"] = 3 /\ ForwardRank["daemon-reload"] = 4
  /\ ForwardRank["enable"] = 5 /\ ForwardRank["restart"] = 6 /\ ForwardRank["start"] = 6
  /\ ForwardRank["listen"] = 7
BY RanksAreNumbers DEF ForwardRank, Steps, File, SystemctlCommands

\* While steps are made, the files are old or new, and so is what runs.
LEMMA WritingKept ==
  ASSUME HostInv, pc \in {"apply", "undo"}, pc' \in {"apply", "undo"},
         UNCHANGED <<base, want, key, before, wasActive, wasEnabled>>, flapped => flapped',
         \A f \in File : files'[f] \in {files[f], before.files[f], New(f)},
         runs' \in {runs, files["config"], Absent}
  PROVE  WhileWriting'
<1>1. /\ account = "ours" /\ program = ProgramFile
      /\ before.files["unit"] # "foreign"
      /\ wasEnabled = before.enabled
      /\ HadUnit \/ ~(wasEnabled \/ wasActive)
      /\ flapped \/ wasActive = (before.runs # Absent)
      /\ \A f \in File : files[f] \in {before.files[f], New(f)}
      /\ runs \in {before.runs, before.files["config"], New("config"), Absent}
  BY DEF HostInv, WhileWriting
<1>2. \A f \in File : New(f)' = New(f)
  BY DEF New
<1>3. \A f \in File : files'[f] \in {before'.files[f], New(f)'}
  BY <1>1, <1>2
<1>4. runs' \in {before'.runs, before'.files["config"], New("config")', Absent}
  BY <1>1, <1>2 DEF File
<1>5. HadUnit' = HadUnit
  BY DEF HadUnit
<1> QED
  BY <1>1, <1>3, <1>4, <1>5 DEF WhileWriting, base

\* A call that goes on has no doubts of its own.
LEMMA CallGoesOn ==
  ASSUME HostInv, pc # "idle", UNCHANGED <<outcome, before, flapped>>, doubt' => doubt
  PROVE  DuringCall'
BY DEF HostInv, DuringCall

\* A step of the try block that succeeds.
LEMMA ApplyProgress ==
  ASSUME HostInv, SecretsKnown, Apply
  PROVE  Progress'
<1> DEFINE h == Head(todo)
<1>1. /\ pc = "apply" /\ pc' = "apply" /\ todo # <<>> /\ todo' = Tail(todo)
      /\ touched' = Touches(h)
      /\ UNCHANGED <<failed, outcome, base, want, key, before, wasActive, wasEnabled, flapped>>
  BY DEF Apply, request
<1>2. /\ ~failed
      /\ Lists(ForwardRank, todo, Left)
      /\ Left \cap {"disable", "stop"} = {}
      /\ \A f \in File : files[f] = IF f \in Left THEN before.files[f] ELSE New(f)
      /\ enabled = ("enable" \notin Left)
      /\ "daemon-reload" \in Left \/ (loaded # Absent /\ (doubt \/ loaded = "current"))
      /\ touched \/ ((doubt \/ loaded = before.files["unit"]) /\ enabled = wasEnabled)
      /\ "start" \notin Left \/ ~wasActive
      /\ Left \cap {"restart", "start"} # {} \/ ~touched => Untouched
      /\ Left \cap {"restart", "start"} = {} => doubt \/ runs \in {Absent, New("config")}
      /\ "listen" \notin Left => doubt \/ runs # Absent
  BY <1>1 DEF HostInv, Applying
<1>3. /\ h \in Left /\ Left \subseteq Steps
      /\ Left' = Left \ {h}
      /\ \A x \in Left' : ForwardRank[h] < ForwardRank[x]
      /\ Lists(ForwardRank, todo', Left')
  BY <1>1, <1>2, ForwardOrder, StepLeaves
<1>4. TypeOK
  BY DEF HostInv
<1> DEFINE contents == [f \in File |-> New(f)]
<1>5. Do(h, contents) /\ \A f \in File : contents[f] = New(f)
  BY DEF Apply
<1>6. /\ \A f \in File : files'[f] = IF f = h THEN contents[f] ELSE files[f]
      /\ enabled' = IF h = "enable" THEN TRUE ELSE IF h = "disable" THEN FALSE ELSE enabled
      /\ loaded' = IF h \in {"daemon-reload", "enable", "disable"} THEN files["unit"] ELSE loaded
      /\ h \notin {"restart", "start", "stop"} => UNCHANGED <<active, runs, doubt>>
      /\ h = "restart" => Started(loaded)
      /\ h = "start" => IF active = "active" THEN UNCHANGED <<active, runs, doubt>> ELSE Started(loaded)
      /\ h = "restart" \/ (h = "start" /\ active # "active") => doubt' = (doubt /\ loaded # files["unit"])
      /\ h \in {"listen", "settle"} => active = "active"
  <2>1. h \in Steps
    BY <1>3
  <2> HIDE DEF h, contents
  <2> QED
    BY <1>4, <1>5, <2>1, DoEffect
<1>7. /\ runs' \in {runs, files["config"], Absent} /\ (doubt' => doubt) /\ doubt' \in BOOLEAN
  <2>1. h \in Steps
    BY <1>3
  <2> HIDE DEF h, contents
  <2> QED
    BY <1>4, <1>5, <2>1, DoTyped
<1>8. Left \subseteq Steps /\ New("unit") = "current"
  BY <1>3 DEF New, Content
<1>9. /\ flapped \/ wasActive = (before.runs # Absent)
      /\ account = "ours" /\ program = ProgramFile
  BY <1>1 DEF HostInv, WhileWriting
<1>10. /\ (runs # Absent) = (active = "active") /\ doubt \in BOOLEAN /\ enabled \in BOOLEAN
       /\ active \in {"active", "waiting", "inactive"}
  BY <1>4 DEF TypeOK
<1>11. New("config") # Absent
  <2>1. want \in Requests /\ key \in Keys
    BY <1>4 DEF TypeOK
  <2> QED
    BY <2>1, AbsentAssumption DEF New, File
<1> HIDE DEF h, contents
<1>12. \A f \in File : files'[f] = IF f \in Left' THEN before.files[f] ELSE New(f)
  BY <1>2, <1>3, <1>5, <1>6
<1>13. DuringCall'
  BY <1>1, <1>7, CallGoesOn
<1>14. WhileWriting'
  <2>1. \A f \in File : files'[f] \in {files[f], before.files[f], New(f)}
    BY <1>12
  <2> QED
    BY <1>1, <1>7, <2>1, WritingKept
\* What the commands of systemctl find.
<1>15. h \in {"daemon-reload", "enable", "restart", "start"} => files["unit"] = "current"
  <2>1. h \in {"daemon-reload", "enable", "restart", "start"} => "unit" \notin Left
    BY <1>3, ForwardOrder
  <2> QED
    BY <1>2, <1>8, <2>1 DEF File
<1>16. h \in {"restart", "start"} =>
         /\ loaded \notin {Absent, "foreign"} /\ (doubt \/ loaded = "current")
         /\ files["config"] = New("config") /\ Left' \cap {"restart", "start"} = {}
  <2>0. NoneForeign
    BY DEF HostInv
  <2>1. h \in {"restart", "start"} =>
          /\ "daemon-reload" \notin Left /\ "config" \notin Left
          /\ "restart" \notin Left' /\ "start" \notin Left'
    BY <1>3, ForwardOrder
  <2> QED
    BY <1>2, <1>15, <2>0, <2>1 DEF File, NoneForeign
<1>17. enabled' = ("enable" \notin Left')
  BY <1>2, <1>3, <1>6
<1>18. "daemon-reload" \in Left' \/ (loaded' # Absent /\ (doubt' \/ loaded' = "current"))
  <2>1. CASE h \in {"daemon-reload", "enable"}
    BY <1>6, <1>15, <2>1, AbsentAssumption
  <2>2. CASE h \notin {"daemon-reload", "enable"}
    <3>1. h \notin {"disable", "stop"} /\ loaded' = loaded
      BY <1>2, <1>3, <1>6, <2>2
    <3>2. "daemon-reload" \in Left' \/ (loaded # Absent /\ (doubt \/ loaded = "current"))
      BY <1>2, <1>3, <2>2
    <3>3. CASE h \in {"restart", "start"}
      <4>1. UNCHANGED doubt \/ doubt' = (doubt /\ loaded # "current")
        BY <1>6, <1>15, <3>3
      <4> QED
        BY <3>1, <3>2, <4>1
    <3>4. CASE h \notin {"restart", "start"}
      BY <1>6, <3>1, <3>2, <3>4
    <3> QED
      BY <3>3, <3>4
  <2> QED
    BY <2>1, <2>2
<1>19. touched' \/ ((doubt' \/ loaded' = before.files["unit"]) /\ enabled' = wasEnabled)
  <2>1. CASE h \in SystemctlCommands
    BY <1>1, <2>1 DEF Touches
  <2>2. CASE h \notin SystemctlCommands
    <3>1. UNCHANGED <<enabled, loaded, doubt>> /\ (touched => touched')
      BY <1>1, <1>6, <2>2 DEF Touches, SystemctlCommands
    <3> QED
      BY <1>1, <1>2, <3>1
  <2> QED
    BY <2>1, <2>2
<1>20. ASSUME h \notin {"restart", "start"}
       PROVE  /\ Left' \cap {"restart", "start"} # {} \/ ~touched' => Untouched'
              /\ Left' \cap {"restart", "start"} = {} => doubt' \/ runs' \in {Absent, New("config")}
              /\ "listen" \notin Left' => doubt' \/ runs' # Absent
  <2>1. /\ UNCHANGED <<active, runs, doubt>>
        /\ Left' \cap {"restart", "start"} = Left \cap {"restart", "start"}
        /\ touched => touched'
    BY <1>1, <1>2, <1>3, <1>6, <1>20 DEF Touches
  <2>2. Left' \cap {"restart", "start"} # {} \/ ~touched' => Untouched'
    <3>1. UNCHANGED Untouched
      BY <1>1, <2>1 DEF Untouched
    <3> QED
      BY <1>2, <2>1, <3>1
  <2>3. Left' \cap {"restart", "start"} = {} => doubt' \/ runs' \in {Absent, New("config")}
    BY <1>2, <2>1
  <2>4. "listen" \notin Left' => doubt' \/ runs' # Absent
    <3>1. CASE h = "listen"
      BY <1>6, <1>10, <2>1, <3>1
    <3>2. CASE h # "listen"
      BY <1>2, <1>3, <2>1, <3>2
    <3> QED
      BY <3>1, <3>2
  <2> QED
    BY <2>2, <2>3, <2>4
<1>21. ASSUME h \in {"restart", "start"}
       PROVE  /\ Left' \cap {"restart", "start"} # {} \/ ~touched' => Untouched'
              /\ Left' \cap {"restart", "start"} = {} => doubt' \/ runs' \in {Absent, New("config")}
              /\ "listen" \notin Left' => doubt' \/ runs' # Absent
  <2>1. touched' = TRUE /\ Left' \cap {"restart", "start"} = {}
    BY <1>1, <1>16, <1>21 DEF Touches, SystemctlCommands
  <2>2. CASE Started(loaded) /\ doubt' = (doubt /\ loaded # files["unit"])
    <3>1. CanStart(loaded)
      BY <1>9, <1>11, <1>16, <1>21, AbsentAssumption DEF CanStart
    <3>2. runs' = New("config")
      BY <1>4, <1>16, <1>21, <2>2, <3>1, StartEffect
    <3> QED
      BY <2>1, <3>2, <1>11
  <2>3. CASE h = "start" /\ active = "active"
    <3>1. ~wasActive /\ Untouched
      BY <1>2, <1>3, <2>3
    <3>2. flapped
      BY <1>9, <1>10, <2>3, <3>1 DEF Untouched
    <3>3. doubt' = doubt /\ doubt
      BY <1>6, <2>3, <3>1, <3>2 DEF Untouched
    <3> QED
      BY <2>1, <3>3
  <2> QED
    BY <1>6, <1>21, <2>2, <2>3
<1>22. /\ Left' \cap {"restart", "start"} # {} \/ ~touched' => Untouched'
       /\ Left' \cap {"restart", "start"} = {} => doubt' \/ runs' \in {Absent, New("config")}
       /\ "listen" \notin Left' => doubt' \/ runs' # Absent
  BY <1>20, <1>21
<1>23. Applying'
  <2>1. Lists(ForwardRank, todo, Left)'
    BY <1>3 DEF Lists, Ascending, ForwardRank
  <2>2. \A f \in File : New(f)' = New(f)
    BY <1>1 DEF New
  <2>3. \A f \in File : files'[f] = IF f \in Left' THEN before'.files[f] ELSE New(f)'
    BY <1>1, <1>12, <2>2
  <2>4. New("config")' = New("config")
    BY <2>2 DEF File
  <2>5. Left' \cap {"disable", "stop"} = {} /\ ("start" \notin Left' \/ ~wasActive') /\ ~failed'
    BY <1>1, <1>2, <1>3
  <2>6. touched' \/ ((doubt' \/ loaded' = before'.files["unit"]) /\ enabled' = wasEnabled')
    BY <1>1, <1>19
  <2> QED
    BY <1>17, <1>18, <1>22, <2>1, <2>3, <2>4, <2>5, <2>6 DEF Applying
<1> QED
  BY <1>1, <1>13, <1>14, <1>23 DEF Progress, BetweenCalls, BeforeWriting, Undoing, Early

\* A call that has made its steps has left files that belong together.
LEMMA SucceedProgress ==
  ASSUME HostInv, Succeed
  PROVE  Progress'
<1>1. /\ pc = "apply" /\ todo = <<>> /\ pc' = "idle" /\ outcome' = "applied"
      /\ UNCHANGED <<files, loaded, runs, doubt>>
  BY DEF Succeed, Finish, host
<1>2. Left = {}
  BY <1>1 DEF Left, Range
<1>3. /\ \A f \in File : files[f] = New(f)
      /\ doubt \/ loaded = "current"
      /\ doubt \/ runs \in {Absent, New("config")}
  BY <1>1, <1>2 DEF HostInv, Applying
<1>4. New("handoff") = New("config") /\ New("receipt") = New("config") /\ New("unit") = "current"
  BY DEF New, Content
<1> QED
  BY <1>1, <1>3, <1>4, Ended DEF BetweenCalls, File

-------------------------------------------------------------------------------
\* The except block.

\* A failed step leaves the try block with its state, and the except block
\* with all its steps.
LEMMA UndoBegins ==
  ASSUME HostInv, pc = "apply", pc' = "undo", todo # <<>>, StartUndo(Head(todo)),
         UNCHANGED <<base, want, key, before, wasActive, wasEnabled, flapped>>,
         \A f \in File : files'[f] \in {files[f], New(f)},
         runs' \in {runs, files["config"], Absent},
         doubt' => doubt,
         Head(todo) \notin SystemctlCommands => UNCHANGED <<enabled, loaded, active, runs, doubt>>
  PROVE  Progress'
<1>1. /\ touched' = Touches(Head(todo)) /\ todo' = UndoSteps(Touches(Head(todo)))
      /\ UNCHANGED <<failed, outcome>>
  BY DEF StartUndo
<1>2. /\ HadUnit \/ ~(wasEnabled \/ wasActive)
      /\ flapped \/ wasActive = (before.runs # Absent)
      /\ wasEnabled = before.enabled
  BY DEF HostInv, WhileWriting
<1>3. /\ HadUnit \in BOOLEAN /\ wasEnabled \in BOOLEAN /\ wasActive \in BOOLEAN /\ touched \in BOOLEAN
  BY DEF HostInv, TypeOK, HadUnit
<1>4. touched' \in BOOLEAN /\ HadUnit' = HadUnit
  BY <1>1, <1>3 DEF Touches, HadUnit
<1>5. DuringCall'
  BY <1>1, CallGoesOn
<1>6. WhileWriting'
  BY WritingKept
<1>7. CASE touched'
  <2>1. todo' = UndoSteps(TRUE) /\ StopsThen(UndoRank(HadUnit), UndoSteps(TRUE), Afterwards)
    BY <1>1, <1>3, <1>7, UndoStepsAscend
  <2>2. Left' = {"stop"} \cup Afterwards
    <3> DEFINE s == UndoSteps(TRUE)
    <3>1. s \in Seq(Steps) /\ s # <<>> /\ Head(s) = "stop" /\ Range(Tail(s)) = Afterwards
      BY <2>1 DEF StopsThen, Lists
    <3>2. Left' = Range(s)
      BY <2>1 DEF Left
    <3> HIDE DEF s
    <3>3. Range(s) = {Head(s)} \cup Range(Tail(s))
      BY <3>1, HeadAndTail
    <3> QED
      BY <3>1, <3>2, <3>3
  <2>3. UndoSteps(TRUE)' = UndoSteps(TRUE)
    BY <1>4 DEF UndoSteps
  <2>4. Pending'
    BY <1>7, <2>1, <2>3 DEF Pending
  <2>5. /\ File \subseteq Left' /\ "daemon-reload" \in Left'
        /\ Left' \cap {"enable", "disable"} # {}
        /\ Left' \subseteq File \cup (SystemctlCommands \ {"restart"})
        /\ "enable" \notin Left' \/ wasEnabled
        /\ "disable" \notin Left' \/ ~wasEnabled
        /\ "start" \notin Left' \/ wasActive
    BY <1>2, <1>3, <2>2 DEF Afterwards, File, SystemctlCommands
  <2>6. Restored'
    BY <1>7, <2>4, <2>5 DEF Restored
  <2> QED
    BY <1>5, <1>6, <1>7, <2>4, <2>5, <2>6
       DEF Progress, BetweenCalls, BeforeWriting, Applying, Undoing, Early
<1>8. CASE ~touched'
  <2>1. /\ todo' = Managed /\ ~touched /\ Head(todo) \notin SystemctlCommands
    BY <1>1, <1>3, <1>8, UndoOfFiles DEF Touches
  <2>2. Lists(UndoRank(HadUnit), Managed, File) /\ Left' = File
    BY <1>3, <2>1, ManagedAscends DEF Lists, Left
  <2>3. Lists(UndoRank(HadUnit), todo, Left)'
    BY <1>4, <2>1, <2>2 DEF Lists, Ascending, UndoRank
  <2>4. /\ doubt \/ loaded = before.files["unit"]
        /\ enabled = wasEnabled /\ Untouched
    BY <2>1 DEF HostInv, Applying
  <2>5. UNCHANGED <<enabled, loaded, active, runs, doubt>>
    BY <2>1
  <2>6. Untouched'
    BY <2>4, <2>5 DEF Untouched
  <2>7. Restored'
    BY <1>2, <1>8, <2>2, <2>4, <2>5, <2>6 DEF Restored
  <2>8. /\ Left' \subseteq File
        /\ "enable" \notin Left' /\ "disable" \notin Left' /\ "start" \notin Left' /\ "stop" \notin Left'
    BY <2>2 DEF File
  <2> QED
    BY <1>5, <1>6, <1>8, <2>3, <2>7, <2>8
       DEF Progress, BetweenCalls, BeforeWriting, Applying, Undoing, Early
<1> QED
  BY <1>4, <1>7, <1>8

\* A step of the try block that fails, or a service that does not serve.
LEMMA ForwardFailureProgress ==
  ASSUME HostInv, SecretsKnown, StepFails \/ NotServing
  PROVE  Progress'
<1> DEFINE h == Head(todo)
           contents == [f \in File |-> New(f)]
<1>0. TypeOK
  BY DEF HostInv
<1>1. pc = "apply" /\ todo # <<>> /\ StartUndo(h) /\ pc' = "undo"
      /\ UNCHANGED <<base, want, key, before, wasActive, wasEnabled, flapped>>
  BY DEF StepFails, NotServing, StartUndo, request
<1>2. h \in Steps
  <2>1. Lists(ForwardRank, todo, Left)
    BY <1>1 DEF HostInv, Applying
  <2> QED
    BY <1>1, <2>1, HeadTailProperties DEF Lists
<1>3. CASE StepFails
  <2>1. MayHaveDone(h, contents) /\ \A f \in File : contents[f] = New(f)
    BY <1>3 DEF StepFails
  <2> HIDE DEF h, contents
  <2>2. /\ \A f \in File : files'[f] \in {files[f], contents[f]}
        /\ runs' \in {runs, files["config"], Absent}
        /\ doubt' => doubt
    BY <1>0, <1>2, <2>1, FailureTyped
  <2>3. h \notin SystemctlCommands => UNCHANGED <<enabled, loaded, active, runs, doubt>>
    BY <1>0, <1>2, <2>1, FailureOfFile
  <2> QED
    BY <1>1, <2>1, <2>2, <2>3, UndoBegins DEF h
<1>4. CASE NotServing
  <2>1. UNCHANGED <<files, enabled, loaded, active, runs, doubt>>
    BY <1>4 DEF NotServing, host
  <2> QED
    BY <1>1, <2>1, UndoBegins
<1> QED
  BY <1>3, <1>4

\* The order of the steps of the except block.
LEMMA UndoOrder ==
  /\ HadUnit \in BOOLEAN /\ UndoRank(HadUnit) \in [Steps -> Int]
  /\ UndoRank(HadUnit)["config"] = 2 /\ UndoRank(HadUnit)["unit"] = 3
  /\ UndoRank(HadUnit)["daemon-reload"] = 7 /\ UndoRank(HadUnit)["enable"] = 8
  /\ UndoRank(HadUnit)["disable"] = IF HadUnit THEN 8 ELSE 0
  /\ UndoRank(HadUnit)["start"] = 9
  /\ \A step \in Steps : UndoRank(HadUnit)[step] <= 9
<1>1. HadUnit \in BOOLEAN
  BY DEF HadUnit
<1>2. UndoRank(HadUnit) \in [Steps -> Int]
  BY <1>1, RanksAreNumbers
<1> QED
  BY <1>1, <1>2 DEF UndoRank, Steps, File, SystemctlCommands

\* A step of the except block is the stop of the service, or it leaves the
\* steps of higher ranks.
LEMMA UndoLeaves ==
  ASSUME HostInv, pc = "undo", todo # <<>>, todo' = Tail(todo), UNCHANGED before
  PROVE  /\ Head(todo) \in Steps
         /\ Lists(UndoRank(HadUnit), todo, Left)'
         /\ Left' \subseteq Left
         /\ "stop" \notin Left' \/ ~wasActive
         /\ IF Pending THEN Head(todo) = "stop" /\ Left' = Afterwards
            ELSE /\ Head(todo) \in Left
                 /\ Left' = Left \ {Head(todo)}
                 /\ \A x \in Left' : UndoRank(HadUnit)[Head(todo)] < UndoRank(HadUnit)[x]
                 /\ Left' = {} => todo' = <<>>
<1>1. /\ HadUnit \in BOOLEAN /\ wasEnabled \in BOOLEAN /\ wasActive \in BOOLEAN
      /\ UndoRank(HadUnit) \in [Steps -> Int] /\ HadUnit' = HadUnit
  BY UndoOrder DEF HostInv, TypeOK, HadUnit
<1>2. CASE Pending
  <2>1. StopsThen(UndoRank(HadUnit), todo, Afterwards)
    BY <1>1, <1>2, UndoStepsAscend DEF Pending
  <2>2. /\ Head(todo) = "stop" /\ Lists(UndoRank(HadUnit), todo', Afterwards)
        /\ todo \in Seq(Steps)
    BY <2>1 DEF StopsThen
  <2>3. Left' = Afterwards
    BY <2>2 DEF Lists, Left
  <2>4. Left' \subseteq Left
    BY <2>2, TailRange DEF Left
  <2>5. Lists(UndoRank(HadUnit), todo, Left)'
    BY <1>1, <2>2, <2>3 DEF Lists, Ascending, UndoRank
  <2>6. "stop" \notin Left' \/ ~wasActive
    BY <2>3 DEF Afterwards, File
  <2> QED
    BY <1>2, <2>2, <2>3, <2>4, <2>5, <2>6 DEF Steps, SystemctlCommands
<1>3. CASE ~Pending
  <2>1. Lists(UndoRank(HadUnit), todo, Left) /\ ("stop" \notin Left \/ ~wasActive)
    BY <1>3 DEF HostInv, Undoing
  <2>2. /\ Head(todo) \in Left /\ Left \subseteq Steps
        /\ Left' = Left \ {Head(todo)}
        /\ \A x \in Left' : UndoRank(HadUnit)[Head(todo)] < UndoRank(HadUnit)[x]
        /\ Lists(UndoRank(HadUnit), todo', Left')
        /\ Left' = {} => todo' = <<>>
    BY <1>1, <2>1, StepLeaves
  <2>3. Lists(UndoRank(HadUnit), todo, Left)'
    BY <1>1, <2>2 DEF Lists, Ascending, UndoRank
  <2> QED
    BY <1>3, <2>1, <2>2, <2>3
<1> QED
  BY <1>2, <1>3

\* What is known of the steps of the except block is known of fewer of them.
LEMMA FewerSteps ==
  ASSUME HostInv, pc = "undo", pc' = "undo", Left' \subseteq Left,
         UNCHANGED <<touched, wasActive, wasEnabled, before>>,
         Lists(UndoRank(HadUnit), todo, Left)',
         "stop" \notin Left' \/ ~wasActive,
         touched => "daemon-reload" \in Left' \/ "unit" \notin Left',
         failed' \/ Restored',
         DuringCall', WhileWriting'
  PROVE  Progress'
<1>1. /\ Left \subseteq File \cup (SystemctlCommands \ {"restart"})
      /\ "enable" \notin Left \/ wasEnabled
      /\ "disable" \notin Left \/ ~wasEnabled
      /\ "start" \notin Left \/ wasActive
      /\ touched \/ Left \subseteq File
  BY DEF HostInv, Undoing
<1>2. Undoing'
  BY <1>1 DEF Undoing
<1> QED
  BY <1>2 DEF Progress, BetweenCalls, BeforeWriting, Applying, Early

\* One reload of systemd is still to come as long as the unit is.
LEMMA ReloadLeft ==
  ASSUME HostInv, pc = "undo", todo # <<>>, todo' = Tail(todo), UNCHANGED before, touched
  PROVE  "daemon-reload" \in Left' \/ "unit" \notin Left'
<1>1. CASE Pending
  BY <1>1, UndoLeaves DEF Afterwards
<1>2. CASE ~Pending
  BY <1>2, UndoLeaves, UndoOrder DEF HostInv, Undoing
<1> QED
  BY <1>1, <1>2

\* A step of the except block that fails.
LEMMA UndoFailsProgress ==
  ASSUME HostInv, SecretsKnown, UndoFails
  PROVE  Progress'
<1> DEFINE h == Head(todo)
<1>1. /\ pc = "undo" /\ pc' = "undo" /\ todo # <<>> /\ todo' = Tail(todo) /\ failed'
      /\ MayHaveDone(h, before.files)
      /\ UNCHANGED <<touched, outcome, base, want, key, before, wasActive, wasEnabled, flapped>>
  BY DEF UndoFails, request
<1>2. /\ h \in Steps
      /\ Lists(UndoRank(HadUnit), todo, Left)'
      /\ Left' \subseteq Left
      /\ "stop" \notin Left' \/ ~wasActive
  BY <1>1, UndoLeaves
<1> HIDE DEF h
<1>3. /\ \A f \in File : files'[f] \in {files[f], before.files[f]}
      /\ runs' \in {runs, files["config"], Absent}
      /\ doubt' => doubt
  BY <1>1, <1>2, FailureTyped DEF HostInv
<1>4. DuringCall'
  BY <1>1, <1>3, CallGoesOn
<1>5. WhileWriting'
  BY <1>1, <1>3, WritingKept
<1> QED
  BY <1>1, <1>2, <1>4, <1>5, FewerSteps, ReloadLeft

\* A step of the except block that succeeds.
LEMMA UndoProgress ==
  ASSUME HostInv, SecretsKnown, Undo
  PROVE  Progress'
<1> DEFINE h == Head(todo)
<1>1. /\ pc = "undo" /\ pc' = "undo" /\ todo # <<>> /\ todo' = Tail(todo)
      /\ Do(h, before.files)
      /\ UNCHANGED <<touched, failed, outcome, base, want, key, before, wasActive, wasEnabled, flapped>>
  BY DEF Undo, request
<1>2. /\ h \in Steps
      /\ Lists(UndoRank(HadUnit), todo, Left)'
      /\ Left' \subseteq Left
      /\ "stop" \notin Left' \/ ~wasActive
      /\ IF Pending THEN h = "stop" /\ Left' = Afterwards
         ELSE /\ h \in Left
              /\ Left' = Left \ {h}
              /\ \A x \in Left' : UndoRank(HadUnit)[h] < UndoRank(HadUnit)[x]
              /\ Left' = {} => todo' = <<>>
  BY <1>1, UndoLeaves
<1> HIDE DEF h
<1>3. /\ \A f \in File : files'[f] = IF f = h THEN before.files[f] ELSE files[f]
      /\ enabled' = IF h = "enable" THEN TRUE ELSE IF h = "disable" THEN FALSE ELSE enabled
      /\ loaded' = IF h \in {"daemon-reload", "enable", "disable"} THEN files["unit"] ELSE loaded
      /\ h \notin {"restart", "start", "stop"} => UNCHANGED <<active, runs, doubt>>
      /\ h = "stop" => active' = "inactive" /\ runs' = Absent
      /\ h = "start" => IF active = "active" THEN UNCHANGED <<active, runs, doubt>> ELSE Started(loaded)
  BY <1>1, <1>2, DoEffect DEF HostInv
<1>4. /\ runs' \in {runs, files["config"], Absent} /\ (doubt' => doubt)
  BY <1>1, <1>2, DoTyped DEF HostInv
<1>5. DuringCall'
  BY <1>1, <1>4, CallGoesOn
<1>6. WhileWriting'
  <2>1. \A f \in File : files'[f] \in {files[f], before.files[f], New(f)}
    BY <1>3
  <2> QED
    BY <1>1, <1>4, <2>1, WritingKept
<1>7. /\ account = "ours" /\ program = ProgramFile
      /\ before.files["unit"] # "foreign"
      /\ wasEnabled = before.enabled
      /\ HadUnit \/ ~(wasEnabled \/ wasActive)
      /\ flapped \/ wasActive = (before.runs # Absent)
      /\ before.doubt \/ before.runs \in {Absent, before.files["config"]}
  BY <1>1 DEF HostInv, WhileWriting, DuringCall
<1>8. /\ Left \subseteq File \cup (SystemctlCommands \ {"restart"})
      /\ "enable" \notin Left \/ wasEnabled
      /\ "disable" \notin Left \/ ~wasEnabled
      /\ "start" \notin Left \/ wasActive
      /\ IF touched THEN "daemon-reload" \in Left \/ "unit" \notin Left ELSE Left \subseteq File
      /\ failed \/ Restored
  BY <1>1 DEF HostInv, Undoing
<1>9. /\ wasEnabled \in BOOLEAN /\ wasActive \in BOOLEAN /\ touched \in BOOLEAN
      /\ active \in {"active", "waiting", "inactive"}
  BY DEF HostInv, TypeOK
<1>10. ASSUME ~failed', Pending
       PROVE  Restored'
  <2>1. h = "stop" /\ Left' = Afterwards /\ touched'
    BY <1>1, <1>2, <1>10 DEF Pending
  <2>2. /\ File \subseteq Left' /\ Left' \cap {"enable", "disable"} # {} /\ "daemon-reload" \in Left'
        /\ active' = "inactive" /\ runs' = Absent
    BY <1>3, <2>1 DEF Afterwards, File
  <2>3. Left' \cap {"start", "stop"} = {} => ~wasActive
    BY <1>7, <2>1 DEF Afterwards
  <2> QED
    BY <1>1, <1>7, <2>1, <2>2, <2>3 DEF Restored
<1>11. ASSUME ~failed', ~Pending
       PROVE  Restored'
  <2>1. /\ h \in Left /\ Left' = Left \ {h}
        /\ \A x \in Left' : UndoRank(HadUnit)[h] < UndoRank(HadUnit)[x]
        /\ Left' = {} => todo' = <<>>
    BY <1>2, <1>11
  <2>2. /\ \A f \in File \ Left : files[f] = before.files[f]
        /\ Left \cap {"enable", "disable"} = {} => enabled = before.enabled
        /\ "daemon-reload" \notin Left => loaded = before.files["unit"] \/ (doubt /\ ~touched)
        /\ ~touched => Untouched
        /\ touched => active = "inactive"
        /\ touched /\ Left \cap {"start", "stop"} = {} =>
             /\ runs \in {Absent, before.files["config"]}
             /\ before.doubt \/ flapped \/ runs = before.runs
    BY <1>1, <1>8, <1>11 DEF Restored
  <2>3. \A f \in File \ Left' : files'[f] = before'.files[f]
    BY <1>1, <1>3, <2>1, <2>2
  <2>4. h \in {"daemon-reload", "enable"} \/ (h = "disable" /\ HadUnit) => files["unit"] = before.files["unit"]
    <3>1. h \in {"daemon-reload", "enable"} \/ (h = "disable" /\ HadUnit) => "unit" \notin Left
      BY <1>2, <2>1, UndoOrder
    <3> QED
      BY <2>2, <3>1 DEF File
  <2>5. h = "start" => Left' = {} /\ "config" \notin Left /\ "daemon-reload" \notin Left
    <3>1. Left' \subseteq Steps
      BY <1>8, <2>1 DEF Steps
    <3>2. \A x \in Steps : UndoRank(HadUnit)[x] \in Int /\ UndoRank(HadUnit)[x] <= 9
      BY UndoOrder
    <3>3. h = "start" => \A x \in Left' : 9 < UndoRank(HadUnit)[x]
      BY <2>1, UndoOrder
    <3>4. h = "start" => \A x \in Left' : FALSE
      BY <3>1, <3>2, <3>3
    <3>5. h = "start" => "config" \notin Left' /\ "daemon-reload" \notin Left'
      BY <3>4
    <3> QED
      BY <2>1, <3>4, <3>5
  <2>6. Left' \cap {"enable", "disable"} = {} => enabled' = before'.enabled
    BY <1>1, <1>3, <1>7, <1>8, <1>9, <2>1, <2>2
  <2>7. "daemon-reload" \notin Left' => loaded' = before'.files["unit"] \/ (doubt' /\ ~touched')
    <3>1. CASE h = "disable" /\ ~HadUnit
      <4>1. "daemon-reload" \notin Left' => "unit" \notin Left
        BY <1>8, <2>1, <3>1 DEF File
      <4> QED
        BY <1>1, <1>3, <2>2, <3>1, <4>1 DEF File
    <3>2. CASE h \in {"daemon-reload", "enable"} \/ (h = "disable" /\ HadUnit)
      BY <1>1, <1>3, <2>4, <3>2
    <3>3. CASE h \notin {"daemon-reload", "enable", "disable"}
      <4>1. ~touched => h \notin {"restart", "start", "stop"}
        BY <1>8, <2>1 DEF File
      <4> QED
        BY <1>1, <1>3, <2>1, <2>2, <3>3, <4>1
    <3> QED
      BY <3>1, <3>2, <3>3
  <2>8. ~touched' => Untouched'
    <3>1. ~touched => UNCHANGED Untouched
      <4>1. ~touched => h \notin {"restart", "start", "stop"}
        BY <1>8, <2>1 DEF File
      <4> QED
        BY <1>1, <1>3, <4>1 DEF Untouched
    <3> QED
      BY <1>1, <2>2, <3>1
  <2>9. ASSUME touched
        PROVE  /\ todo' # <<>> => active' = "inactive"
               /\ Left' \cap {"start", "stop"} = {} =>
                    /\ runs' \in {Absent, before.files["config"]}
                    /\ before.doubt \/ flapped \/ runs' = before.runs
    <3>1. CASE h \notin {"start", "stop"}
      <4>1. h # "restart"
        BY <1>8, <2>1 DEF File
      <4>2. UNCHANGED <<active, runs>> /\ Left' \cap {"start", "stop"} = Left \cap {"start", "stop"}
        BY <1>3, <2>1, <3>1, <4>1
      <4> QED
        BY <2>2, <2>9, <4>2
    <3>2. CASE h = "stop"
      <4>1. active' = "inactive" /\ runs' = Absent
        BY <1>3, <3>2
      <4>2. ~wasActive
        BY <1>1, <1>11, <2>1, <3>2 DEF HostInv, Undoing
      <4> QED
        BY <1>7, <4>1, <4>2
    <3>3. CASE h = "start"
      <4>1. /\ todo' = <<>> /\ wasActive /\ Started(loaded)
            /\ files["config"] = before.files["config"] /\ loaded = before.files["unit"]
        BY <1>3, <1>8, <2>1, <2>2, <2>5, <2>9, <3>3 DEF File
      <4>2. runs' \in {Absent, before.files["config"]}
        BY <4>1, StartEffect DEF HostInv
      <4>3. ASSUME ~before.doubt, ~flapped
            PROVE  runs' = before.runs
        <5>1. before.runs = before.files["config"] /\ before.runs # Absent
          BY <1>7, <4>1, <4>3
        <5>2. CanStart(loaded)
          BY <1>7, <4>1, <5>1 DEF CanStart, HadUnit
        <5> QED
          BY <4>1, <5>1, <5>2, StartEffect DEF HostInv
      <4> QED
        BY <4>1, <4>2, <4>3
    <3> QED
      BY <3>1, <3>2, <3>3
  <2> QED
    BY <1>1, <2>3, <2>6, <2>7, <2>8, <2>9 DEF Restored
<1>12. failed' \/ Restored'
  BY <1>10, <1>11
<1> QED
  BY <1>1, <1>2, <1>5, <1>6, <1>12, FewerSteps, ReloadLeft

\* The except block is over.
LEMMA RaiseProgress ==
  ASSUME HostInv, Raise
  PROVE  Progress'
<1>1. /\ pc = "undo" /\ todo = <<>> /\ pc' = "idle"
      /\ outcome' \in {"incomplete", "unchanged"}
      /\ doubt' = (doubt \/ failed) /\ UNCHANGED <<files, loaded, runs>>
  BY DEF Raise, Finish, host
<1>2. Left = {}
  BY <1>1 DEF Left, Range
<1>3. doubt' \/ (runs \in {Absent, files["config"]} /\ loaded = files["unit"])
  <2>1. ASSUME ~failed, ~doubt
        PROVE  runs \in {Absent, files["config"]} /\ loaded = files["unit"]
    <3>1. Restored
      BY <1>1, <2>1 DEF HostInv, Undoing
    <3>2. /\ files["config"] = before.files["config"]
          /\ loaded = files["unit"]
      BY <1>2, <2>1, <3>1 DEF Restored, File
    <3>3. before.doubt \/ before.runs \in {Absent, before.files["config"]}
      BY <1>1 DEF HostInv, DuringCall
    <3>4. CASE touched
      <4>1. ~Pending
        <5>1. HadUnit \in BOOLEAN /\ wasEnabled \in BOOLEAN /\ wasActive \in BOOLEAN
          BY UndoOrder DEF HostInv, TypeOK
        <5>2. UndoSteps(TRUE) # <<>>
          BY <5>1, UndoStepsAscend DEF StopsThen
        <5> QED
          BY <1>1, <5>2 DEF Pending
      <4> QED
        BY <1>2, <3>1, <3>2, <3>4, <4>1 DEF Restored
    <3>5. CASE ~touched
      BY <2>1, <3>1, <3>2, <3>3, <3>5 DEF Restored, Untouched
    <3> QED
      BY <3>4, <3>5
  <2>2. failed \in BOOLEAN /\ doubt \in BOOLEAN
    BY DEF HostInv, TypeOK
  <2> QED
    BY <1>1, <2>1, <2>2
<1> QED
  BY <1>1, <1>3, Ended DEF BetweenCalls

-------------------------------------------------------------------------------
\* The service's own doings.

\* The service fails, comes back or gives up.
LEMMA ServiceProgress ==
  ASSUME HostInv, ServiceFails \/ ServiceComesBack \/ ServiceGivesUp
  PROVE  Progress'
<1>1. /\ active \in {"active", "waiting"}
      /\ runs' \in {files["config"], Absent}
      /\ UNCHANGED <<files, loaded, enabled, base, lastKey, control, calls, given>>
      /\ UNCHANGED <<want, key, before, wasActive, wasEnabled>>
      /\ flapped' = (flapped \/ pc # "idle")
  <2>1. CASE ServiceFails
    BY <2>1 DEF ServiceFails, Process, Meddled
  <2>2. CASE ServiceComesBack
    BY <2>2, StartEffect DEF ServiceComesBack, Meddled, HostInv, budget
  <2>3. CASE ServiceGivesUp
    BY <2>3 DEF ServiceGivesUp, Process, Meddled, budget
  <2> QED
    BY <2>1, <2>2, <2>3
<1>2. UNCHANGED <<pc, todo, touched, failed, outcome, account, program>>
  BY <1>1 DEF control, base
<1>3. CASE pc = "idle"
  <2>1. doubt' = doubt \/ doubt' = (doubt /\ loaded # files["unit"])
    BY <1>3 DEF ServiceFails, ServiceComesBack, ServiceGivesUp, Doubted, Settled
  <2>2. doubt \/ loaded = files["unit"]
    BY <1>3 DEF HostInv, BetweenCalls
  <2>3. doubt' \/ loaded' = files'["unit"]
    BY <1>1, <2>1, <2>2 DEF HostInv, TypeOK
  <2> QED
    BY <1>1, <1>2, <1>3, <2>3, Ended DEF BetweenCalls, HostInv
<1>4. CASE pc # "idle"
  <2>1. doubt' = TRUE /\ flapped' = TRUE
    BY <1>1, <1>4 DEF ServiceFails, ServiceComesBack, ServiceGivesUp, Doubted
  <2>2. \A f \in File : New(f)' = New(f)
    BY <1>1 DEF New
  <2>3. HadUnit' = HadUnit /\ Left' = Left
    BY <1>1, <1>2 DEF HadUnit, Left
  <2>4. DuringCall'
    BY <1>1, <1>2, <1>4, <2>1 DEF DuringCall, HostInv
  <2>5. Untouched'
    BY <2>1 DEF Untouched
  <2>6. BeforeWriting'
    <3>1. ASSUME pc \in Early
          PROVE  /\ files = before.files
                 /\ enabled = before.enabled
                 /\ ~touched /\ ~failed
                 /\ pc # "account" => account = "ours"
                 /\ pc \in {"program", "keys", "probe"} => UnitFound
                 /\ pc \in {"keys", "probe"} => program = ProgramFile
                 /\ pc # "probe" => lastKey < calls
      BY <3>1 DEF HostInv, BeforeWriting
    <3>2. pc \in Early => runs' \in {before.runs, before.files["config"], Absent}
      BY <1>1, <3>1
    <3> QED
      BY <1>1, <1>2, <2>1, <2>5, <3>1, <3>2 DEF BeforeWriting, UnitFound
  <2>7. WhileWriting'
    <3>1. CASE pc \in {"apply", "undo"}
      <4>1. \A f \in File : files'[f] \in {files[f], before.files[f], New(f)}
        BY <1>1
      <4>2. UNCHANGED <<base, want, key, before, wasActive, wasEnabled>>
        BY <1>1
      <4>3. flapped' = TRUE /\ runs' \in {runs, files["config"], Absent} /\ pc' = pc
        BY <1>1, <1>2, <2>1
      <4> QED
        BY <1>2, <3>1, <4>1, <4>2, <4>3, WritingKept
    <3>2. CASE pc \notin {"apply", "undo"}
      BY <1>2, <3>2 DEF WhileWriting
    <3> QED
      BY <3>1, <3>2
  <2>8. Applying'
    <3>1. Lists(ForwardRank, todo, Left) => Lists(ForwardRank, todo, Left)'
      BY <1>2, <2>3 DEF Lists, Ascending, ForwardRank
    <3>2. ASSUME pc = "apply"
          PROVE  /\ ~failed /\ Lists(ForwardRank, todo, Left)
                 /\ Left \cap {"disable", "stop"} = {}
                 /\ \A f \in File : files[f] = IF f \in Left THEN before.files[f] ELSE New(f)
                 /\ enabled = ("enable" \notin Left)
                 /\ "daemon-reload" \in Left \/ (loaded # Absent /\ (doubt \/ loaded = "current"))
                 /\ touched \/ ((doubt \/ loaded = before.files["unit"]) /\ enabled = wasEnabled)
                 /\ "start" \notin Left \/ ~wasActive
      BY <3>2 DEF HostInv, Applying
    <3> QED
      BY <1>1, <1>2, <2>1, <2>2, <2>3, <2>5, <3>1, <3>2 DEF Applying
  <2>9. Undoing'
    <3>1. Lists(UndoRank(HadUnit), todo, Left) => Lists(UndoRank(HadUnit), todo, Left)'
      BY <1>2, <2>3 DEF Lists, Ascending, UndoRank
    <3>2. Pending' = Pending
      <4>1. UndoSteps(TRUE)' = UndoSteps(TRUE)
        BY <1>1, <2>3 DEF UndoSteps
      <4> QED
        BY <1>2, <4>1 DEF Pending
    <3>3. ASSUME pc = "undo"
          PROVE  /\ Pending \/ Lists(UndoRank(HadUnit), todo, Left)
                 /\ Left \subseteq File \cup (SystemctlCommands \ {"restart"})
                 /\ "enable" \notin Left \/ wasEnabled
                 /\ "disable" \notin Left \/ ~wasEnabled
                 /\ "start" \notin Left \/ wasActive
                 /\ "stop" \notin Left \/ Pending \/ ~wasActive
                 /\ IF touched THEN "daemon-reload" \in Left \/ "unit" \notin Left ELSE Left \subseteq File
                 /\ failed \/ Restored
      BY <3>3 DEF HostInv, Undoing
    <3>4. pc = "undo" /\ Restored => Restored'
      <4>1. ASSUME Restored
            PROVE  /\ \A f \in File \ Left : files[f] = before.files[f]
                   /\ Left \cap {"enable", "disable"} = {} => enabled = before.enabled
                   /\ "daemon-reload" \notin Left => loaded = before.files["unit"] \/ (doubt /\ ~touched)
                   /\ touched /\ ~Pending => todo = <<>>
        BY <1>1, <4>1 DEF Restored
      <4>2. ASSUME Restored, todo = <<>>
            PROVE  runs' \in {Absent, before.files["config"]}
        <5>1. Left = {}
          BY <4>2 DEF Left, Range
        <5> QED
          BY <1>1, <4>1, <4>2, <5>1 DEF File
      <4> QED
        BY <1>1, <1>2, <2>1, <2>3, <2>5, <3>2, <4>1, <4>2 DEF Restored
    <3> QED
      BY <1>1, <1>2, <2>3, <3>1, <3>2, <3>3, <3>4 DEF Undoing
  <2> QED
    BY <1>2, <1>4, <2>4, <2>6, <2>7, <2>8, <2>9 DEF Progress, BetweenCalls
<1> QED
  BY <1>3, <1>4

\* Nothing happens.
LEMMA StutterProgress ==
  ASSUME HostInv, UNCHANGED vars
  PROVE  Progress'
<1> USE DEF vars, host, base, control, request, budget
<1>1. UNCHANGED <<BetweenCalls, DuringCall, BeforeWriting, WhileWriting>>
  BY DEF BetweenCalls, DuringCall, BeforeWriting, WhileWriting, Untouched, New, HadUnit, UnitFound
<1>2. UNCHANGED <<Left, HadUnit, Untouched>>
  BY DEF Left, HadUnit, Untouched
<1>3. UNCHANGED Pending
  BY <1>2 DEF Pending, UndoSteps
<1>4. UNCHANGED Restored
  BY <1>2, <1>3 DEF Restored
<1>5. /\ Lists(ForwardRank, todo, Left)' = Lists(ForwardRank, todo, Left)
      /\ Lists(UndoRank(HadUnit), todo, Left)' = Lists(UndoRank(HadUnit), todo, Left)
  BY <1>2 DEF Lists, Ascending, ForwardRank, UndoRank
<1>6. UNCHANGED Applying
  BY <1>2, <1>5 DEF Applying, New
<1>7. UNCHANGED Undoing
  BY <1>2, <1>3, <1>4, <1>5 DEF Undoing
<1> QED
  BY <1>1, <1>6, <1>7 DEF Progress, HostInv

\* A command of systemctl reads the unit on disk, or does not.
LEMMA UnitOfStep ==
  ASSUME NEW step, NEW contents, Do(step, contents) \/ MayHaveDone(step, contents)
  PROVE  loaded' \in {loaded, files["unit"]}
BY DEF Do, MayHaveDone, WriteFile, Systemctl, SystemctlCommands, Probe, host

\* No step brings a unit of somebody else's to systemd.
LEMMA UnitNext ==
  ASSUME HostInv, [Next]_vars, Progress'
  PROVE  NoneForeign'
<1> USE DEF host, base, control, request, budget
<1>1. CASE Apply \/ StepFails \/ NotServing \/ Undo \/ UndoFails
  <2>1. pc \in {"apply", "undo"} /\ pc' \in {"apply", "undo"}
    BY <1>1 DEF Apply, StepFails, NotServing, Undo, UndoFails, StartUndo
  <2>2. loaded' \in {loaded, files["unit"]}
    BY <1>1, UnitOfStep DEF Apply, StepFails, NotServing, Undo, UndoFails
  <2>3. /\ files["unit"] \in {before.files["unit"], New("unit")}
        /\ before.files["unit"] # "foreign"
    BY <2>1 DEF HostInv, WhileWriting, File
  <2>4. New("unit") = "current"
    BY DEF New, Content
  <2> QED
    BY <2>2, <2>3, <2>4 DEF HostInv, NoneForeign
<1>2. CASE ~(Apply \/ StepFails \/ NotServing \/ Undo \/ UndoFails)
  <2>1. files' = files /\ loaded' \in {loaded, files["unit"]}
    BY <1>2 DEF Next, Begin, EnsureUser, Inspect, ShownUnits, WriteProgram, VerifyProgram,
       ChooseKeys, ProbeService, UnsafeHost, DownloadFails, CandidateFails, CheckFails, Refuse,
       Succeed, Raise, Killed, Reboot, ServiceFails, ServiceComesBack, ServiceGivesUp, vars
  <2> QED
    BY <2>1 DEF HostInv, NoneForeign
<1> QED
  BY <1>1, <1>2

\* HostInv is inductive.
LEMMA HostInvNext ==
  ASSUME HostInv, SecretsKnown, [Next]_vars
  PROVE  HostInv'
<1>1. TypeOK'
  BY TypeNext
<1>2. Progress'
  <2>1. CASE Begin
    BY <2>1, BeginProgress
  <2>2. CASE EnsureUser
    BY <2>2, EnsureUserProgress
  <2>3. CASE Inspect
    BY <2>3, InspectProgress
  <2>4. CASE WriteProgram \/ VerifyProgram \/ ChooseKeys
    BY <2>4, ProgramProgress
  <2>5. CASE ProbeService
    BY <2>5, ProbeProgress
  <2>6. CASE UnsafeHost \/ DownloadFails \/ CandidateFails
    BY <2>6, CheckFailsProgress
  <2>7. CASE Apply
    BY <2>7, ApplyProgress
  <2>8. CASE Succeed
    BY <2>8, SucceedProgress
  <2>9. CASE StepFails \/ NotServing
    BY <2>9, ForwardFailureProgress
  <2>10. CASE Undo
    BY <2>10, UndoProgress
  <2>11. CASE UndoFails
    BY <2>11, UndoFailsProgress
  <2>12. CASE Raise
    BY <2>12, RaiseProgress
  <2>13. CASE Killed \/ Reboot
    BY <2>13, CutProgress
  <2>14. CASE ServiceFails \/ ServiceComesBack \/ ServiceGivesUp
    BY <2>14, ServiceProgress
  <2>15. CASE UNCHANGED vars
    BY <2>15, StutterProgress
  <2> QED
    BY <2>1, <2>2, <2>3, <2>4, <2>5, <2>6, <2>7, <2>8, <2>9, <2>10, <2>11, <2>12, <2>13,
       <2>14, <2>15
       DEF Next
<1>3. NoneForeign'
  BY <1>2, UnitNext
<1> QED
  BY <1>1, <1>2, <1>3 DEF HostInv, Progress

-------------------------------------------------------------------------------
\* The invariants hold always.
LEMMA HostInvariance == Spec => [](Inv /\ HostInv)
<1>1. Init => Inv /\ HostInv
  BY InvInit, TypeInit, ProgressInit DEF HostInv, Progress, Init, NoneForeign
<1>2. Inv /\ HostInv /\ [Next]_vars => (Inv /\ HostInv)'
  BY InvNext, HostInvNext DEF Inv
<1> QED
  BY <1>1, <1>2, PTL DEF Spec

\* Every variable stays within its type, wherever calls are cut off, and a rollback
\* that has tried no command of systemctl (systemd_touched) restores files only.
THEOREM TypesAreKept == Spec => []TypeOK
<1>1. HostInv => TypeOK
  BY DEF HostInv
<1> QED
  BY <1>1, HostInvariance, PTL

\* Between calls the process runs the configuration on disk, systemd has read the
\* unit on disk, and the handoff and the receipt of a call that succeeded belong to
\* the configuration, unless a kill, a failed rollback or a restart of the service's
\* own has made that doubtful; `systemctl show` alone reads no unit again.
THEOREM FilesAreServed == Spec => []ServesItsFiles
<1>1. HostInv => ServesItsFiles
  BY DEF HostInv, BetweenCalls, ServesItsFiles
<1> QED
  BY <1>1, HostInvariance, PTL

-------------------------------------------------------------------------------
\* A call, seen as one step.

\* What the outside is shown.
LEMMA WhatIsShown ==
  /\ pc = "idle" => /\ Shown.files = files /\ Shown.enabled = enabled
                    /\ Shown.runs = runs /\ Shown.doubt = doubt
  /\ pc # "idle" => /\ Shown.files = before.files /\ Shown.enabled = before.enabled
                    /\ Shown.runs = before.runs /\ Shown.doubt = before.doubt
BY DEF Shown, Now

\* The same after a step.
LEMMA WhatIsShownNext ==
  /\ pc' = "idle" => /\ Shown'.files = files' /\ Shown'.enabled = enabled'
                     /\ Shown'.runs = runs' /\ Shown'.doubt = doubt'
  /\ pc' # "idle" => /\ Shown'.files = before'.files /\ Shown'.enabled = before'.enabled
                     /\ Shown'.runs = before'.runs /\ Shown'.doubt = before'.doubt
BY DEF Shown, Now

\* The key pair of the call is one that it may use.
LEMMA KeyIsUsable ==
  ASSUME HostInv, SecretsKnown, pc \in {"apply", "undo"}
  PROVE  key \in Promise!UsableKeys
<1>1. /\ key \in Keys
      /\ before.files["secrets"] \in {Absent, New("secrets")}
      /\ KeyOf(New("secrets")) = key
      /\ Shown.files = before.files
  BY WhatIsShown DEF HostInv, TypeOK, SecretsKnown, New, Content, KeyOf
<1> QED
  BY <1>1 DEF Promise!UsableKeys

\* A call that ends has a beginning.
LEMMA Running ==
  ASSUME HostInv, pc # "idle", pc' = "idle", UNCHANGED <<want, flapped>>
  PROVE  Promise!End(outcome')
BY DEF HostInv, DuringCall, Promise!End

\* The doubts that are left at the end of a call are old ones, or the service's.
LEMMA DoubtsAtEnd ==
  ASSUME HostInv, pc # "idle", pc' = "idle", UNCHANGED doubt
  PROVE  Shown'.doubt \in {FALSE, Shown.doubt \/ flapped}
<1>1. doubt \in BOOLEAN /\ (doubt => before.doubt \/ flapped)
  BY DEF HostInv, TypeOK, DuringCall
<1> QED
  BY <1>1, WhatIsShown, WhatIsShownNext

\* A call that ends before its first write.
LEMMA RefusedIsUnchanged ==
  ASSUME HostInv, HostInv', pc \in Early, Finish("unchanged"),
         UNCHANGED <<host, doubt, want, before, flapped>>
  PROVE  Promise!Unchanged
<1>1. pc # "idle" /\ pc' = "idle" /\ outcome' = "unchanged" /\ UNCHANGED <<files, enabled, runs>>
  BY DEF Finish, Early, host
<1>2. /\ files = before.files /\ enabled = before.enabled
      /\ runs \in {before.runs, before.files["config"], Absent}
      /\ flapped \/ runs = before.runs
  BY DEF HostInv, BeforeWriting, Untouched
<1>3. doubt' \/ runs' \in {Absent, files'["config"]}
  BY <1>1 DEF HostInv, BetweenCalls
<1>4. Shown'.doubt \in {FALSE, Shown.doubt \/ flapped}
  BY <1>1, DoubtsAtEnd
<1>5. Promise!End("unchanged")
  BY <1>1, Running
<1> QED
  BY <1>1, <1>2, <1>3, <1>4, <1>5, WhatIsShown, WhatIsShownNext DEF Promise!Unchanged

\* A call that has made all its steps.
LEMMA SucceedIsApplied ==
  ASSUME HostInv, SecretsKnown, Succeed
  PROVE  Promise!Applied
<1>1. /\ pc = "apply" /\ todo = <<>> /\ pc' = "idle" /\ outcome' = "applied"
      /\ UNCHANGED <<files, enabled, runs, doubt, want, key, before, flapped>>
  BY DEF Succeed, Finish, host, request
<1>2. Left = {}
  BY <1>1 DEF Left, Range
<1>3. /\ \A f \in File : files[f] = New(f)
      /\ enabled = TRUE
      /\ doubt \/ runs \in {Absent, New("config")}
      /\ doubt \/ runs # Absent
  BY <1>1, <1>2 DEF HostInv, Applying
<1>4. runs \in {before.runs, before.files["config"], New("config"), Absent}
  BY <1>1 DEF HostInv, WhileWriting
<1>5. files = Promise!Owned(key)
  BY <1>3 DEF SecretsKnown, Promise!Owned, New
<1>6. key \in Promise!UsableKeys
  BY <1>1, KeyIsUsable
<1>7. before.files["secrets"] \in {Absent, Content("secrets", want, key)}
  BY <1>1 DEF SecretsKnown, New
<1>8. Shown'.doubt \in {FALSE, Shown.doubt \/ flapped}
  BY <1>1, DoubtsAtEnd
<1>9. Promise!End("applied")
  BY <1>1, Running
<1>10. files["config"] = New("config")
  BY <1>3 DEF File
<1> QED
  BY <1>1, <1>3, <1>4, <1>5, <1>6, <1>7, <1>8, <1>9, <1>10, WhatIsShown, WhatIsShownNext
     DEF Promise!Applied

\* A call that was cut off, or whose rollback failed.
LEMMA CutIsBroken ==
  ASSUME HostInv, HostInv', SecretsKnown, pc # "idle", pc' = "idle", outcome' \in {"incomplete", "cut"},
         UNCHANGED <<files, want, key, before, flapped>>, runs' \in {runs, files["config"], Absent}
  PROVE  Promise!Broken
<1>1. Promise!End(outcome')
  BY Running
<1>2. \E k \in Promise!UsableKeys, written \in SUBSET File :
        files = [f \in File |-> IF f \in written THEN Content(f, want, k) ELSE before.files[f]]
  <2>1. CASE pc \in {"apply", "undo"}
    <3> DEFINE written == {f \in File : files[f] = New(f)}
    <3>1. \A f \in File : files[f] \in {before.files[f], New(f)}
      BY <2>1 DEF HostInv, WhileWriting
    <3>2. files = [f \in File |-> IF f \in written THEN Content(f, want, key) ELSE before.files[f]]
      BY <3>1 DEF SecretsKnown, New
    <3>3. key \in Promise!UsableKeys
      BY <2>1, KeyIsUsable
    <3> QED
      BY <3>2, <3>3
  <2>2. CASE pc \in Early
    <3>1. files = before.files
      BY <2>2 DEF HostInv, BeforeWriting
    <3>2. \E k : k \in Promise!UsableKeys
      <4>1. 0 \in Keys
        BY ExitInstallerAssumption DEF Keys
      <4> QED
        BY <4>1 DEF Promise!UsableKeys
    <3>3. files = [f \in File |-> before.files[f]]
      BY <3>1 DEF SecretsKnown
    <3>4. PICK k \in Promise!UsableKeys : TRUE
      BY <3>2
    <3> DEFINE written == {}
    <3>5. written \in SUBSET File
      OBVIOUS
    <3>6. files = [f \in File |-> IF f \in written THEN Content(f, want, k) ELSE before.files[f]]
      BY <3>3
    <3> HIDE DEF written
    <3> QED
      BY <3>4, <3>5, <3>6
  <2> QED
    BY <2>1, <2>2 DEF HostInv, TypeOK, Early
<1>3. runs' \in {before.runs, before.files["config"], Absent}
                  \cup {Content("config", want, k) : k \in Promise!UsableKeys}
  <2>1. CASE pc \in {"apply", "undo"}
    <3>1. /\ files["config"] \in {before.files["config"], New("config")}
          /\ runs \in {before.runs, before.files["config"], New("config"), Absent}
      BY <2>1 DEF HostInv, WhileWriting, File
    <3>2. key \in Promise!UsableKeys
      BY <2>1, KeyIsUsable
    <3> QED
      BY <3>1, <3>2 DEF New
  <2>2. CASE pc \in Early
    BY <2>2 DEF HostInv, BeforeWriting
  <2> QED
    BY <2>1, <2>2 DEF HostInv, TypeOK, Early
<1>4. doubt' \/ runs' \in {Absent, files'["config"]}
  BY DEF HostInv, BetweenCalls
<1>5. enabled' \in BOOLEAN /\ doubt' \in BOOLEAN
  BY DEF HostInv, TypeOK
<1> QED
  BY <1>1, <1>2, <1>3, <1>4, <1>5, WhatIsShown, WhatIsShownNext DEF Promise!Broken

\* A rollback in which nothing has failed.
LEMMA RaiseIsUnchanged ==
  ASSUME HostInv, HostInv', SecretsKnown, Raise, ~failed
  PROVE  Promise!Unchanged
<1>1. /\ pc = "undo" /\ todo = <<>> /\ pc' = "idle" /\ outcome' = "unchanged"
      /\ doubt' = doubt
      /\ UNCHANGED <<files, enabled, runs, want, key, before, flapped>>
  BY DEF Raise, Finish, host, request, HostInv, TypeOK
<1>2. Left = {} /\ Restored
  BY <1>1 DEF Left, Range, HostInv, Undoing
<1>3. files = before.files
  BY <1>2 DEF Restored, SecretsKnown
<1>4. enabled = before.enabled
  BY <1>2 DEF Restored
<1>5. ~Pending
  <2>1. HadUnit \in BOOLEAN /\ wasEnabled \in BOOLEAN /\ wasActive \in BOOLEAN
    BY UndoOrder DEF HostInv, TypeOK
  <2>2. UndoSteps(TRUE) # <<>>
    BY <2>1, UndoStepsAscend DEF StopsThen
  <2> QED
    BY <1>1, <2>2 DEF Pending
<1>6. before.doubt \/ flapped \/ runs = before.runs
  BY <1>2, <1>5 DEF Restored, Untouched
<1>7. runs \in {before.runs, before.files["config"], Absent}
               \cup (IF flapped THEN {Content("config", want, k) : k \in Promise!UsableKeys} ELSE {})
  <2>1. CASE touched
    BY <1>2, <1>5, <2>1 DEF Restored
  <2>2. CASE ~touched /\ flapped
    <3>1. runs \in {before.runs, before.files["config"], New("config"), Absent}
      BY <1>1 DEF HostInv, WhileWriting
    <3>2. key \in Promise!UsableKeys
      BY <1>1, KeyIsUsable
    <3> QED
      BY <2>2, <3>1, <3>2 DEF New
  <2>3. CASE ~touched /\ ~flapped
    BY <1>2, <2>3 DEF Restored, Untouched
  <2> QED
    BY <2>1, <2>2, <2>3
<1>8. doubt' \/ runs' \in {Absent, files'["config"]}
  BY <1>1 DEF HostInv, BetweenCalls
<1>9. Shown'.doubt \in {FALSE, Shown.doubt \/ flapped}
  BY <1>1, DoubtsAtEnd
<1>10. Promise!End("unchanged")
  BY <1>1, Running
<1> QED
  BY <1>1, <1>3, <1>4, <1>6, <1>7, <1>8, <1>9, <1>10, WhatIsShown, WhatIsShownNext
     DEF Promise!Unchanged

\* Between calls only the service does anything.
LEMMA ServiceIsService ==
  ASSUME HostInv, pc = "idle", pc' = "idle",
         Reboot \/ ServiceFails \/ ServiceComesBack \/ ServiceGivesUp
  PROVE  Promise!Service
<1>1. outcome # "running" /\ flapped \in BOOLEAN
  BY DEF HostInv, BetweenCalls, TypeOK
<1>2. /\ runs' \in {Absent, files["config"]}
      /\ doubt' \in {doubt, FALSE}
      /\ UNCHANGED <<files, enabled, want, outcome, flapped>>
  <2>1. CASE Reboot
    BY <2>1, StartEffect DEF Reboot, Process, HostInv, control, request
  <2>2. CASE ServiceFails
    BY <1>1, <2>2 DEF ServiceFails, Process, Meddled, Doubted, control
  <2>3. CASE ServiceComesBack
    <3>1. runs' \in {Absent, files["config"]}
      BY <2>3, StartEffect DEF ServiceComesBack, HostInv
    <3>2. doubt' \in {doubt, FALSE}
      BY <2>3 DEF ServiceComesBack, Settled, HostInv, TypeOK
    <3> QED
      BY <1>1, <2>3, <3>1, <3>2 DEF ServiceComesBack, Meddled, control
  <2>4. CASE ServiceGivesUp
    BY <1>1, <2>4 DEF ServiceGivesUp, Process, Meddled, Doubted, control
  <2> QED
    BY <2>1, <2>2, <2>3, <2>4
<1> QED
  BY <1>1, <1>2, WhatIsShown, WhatIsShownNext DEF Promise!Service

\* While a call goes on, nothing is seen but that the service failed or came back.
LEMMA NothingIsShown ==
  ASSUME pc # "idle", pc' # "idle", UNCHANGED <<before, want, outcome, flapped>>
  PROVE  UNCHANGED Promise!vars
BY WhatIsShown, WhatIsShownNext DEF Promise!vars

\* The service, while a call runs.
LEMMA FlapIsFlap ==
  ASSUME HostInv, pc # "idle", ServiceFails \/ ServiceComesBack \/ ServiceGivesUp
  PROVE  Promise!Flap
<1>1. /\ pc' = pc /\ flapped' = TRUE /\ UNCHANGED <<want, before, outcome>>
  BY DEF ServiceFails, ServiceComesBack, ServiceGivesUp, Meddled, control
<1>2. outcome = "running"
  BY DEF HostInv, DuringCall
<1> QED
  BY <1>1, <1>2, WhatIsShown, WhatIsShownNext DEF Promise!Flap

\* The beginning of a call.
LEMMA BeginIsCall ==
  ASSUME HostInv, Begin
  PROVE  Promise!Call
<1>1. /\ pc = "idle" /\ pc' # "idle" /\ outcome # "running" /\ outcome' = "running"
      /\ want' \in Requests /\ flapped' = FALSE
  BY DEF Begin, LockFree, HostInv, BetweenCalls
<1>2. /\ before'.files = files /\ before'.enabled = enabled
      /\ before'.runs = runs /\ before'.doubt = doubt
  BY DEF Begin, Now
<1> QED
  BY <1>1, <1>2, WhatIsShown, WhatIsShownNext DEF Promise!Call

\* Every step is one of the abstract specification, or is not seen.
LEMMA PromiseStep ==
  ASSUME Inv, HostInv, HostInv', [Next]_vars
  PROVE  [Promise!Next]_(Promise!vars)
<1> USE DEF Inv
<1> USE DEF host, base, control, request, budget
<1>1. CASE Begin
  BY <1>1, BeginIsCall DEF Promise!Next
<1>2. CASE EnsureUser \/ Inspect \/ VerifyProgram \/ ChooseKeys \/ ProbeService
  <2>1. pc \in Early /\ pc # "idle" /\ UNCHANGED <<want, before, flapped, doubt>>
    BY <1>2 DEF EnsureUser, Inspect, VerifyProgram, ChooseKeys, ProbeService, Refuse, Early
  <2>2. CASE Refuse
    BY <2>1, <2>2, RefusedIsUnchanged DEF Refuse, Promise!Next
  <2>3. CASE ~Refuse
    <3>1. pc' # "idle" /\ outcome' = outcome
      BY <1>2, <2>3 DEF EnsureUser, Inspect, VerifyProgram, ChooseKeys, ProbeService, Goto
    <3> QED
      BY <2>1, <3>1, NothingIsShown
  <2> QED
    BY <2>2, <2>3
<1>3. CASE WriteProgram
  BY <1>3, NothingIsShown DEF WriteProgram
<1>4. CASE UnsafeHost \/ DownloadFails \/ CandidateFails
  BY <1>4, RefusedIsUnchanged DEF UnsafeHost, DownloadFails, CandidateFails, CheckFails,
     Early, Promise!Next
<1>5. CASE Apply \/ StepFails \/ NotServing \/ Undo \/ UndoFails
  BY <1>5, NothingIsShown DEF Apply, StepFails, NotServing, StartUndo, Undo, UndoFails
<1>6. CASE Succeed
  BY <1>6, SucceedIsApplied DEF Promise!Next
<1>7. CASE Raise
  <2>1. CASE ~failed
    BY <1>7, <2>1, RaiseIsUnchanged DEF Promise!Next
  <2>2. CASE failed
    BY <1>7, <2>2, CutIsBroken DEF Raise, Finish, Promise!Next
  <2> QED
    BY <2>1, <2>2
<1>8. CASE Killed
  BY <1>8, CutIsBroken DEF Killed, Finish, Promise!Next
<1>9. CASE Reboot
  <2>1. pc' = "idle"
    BY <1>9 DEF Reboot, Finish
  <2>2. CASE pc = "idle"
    BY <1>9, <2>1, <2>2, ServiceIsService DEF Promise!Next
  <2>3. CASE pc # "idle"
    <3>1. /\ outcome' = "cut" /\ UNCHANGED <<files, want, key, before, flapped>>
          /\ runs' \in {runs, files["config"], Absent}
      BY <1>9, <2>3, StartEffect DEF Reboot, Finish, Process, HostInv
    <3> QED
      BY <2>1, <2>3, <3>1, CutIsBroken DEF Promise!Next
  <2> QED
    BY <2>2, <2>3
<1>10. CASE ServiceFails \/ ServiceComesBack \/ ServiceGivesUp
  <2>1. pc' = pc
    BY <1>10 DEF ServiceFails, ServiceComesBack, ServiceGivesUp
  <2>2. CASE pc = "idle"
    BY <1>10, <2>1, <2>2, ServiceIsService DEF Promise!Next
  <2>3. CASE pc # "idle"
    BY <1>10, <2>3, FlapIsFlap DEF Promise!Next
  <2> QED
    BY <2>2, <2>3
<1>11. CASE UNCHANGED vars
  <2>1. UNCHANGED <<Shown, want, outcome, flapped>>
    BY <1>11 DEF vars, Shown, Now
  <2> QED
    BY <2>1 DEF Promise!vars
<1> QED
  BY <1>1, <1>2, <1>3, <1>4, <1>5, <1>6, <1>7, <1>8, <1>9, <1>10, <1>11 DEF Next

\* A call has not begun.
LEMMA PromiseInit ==
  ASSUME Init
  PROVE  Promise!Init
<1>1. /\ pc = "idle" /\ runs \in {Absent, files["config"]} /\ doubt = FALSE
      /\ want \in Requests /\ outcome = "none" /\ flapped = FALSE
  BY DEF Init
<1> QED
  BY <1>1, WhatIsShown DEF Promise!Init

\* A call of apply_exit, with all its steps and its rollback, is one step of
\* ExitPromise: what was asked for is installed and serves, or nothing has changed,
\* or the call was cut off or says that its rollback is incomplete, and then every
\* file is still an old or a new one.
THEOREM PromiseIsKept == Spec => KeepsPromise
<1>1. Init => Promise!Init
  BY PromiseInit
<1>2. Inv /\ HostInv /\ HostInv' /\ [Next]_vars => [Promise!Next]_(Promise!vars)
  BY PromiseStep
<1> QED
  BY <1>1, <1>2, HostInvariance, PTL DEF Spec, KeepsPromise, Promise!Spec

===============================================================================
