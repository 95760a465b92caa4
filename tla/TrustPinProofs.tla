---------------------------- MODULE TrustPinProofs ----------------------------
(***************************************************************************)
(* What holds of TrustPin for any number of wizards, output directories,   *)
(* keys, leaves, changes and failures: one SSH key per endpoint, one TLS   *)
(* leaf per output directory.  The argument: the trust file is created     *)
(* once and never replaced, so that every wizard beyond it has read or     *)
(* made the same key; and what a wizard has read of the leaf pin is still  *)
(* so when it writes it, since it holds the lock of the directory.         *)
(***************************************************************************)
EXTENDS TrustPin, TLAPS

\* The wizard goes on under the key of the trust file, and knows one before.
KeyKnown ==
  \A w \in Wizards :
    /\ pc[w] = "create" => seen[w] # None
    /\ pc[w] \in {"login", "tls", "first", "second", "request", "persist", "pin", "apply"}
         => trust # None /\ seen[w] = trust
    /\ pc[w] = "apply" => pins[Home[w]] = trust

\* The pin of the leaf has not changed since the wizard has read it, and agrees
\* with what it has seen.
LeafKnown ==
  \A w \in Wizards :
    /\ pc[w] \in {"first", "second", "request", "persist"} => persisted[w] = leafPins[Home[w]]
    /\ pc[w] \in {"second", "request", "persist"} => first[w] # None
    /\ pc[w] \in {"request", "persist"} => persisted[w] \in {None, first[w]}

Inv == TypeOK /\ KeyKnown /\ LeafKnown /\ OneKey /\ OneLeaf

-------------------------------------------------------------------------------
\* Before the first wizard nothing is trusted and nothing pinned.
LEMMA InvInit ==
  ASSUME Init
  PROVE  Inv
BY TrustAssumption DEF Init, Inv, TypeOK, Labels, Running, KeyKnown, LeafKnown, OneKey, OneLeaf

\* A stuttering step changes nothing that the invariant mentions.
LEMMA InvStutter ==
  ASSUME Inv, UNCHANGED vars
  PROVE  Inv'
BY DEF vars, world, files, local, Inv, TypeOK, Running, KeyKnown, LeafKnown, OneKey, OneLeaf

\* A step of a wizard.
LEMMA InvWizard ==
  ASSUME Inv, NEW w \in Wizards, Start(w) \/ Step(w) \/ Fail(w)
  PROVE  Inv'
<1> USE TrustAssumption DEF Inv, Labels, Running, Goto, Exit, Stop, world, files, local
<1>1. CASE Start(w)
  <2>1. TypeOK'
    BY <1>1 DEF Start, TypeOK
  <2>2. KeyKnown'
    BY <1>1 DEF Start, TypeOK, KeyKnown
  <2>3. LeafKnown'
    BY <1>1 DEF Start, TypeOK, LeafKnown
  <2>4. OneKey'
    BY <1>1 DEF Start, TypeOK, OneKey
  <2>5. OneLeaf'
    BY <1>1 DEF Start, TypeOK, OneLeaf
  <2> QED
    BY <2>1, <2>2, <2>3, <2>4, <2>5
<1>2. CASE ReadTrust(w)
  <2>1. TypeOK'
    BY <1>2 DEF ReadTrust, TypeOK
  <2>2. KeyKnown'
    BY <1>2 DEF ReadTrust, TypeOK, KeyKnown
  <2>3. LeafKnown'
    BY <1>2 DEF ReadTrust, TypeOK, LeafKnown
  <2>4. OneKey'
    BY <1>2 DEF ReadTrust, TypeOK, OneKey
  <2>5. OneLeaf'
    BY <1>2 DEF ReadTrust, TypeOK, OneLeaf
  <2> QED
    BY <2>1, <2>2, <2>3, <2>4, <2>5
<1>3. CASE Scan(w)
  <2>1. TypeOK'
    BY <1>3 DEF Scan, TypeOK
  <2>2. KeyKnown'
    BY <1>3 DEF Scan, TypeOK, KeyKnown
  <2>3. LeafKnown'
    BY <1>3 DEF Scan, TypeOK, LeafKnown
  <2>4. OneKey'
    BY <1>3 DEF Scan, TypeOK, OneKey
  <2>5. OneLeaf'
    BY <1>3 DEF Scan, TypeOK, OneLeaf
  <2> QED
    BY <2>1, <2>2, <2>3, <2>4, <2>5
<1>4. CASE CreateTrust(w)
  <2>1. TypeOK'
    BY <1>4 DEF CreateTrust, TypeOK
  <2>2. KeyKnown'
    BY <1>4 DEF CreateTrust, TypeOK, KeyKnown
  <2>3. LeafKnown'
    BY <1>4 DEF CreateTrust, TypeOK, LeafKnown
  <2>4. OneKey'
    BY <1>4 DEF CreateTrust, TypeOK, OneKey, KeyKnown
  <2>5. OneLeaf'
    BY <1>4 DEF CreateTrust, TypeOK, OneLeaf
  <2> QED
    BY <2>1, <2>2, <2>3, <2>4, <2>5
<1>5. CASE Login(w)
  <2>1. TypeOK'
    BY <1>5 DEF Login, TypeOK
  <2>2. KeyKnown'
    BY <1>5 DEF Login, TypeOK, KeyKnown
  <2>3. LeafKnown'
    BY <1>5 DEF Login, TypeOK, LeafKnown
  <2>4. OneKey'
    BY <1>5 DEF Login, TypeOK, OneKey, KeyKnown
  <2>5. OneLeaf'
    BY <1>5 DEF Login, TypeOK, OneLeaf
  <2> QED
    BY <2>1, <2>2, <2>3, <2>4, <2>5
<1>6. CASE TlsPublic(w)
  <2>1. TypeOK'
    BY <1>6 DEF TlsPublic, TypeOK
  <2>2. KeyKnown'
    BY <1>6 DEF TlsPublic, TypeOK, KeyKnown
  <2>3. LeafKnown'
    BY <1>6 DEF TlsPublic, TypeOK, LeafKnown
  <2>4. OneKey'
    BY <1>6 DEF TlsPublic, TypeOK, OneKey
  <2>5. OneLeaf'
    BY <1>6 DEF TlsPublic, TypeOK, OneLeaf
  <2> QED
    BY <2>1, <2>2, <2>3, <2>4, <2>5
<1>7. CASE FirstHandshake(w)
  <2>1. TypeOK'
    BY <1>7 DEF FirstHandshake, TypeOK
  <2>2. KeyKnown'
    BY <1>7 DEF FirstHandshake, TypeOK, KeyKnown
  <2>3. LeafKnown'
    BY <1>7 DEF FirstHandshake, TypeOK, LeafKnown
  <2>4. OneKey'
    BY <1>7 DEF FirstHandshake, TypeOK, OneKey
  <2>5. OneLeaf'
    BY <1>7 DEF FirstHandshake, TypeOK, OneLeaf
  <2> QED
    BY <2>1, <2>2, <2>3, <2>4, <2>5
<1>8. CASE SecondHandshake(w)
  <2>1. TypeOK'
    BY <1>8 DEF SecondHandshake, TypeOK
  <2>2. KeyKnown'
    BY <1>8 DEF SecondHandshake, TypeOK, KeyKnown
  <2>3. LeafKnown'
    BY <1>8 DEF SecondHandshake, TypeOK, LeafKnown
  <2>4. OneKey'
    BY <1>8 DEF SecondHandshake, TypeOK, OneKey
  <2>5. OneLeaf'
    BY <1>8 DEF SecondHandshake, TypeOK, OneLeaf
  <2> QED
    BY <2>1, <2>2, <2>3, <2>4, <2>5
<1>9. CASE Request(w)
  <2>1. TypeOK'
    BY <1>9 DEF Request, TypeOK
  <2>2. KeyKnown'
    BY <1>9 DEF Request, TypeOK, KeyKnown
  <2>3. LeafKnown'
    BY <1>9 DEF Request, TypeOK, LeafKnown
  <2>4. OneKey'
    BY <1>9 DEF Request, TypeOK, OneKey
  <2>5. OneLeaf'
    BY <1>9 DEF Request, TypeOK, OneLeaf
  <2> QED
    BY <2>1, <2>2, <2>3, <2>4, <2>5
<1>10. CASE Persist(w)
  <2>1. TypeOK'
    BY <1>10 DEF Persist, TypeOK, LeafKnown
  <2>2. KeyKnown'
    BY <1>10 DEF Persist, TypeOK, KeyKnown
  <2>3. LeafKnown'
    BY <1>10 DEF Persist, TypeOK, LeafKnown
  <2>4. OneKey'
    BY <1>10 DEF Persist, TypeOK, OneKey
  <2>5. OneLeaf'
    BY <1>10 DEF Persist, TypeOK, OneLeaf, LeafKnown
  <2> QED
    BY <2>1, <2>2, <2>3, <2>4, <2>5
<1>11. CASE PinOutput(w)
  <2>1. TypeOK'
    BY <1>11 DEF PinOutput, TypeOK
  <2>2. KeyKnown'
    BY <1>11 DEF PinOutput, TypeOK, KeyKnown, OneKey
  <2>3. LeafKnown'
    BY <1>11 DEF PinOutput, TypeOK, LeafKnown
  <2>4. OneKey'
    BY <1>11 DEF PinOutput, TypeOK, OneKey, KeyKnown
  <2>5. OneLeaf'
    BY <1>11 DEF PinOutput, TypeOK, OneLeaf
  <2> QED
    BY <2>1, <2>2, <2>3, <2>4, <2>5
<1>12. CASE Apply(w)
  <2>1. TypeOK'
    BY <1>12 DEF Apply, TypeOK
  <2>2. KeyKnown'
    BY <1>12 DEF Apply, TypeOK, KeyKnown
  <2>3. LeafKnown'
    BY <1>12 DEF Apply, TypeOK, LeafKnown
  <2>4. OneKey'
    BY <1>12 DEF Apply, TypeOK, OneKey, KeyKnown
  <2>5. OneLeaf'
    BY <1>12 DEF Apply, TypeOK, OneLeaf
  <2> QED
    BY <2>1, <2>2, <2>3, <2>4, <2>5
<1>13. CASE Fail(w)
  <2>1. TypeOK'
    BY <1>13 DEF Fail, TypeOK
  <2>2. KeyKnown'
    BY <1>13 DEF Fail, TypeOK, KeyKnown
  <2>3. LeafKnown'
    BY <1>13 DEF Fail, TypeOK, LeafKnown
  <2>4. OneKey'
    BY <1>13 DEF Fail, TypeOK, OneKey
  <2>5. OneLeaf'
    BY <1>13 DEF Fail, TypeOK, OneLeaf
  <2> QED
    BY <2>1, <2>2, <2>3, <2>4, <2>5
<1> QED
  BY <1>1, <1>2, <1>3, <1>4, <1>5, <1>6, <1>7, <1>8, <1>9, <1>10, <1>11, <1>12, <1>13 DEF Step

\* A change at the endpoint or at the site.
LEMMA InvWorld ==
  ASSUME Inv, KeysChange \/ LeafChanges
  PROVE  Inv'
<1> USE TrustAssumption
<1>1. CASE KeysChange
  BY <1>1 DEF KeysChange, files, local, Inv, TypeOK, Running, KeyKnown, LeafKnown, OneKey, OneLeaf
<1>2. CASE LeafChanges
  BY <1>2 DEF LeafChanges, files, local, Inv, TypeOK, Running, KeyKnown, LeafKnown, OneKey, OneLeaf
<1> QED
  BY <1>1, <1>2

LEMMA Invariance == Spec => []Inv
<1>1. Init => Inv
  BY InvInit
<1>2. Inv /\ [Next]_vars => Inv'
  BY InvStutter, InvWizard, InvWorld DEF Next
<1> QED
  BY <1>1, <1>2, PTL DEF Spec

-------------------------------------------------------------------------------
\* Every state has the types of the program's, and a wizard between its start and
\* its end holds the lock of its output directory.
THEOREM TypeCorrect == Spec => []TypeOK
<1>1. Inv => TypeOK
  BY DEF Inv
<1> QED
  BY <1>1, Invariance, PTL

\* Passwords are sent under one host key of an endpoint only, whatever number of
\* wizards meet it, with whatever keys it answers, and every known_hosts of every
\* output directory has that key.
THEOREM OneKeyIsTrusted == Spec => []OneKey
<1>1. Inv => OneKey
  BY DEF Inv
<1> QED
  BY <1>1, Invariance, PTL

\* The client profiles of an output directory pin one leaf, the one in its file.
THEOREM OneLeafIsPinned == Spec => []OneLeaf
<1>1. Inv => OneLeaf
  BY DEF Inv
<1> QED
  BY <1>1, Invariance, PTL

===============================================================================
