--------------------------- MODULE ExitNetworkProofs ---------------------------
(***************************************************************************)
(* What holds of ExitNetwork for any number of calls, failures, kills and  *)
(* reboots, keys and interfaces.  The host of a running call is what the   *)
(* call has found under one layer for each entry of the journal, unless a  *)
(* command that failed had its effect; the journal has the order of the    *)
(* steps, so that undoing its last entry takes away the topmost layer.     *)
(***************************************************************************)
EXTENDS ExitNetwork, SequenceTheorems, TLAPS

Rule == {"allow", "deny", "open", "other"}
EntryKind == {"allow", "deny", "sysctl"} \cup Chains
File == {None, "foreign", "stale", "managed"}
MssRule == {Mss(chain, i) : chain \in Chains, i \in Ifaces}

Typed ==
  /\ rules \in Seq(Rule)
  /\ journal \in Seq(EntryKind)
  /\ before \in [rules : Seq(Rule), deny6 : BOOLEAN, file : File, runtime : SUBSET Keys,
                 mss : SUBSET MssRule]
  /\ deny6 \in BOOLEAN /\ errors \in BOOLEAN /\ doubt \in BOOLEAN
  /\ file \in File
  /\ runtime \subseteq Keys
  /\ mss \subseteq MssRule
  /\ iface \in Ifaces /\ using \in Ifaces
  /\ todo \subseteq Keys
  /\ faults \in 0..MaxFaults
  /\ pc \in {"off", "allow", "deny", "file", "keys", "verify", "undo"} \cup Chains

\* The order of the steps, in which the journal is written.
Rank == [allow |-> 1, deny |-> 2, sysctl |-> 3, OUTPUT |-> 4, POSTROUTING |-> 5]
Reached == [off |-> 6, allow |-> 1, deny |-> 2, file |-> 3, keys |-> 4, OUTPUT |-> 4,
            POSTROUTING |-> 5, verify |-> 6, undo |-> 6]

Sorted(j) == \A i, k \in 1..Len(j) : i < k => Rank[j[i]] < Rank[j[k]]

Ordered ==
  /\ Sorted(journal)
  /\ \A i \in 1..Len(journal) : Rank[journal[i]] < Reached[pc]

\* An entry is for what the call has not found.
Fresh ==
  pc # "off" =>
    /\ \A rule \in {"allow", "deny"} : In(journal, rule) => ~In(before.rules, rule)
    /\ \A chain \in Chains : In(journal, chain) => Mss(chain, using) \notin before.mss
    /\ In(journal, "deny") => In(before.rules, "allow") \/ In(journal, "allow")
    /\ before.deny6 => In(before.rules, "deny")
    /\ outcome = "none"
    /\ pc # "undo" => ~errors /\ ~doubt

\* What the call has found, under what its journal says.
WithAllow == IF In(journal, "allow") THEN <<"allow">> \o before.rules ELSE before.rules

FirewallLayered ==
  /\ rules = IF In(journal, "deny") THEN InsertAt(WithAllow, 2, "deny") ELSE WithAllow
  /\ ~In(journal, "deny") => deny6 = before.deny6

SysctlLayered ==
  ~In(journal, "sysctl") => file = before.file /\ runtime = before.runtime

MssLayered ==
  mss = before.mss \cup {Mss(chain, using) : chain \in {c \in Chains : In(journal, c)}}

Layered ==
  pc # "off" /\ ~errors =>
    /\ SysctlLayered
    /\ ~doubt => FirewallLayered /\ MssLayered

\* What a step of the call relies on of the steps before it.
Paired ==
  /\ Len(rules) >= 2
  /\ rules[1] = "allow" /\ rules[2] = "deny"

Progress ==
  /\ pc \in {"keys", "verify"} \cup Chains => Paired
  /\ pc = "keys" => file = "managed" /\ In(journal, "sysctl")
  /\ pc \in {"verify"} \cup Chains => file = "managed" /\ runtime = Keys

Outcome ==
  /\ outcome = "applied" =>
       /\ Paired
       /\ file = "managed" /\ runtime = Keys
       /\ \A chain \in Chains : Mss(chain, using) \in mss
  /\ RolledBack

Inv == Typed /\ Ordered /\ Fresh /\ EarlierKept /\ Layered /\ Progress /\ Outcome

-------------------------------------------------------------------------------
\* Sequences.

\* Taking an element out of a sequence.
LEMMA Removed ==
  ASSUME NEW S, NEW s \in Seq(S), NEW i \in 1..Len(s)
  PROVE  /\ RemoveAt(s, i) \in Seq(S)
         /\ Len(RemoveAt(s, i)) = Len(s) - 1
         /\ \A k \in 1..(Len(s) - 1) :
              RemoveAt(s, i)[k] = IF k < i THEN s[k] ELSE s[k + 1]
<1> DEFINE head == SubSeq(s, 1, i - 1)
           tail == SubSeq(s, i + 1, Len(s))
<1>0. Len(s) \in Nat /\ \A k \in 1..Len(s) : s[k] \in S
  OBVIOUS
<1>1. head \in Seq(S) /\ Len(head) = i - 1 /\ \A k \in 1..(i - 1) : head[k] = s[k]
  <2>1. \A k \in 1..(i - 1) : s[k] \in S
    BY <1>0
  <2>2. /\ head \in Seq(S)
        /\ Len(head) = IF 1 <= i - 1 THEN (i - 1) - 1 + 1 ELSE 0
        /\ \A k \in 1..((i - 1) - 1 + 1) : head[k] = s[1 + k - 1]
    BY <1>0, <2>1, SubSeqProperties, 1 \in Int, i - 1 \in Int
  <2> QED
    BY <1>0, <2>2
<1>2. /\ tail \in Seq(S) /\ Len(tail) = Len(s) - i
      /\ \A k \in 1..(Len(s) - i) : tail[k] = s[i + k]
  <2>1. \A k \in (i + 1)..Len(s) : s[k] \in S
    BY <1>0
  <2>2. /\ tail \in Seq(S)
        /\ Len(tail) = IF i + 1 <= Len(s) THEN Len(s) - (i + 1) + 1 ELSE 0
        /\ \A k \in 1..(Len(s) - (i + 1) + 1) : tail[k] = s[(i + 1) + k - 1]
    BY <1>0, <2>1, SubSeqProperties, i + 1 \in Int, Len(s) \in Int
  <2> QED
    BY <1>0, <2>2
<1> HIDE DEF head, tail
<1>3. /\ head \o tail \in Seq(S)
      /\ Len(head \o tail) = Len(head) + Len(tail)
      /\ \A k \in 1..(Len(head) + Len(tail)) :
           (head \o tail)[k] = IF k <= Len(head) THEN head[k] ELSE tail[k - Len(head)]
  BY <1>1, <1>2, ConcatProperties
<1>4. /\ RemoveAt(s, i) \in Seq(S)
      /\ Len(RemoveAt(s, i)) = Len(head) + Len(tail)
      /\ \A k \in 1..(Len(head) + Len(tail)) :
           RemoveAt(s, i)[k] = IF k <= Len(head) THEN head[k] ELSE tail[k - Len(head)]
  BY <1>3 DEF RemoveAt, head, tail
<1>5. ASSUME NEW k \in 1..(Len(s) - 1)
      PROVE  RemoveAt(s, i)[k] = IF k < i THEN s[k] ELSE s[k + 1]
  <2>0. k \in 1..(Len(head) + Len(tail)) /\ Len(head) = i - 1
    BY <1>0, <1>1, <1>2
  <2>1. CASE k < i
    <3>1. k <= Len(head) /\ k \in 1..(i - 1)
      BY <1>0, <2>0, <2>1
    <3>2. RemoveAt(s, i)[k] = head[k]
      BY <1>4, <2>0, <3>1, Zenon
    <3>3. head[k] = s[k]
      BY <1>1, <3>1, Zenon
    <3> QED
      BY <2>1, <3>2, <3>3
  <2>2. CASE k >= i
    <3>1. k - Len(head) \in 1..(Len(s) - i) /\ i + (k - Len(head)) = k + 1 /\ ~(k <= Len(head))
      BY <1>0, <2>0, <2>2
    <3>2. RemoveAt(s, i)[k] = tail[k - Len(head)]
      BY <1>4, <2>0, <3>1, Zenon
    <3>3. tail[k - Len(head)] = s[i + (k - Len(head))]
      BY <1>2, <3>1, Zenon
    <3>4. tail[k - Len(head)] = s[k + 1]
      BY <3>1, <3>3, Zenon
    <3>5. ~(k < i)
      BY <1>0, <2>2
    <3> QED
      BY <3>2, <3>4, <3>5, Zenon
  <2> QED
    BY <1>0, <2>1, <2>2
<1> QED
  BY <1>0, <1>1, <1>2, <1>4, <1>5

\* Putting one in front of a sequence.
LEMMA Prepended ==
  ASSUME NEW S, NEW s \in Seq(S), NEW e \in S
  PROVE  /\ <<e>> \o s \in Seq(S)
         /\ Len(<<e>> \o s) = Len(s) + 1
         /\ (<<e>> \o s)[1] = e
         /\ \A k \in 1..Len(s) : (<<e>> \o s)[k + 1] = s[k]
<1>1. <<e>> \in Seq(S) /\ Len(<<e>>) = 1 /\ <<e>>[1] = e
  OBVIOUS
<1>2. /\ <<e>> \o s \in Seq(S)
      /\ Len(<<e>> \o s) = 1 + Len(s)
      /\ \A k \in 1..(1 + Len(s)) : (<<e>> \o s)[k] = IF k <= 1 THEN <<e>>[k] ELSE s[k - 1]
  BY <1>1, ConcatProperties
<1> QED
  BY <1>1, <1>2

\* Putting one after the first element of a sequence.
LEMMA Inserted ==
  ASSUME NEW S, NEW s \in Seq(S), NEW e \in S, s # <<>>
  PROVE  /\ InsertAt(s, 2, e) \in Seq(S)
         /\ Len(InsertAt(s, 2, e)) = Len(s) + 1
         /\ InsertAt(s, 2, e)[1] = s[1]
         /\ InsertAt(s, 2, e)[2] = e
         /\ \A k \in 2..Len(s) : InsertAt(s, 2, e)[k + 1] = s[k]
<1> DEFINE head == SubSeq(s, 1, 1)
           tail == SubSeq(s, 2, Len(s))
<1>0. Len(s) \in Nat /\ Len(s) >= 1 /\ \A k \in 1..Len(s) : s[k] \in S
  OBVIOUS
<1>1. head \in Seq(S) /\ Len(head) = 1 /\ head[1] = s[1]
  <2>1. \A k \in 1..1 : s[k] \in S
    BY <1>0
  <2> QED
    BY <1>0, <2>1, SubSeqProperties, 1 \in Int
<1>2. tail \in Seq(S) /\ Len(tail) = Len(s) - 1 /\ \A k \in 1..(Len(s) - 1) : tail[k] = s[k + 1]
  <2>1. \A k \in 2..Len(s) : s[k] \in S
    BY <1>0
  <2>2. /\ tail \in Seq(S)
        /\ Len(tail) = IF 2 <= Len(s) THEN Len(s) - 2 + 1 ELSE 0
        /\ \A k \in 1..(Len(s) - 2 + 1) : tail[k] = s[2 + k - 1]
    BY <1>0, <2>1, SubSeqProperties, 2 \in Int, Len(s) \in Int
  <2> HIDE DEF tail
  <2>3. Len(tail) = Len(s) - 1
    <3>1. Len(tail) = IF 2 <= Len(s) THEN Len(s) - 2 + 1 ELSE 0
      BY <2>2
    <3>2. CASE 2 <= Len(s)
      BY <1>0, <3>1, <3>2
    <3>3. CASE ~(2 <= Len(s))
      <4>0. \A n \in Nat : n >= 1 /\ ~(2 <= n) => n = 1
        OBVIOUS
      <4>1. Len(s) = 1
        BY <1>0, <3>3, <4>0, Zenon
      <4>2. Len(tail) = 0
        BY <3>1, <3>3, Zenon
      <4> QED
        BY <4>1, <4>2
    <3> QED
      BY <3>2, <3>3
  <2>4. ASSUME NEW k \in 1..(Len(s) - 1)
        PROVE  tail[k] = s[k + 1]
    <3>1. k \in 1..(Len(s) - 2 + 1) /\ 2 + k - 1 = k + 1
      BY <1>0
    <3> QED
      BY <2>2, <3>1
  <2> QED
    BY <2>2, <2>3, <2>4
<1>3. <<e>> \in Seq(S) /\ Len(<<e>>) = 1 /\ <<e>>[1] = e
  OBVIOUS
<1> HIDE DEF head, tail
<1>4. head \o <<e>> \in Seq(S) /\ Len(head \o <<e>>) = 2
      /\ (head \o <<e>>)[1] = s[1] /\ (head \o <<e>>)[2] = e
  <2>1. /\ head \o <<e>> \in Seq(S)
        /\ Len(head \o <<e>>) = Len(head) + Len(<<e>>)
        /\ \A k \in 1..(Len(head) + Len(<<e>>)) :
             (head \o <<e>>)[k] = IF k <= Len(head) THEN head[k] ELSE <<e>>[k - Len(head)]
    BY <1>1, <1>3, ConcatProperties
  <2>2. /\ 1 \in 1..(Len(head) + Len(<<e>>)) /\ 2 \in 1..(Len(head) + Len(<<e>>))
        /\ 1 <= Len(head) /\ ~(2 <= Len(head)) /\ 2 - Len(head) = 1
    BY <1>1, <1>3
  <2>3. (head \o <<e>>)[1] = head[1] /\ (head \o <<e>>)[2] = <<e>>[2 - Len(head)]
    BY <2>1, <2>2, Zenon
  <2>4. Len(head \o <<e>>) = 2
    BY <1>1, <1>3, <2>1
  <2> QED
    BY <1>1, <1>3, <2>1, <2>2, <2>3, <2>4, Zenon
<1> DEFINE front == head \o <<e>>
<1> HIDE DEF front
<1>5. /\ front \o tail \in Seq(S)
      /\ Len(front \o tail) = Len(front) + Len(tail)
      /\ \A k \in 1..(Len(front) + Len(tail)) :
           (front \o tail)[k] = IF k <= Len(front) THEN front[k] ELSE tail[k - Len(front)]
  BY <1>2, <1>4, ConcatProperties DEF front
<1>6. InsertAt(s, 2, e) = front \o tail
  BY DEF InsertAt, front, head, tail
<1>7. /\ front \in Seq(S) /\ Len(front) = 2 /\ front[1] = s[1] /\ front[2] = e
  BY <1>4 DEF front
<1>8. ASSUME NEW k \in 2..Len(s)
      PROVE  (front \o tail)[k + 1] = s[k]
  <2>1. k - 1 \in 1..(Len(s) - 1) /\ (k - 1) + 1 = k /\ (k + 1) - 2 = k - 1 /\ ~(k + 1 <= 2)
    BY <1>0
  <2>2. tail[k - 1] = s[k]
    BY <1>2, <2>1
  <2> QED
    BY <1>0, <1>2, <1>5, <1>7, <2>1, <2>2
<1> DEFINE whole == front \o tail
<1> HIDE DEF whole
<1>9. /\ whole \in Seq(S)
      /\ Len(whole) = Len(s) + 1
      /\ whole[1] = s[1] /\ whole[2] = e
      /\ \A k \in 2..Len(s) : whole[k + 1] = s[k]
  BY <1>0, <1>2, <1>5, <1>7, <1>8 DEF whole
<1> QED
  BY <1>6, <1>9, Zenon DEF whole

\* One takes away what the other has put there.
LEMMA PrependedRemoved ==
  ASSUME NEW S, NEW s \in Seq(S), NEW e \in S
  PROVE  RemoveAt(<<e>> \o s, 1) = s
<1> DEFINE t == <<e>> \o s
<1>1. t \in Seq(S) /\ Len(t) = Len(s) + 1 /\ \A k \in 1..Len(s) : t[k + 1] = s[k]
  BY Prepended
<1> HIDE DEF t
<1>2. 1 \in 1..Len(t)
  BY <1>1
<1>3. /\ RemoveAt(t, 1) \in Seq(S) /\ Len(RemoveAt(t, 1)) = Len(t) - 1
      /\ \A k \in 1..(Len(t) - 1) : RemoveAt(t, 1)[k] = IF k < 1 THEN t[k] ELSE t[k + 1]
  BY <1>1, <1>2, Removed
<1>4. Len(RemoveAt(t, 1)) = Len(s) /\ \A k \in 1..Len(s) : RemoveAt(t, 1)[k] = s[k]
  BY <1>1, <1>3
<1>5. RemoveAt(t, 1) = s
  BY <1>3, <1>4, SeqEqual
<1> QED
  BY <1>5 DEF t

LEMMA InsertedRemoved ==
  ASSUME NEW S, NEW s \in Seq(S), NEW e \in S, s # <<>>
  PROVE  RemoveAt(InsertAt(s, 2, e), 2) = s
<1> DEFINE t == InsertAt(s, 2, e)
<1>0. Len(s) \in Nat /\ Len(s) >= 1
  OBVIOUS
<1>1. /\ t \in Seq(S) /\ Len(t) = Len(s) + 1
      /\ t[1] = s[1] /\ \A k \in 2..Len(s) : t[k + 1] = s[k]
  BY Inserted
<1> HIDE DEF t
<1>2. 2 \in 1..Len(t)
  BY <1>0, <1>1
<1>3. /\ RemoveAt(t, 2) \in Seq(S) /\ Len(RemoveAt(t, 2)) = Len(t) - 1
      /\ \A k \in 1..(Len(t) - 1) : RemoveAt(t, 2)[k] = IF k < 2 THEN t[k] ELSE t[k + 1]
  BY <1>1, <1>2, Removed
<1>4. \A k \in 1..Len(s) : RemoveAt(t, 2)[k] = s[k]
  BY <1>0, <1>1, <1>3
<1>5. RemoveAt(t, 2) = s
  BY <1>0, <1>1, <1>3, <1>4, SeqEqual
<1> QED
  BY <1>5 DEF t

\* What a sequence has after an element has come or gone.
LEMMA PrependedIn ==
  ASSUME NEW S, NEW s \in Seq(S), NEW e \in S, NEW x
  PROVE  In(<<e>> \o s, x) <=> x = e \/ In(s, x)
<1> DEFINE t == <<e>> \o s
<1>1. /\ t \in Seq(S) /\ Len(t) = Len(s) + 1
      /\ t[1] = e /\ \A k \in 1..Len(s) : t[k + 1] = s[k]
  BY Prepended
<1> HIDE DEF t
<1>2. DOMAIN t = 1..Len(t) /\ DOMAIN s = 1..Len(s) /\ Len(s) \in Nat
  BY <1>1
<1>3. ASSUME x = e \/ In(s, x)
      PROVE  In(t, x)
  <2>1. CASE x = e
    <3>1. 1 \in DOMAIN t
      BY <1>1, <1>2
    <3> QED
      BY <1>1, <2>1, <3>1 DEF In
  <2>2. CASE In(s, x)
    <3>1. PICK k \in 1..Len(s) : s[k] = x
      BY <1>2, <2>2 DEF In
    <3>2. k + 1 \in DOMAIN t /\ t[k + 1] = x
      BY <1>1, <1>2, <3>1
    <3> QED
      BY <3>2 DEF In
  <2> QED
    BY <1>3, <2>1, <2>2
<1>4. ASSUME In(t, x)
      PROVE  x = e \/ In(s, x)
  <2>1. PICK k \in 1..Len(t) : t[k] = x
    BY <1>2, <1>4 DEF In
  <2>2. CASE k = 1
    BY <1>1, <2>1, <2>2
  <2>3. CASE k # 1
    <3>1. k - 1 \in 1..Len(s) /\ (k - 1) + 1 = k
      BY <1>1, <1>2, <2>3
    <3>2. s[k - 1] = t[(k - 1) + 1]
      BY <1>1, <3>1, Zenon
    <3>3. s[k - 1] = x /\ k - 1 \in DOMAIN s
      BY <1>2, <2>1, <3>1, <3>2, Zenon
    <3> QED
      BY <3>3 DEF In
  <2> QED
    BY <2>2, <2>3
<1> QED
  BY <1>3, <1>4 DEF t

LEMMA InsertedIn ==
  ASSUME NEW S, NEW s \in Seq(S), NEW e \in S, s # <<>>, NEW x
  PROVE  In(InsertAt(s, 2, e), x) <=> x = e \/ In(s, x)
<1> DEFINE t == InsertAt(s, 2, e)
<1>1. /\ t \in Seq(S) /\ Len(t) = Len(s) + 1
      /\ t[1] = s[1] /\ t[2] = e /\ \A k \in 2..Len(s) : t[k + 1] = s[k]
  BY Inserted
<1> HIDE DEF t
<1>2. DOMAIN t = 1..Len(t) /\ DOMAIN s = 1..Len(s) /\ Len(s) \in Nat /\ Len(s) >= 1
  BY <1>1
<1>3. ASSUME x = e \/ In(s, x)
      PROVE  In(t, x)
  <2>1. CASE x = e
    <3>1. 2 \in DOMAIN t
      BY <1>1, <1>2
    <3> QED
      BY <1>1, <2>1, <3>1 DEF In
  <2>2. CASE In(s, x)
    <3>1. PICK k \in 1..Len(s) : s[k] = x
      BY <1>2, <2>2 DEF In
    <3>2. CASE k = 1
      <4>1. 1 \in DOMAIN t
        BY <1>1, <1>2
      <4> QED
        BY <1>1, <3>1, <3>2, <4>1 DEF In
    <3>3. CASE k # 1
      <4>1. k \in 2..Len(s) /\ k + 1 \in DOMAIN t
        BY <1>1, <1>2, <3>3
      <4>2. t[k + 1] = x
        BY <1>1, <3>1, <4>1
      <4> QED
        BY <4>1, <4>2 DEF In
    <3> QED
      BY <3>2, <3>3
  <2> QED
    BY <1>3, <2>1, <2>2
<1>4. ASSUME In(t, x)
      PROVE  x = e \/ In(s, x)
  <2>1. PICK k \in 1..Len(t) : t[k] = x
    BY <1>2, <1>4 DEF In
  <2>2. CASE k = 1
    <3>1. 1 \in DOMAIN s /\ s[1] = x
      BY <1>1, <1>2, <2>1, <2>2
    <3> QED
      BY <3>1 DEF In
  <2>3. CASE k = 2
    BY <1>1, <2>1, <2>3
  <2>4. CASE k # 1 /\ k # 2
    <3>1. k - 1 \in 2..Len(s) /\ k - 1 \in 1..Len(s) /\ (k - 1) + 1 = k
      BY <1>1, <1>2, <2>4
    <3>2. s[k - 1] = t[(k - 1) + 1]
      BY <1>1, <3>1, Zenon
    <3>3. s[k - 1] = x /\ k - 1 \in DOMAIN s
      BY <1>2, <2>1, <3>1, <3>2, Zenon
    <3> QED
      BY <3>3 DEF In
  <2> QED
    BY <2>2, <2>3, <2>4
<1> QED
  BY <1>3, <1>4 DEF t

LEMMA RemovedIn ==
  ASSUME NEW S, NEW s \in Seq(S), NEW i \in 1..Len(s), NEW x, x # s[i]
  PROVE  In(s, x) => In(RemoveAt(s, i), x)
<1> DEFINE t == RemoveAt(s, i)
<1>1. /\ t \in Seq(S) /\ Len(t) = Len(s) - 1
      /\ \A k \in 1..(Len(s) - 1) : t[k] = IF k < i THEN s[k] ELSE s[k + 1]
  BY Removed
<1> HIDE DEF t
<1>2. DOMAIN t = 1..(Len(s) - 1) /\ DOMAIN s = 1..Len(s) /\ Len(s) \in Nat
  BY <1>1
<1> SUFFICES ASSUME In(s, x) PROVE In(t, x)
  BY DEF t
<1>3. PICK k \in 1..Len(s) : s[k] = x
  BY <1>2 DEF In
<1>4. CASE k < i
  <2>1. k \in DOMAIN t /\ t[k] = x
    BY <1>1, <1>2, <1>3, <1>4
  <2> QED
    BY <2>1 DEF In
<1>5. CASE k > i
  <2>1. k - 1 \in 1..(Len(s) - 1) /\ ~(k - 1 < i) /\ (k - 1) + 1 = k
    BY <1>2, <1>5
  <2>2. t[k - 1] = s[(k - 1) + 1]
    BY <1>1, <2>1, Zenon
  <2>3. k - 1 \in DOMAIN t /\ t[k - 1] = x
    BY <1>2, <1>3, <2>1, <2>2, Zenon
  <2> QED
    BY <2>3 DEF In
<1>6. CASE k = i
  BY <1>3, <1>6
<1> QED
  BY <1>2, <1>4, <1>5, <1>6

\* The journal after an entry has been written, or undone.
LEMMA LogIn ==
  ASSUME NEW j \in Seq(EntryKind), NEW e \in EntryKind, Sorted(j),
         \A i \in 1..Len(j) : Rank[j[i]] < Rank[e]
  PROVE  /\ Append(j, e) \in Seq(EntryKind)
         /\ Sorted(Append(j, e))
         /\ \A i \in 1..Len(Append(j, e)) : Rank[Append(j, e)[i]] <= Rank[e]
         /\ \A x : In(Append(j, e), x) <=> x = e \/ In(j, x)
<1> DEFINE t == Append(j, e)
<1>1. /\ t \in Seq(EntryKind) /\ Len(t) = Len(j) + 1
      /\ \A i \in 1..Len(j) : t[i] = j[i]
      /\ t[Len(j) + 1] = e
  BY AppendProperties
<1> HIDE DEF t
<1>2. Len(j) \in Nat /\ DOMAIN t = 1..(Len(j) + 1) /\ DOMAIN j = 1..Len(j)
  BY <1>1
<1>3. Rank[e] \in Nat
  BY DEF Rank, EntryKind, Chains
<1>4. \A i \in 1..(Len(j) + 1) : i \in 1..Len(j) \/ i = Len(j) + 1
  BY <1>2
<1>5. \A i \in 1..(Len(j) + 1) : Rank[t[i]] <= Rank[e]
  <2> SUFFICES ASSUME NEW i \in 1..(Len(j) + 1) PROVE Rank[t[i]] <= Rank[e]
    OBVIOUS
  <2>1. CASE i \in 1..Len(j)
    <3>1. Rank[t[i]] < Rank[e]
      BY <1>1, <2>1
    <3>2. t[i] \in EntryKind
      BY <1>1, <1>2
    <3>3. Rank[t[i]] \in Nat
      BY <3>2 DEF Rank, EntryKind, Chains
    <3> QED
      BY <1>3, <3>1, <3>3
  <2>2. CASE i = Len(j) + 1
    BY <1>1, <1>3, <2>2
  <2> QED
    BY <1>4, <2>1, <2>2
<1>6. Sorted(t)
  <2> SUFFICES ASSUME NEW i \in 1..Len(t), NEW k \in 1..Len(t), i < k
               PROVE  Rank[t[i]] < Rank[t[k]]
    BY DEF Sorted
  <2>1. i \in 1..Len(j)
    BY <1>1, <1>2
  <2>2. CASE k \in 1..Len(j)
    BY <1>1, <2>1, <2>2 DEF Sorted
  <2>3. CASE k = Len(j) + 1
    BY <1>1, <2>1, <2>3
  <2> QED
    BY <1>1, <1>4, <2>2, <2>3
<1>7. \A x : In(t, x) <=> x = e \/ In(j, x)
  <2> TAKE x
  <2>1. ASSUME In(t, x) PROVE x = e \/ In(j, x)
    BY <1>1, <1>2, <1>4, <2>1 DEF In
  <2>2. ASSUME x = e PROVE In(t, x)
    <3>1. Len(j) + 1 \in DOMAIN t
      BY <1>2
    <3> QED
      BY <1>1, <2>2, <3>1 DEF In
  <2>3. ASSUME In(j, x) PROVE In(t, x)
    <3>1. PICK i \in 1..Len(j) : j[i] = x
      BY <1>2, <2>3 DEF In
    <3>2. i \in DOMAIN t /\ t[i] = x
      BY <1>1, <1>2, <3>1
    <3> QED
      BY <3>2 DEF In
  <2> QED
    BY <2>1, <2>2, <2>3
<1> QED
  BY <1>1, <1>5, <1>6, <1>7 DEF t

LEMMA FrontIn ==
  ASSUME NEW j \in Seq(EntryKind), Sorted(j), j # <<>>
  PROVE  /\ Front(j) \in Seq(EntryKind)
         /\ Len(Front(j)) = Len(j) - 1
         /\ Sorted(Front(j))
         /\ \A i \in 1..Len(Front(j)) : i \in 1..Len(j) /\ Front(j)[i] = j[i]
         /\ In(j, Last(j))
         /\ \A x : In(Front(j), x) <=> In(j, x) /\ x # Last(j)
         /\ \A x : In(Front(j), x) => Rank[x] < Rank[Last(j)]
<1> DEFINE t == Front(j)
<1>0. Len(j) \in Nat /\ Len(j) >= 1 /\ DOMAIN j = 1..Len(j) /\ \A i \in 1..Len(j) : j[i] \in EntryKind
  OBVIOUS
<1>1. t \in Seq(EntryKind) /\ Len(t) = Len(j) - 1 /\ \A i \in 1..(Len(j) - 1) : t[i] = j[i]
  <2>1. \A i \in 1..(Len(j) - 1) : j[i] \in EntryKind
    BY <1>0
  <2>2. /\ t \in Seq(EntryKind)
        /\ Len(t) = IF 1 <= Len(j) - 1 THEN Len(j) - 1 - 1 + 1 ELSE 0
        /\ \A i \in 1..(Len(j) - 1 - 1 + 1) : t[i] = j[1 + i - 1]
    BY <1>0, <2>1, SubSeqProperties, 1 \in Int, Len(j) - 1 \in Int DEF Front
  <2> HIDE DEF t
  <2>3. \A n \in Nat : n >= 1 =>
          /\ (IF 1 <= n - 1 THEN n - 1 - 1 + 1 ELSE 0) = n - 1
          /\ n - 1 - 1 + 1 = n - 1
    OBVIOUS
  <2>4. Len(t) = Len(j) - 1 /\ Len(j) - 1 - 1 + 1 = Len(j) - 1
    BY <1>0, <2>2, <2>3, Zenon
  <2>5. ASSUME NEW i \in 1..(Len(j) - 1)
        PROVE  t[i] = j[i]
    <3>1. 1 + i - 1 = i
      OBVIOUS
    <3>2. t[i] = j[1 + i - 1]
      BY <2>2, <2>4, Zenon
    <3> QED
      BY <3>1, <3>2, Zenon
  <2> QED
    BY <2>2, <2>4, <2>5, Zenon
<1> HIDE DEF t
<1>2. DOMAIN t = 1..(Len(j) - 1)
  BY <1>1
<1>3. Len(j) \in DOMAIN j /\ j[Len(j)] = Last(j)
  BY <1>0 DEF Last
<1>4. Sorted(t)
  <2>1. \A i \in 1..Len(t) : i \in 1..Len(j) /\ t[i] = j[i]
    BY <1>0, <1>1
  <2> QED
    BY <2>1 DEF Sorted
<1>5. \A i \in 1..Len(j) : i < Len(j) => j[i] # Last(j)
  <2> SUFFICES ASSUME NEW i \in 1..Len(j), i < Len(j) PROVE j[i] # Last(j)
    OBVIOUS
  <2>1. Rank[j[i]] < Rank[Last(j)]
    BY <1>0, <1>3 DEF Sorted
  <2>2. Rank[Last(j)] \in Nat
    BY <1>0, <1>3 DEF Rank, EntryKind, Chains
  <2> QED
    BY <2>1, <2>2
<1>6. \A x : In(t, x) <=> In(j, x) /\ x # Last(j)
  <2> TAKE x
  <2>1. ASSUME In(t, x) PROVE In(j, x) /\ x # Last(j)
    <3>1. PICK i \in 1..(Len(j) - 1) : t[i] = x
      BY <1>2, <2>1 DEF In
    <3>2. i \in 1..Len(j) /\ i < Len(j) /\ j[i] = x
      BY <1>0, <1>1, <3>1
    <3> QED
      BY <1>0, <1>5, <3>2 DEF In
  <2>2. ASSUME In(j, x), x # Last(j) PROVE In(t, x)
    <3>1. PICK i \in 1..Len(j) : j[i] = x
      BY <1>0, <2>2 DEF In
    <3>2. i # Len(j)
      BY <1>3, <2>2, <3>1
    <3>3. i \in 1..(Len(j) - 1)
      <4>1. \A n \in Nat : \A k \in 1..n : k # n => k \in 1..(n - 1)
        OBVIOUS
      <4> QED
        BY <1>0, <3>2, <4>1, Zenon
    <3>4. i \in DOMAIN t /\ t[i] = x
      BY <1>1, <1>2, <3>1, <3>3
    <3> QED
      BY <3>4 DEF In
  <2> QED
    BY <2>1, <2>2
<1>7. In(j, Last(j))
  BY <1>3 DEF In
<1>8. \A i \in 1..Len(t) : i \in 1..Len(j) /\ t[i] = j[i]
  BY <1>0, <1>1
<1>9. \A x : In(t, x) => Rank[x] < Rank[Last(j)]
  <2> SUFFICES ASSUME NEW x, In(t, x) PROVE Rank[x] < Rank[Last(j)]
    OBVIOUS
  <2>1. PICK i \in 1..Len(t) : t[i] = x
    BY <1>1, <1>2 DEF In
  <2>2. i \in 1..Len(j) /\ i < Len(j) /\ j[i] = x
    BY <1>0, <1>1, <1>8, <2>1
  <2> QED
    BY <1>0, <1>3, <2>2 DEF Sorted
<1> QED
  BY <1>1, <1>4, <1>6, <1>7, <1>8, <1>9 DEF t

-------------------------------------------------------------------------------
\* The journal of a call.

LEMMA Below ==
  ASSUME Typed, Ordered, NEW x, In(journal, x)
  PROVE  x \in EntryKind /\ Rank[x] < Reached[pc]
<1>1. PICK i \in 1..Len(journal) : journal[i] = x
  BY DEF Typed, In
<1> QED
  BY <1>1 DEF Typed, Ordered

Label == {"off", "allow", "deny", "file", "keys", "verify", "undo"} \cup Chains

LEMMA Ranks ==
  /\ \A x \in EntryKind : Rank[x] \in 1..5
  /\ \A l \in Label : Reached[l] \in 1..6
BY DEF Rank, Reached, EntryKind, Label, Chains

LEMMA SameJournal ==
  ASSUME Typed, Ordered, journal' = journal, pc' \in Label, Reached[pc] <= Reached[pc']
  PROVE  Ordered'
<1>1. ASSUME NEW i \in 1..Len(journal)
      PROVE  Rank[journal[i]] < Reached[pc']
  <2>1. journal[i] \in EntryKind /\ pc \in Label
    BY DEF Typed, Label
  <2>2. Rank[journal[i]] < Reached[pc]
    BY DEF Ordered
  <2> QED
    BY <2>1, <2>2, Ranks
<1> QED
  BY <1>1 DEF Ordered, Sorted

LEMMA Logged ==
  ASSUME Typed, Ordered, NEW e \in EntryKind, Log(e), pc' \in Label,
         Reached[pc] <= Rank[e], Rank[e] < Reached[pc']
  PROVE  /\ Ordered'
         /\ journal' \in Seq(EntryKind)
         /\ \A x : In(journal', x) <=> x = e \/ In(journal, x)
<1>0. journal \in Seq(EntryKind) /\ pc \in Label
  BY DEF Typed, Label
<1>1. ASSUME NEW i \in 1..Len(journal)
      PROVE  Rank[journal[i]] < Rank[e]
  <2>1. journal[i] \in EntryKind
    BY <1>0
  <2>2. Rank[journal[i]] < Reached[pc]
    BY DEF Ordered
  <2> QED
    BY <1>0, <2>1, <2>2, Ranks
<1>2. Sorted(journal) /\ journal' = Append(journal, e)
  BY DEF Ordered, Log
<1>3. /\ journal' \in Seq(EntryKind)
      /\ Sorted(journal')
      /\ \A i \in 1..Len(journal') : Rank[journal'[i]] <= Rank[e]
      /\ \A x : In(journal', x) <=> x = e \/ In(journal, x)
  BY <1>0, <1>1, <1>2, LogIn
<1>4. ASSUME NEW i \in 1..Len(journal')
      PROVE  Rank[journal'[i]] < Reached[pc']
  <2>1. journal'[i] \in EntryKind
    BY <1>3
  <2>2. Rank[journal'[i]] <= Rank[e]
    BY <1>3
  <2> QED
    BY <2>1, <2>2, Ranks
<1> QED
  BY <1>3, <1>4 DEF Ordered

LEMMA PoppedIn ==
  ASSUME Typed, Ordered, pc = "undo", journal # <<>>, Popped, pc' = "undo"
  PROVE  /\ Ordered'
         /\ journal' \in Seq(EntryKind)
         /\ In(journal, Entry)
         /\ \A x : In(journal', x) <=> In(journal, x) /\ x # Entry
         /\ \A x : In(journal', x) => Rank[x] < Rank[Entry]
<1>0. journal \in Seq(EntryKind) /\ Sorted(journal) /\ journal' = Front(journal)
  BY DEF Typed, Ordered, Popped
<1>1. /\ journal' \in Seq(EntryKind)
      /\ Sorted(journal')
      /\ \A i \in 1..Len(journal') : i \in 1..Len(journal) /\ journal'[i] = journal[i]
      /\ In(journal, Entry)
      /\ \A x : In(journal', x) <=> In(journal, x) /\ x # Entry
      /\ \A x : In(journal', x) => Rank[x] < Rank[Entry]
  BY <1>0, FrontIn DEF Entry
<1> QED
  BY <1>1 DEF Ordered

-------------------------------------------------------------------------------
\* What a step does not touch.

LEMMA FirewallSame ==
  ASSUME FirewallLayered, UNCHANGED <<rules, deny6, before>>,
         \A e \in {"allow", "deny"} : In(journal', e) <=> In(journal, e)
  PROVE  FirewallLayered'
BY DEF FirewallLayered, WithAllow

LEMMA SysctlSame ==
  ASSUME SysctlLayered, UNCHANGED <<file, runtime, before>>,
         In(journal', "sysctl") <=> In(journal, "sysctl")
  PROVE  SysctlLayered'
BY DEF SysctlLayered

LEMMA MssSame ==
  ASSUME MssLayered, UNCHANGED <<mss, using, before>>,
         \A c \in Chains : In(journal', c) <=> In(journal, c)
  PROVE  MssLayered'
BY DEF MssLayered, Mss

LEMMA EarlierSame ==
  ASSUME EarlierKept, pc # "off", UNCHANGED <<host, before>>
  PROVE  EarlierKept'
BY DEF EarlierKept, host, Has, At, In

LEMMA FreshSame ==
  ASSUME Fresh, pc # "off", UNCHANGED <<before, using, outcome>>,
         pc' # "undo" => pc # "undo" /\ UNCHANGED <<errors, doubt>>,
         \A x : In(journal', x) => In(journal, x),
         In(journal', "deny") /\ In(journal, "allow") => In(journal', "allow")
  PROVE  Fresh'
BY DEF Fresh, Mss

LEMMA Running ==
  ASSUME outcome' = "none"
  PROVE  Outcome'
BY DEF Outcome, RolledBack

LEMMA HasIn ==
  \A r : Has(r) <=> In(rules, r)
BY DEF Has, At, In

\* Both rules where an inspection accepts them.
LEMMA LegiblePair ==
  ASSUME Typed, Legible, Has("allow"), Has("deny")
  PROVE  Paired
<1>1. rules[1] = "allow" /\ 1 \in DOMAIN rules
  BY DEF Legible, Has, At
<1>2. rules[2] = "deny" /\ 2 \in DOMAIN rules
  BY DEF Legible, Has, At
<1> QED
  BY <1>1, <1>2 DEF Typed, Paired

\* What a call has found, with its own allow rule in front.
LEMMA AllowLayer ==
  ASSUME Typed, Fresh, pc # "off"
  PROVE  /\ WithAllow \in Seq(Rule)
         /\ In(WithAllow, "allow") <=> In(journal, "allow") \/ In(before.rules, "allow")
         /\ In(WithAllow, "deny") <=> In(before.rules, "deny")
         /\ In(journal, "deny") => WithAllow # <<>>
<1>1. before.rules \in Seq(Rule) /\ "allow" \in Rule
  BY DEF Typed, Rule
<1>2. CASE In(journal, "allow")
  <2>1. WithAllow = <<"allow">> \o before.rules
    BY <1>2 DEF WithAllow
  <2>2. /\ WithAllow \in Seq(Rule)
        /\ Len(WithAllow) = Len(before.rules) + 1
        /\ \A x : In(WithAllow, x) <=> x = "allow" \/ In(before.rules, x)
    BY <1>1, <2>1, Prepended, PrependedIn
  <2>3. WithAllow # <<>>
    BY <1>1, <2>2
  <2> QED
    BY <1>2, <2>2, <2>3
<1>3. CASE ~In(journal, "allow")
  <2>1. WithAllow = before.rules
    BY <1>3 DEF WithAllow
  <2>2. In(journal, "deny") => before.rules # <<>>
    BY <1>3 DEF Fresh, In
  <2> QED
    BY <1>1, <1>3, <2>1, <2>2
<1> QED
  BY <1>2, <1>3

-------------------------------------------------------------------------------
\* The invariant, step by step.

LEMMA InvInit == Init => Inv
<1> SUFFICES ASSUME Init
             PROVE  Inv
  OBVIOUS
<1> USE ExitNetworkAssumption
<1>1. Typed
  <2>1. rules \in Seq(Rule)
    <3>1. /\ <<"open">> \in Seq(Rule) /\ <<"allow", "open">> \in Seq(Rule)
          /\ <<"deny", "open">> \in Seq(Rule) /\ <<"allow", "deny", "open">> \in Seq(Rule)
          /\ <<"open", "deny">> \in Seq(Rule) /\ <<"other", "open">> \in Seq(Rule)
      BY DEF Rule
    <3>2. rules \in {<<"open">>, <<"allow", "open">>, <<"deny", "open">>,
                    <<"allow", "deny", "open">>, <<"open", "deny">>, <<"other", "open">>}
      BY DEF Init
    <3> QED
      BY <3>1, <3>2, Zenon
  <2>2. /\ deny6 \in BOOLEAN /\ file \in File /\ runtime \subseteq Keys /\ mss \subseteq MssRule
        /\ before = Now
    BY DEF Init, File
  <2>3. before \in [rules : Seq(Rule), deny6 : BOOLEAN, file : File, runtime : SUBSET Keys,
                    mss : SUBSET MssRule]
    BY <2>1, <2>2 DEF Now
  <2>4. /\ journal = <<>> /\ errors = FALSE /\ doubt = FALSE /\ iface \in Ifaces /\ using = iface
        /\ todo = {} /\ faults = 0 /\ pc = "off"
    BY DEF Init
  <2>5. journal \in Seq(EntryKind) /\ faults \in 0..MaxFaults
    BY <2>4
  <2> QED
    BY <2>1, <2>2, <2>3, <2>4, <2>5 DEF Typed
<1>2. Ordered
  BY DEF Init, Ordered, Sorted
<1> QED
  BY <1>1, <1>2 DEF Init, Inv, Fresh, EarlierKept, Layered, Progress, Outcome, RolledBack, Chains

LEMMA BeginKeeps == Inv /\ Begin => Inv'
<1> SUFFICES ASSUME Inv, Begin
             PROVE  Inv'
  OBVIOUS
<1> USE DEF Inv, host
<1>1. pc = "off" /\ UNCHANGED <<rules, deny6, file, runtime, mss, iface, faults>>
  BY DEF Begin
<1>2. CASE pc' = "off" /\ outcome' = "refused" /\ UNCHANGED call
  <2>1. Typed'
    BY <1>1, <1>2 DEF Typed, call
  <2>2. Ordered'
    BY <1>1, <1>2 DEF Ordered, Sorted, call
  <2> QED
    BY <1>2, <2>1, <2>2
       DEF Fresh, EarlierKept, Layered, Progress, Outcome, RolledBack, Chains
<1>3. CASE Legible /\ Enter
  <2>0. /\ pc' = "allow" /\ outcome' = "none" /\ before' = Now /\ using' = iface
        /\ todo' = Keys /\ journal' = <<>> /\ errors' = FALSE /\ doubt' = FALSE
    BY <1>3 DEF Enter
  <2>1. \A x : ~In(journal', x)
    BY <2>0 DEF In
  <2>2. Typed'
    <3>1. before' \in [rules : Seq(Rule), deny6 : BOOLEAN, file : File, runtime : SUBSET Keys,
                       mss : SUBSET MssRule]
      BY <2>0 DEF Typed, Now
    <3>2. journal' \in Seq(EntryKind)
      BY <2>0
    <3> QED
      BY <1>1, <2>0, <3>1, <3>2 DEF Typed
  <2>3. Ordered'
    BY <2>0 DEF Ordered, Sorted
  <2>4. /\ before'.rules = rules' /\ before'.deny6 = deny6' /\ before'.file = file'
        /\ before'.runtime = runtime' /\ before'.mss = mss'
    BY <1>1, <2>0 DEF Now
  <2>5. before'.deny6 => In(before'.rules, "deny")
    BY <1>1, <1>3, <2>4, HasIn DEF Legible
  <2>6. Fresh'
    BY <2>0, <2>1, <2>5 DEF Fresh
  <2>7. EarlierKept'
    BY <2>4 DEF EarlierKept, Has, At, In
  <2>8. Layered'
    BY <2>1, <2>4 DEF Layered, SysctlLayered, FirewallLayered, MssLayered, WithAllow
  <2>9. Progress' /\ Outcome'
    BY <2>0, Running DEF Progress, Chains
  <2> QED
    BY <2>2, <2>3, <2>6, <2>7, <2>8, <2>9
<1> QED
  BY <1>2, <1>3 DEF Begin, End

LEMMA AddAllowKeeps == Inv /\ AddAllow => Inv'
<1> SUFFICES ASSUME Inv, AddAllow
             PROVE  Inv'
  OBVIOUS
<1> USE DEF Inv
<1>1. /\ pc = "allow" /\ pc' = "deny"
      /\ UNCHANGED <<iface, before, using, todo, errors, doubt, faults, outcome>>
  BY DEF AddAllow, Goto
<1>2. outcome' = "none" /\ ~errors /\ ~doubt
  BY <1>1 DEF Fresh
<1>3. Outcome' /\ Progress'
  BY <1>1, <1>2, Running DEF Progress, Chains
<1>4. \A x : ~In(journal, x)
  <2> SUFFICES ASSUME NEW x, In(journal, x) PROVE FALSE
    OBVIOUS
  <2>1. x \in EntryKind /\ Rank[x] < 1
    BY <1>1, Below DEF Reached
  <2> QED
    BY <2>1, Ranks
<1>5. CASE UNCHANGED <<host, journal>>
  <2>1. Ordered'
    BY <1>1, <1>5, SameJournal DEF Label, Reached
  <2>2. Typed'
    BY <1>1, <1>5 DEF Typed, host
  <2>3. Fresh'
    BY <1>1, <1>5, FreshSame
  <2>4. EarlierKept'
    BY <1>1, <1>5, EarlierSame
  <2>5. Layered'
    BY <1>1, <1>2, <1>5, FirewallSame, SysctlSame, MssSame DEF Layered, host
  <2> QED
    BY <1>3, <2>1, <2>2, <2>3, <2>4, <2>5
<1>6. CASE ~In(before.rules, "allow") /\ InsertAllow /\ Log("allow")
  <2>0. /\ rules' = <<"allow">> \o rules
        /\ UNCHANGED <<deny6, file, runtime, mss>>
    BY <1>6 DEF InsertAllow
  <2>1. /\ Ordered' /\ journal' \in Seq(EntryKind)
        /\ \A x : In(journal', x) <=> x = "allow" \/ In(journal, x)
    <3>1. /\ "allow" \in EntryKind /\ pc' \in Label
          /\ Reached[pc] <= Rank["allow"] /\ Rank["allow"] < Reached[pc']
      BY <1>1 DEF EntryKind, Label, Reached, Rank
    <3> QED
      BY <1>6, <3>1, Logged
  <2>2. rules \in Seq(Rule) /\ "allow" \in Rule
    BY DEF Typed, Rule
  <2>3. rules' \in Seq(Rule) /\ \A x : In(rules', x) <=> x = "allow" \/ In(rules, x)
    BY <2>0, <2>2, Prepended, PrependedIn
  <2>4. Typed'
    BY <1>1, <2>0, <2>1, <2>3 DEF Typed
  <2>5. Fresh'
    <3>1. \A c \in Chains : ~In(journal', c)
      BY <1>4, <2>1 DEF Chains
    <3> QED
      BY <1>1, <1>2, <1>4, <1>6, <2>1, <3>1 DEF Fresh
  <2>6. EarlierKept'
    <3>1. \A r : In(before.rules, r) /\ Has(r) => Has(r)'
      BY <2>3 DEF Has, At, In
    <3> QED
      BY <1>1, <2>0, <3>1 DEF EarlierKept
  <2>7. Layered'
    <3>1. rules = before.rules
      BY <1>1, <1>2, <1>4 DEF Layered, FirewallLayered, WithAllow
    <3>2. FirewallLayered'
      BY <1>1, <1>2, <1>4, <2>0, <2>1, <3>1 DEF Layered, FirewallLayered, WithAllow
    <3>3. SysctlLayered' /\ MssLayered'
      BY <1>1, <1>2, <2>0, <2>1, SysctlSame, MssSame DEF Layered, Chains
    <3> QED
      BY <3>2, <3>3 DEF Layered
  <2> QED
    BY <1>3, <2>1, <2>4, <2>5, <2>6, <2>7
<1> QED
  BY <1>5, <1>6 DEF AddAllow, In

\* A step that only moves on, or gives up.
LEMMA MovesOn ==
  ASSUME Inv, pc # "off", pc' # "off", pc' \in Label, Reached[pc] <= Reached[pc'], Progress',
         pc' # "undo" => pc # "undo",
         UNCHANGED <<host, iface, before, using, todo, journal, errors, doubt, outcome, faults>>
  PROVE  Inv'
<1>1. Ordered'
  BY SameJournal DEF Inv
<1>2. Typed'
  BY DEF Inv, Typed, host, Label
<1>3. Fresh'
  BY FreshSame DEF Inv
<1>4. EarlierKept'
  BY EarlierSame DEF Inv
<1>5. Layered'
  BY FirewallSame, SysctlSame, MssSame DEF Inv, Layered, host
<1>6. Outcome'
  BY Running DEF Inv, Fresh
<1> QED
  BY <1>1, <1>2, <1>3, <1>4, <1>5, <1>6 DEF Inv

LEMMA GivesUp ==
  ASSUME Inv, pc # "off", Except, UNCHANGED <<iface, before, using, errors, doubt, faults>>
  PROVE  Inv'
<1>1. pc' = "undo" /\ UNCHANGED <<host, journal, todo, outcome>>
  BY DEF Except, Goto
<1>2. pc' \in Label /\ Reached[pc] <= Reached[pc']
  <2>1. pc \in Label /\ Reached["undo"] = 6
    BY DEF Inv, Typed, Label, Reached
  <2> QED
    BY <1>1, <2>1, Ranks DEF Label
<1>3. Progress'
  BY <1>1 DEF Progress, Chains
<1> QED
  BY <1>1, <1>2, <1>3, MovesOn

LEMMA AddDenyKeeps == Inv /\ AddDeny => Inv'
<1> SUFFICES ASSUME Inv, AddDeny
             PROVE  Inv'
  OBVIOUS
<1> USE DEF Inv
<1>1. pc = "deny" /\ UNCHANGED <<iface, before, using, errors, doubt, faults>>
  BY DEF AddDeny
<1>2. CASE Except
  BY <1>1, <1>2, GivesUp
<1>3. CASE Has("deny") /\ UNCHANGED <<host, journal>> /\ Goto("file") /\ UNCHANGED todo
  <2>1. /\ pc' = "file" /\ UNCHANGED outcome /\ pc' \in Label
        /\ Reached[pc] <= Reached[pc']
    BY <1>1, <1>3 DEF Goto, Label, Reached
  <2>2. Progress'
    BY <2>1 DEF Progress, Chains
  <2> QED
    BY <1>1, <1>3, <2>1, <2>2, MovesOn
<1>4. CASE /\ Legible /\ Has("allow") /\ ~Has("deny") /\ InsertDeny /\ Log("deny")
           /\ Goto("file") /\ UNCHANGED todo
  <2>0. /\ rules' = InsertAt(rules, 2, "deny") /\ deny6' = TRUE
        /\ UNCHANGED <<file, runtime, mss, todo, outcome>>
        /\ pc' = "file"
        /\ outcome = "none" /\ ~errors /\ ~doubt
    BY <1>1, <1>4 DEF InsertDeny, Goto, Fresh
  <2>1. /\ Ordered' /\ journal' \in Seq(EntryKind)
        /\ \A x : In(journal', x) <=> x = "deny" \/ In(journal, x)
    <3>1. /\ "deny" \in EntryKind /\ pc' \in Label
          /\ Reached[pc] <= Rank["deny"] /\ Rank["deny"] < Reached[pc']
      BY <1>1, <2>0 DEF EntryKind, Label, Reached, Rank
    <3> QED
      BY <1>4, <3>1, Logged
  <2>2. rules \in Seq(Rule) /\ "deny" \in Rule /\ rules # <<>>
    BY <1>4 DEF Typed, Rule, Has, At
  <2>3. rules' \in Seq(Rule) /\ \A x : In(rules', x) <=> x = "deny" \/ In(rules, x)
    BY <2>0, <2>2, Inserted, InsertedIn
  <2>4. Typed'
    BY <1>1, <2>0, <2>1, <2>3 DEF Typed
  <2>5. ~In(journal, "deny")
    <3>1. In(journal, "deny") => Rank["deny"] < 2
      BY <1>1, Below DEF Reached
    <3> QED
      BY <3>1 DEF Rank
  <2>6. rules = WithAllow /\ SysctlLayered /\ MssLayered /\ deny6 = before.deny6
    BY <1>1, <2>0, <2>5 DEF Layered, FirewallLayered
  <2>7. In(journal, "allow") \/ In(before.rules, "allow")
    BY <1>1, <1>4, <2>6, HasIn, AllowLayer
  <2>8. ~In(before.rules, "deny")
    BY <1>1, <1>4, <2>6, HasIn, AllowLayer
  <2>9. Fresh'
    <3>1. \A c \in Chains : In(journal', c) => In(journal, c)
      BY <2>1 DEF Chains
    <3> QED
      BY <1>1, <2>0, <2>1, <2>7, <2>8, <3>1 DEF Fresh, Mss
  <2>10. EarlierKept'
    <3>1. \A r : In(before.rules, r) /\ Has(r) => Has(r)'
      BY <2>3 DEF Has, At, In
    <3> QED
      BY <1>1, <2>0, <3>1 DEF EarlierKept
  <2>11. FirewallLayered'
    BY <1>1, <2>0, <2>1, <2>6 DEF FirewallLayered, WithAllow
  <2>12. SysctlLayered' /\ MssLayered'
    BY <1>1, <2>0, <2>1, <2>6, SysctlSame, MssSame DEF Chains
  <2>13. Progress' /\ Outcome'
    BY <2>0, Running DEF Progress, Chains
  <2> QED
    BY <2>1, <2>4, <2>9, <2>10, <2>11, <2>12, <2>13 DEF Layered
<1> QED
  BY <1>2, <1>3, <1>4 DEF AddDeny

LEMMA WriteFileKeeps == Inv /\ WriteFile => Inv'
<1> SUFFICES ASSUME Inv, WriteFile
             PROVE  Inv'
  OBVIOUS
<1> USE DEF Inv
<1>1. pc = "file" /\ UNCHANGED <<iface, before, using, errors, doubt, faults>>
  BY DEF WriteFile
<1>2. CASE Except
  BY <1>1, <1>2, GivesUp
<1>3. ASSUME Legible, Has("allow"), Has("deny")
      PROVE  Paired
  BY <1>3, LegiblePair
<1>4. CASE Paired /\ SysctlDone /\ Goto("OUTPUT") /\ UNCHANGED <<host, journal, todo>>
  <2>1. /\ pc' = "OUTPUT" /\ UNCHANGED outcome /\ pc' \in Label
        /\ Reached[pc] <= Reached[pc']
    BY <1>1, <1>4 DEF Goto, Label, Reached, Chains
  <2>2. file = "managed" /\ runtime = Keys
    BY <1>1, <1>4 DEF SysctlDone, EarlierKept, Typed
  <2>3. Progress'
    BY <1>4, <2>1, <2>2 DEF Progress, Chains, Paired, host
  <2> QED
    BY <1>1, <1>4, <2>1, <2>3, MovesOn
<1>5. CASE /\ Paired /\ file' = "managed" /\ UNCHANGED <<firewall, runtime, mss>>
           /\ Log("sysctl") /\ Goto("keys") /\ UNCHANGED todo
  <2>0. /\ pc' = "keys" /\ UNCHANGED <<rules, deny6, outcome>>
        /\ outcome = "none" /\ ~errors /\ ~doubt
    BY <1>1, <1>5 DEF firewall, Goto, Fresh
  <2>1. /\ Ordered' /\ journal' \in Seq(EntryKind)
        /\ \A x : In(journal', x) <=> x = "sysctl" \/ In(journal, x)
    <3>1. /\ "sysctl" \in EntryKind /\ pc' \in Label
          /\ Reached[pc] <= Rank["sysctl"] /\ Rank["sysctl"] < Reached[pc']
      BY <1>1, <2>0 DEF EntryKind, Label, Reached, Rank
    <3> QED
      BY <1>5, <3>1, Logged
  <2>2. Typed'
    BY <1>1, <1>5, <2>0, <2>1 DEF Typed, File
  <2>3. Fresh'
    <3>1. \A c \in Chains : In(journal', c) => In(journal, c)
      BY <2>1 DEF Chains
    <3> QED
      BY <1>1, <2>0, <2>1, <3>1 DEF Fresh, Mss
  <2>4. EarlierKept'
    BY <1>1, <1>5, <2>0 DEF EarlierKept, Has, At
  <2>5. Layered'
    <3>1. FirewallLayered' /\ MssLayered'
      BY <1>1, <1>5, <2>0, <2>1, FirewallSame, MssSame DEF Layered, Chains
    <3>2. SysctlLayered'
      BY <2>1 DEF SysctlLayered
    <3> QED
      BY <3>1, <3>2 DEF Layered
  <2>6. Progress'
    BY <1>5, <2>0, <2>1 DEF Progress, Chains, Paired
  <2>7. Outcome'
    BY <2>0, Running
  <2> QED
    BY <2>1, <2>2, <2>3, <2>4, <2>5, <2>6, <2>7
<1> QED
  BY <1>2, <1>3, <1>4, <1>5 DEF WriteFile

LEMMA SetKeyKeeps == Inv /\ SetKey => Inv'
<1> SUFFICES ASSUME Inv, SetKey
             PROVE  Inv'
  OBVIOUS
<1> USE DEF Inv
<1>1. /\ pc = "keys" /\ pc' = "keys"
      /\ UNCHANGED <<rules, deny6, file, mss, iface, before, using, journal, errors, doubt,
                     outcome, faults>>
  BY DEF SetKey, Goto, firewall
<1>2. PICK key \in todo : runtime' = runtime \cup {key} /\ todo' = todo \ {key}
  BY DEF SetKey
<1>3. In(journal, "sysctl") /\ Paired /\ file = "managed" /\ outcome = "none"
  BY <1>1 DEF Progress, Fresh
<1>4. Typed'
  BY <1>1, <1>2 DEF Typed
<1>5. Ordered'
  BY <1>1 DEF Ordered
<1>6. Fresh'
  BY <1>1 DEF Fresh, Mss
<1>7. EarlierKept'
  BY <1>1, <1>2 DEF EarlierKept, Has, At
<1>8. Layered'
  <2>1. SysctlLayered'
    BY <1>1, <1>3 DEF SysctlLayered
  <2> QED
    BY <1>1, <2>1, FirewallSame, MssSame DEF Layered
<1>9. Progress' /\ Outcome'
  BY <1>1, <1>3, Running DEF Progress, Chains, Paired
<1> QED
  BY <1>4, <1>5, <1>6, <1>7, <1>8, <1>9

LEMMA ReadBackKeeps == Inv /\ ReadBack => Inv'
<1> SUFFICES ASSUME Inv, ReadBack
             PROVE  Inv'
  OBVIOUS
<1>1. pc = "keys" /\ UNCHANGED <<iface, before, using, errors, doubt, faults>>
  BY DEF ReadBack
<1>2. CASE Except
  BY <1>1, <1>2, GivesUp
<1>3. CASE runtime = Keys /\ Goto("OUTPUT") /\ UNCHANGED <<host, journal, todo>>
  <2>1. /\ pc' = "OUTPUT" /\ UNCHANGED outcome /\ pc' \in Label
        /\ Reached[pc] <= Reached[pc']
    BY <1>1, <1>3 DEF Goto, Label, Reached, Chains
  <2>2. Progress'
    BY <1>1, <1>3, <2>1 DEF Inv, Progress, Chains, Paired, host
  <2> QED
    BY <1>1, <1>3, <2>1, <2>2, MovesOn
<1> QED
  BY <1>2, <1>3 DEF ReadBack

LEMMA AddMssKeeps == Inv /\ AddMss => Inv'
<1> SUFFICES ASSUME Inv, AddMss
             PROVE  Inv'
  OBVIOUS
<1> USE DEF Inv
<1>1. /\ pc \in Chains /\ pc' = NextChain[pc]
      /\ UNCHANGED <<iface, before, using, todo, errors, doubt, outcome, faults>>
  BY DEF AddMss, Goto
<1>2. /\ Paired /\ file = "managed" /\ runtime = Keys
      /\ outcome = "none" /\ ~errors /\ ~doubt /\ pc # "off" /\ pc # "undo"
  BY <1>1 DEF Progress, Fresh, Chains
<1>3. /\ pc' \in Label /\ pc' # "off" /\ pc' # "undo" /\ pc' # "keys" /\ pc \in EntryKind
      /\ Reached[pc] = Rank[pc] /\ Rank[pc] < Reached[pc'] /\ Reached[pc] <= Reached[pc']
  BY <1>1 DEF NextChain, Chains, Label, EntryKind, Reached, Rank
<1>4. CASE UNCHANGED <<host, journal>>
  <2>1. Progress'
    BY <1>2, <1>3, <1>4 DEF Progress, Chains, Paired, host
  <2> QED
    BY <1>1, <1>2, <1>3, <1>4, <2>1, MovesOn
<1>5. CASE Mss(pc, using) \notin before.mss /\ AppendMss(pc) /\ Log(pc)
  <2>0. mss' = mss \cup {Mss(pc, using)} /\ UNCHANGED <<rules, deny6, file, runtime>>
    BY <1>5 DEF AppendMss, firewall
  <2>1. /\ Ordered' /\ journal' \in Seq(EntryKind)
        /\ \A x : In(journal', x) <=> x = pc \/ In(journal, x)
    <3>1. PICK c \in Chains : c = pc
      BY <1>1
    <3>2. c \in EntryKind /\ Log(c) /\ Reached[pc] <= Rank[c] /\ Rank[c] < Reached[pc']
      <4>1. Reached[pc] <= Rank[pc]
        BY <1>3, Ranks
      <4> QED
        BY <1>3, <1>5, <3>1, <4>1 DEF Log
    <3> QED
      BY <1>3, <3>1, <3>2, Logged
  <2>2. \A e \in {"allow", "deny", "sysctl"} : In(journal', e) <=> In(journal, e)
    BY <1>1, <2>1 DEF Chains
  <2>3. Mss(pc, using) \in MssRule
    BY <1>1 DEF MssRule, Typed
  <2>4. Typed'
    BY <1>1, <1>3, <2>0, <2>1, <2>3 DEF Typed, Label
  <2>5. Fresh'
    BY <1>1, <1>2, <1>5, <2>1, <2>2 DEF Fresh, Mss
  <2>6. EarlierKept'
    BY <1>1, <1>2, <2>0 DEF EarlierKept, Has, At
  <2>7. Layered'
    <3>1. FirewallLayered' /\ SysctlLayered'
      BY <1>1, <1>2, <2>0, <2>2, FirewallSame, SysctlSame DEF Layered
    <3>2. mss = before.mss \cup {Mss(chain, using) : chain \in {c \in Chains : In(journal, c)}}
      BY <1>2 DEF Layered, MssLayered
    <3>3. {c \in Chains : In(journal', c)} = {c \in Chains : In(journal, c)} \cup {pc}
      BY <1>1, <2>1
    <3>4. mss' = before.mss
                   \cup {Mss(chain, using) : chain \in {c \in Chains : In(journal', c)}}
      BY <2>0, <3>2, <3>3
    <3>5. MssLayered'
      BY <1>1, <3>4 DEF MssLayered, Mss
    <3> QED
      BY <3>1, <3>5 DEF Layered
  <2>8. Progress' /\ Outcome'
    BY <1>1, <1>2, <1>3, <2>0, Running DEF Progress, Paired
  <2> QED
    BY <2>1, <2>4, <2>5, <2>6, <2>7, <2>8
<1> QED
  BY <1>4, <1>5 DEF AddMss

LEMMA VerifyKeeps == Inv /\ Verify => Inv'
<1> SUFFICES ASSUME Inv, Verify
             PROVE  Inv'
  OBVIOUS
<1>1. pc = "verify" /\ UNCHANGED <<iface, before, using, errors, doubt, faults>>
  BY DEF Verify
<1>2. CASE Except
  BY <1>1, <1>2, GivesUp
<1>3. CASE /\ \A chain \in Chains : Mss(chain, using) \in mss
           /\ End("applied") /\ UNCHANGED <<host, journal, todo>>
  <2>1. pc' = "off" /\ outcome' = "applied"
    BY <1>3 DEF End
  <2>2. Paired /\ file = "managed" /\ runtime = Keys
    BY <1>1 DEF Inv, Progress
  <2>3. Ordered'
    <3>1. pc' \in Label /\ Reached[pc] <= Reached[pc']
      BY <1>1, <2>1 DEF Label, Reached
    <3> QED
      BY <1>3, <3>1, SameJournal DEF Inv
  <2>4. Typed'
    BY <1>1, <1>3, <2>1 DEF Inv, Typed, host
  <2>5. Outcome'
    BY <1>1, <1>3, <2>1, <2>2 DEF Outcome, RolledBack, Paired, Mss, host
  <2> QED
    BY <2>1, <2>3, <2>4, <2>5 DEF Inv, Fresh, EarlierKept, Layered, Progress, Chains
<1> QED
  BY <1>2, <1>3 DEF Verify

\* A command of a call fails, and has had its effect or not.
LEMMA StepFailsKeeps == Inv /\ StepFails => Inv'
<1> SUFFICES ASSUME Inv, StepFails
             PROVE  Inv'
  OBVIOUS
<1> USE DEF Inv
<1>1. /\ pc \in {"allow", "deny", "file", "keys", "verify"} \cup Chains
      /\ pc' = "undo" /\ faults < MaxFaults /\ faults' = faults + 1
      /\ UNCHANGED <<iface, before, using, todo, errors, outcome>>
  BY DEF StepFails, Charge, Goto
<1>2. pc # "off" /\ pc # "undo" /\ outcome = "none" /\ ~errors /\ ~doubt
  BY <1>1 DEF Fresh, Chains
<1>3. /\ Ordered' /\ journal' \in Seq(EntryKind)
      /\ \A x : x # "sysctl" => (In(journal', x) <=> In(journal, x))
      /\ pc = "file" /\ ~SysctlDone => In(journal', "sysctl")
      /\ In(journal, "sysctl") => In(journal', "sysctl")
      /\ ~(pc = "file" /\ ~SysctlDone) => journal' = journal
  <2>1. pc' \in Label /\ Reached[pc] <= Reached[pc']
    BY <1>1 DEF Label, Reached, Chains
  <2>2. CASE pc = "file" /\ ~SysctlDone /\ Log("sysctl")
    <3>1. "sysctl" \in EntryKind /\ Reached[pc] <= Rank["sysctl"] /\ Rank["sysctl"] < Reached[pc']
      BY <1>1, <2>2 DEF EntryKind, Reached, Rank
    <3>2. /\ Ordered' /\ journal' \in Seq(EntryKind)
          /\ \A x : In(journal', x) <=> x = "sysctl" \/ In(journal, x)
      BY <2>1, <2>2, <3>1, Logged
    <3> QED
      BY <2>2, <3>2
  <2>3. CASE ~(pc = "file" /\ ~SysctlDone) /\ UNCHANGED journal
    BY <2>1, <2>3, SameJournal DEF Typed
  <2> QED
    BY <2>2, <2>3 DEF StepFails
<1>4. \A e \in {"allow", "deny"} \cup Chains : In(journal', e) <=> In(journal, e)
  BY <1>3 DEF Chains
<1>5. Fresh'
  <2>1. /\ before' = before /\ using' = using /\ outcome' = "none" /\ pc' = "undo"
    BY <1>1, <1>2
  <2> QED
    BY <1>2, <1>4, <2>1 DEF Fresh, Mss
<1>6. Progress' /\ Outcome'
  BY <1>1, <1>2, Running DEF Progress, Chains
<1>7. faults' \in 0..MaxFaults
  BY <1>1, ExitNetworkAssumption DEF Typed
<1>8. /\ iface' \in Ifaces /\ using' \in Ifaces /\ todo' \subseteq Keys /\ errors' \in BOOLEAN
      /\ before' \in [rules : Seq(Rule), deny6 : BOOLEAN, file : File, runtime : SUBSET Keys,
                      mss : SUBSET MssRule]
  BY <1>1 DEF Typed
<1>9. SysctlLayered /\ FirewallLayered /\ MssLayered
  BY <1>2 DEF Layered
<1>10. SUFFICES /\ rules' \in Seq(Rule) /\ deny6' \in BOOLEAN /\ file' \in File
                /\ runtime' \subseteq Keys /\ mss' \subseteq MssRule /\ doubt' \in BOOLEAN
                /\ EarlierKept'
                /\ SysctlLayered'
                /\ ~doubt' => FirewallLayered' /\ MssLayered'
  BY <1>1, <1>3, <1>5, <1>6, <1>7, <1>8 DEF Typed, Layered
<1>11. CASE UNCHANGED <<host, doubt>>
  <2>1. SysctlLayered'
    BY <1>1, <1>3, <1>9, <1>11 DEF SysctlLayered, host
  <2>2. FirewallLayered' /\ MssLayered'
    BY <1>1, <1>4, <1>9, <1>11, FirewallSame, MssSame DEF host
  <2> QED
    BY <1>1, <1>2, <1>11, <2>1, <2>2, EarlierSame DEF Typed, host
<1>12. CASE pc = "allow" /\ ~Has("allow") /\ InsertAllow /\ doubt' = TRUE
  <2>0. rules' = <<"allow">> \o rules /\ UNCHANGED <<deny6, file, runtime, mss>>
    BY <1>12 DEF InsertAllow
  <2>1. rules \in Seq(Rule) /\ "allow" \in Rule
    BY DEF Typed, Rule
  <2>2. rules' \in Seq(Rule) /\ \A x : In(rules', x) <=> x = "allow" \/ In(rules, x)
    BY <2>0, <2>1, Prepended, PrependedIn
  <2>3. \A r : Has(r) => Has(r)'
    BY <2>2 DEF Has, At, In
  <2>4. EarlierKept'
    BY <1>1, <1>2, <2>0, <2>3 DEF EarlierKept
  <2>5. SysctlLayered'
    BY <1>1, <1>3, <1>9, <1>12, <2>0 DEF SysctlLayered
  <2> QED
    BY <1>12, <2>0, <2>2, <2>4, <2>5 DEF Typed
<1>13. CASE pc = "deny" /\ Legible /\ Has("allow") /\ ~Has("deny") /\ InsertDeny /\ doubt' = TRUE
  <2>0. /\ rules' = InsertAt(rules, 2, "deny") /\ deny6' = TRUE
        /\ UNCHANGED <<file, runtime, mss>>
    BY <1>13 DEF InsertDeny
  <2>1. rules \in Seq(Rule) /\ "deny" \in Rule /\ rules # <<>>
    BY <1>13 DEF Typed, Rule, Has, At
  <2>2. rules' \in Seq(Rule) /\ \A x : In(rules', x) <=> x = "deny" \/ In(rules, x)
    BY <2>0, <2>1, Inserted, InsertedIn
  <2>3. \A r : Has(r) => Has(r)'
    BY <2>2 DEF Has, At, In
  <2>4. EarlierKept'
    BY <1>1, <1>2, <2>0, <2>3 DEF EarlierKept
  <2>5. SysctlLayered'
    BY <1>1, <1>3, <1>9, <1>13, <2>0 DEF SysctlLayered
  <2> QED
    BY <1>13, <2>0, <2>2, <2>4, <2>5 DEF Typed
<1>14. CASE pc \in Chains /\ AppendMss(pc) /\ doubt' = (doubt \/ Mss(pc, using) \notin before.mss)
  <2>0. mss' = mss \cup {Mss(pc, using)} /\ UNCHANGED <<rules, deny6, file, runtime>>
    BY <1>14 DEF AppendMss, firewall
  <2>1. Mss(pc, using) \in MssRule
    BY <1>14 DEF MssRule, Typed
  <2>2. EarlierKept'
    BY <1>1, <1>2, <2>0 DEF EarlierKept, Has, At
  <2>3. journal' = journal
    BY <1>3, <1>14 DEF Chains
  <2>4. SysctlLayered' /\ FirewallLayered'
    BY <1>1, <1>9, <2>0, <2>3, SysctlSame, FirewallSame
  <2>5. ASSUME ~doubt'
        PROVE  MssLayered'
    <3>1. Mss(pc, using) \in mss
      BY <1>2, <1>14, <2>5 DEF EarlierKept
    <3>2. mss' = mss
      BY <2>0, <3>1
    <3> QED
      BY <1>1, <1>9, <2>3, <3>2, MssSame
  <2>6. doubt' \in BOOLEAN
    BY <1>2, <1>14
  <2> QED
    BY <2>0, <2>1, <2>2, <2>4, <2>5, <2>6 DEF Typed
<1>15. CASE /\ pc = "file" /\ ~SysctlDone
            /\ file' = "managed" /\ UNCHANGED <<firewall, runtime, mss, doubt>>
  <2>0. UNCHANGED <<rules, deny6, runtime, mss, doubt>>
    BY <1>15 DEF firewall
  <2>1. EarlierKept'
    BY <1>1, <1>2, <1>15, <2>0 DEF EarlierKept, Has, At
  <2>2. SysctlLayered'
    BY <1>3, <1>15 DEF SysctlLayered
  <2>3. FirewallLayered' /\ MssLayered'
    BY <1>1, <1>4, <1>9, <2>0, FirewallSame, MssSame
  <2> QED
    BY <1>15, <2>0, <2>1, <2>2, <2>3 DEF Typed, File
<1>16. CASE /\ pc = "keys"
            /\ \E key \in todo : runtime' = runtime \cup {key}
            /\ UNCHANGED <<firewall, file, mss, doubt>>
  <2>0. UNCHANGED <<rules, deny6, file, mss, doubt>> /\ In(journal, "sysctl")
    BY <1>16 DEF firewall, Progress
  <2>1. PICK key \in todo : runtime' = runtime \cup {key}
    BY <1>16
  <2>2. EarlierKept'
    BY <1>1, <1>2, <2>0, <2>1 DEF EarlierKept, Has, At
  <2>3. SysctlLayered'
    BY <1>3, <2>0 DEF SysctlLayered
  <2>4. FirewallLayered' /\ MssLayered'
    BY <1>1, <1>4, <1>9, <2>0, FirewallSame, MssSame
  <2> QED
    BY <2>0, <2>1, <2>2, <2>3, <2>4 DEF Typed
<1> QED
  BY <1>11, <1>12, <1>13, <1>14, <1>15, <1>16 DEF StepFails

\* What undoing the last entry does, whatever the entry.
LEMMA EntryUndone ==
  ASSUME Inv, pc = "undo", journal # <<>>, Popped, Goto("undo"), UNCHANGED <<before, using>>
  PROVE  /\ Ordered' /\ Fresh' /\ Progress' /\ Outcome'
         /\ journal' \in Seq(EntryKind)
         /\ pc' = "undo" /\ outcome' = "none"
         /\ In(journal, Entry)
         /\ \A x : In(journal', x) <=> In(journal, x) /\ x # Entry
         /\ Entry = "allow" => \A x : ~In(journal', x)
<1>1. pc' = "undo" /\ outcome' = "none"
  BY DEF Goto, Inv, Fresh
<1>2. /\ Ordered' /\ journal' \in Seq(EntryKind)
      /\ In(journal, Entry)
      /\ \A x : In(journal', x) <=> In(journal, x) /\ x # Entry
      /\ \A x : In(journal', x) => Rank[x] < Rank[Entry]
  BY <1>1, PoppedIn DEF Inv
<1>3. Entry = "allow" => \A x : ~In(journal', x)
  <2> SUFFICES ASSUME Entry = "allow", NEW x, In(journal', x) PROVE FALSE
    OBVIOUS
  <2>1. x \in EntryKind
    BY <1>2, Below DEF Inv
  <2>2. Rank[x] < 1
    BY <1>2 DEF Rank
  <2> QED
    BY <2>1, <2>2, Ranks
<1>4. Fresh'
  <2>1. In(journal', "deny") /\ In(journal, "allow") => In(journal', "allow")
    BY <1>2, <1>3
  <2> QED
    BY <1>1, <1>2, <2>1, FreshSame DEF Inv, Fresh
<1> QED
  BY <1>1, <1>2, <1>3, <1>4, Running DEF Progress, Chains

\* A rule is deleted by its number.
LEMMA Deletion ==
  ASSUME Typed, NEW r \in {"allow", "deny"}, Has(r),
         rules' = RemoveAt(rules, CHOOSE i \in At(r) : TRUE)
  PROVE  /\ rules' \in Seq(Rule)
         /\ \A x : x # r /\ Has(x) => Has(x)'
<1> DEFINE n == CHOOSE i \in At(r) : TRUE
<1>1. n \in At(r)
  BY DEF Has
<1>2. rules \in Seq(Rule) /\ n \in 1..Len(rules) /\ rules[n] = r
  BY <1>1 DEF Typed, At
<1>3. rules' = RemoveAt(rules, n)
  OBVIOUS
<1> HIDE DEF n
<1>4. rules' \in Seq(Rule)
  BY <1>2, <1>3, Removed
<1>5. \A x : x # r /\ In(rules, x) => In(rules', x)
  BY <1>2, <1>3, RemovedIn
<1> QED
  BY <1>4, <1>5 DEF Has, At, In

LEMMA UndoDeny6Keeps == Inv /\ UndoDeny6 => Inv'
<1> SUFFICES ASSUME Inv, UndoDeny6
             PROVE  Inv'
  OBVIOUS
<1> USE DEF Inv
<1>1. /\ pc = "undo" /\ pc' = "undo" /\ journal # <<>> /\ Entry = "deny" /\ deny6' = FALSE
      /\ UNCHANGED <<rules, file, runtime, mss, iface, before, using, todo, journal, errors,
                     doubt, outcome, faults>>
  BY DEF UndoDeny6, Undoing, Goto, call
<1>2. In(journal, "deny")
  BY <1>1, FrontIn DEF Entry, Typed, Ordered
<1>3. Typed'
  BY <1>1 DEF Typed
<1>4. Ordered' /\ Fresh'
  BY <1>1 DEF Ordered, Fresh, Mss
<1>5. EarlierKept'
  BY <1>1 DEF EarlierKept, Has, At
<1>6. Layered'
  <2>1. FirewallLayered => FirewallLayered'
    BY <1>1, <1>2 DEF FirewallLayered, WithAllow
  <2> QED
    BY <1>1, <2>1, SysctlSame, MssSame DEF Layered
<1>7. Progress' /\ Outcome'
  BY <1>1, Running DEF Progress, Fresh, Chains
<1> QED
  BY <1>3, <1>4, <1>5, <1>6, <1>7

LEMMA UndoRuleKeeps == Inv /\ UndoRule => Inv'
<1> SUFFICES ASSUME Inv, UndoRule
             PROVE  Inv'
  OBVIOUS
<1>1. /\ pc = "undo" /\ journal # <<>> /\ Popped /\ Goto("undo")
      /\ UNCHANGED <<iface, before, using, todo, errors, doubt, faults>>
  BY DEF UndoRule, Undoing
<1>2. /\ Ordered' /\ Fresh' /\ Progress' /\ Outcome'
      /\ journal' \in Seq(EntryKind)
      /\ pc' = "undo" /\ outcome' = "none"
      /\ In(journal, Entry)
      /\ \A x : In(journal', x) <=> In(journal, x) /\ x # Entry
      /\ Entry = "allow" => \A x : ~In(journal', x)
  BY <1>1, EntryUndone
<1> USE DEF Inv
<1>3. PICK r \in {"allow", "deny"} : Entry = r /\ DeleteRule(r) /\ (r = "deny" => ~deny6)
  BY DEF UndoRule, Undoing
<1>4. /\ Legible /\ Has(r) /\ UNCHANGED <<deny6, file, runtime, mss>>
      /\ rules' = RemoveAt(rules, CHOOSE i \in At(r) : TRUE)
  BY <1>3 DEF DeleteRule
<1>5. rules' \in Seq(Rule) /\ \A x : x # r /\ Has(x) => Has(x)'
  BY <1>4, Deletion
<1>6. Typed'
  BY <1>1, <1>2, <1>4, <1>5 DEF Typed
<1>7. EarlierKept'
  <2>1. ~In(before.rules, r)
    BY <1>1, <1>2, <1>3 DEF Fresh
  <2> QED
    BY <1>1, <1>4, <1>5, <2>1 DEF EarlierKept
<1>8. Layered'
  <2> SUFFICES ASSUME ~errors
               PROVE  SysctlLayered' /\ (~doubt => FirewallLayered' /\ MssLayered')
    BY <1>1 DEF Layered
  <2>1. \A x : x # r => (In(journal', x) <=> In(journal, x))
    BY <1>2, <1>3
  <2>2. SysctlLayered'
    BY <1>1, <1>4, <2>1, SysctlSame DEF Layered
  <2> SUFFICES ASSUME ~doubt
               PROVE  FirewallLayered'
    BY <1>1, <1>4, <2>1, <2>2, MssSame DEF Layered, Chains
  <2>3. FirewallLayered
    BY <1>1 DEF Layered
  <2>4. CASE r = "deny"
    <3>1. In(journal, "deny") /\ ~In(journal', "deny") /\ (In(journal', "allow") <=> In(journal, "allow"))
      BY <1>2, <1>3, <2>4
    <3>2. rules = InsertAt(WithAllow, 2, "deny") /\ WithAllow' = WithAllow
      BY <1>1, <2>3, <3>1 DEF FirewallLayered, WithAllow
    <3>3. WithAllow \in Seq(Rule) /\ WithAllow # <<>> /\ "deny" \in Rule
      BY <1>1, <3>1, AllowLayer DEF Rule
    <3>4. In(WithAllow, "allow")
      BY <1>1, <3>1, AllowLayer DEF Fresh
    <3>5. Has("allow")
      BY <3>2, <3>3, <3>4, InsertedIn, HasIn
    <3>6. At("deny") \subseteq {2} /\ At("deny") # {}
      BY <1>4, <2>4, <3>5 DEF Legible, Has
    <3>7. (CHOOSE i \in At("deny") : TRUE) = 2
      BY <3>6
    <3>8. rules' = RemoveAt(rules, 2)
      BY <1>4, <2>4, <3>7
    <3>9. rules' = WithAllow
      BY <3>2, <3>3, <3>8, InsertedRemoved
    <3>10. deny6' = before.deny6
      <4>1. ~before.deny6 /\ before.deny6 \in BOOLEAN
        BY <1>1, <3>1 DEF Fresh, Typed
      <4>2. ~deny6' /\ deny6' \in BOOLEAN
        BY <1>3, <1>4, <1>6, <2>4 DEF Typed
      <4> QED
        BY <4>1, <4>2
    <3> QED
      BY <1>1, <3>1, <3>2, <3>9, <3>10 DEF FirewallLayered
  <2>5. CASE r = "allow"
    <3>1. \A x : ~In(journal', x)
      BY <1>2, <1>3, <2>5
    <3>2. In(journal, "allow") /\ ~In(journal, "deny")
      BY <1>2, <1>3, <2>5, <3>1
    <3>3. rules = <<"allow">> \o before.rules /\ deny6 = before.deny6
      BY <2>3, <3>2 DEF FirewallLayered, WithAllow
    <3>4. At("allow") \subseteq {1} /\ At("allow") # {}
      BY <1>4, <2>5 DEF Legible, Has
    <3>5. (CHOOSE i \in At("allow") : TRUE) = 1
      BY <3>4
    <3>6. rules' = RemoveAt(rules, 1)
      BY <1>4, <2>5, <3>5
    <3>7. before.rules \in Seq(Rule) /\ "allow" \in Rule
      BY DEF Typed, Rule
    <3>8. rules' = before.rules
      BY <3>3, <3>6, <3>7, PrependedRemoved
    <3> QED
      BY <1>1, <1>4, <3>1, <3>3, <3>8 DEF FirewallLayered, WithAllow
  <2> QED
    BY <2>4, <2>5
<1> QED
  BY <1>2, <1>6, <1>7, <1>8

LEMMA UndoRefusedKeeps == Inv /\ UndoRefused => Inv'
<1> SUFFICES ASSUME Inv, UndoRefused
             PROVE  Inv'
  OBVIOUS
<1>1. /\ pc = "undo" /\ journal # <<>> /\ Popped /\ Goto("undo") /\ errors' = TRUE
      /\ UNCHANGED <<host, iface, before, using, todo, doubt, faults>>
  BY DEF UndoRefused, Undoing
<1>2. /\ Ordered' /\ Fresh' /\ Progress' /\ Outcome'
      /\ journal' \in Seq(EntryKind) /\ pc' = "undo"
  BY <1>1, EntryUndone
<1>3. Typed'
  BY <1>1, <1>2 DEF Inv, Typed, host
<1>4. EarlierKept'
  BY <1>1, EarlierSame DEF Inv
<1> QED
  BY <1>1, <1>2, <1>3, <1>4 DEF Inv, Layered

LEMMA UndoSysctlKeeps == Inv /\ UndoSysctl => Inv'
<1> SUFFICES ASSUME Inv, UndoSysctl
             PROVE  Inv'
  OBVIOUS
<1>1. /\ pc = "undo" /\ journal # <<>> /\ Popped /\ Goto("undo") /\ Entry = "sysctl"
      /\ file' = before.file /\ runtime' = before.runtime
      /\ UNCHANGED <<rules, deny6, mss, iface, before, using, todo, errors, doubt, faults>>
  BY DEF UndoSysctl, Undoing, firewall
<1>2. /\ Ordered' /\ Fresh' /\ Progress' /\ Outcome'
      /\ journal' \in Seq(EntryKind) /\ pc' = "undo"
      /\ \A x : In(journal', x) <=> In(journal, x) /\ x # Entry
  BY <1>1, EntryUndone
<1> USE DEF Inv
<1>3. Typed'
  BY <1>1, <1>2 DEF Typed
<1>4. EarlierKept'
  BY <1>1 DEF EarlierKept, Has, At
<1>5. Layered'
  <2>1. \A x : x # "sysctl" => (In(journal', x) <=> In(journal, x))
    BY <1>1, <1>2
  <2>2. FirewallLayered => FirewallLayered'
    BY <1>1, <2>1, FirewallSame
  <2>3. MssLayered => MssLayered'
    BY <1>1, <2>1, MssSame DEF Chains
  <2>4. SysctlLayered'
    BY <1>1 DEF SysctlLayered
  <2> QED
    BY <1>1, <2>2, <2>3, <2>4 DEF Layered
<1> QED
  BY <1>2, <1>3, <1>4, <1>5

LEMMA UndoMssKeeps == Inv /\ UndoMss => Inv'
<1> SUFFICES ASSUME Inv, UndoMss
             PROVE  Inv'
  OBVIOUS
<1>1. /\ pc = "undo" /\ journal # <<>> /\ Popped /\ Goto("undo")
      /\ UNCHANGED <<rules, deny6, file, runtime, iface, before, using, todo, errors, doubt, faults>>
  BY DEF UndoMss, Undoing, firewall
<1>2. PICK chain \in Chains : Entry = chain /\ mss' = mss \ {Mss(chain, using)}
  BY DEF UndoMss, Undoing
<1>3. /\ Ordered' /\ Fresh' /\ Progress' /\ Outcome'
      /\ journal' \in Seq(EntryKind) /\ pc' = "undo"
      /\ In(journal, Entry)
      /\ \A x : In(journal', x) <=> In(journal, x) /\ x # Entry
  BY <1>1, EntryUndone
<1> USE DEF Inv
<1>4. Typed'
  BY <1>1, <1>2, <1>3 DEF Typed
<1>5. Mss(chain, using) \notin before.mss
  BY <1>1, <1>2, <1>3 DEF Fresh
<1>6. EarlierKept'
  BY <1>1, <1>2, <1>5 DEF EarlierKept, Has, At
<1>7. Layered'
  <2>1. \A e \in {"allow", "deny", "sysctl"} : In(journal', e) <=> In(journal, e)
    BY <1>2, <1>3 DEF Chains
  <2>2. FirewallLayered => FirewallLayered'
    BY <1>1, <2>1, FirewallSame
  <2>3. SysctlLayered => SysctlLayered'
    BY <1>1, <2>1, SysctlSame
  <2>4. ASSUME MssLayered
        PROVE  MssLayered'
    <3>1. {c \in Chains : In(journal', c)} = {c \in Chains : In(journal, c)} \ {chain}
      BY <1>2, <1>3
    <3>2. \A c \in Chains : Mss(c, using) = Mss(chain, using) => c = chain
      BY DEF Mss
    <3>3. mss = before.mss \cup {Mss(c, using) : c \in {d \in Chains : In(journal, d)}}
      BY <2>4 DEF MssLayered
    <3>4. mss' = before.mss \cup {Mss(c, using) : c \in {d \in Chains : In(journal', d)}}
      BY <1>2, <1>5, <3>1, <3>2, <3>3
    <3> QED
      BY <1>1, <3>4 DEF MssLayered, Mss
  <2> QED
    BY <1>1, <2>2, <2>3, <2>4 DEF Layered
<1> QED
  BY <1>3, <1>4, <1>6, <1>7

LEMMA UndoFailsKeeps == Inv /\ UndoFails => Inv'
<1> SUFFICES ASSUME Inv, UndoFails
             PROVE  Inv'
  OBVIOUS
<1>1. /\ pc = "undo" /\ journal # <<>> /\ Popped /\ Goto("undo") /\ errors' = TRUE
      /\ faults < MaxFaults /\ faults' = faults + 1
      /\ UNCHANGED <<iface, before, using, todo, doubt>>
  BY DEF UndoFails, Charge
<1>2. /\ Ordered' /\ Fresh' /\ Progress' /\ Outcome'
      /\ journal' \in Seq(EntryKind) /\ pc' = "undo"
      /\ In(journal, Entry)
  BY <1>1, EntryUndone
<1> USE DEF Inv
<1>3. faults' \in 0..MaxFaults
  BY <1>1, ExitNetworkAssumption DEF Typed
<1>4. SUFFICES /\ rules' \in Seq(Rule) /\ deny6' \in BOOLEAN /\ file' \in File
               /\ runtime' \subseteq Keys /\ mss' \subseteq MssRule
               /\ EarlierKept'
  BY <1>1, <1>2, <1>3 DEF Typed, Layered
<1>5. CASE UNCHANGED host
  BY <1>1, <1>5, EarlierSame DEF Typed, host
<1>6. CASE /\ Entry = "deny" /\ Has("deny")
           /\ rules' = RemoveAt(rules, CHOOSE i \in At("deny") : TRUE)
           /\ UNCHANGED <<deny6, file, runtime, mss>>
  <2>1. rules' \in Seq(Rule) /\ \A x : x # "deny" /\ Has(x) => Has(x)'
    BY <1>6, Deletion
  <2>2. ~In(before.rules, "deny")
    BY <1>1, <1>2, <1>6 DEF Fresh
  <2>3. EarlierKept'
    BY <1>1, <1>6, <2>1, <2>2 DEF EarlierKept
  <2> QED
    BY <1>6, <2>1, <2>3 DEF Typed
<1>7. CASE /\ file' \in {file, before.file}
           /\ \E kept \in SUBSET Keys : runtime' = (runtime \cap kept) \cup (before.runtime \ kept)
           /\ UNCHANGED <<firewall, mss>>
  <2>0. UNCHANGED <<rules, deny6, mss>>
    BY <1>7 DEF firewall
  <2>1. PICK kept \in SUBSET Keys : runtime' = (runtime \cap kept) \cup (before.runtime \ kept)
    BY <1>7
  <2>2. before.runtime \subseteq runtime /\ before.runtime \subseteq Keys
    BY <1>1 DEF EarlierKept, Typed
  <2>3. before.runtime \subseteq runtime' /\ runtime' \subseteq Keys
    BY <2>1, <2>2 DEF Typed
  <2>4. EarlierKept'
    BY <1>1, <1>7, <2>0, <2>3 DEF EarlierKept, Has, At
  <2> QED
    BY <1>7, <2>0, <2>3, <2>4 DEF Typed
<1> QED
  BY <1>5, <1>6, <1>7 DEF UndoFails

\* A call without anything left to undo leaves what it has found.
LEMMA UndoneKeeps == Inv /\ Undone => Inv'
<1> SUFFICES ASSUME Inv, Undone
             PROVE  Inv'
  OBVIOUS
<1> USE DEF Inv
<1>1. /\ pc = "undo" /\ pc' = "off" /\ journal = <<>>
      /\ outcome' = IF errors THEN "incomplete" ELSE "failed"
      /\ UNCHANGED <<rules, deny6, file, runtime, mss, iface, before, using, todo, journal, errors,
                     doubt, faults>>
  BY DEF Undone, End, host, call
<1>2. \A x : ~In(journal, x)
  BY <1>1 DEF In
<1>3. Typed'
  BY <1>1 DEF Typed
<1>4. Ordered'
  BY <1>1 DEF Ordered, Sorted
<1>5. ASSUME ~errors, ~doubt
      PROVE  Now = before
  <2>1. SysctlLayered /\ FirewallLayered /\ MssLayered
    BY <1>1, <1>5 DEF Layered
  <2>2. /\ rules = before.rules /\ deny6 = before.deny6
        /\ file = before.file /\ runtime = before.runtime /\ mss = before.mss
    BY <1>2, <2>1 DEF SysctlLayered, FirewallLayered, MssLayered, WithAllow
  <2> QED
    BY <2>2 DEF Typed, Now
<1>6. Outcome'
  <2>1. Now' = Now /\ before' = before
    BY <1>1 DEF Now
  <2> QED
    BY <1>1, <1>5, <2>1 DEF Outcome, RolledBack
<1> QED
  BY <1>1, <1>3, <1>4, <1>6 DEF Fresh, EarlierKept, Layered, Progress, Chains

\* A kill or a reboot ends the call where it is.
LEMMA CutShort ==
  ASSUME Inv, End("killed"), UNCHANGED call, Typed'
  PROVE  Inv'
<1>1. pc' = "off" /\ outcome' = "killed" /\ journal' = journal
  BY DEF End, call
<1>2. Ordered'
  <2>1. pc \in Label /\ pc' \in Label /\ Reached["off"] = 6
    BY <1>1 DEF Inv, Typed, Label, Reached
  <2>2. Reached[pc] <= Reached[pc']
    BY <1>1, <2>1, Ranks
  <2> QED
    BY <1>1, <2>1, <2>2, SameJournal DEF Inv
<1> QED
  BY <1>1, <1>2
     DEF Inv, Fresh, EarlierKept, Layered, Progress, Outcome, RolledBack, Chains

LEMMA KilledKeeps == Inv /\ Killed => Inv'
<1> SUFFICES ASSUME Inv, Killed
             PROVE  Inv'
  OBVIOUS
<1>1. Typed'
  BY ExitNetworkAssumption DEF Killed, Charge, End, Inv, Typed, host, call
<1> QED
  BY <1>1, CutShort DEF Killed

LEMMA RebootKeeps == Inv /\ Reboot => Inv'
<1> SUFFICES ASSUME Inv, Reboot
             PROVE  Inv'
  OBVIOUS
<1>1. Typed'
  BY ExitNetworkAssumption DEF Reboot, Charge, End, Inv, Typed, firewall, call
<1> QED
  BY <1>1, CutShort DEF Reboot

LEMMA IfaceChangesKeeps == Inv /\ IfaceChanges => Inv'
<1> SUFFICES ASSUME Inv, IfaceChanges
             PROVE  Inv'
  OBVIOUS
<1> USE DEF Inv
<1>1. /\ faults < MaxFaults /\ faults' = faults + 1 /\ iface' \in Ifaces
      /\ UNCHANGED <<rules, deny6, file, runtime, mss, pc, before, using, todo, journal, errors,
                     doubt, outcome>>
  BY DEF IfaceChanges, Charge, host, call
<1>2. Typed'
  BY <1>1, ExitNetworkAssumption DEF Typed
<1>3. Ordered' /\ Fresh' /\ Progress'
  BY <1>1 DEF Ordered, Fresh, Mss, Progress, Paired
<1>4. EarlierKept'
  BY <1>1 DEF EarlierKept, Has, At
<1>5. Layered'
  BY <1>1, FirewallSame, SysctlSame, MssSame DEF Layered
<1>6. Outcome'
  BY <1>1 DEF Outcome, RolledBack, Paired, Mss, Now
<1> QED
  BY <1>2, <1>3, <1>4, <1>5, <1>6

LEMMA InvNext == Inv /\ [Next]_vars => Inv'
<1> SUFFICES ASSUME Inv, [Next]_vars
             PROVE  Inv'
  OBVIOUS
<1>1. CASE UNCHANGED vars
  BY <1>1
     DEF vars, host, call, Inv, Typed, Ordered, Fresh, EarlierKept, Has, At, Layered,
         SysctlLayered, FirewallLayered, WithAllow, MssLayered, Mss, Progress, Paired,
         Outcome, RolledBack, Now
<1>2. CASE Step
  BY <1>2, AddAllowKeeps, AddDenyKeeps, WriteFileKeeps, SetKeyKeeps, ReadBackKeeps, AddMssKeeps,
     VerifyKeeps, UndoDeny6Keeps, UndoRuleKeeps, UndoRefusedKeeps, UndoSysctlKeeps, UndoMssKeeps,
     UndoneKeeps DEF Step
<1> QED
  BY <1>1, <1>2, BeginKeeps, StepFailsKeeps, UndoFailsKeeps, KilledKeeps, RebootKeeps,
     IfaceChangesKeeps DEF Next

LEMMA Invariance == Spec => []Inv
BY InvInit, InvNext, PTL DEF Spec

-------------------------------------------------------------------------------
\* Theorems.

\* The variables have their types, and the journal of a call (rollback_actions of
\* apply_exit_network) has one entry of a kind at most, and none for what the call
\* has found.
THEOREM TypeCorrect == Spec => []TypeOK
<1>1. ASSUME Inv
      PROVE  TypeOK
  <2> USE <1>1 DEF Inv
  <2>1. \A i \in DOMAIN rules : rules[i] \in {"allow", "deny", "open", "other"}
    BY DEF Typed, Rule
  <2>2. IsInjective(journal)
    <3> SUFFICES ASSUME NEW a \in DOMAIN journal, NEW b \in DOMAIN journal,
                        journal[a] = journal[b]
                 PROVE  a = b
      BY DEF IsInjective
    <3>1. a \in 1..Len(journal) /\ b \in 1..Len(journal) /\ Rank[journal[a]] \in 1..5
      BY Ranks DEF Typed
    <3>2. ~(a < b) /\ ~(b < a)
      BY <3>1 DEF Ordered, Sorted
    <3> QED
      BY <3>1, <3>2
  <2> QED
    BY <2>1, <2>2 DEF Typed, Fresh, TypeOK, File, MssRule
<1> QED
  BY <1>1, Invariance, PTL

\* What a call has found of the profile (existing_allow, existing_deny, the sysctl
\* snapshot, existing_mss) is there as long as the call runs, whatever fails.
THEOREM EarlierIsKept == Spec => []EarlierKept
<1>1. Inv => EarlierKept
  BY DEF Inv
<1> QED
  BY <1>1, Invariance, PTL

\* A call whose rollback has completed leaves the host as it was.
THEOREM RollbackIsExact == Spec => []RolledBack
<1>1. Inv => RolledBack
  BY DEF Inv, Outcome
<1> QED
  BY <1>1, Invariance, PTL

\* After a successful call the firewall admits the frontend alone, and sysctl and
\* TCPMSS are in force.
THEOREM ProfileIsWhole == Spec => []AppliedIsWhole
<1>1. ASSUME Inv, outcome = "applied"
      PROVE  Admitted("front") /\ ~Admitted("others")
  <2>1. Len(rules) \in Nat /\ DOMAIN rules = 1..Len(rules) /\ 1 \in DOMAIN rules /\ 2 \in DOMAIN rules
    BY <1>1 DEF Inv, Outcome, Typed, Paired
  <2>2. rules[1] = "allow" /\ rules[2] = "deny"
    BY <1>1 DEF Inv, Outcome, Paired
  <2>3. Matches("allow") = {"front"} /\ Matches("deny") = {"front", "others"}
    BY DEF Matches
  <2>4. Admitted("front")
    <3>1. "front" \in Matches(rules[1]) /\ rules[1] # "deny" /\ 1..(1 - 1) = {}
      BY <2>2, <2>3
    <3> QED
      BY <2>1, <3>1 DEF Admitted
  <2>5. ASSUME Admitted("others")
        PROVE  FALSE
    <3>1. PICK i \in DOMAIN rules :
            /\ "others" \in Matches(rules[i])
            /\ rules[i] # "deny"
            /\ \A j \in 1..(i - 1) : "others" \notin Matches(rules[j])
      BY <2>5 DEF Admitted
    <3>2. i # 1
      BY <2>2, <2>3, <3>1
    <3>3. i # 2
      BY <2>2, <3>1
    <3>4. 2 \in 1..(i - 1)
      BY <2>1, <3>2, <3>3
    <3> QED
      BY <2>2, <2>3, <3>1, <3>4
  <2> QED
    BY <2>4, <2>5
<1>2. Inv => AppliedIsWhole
  BY <1>1 DEF Inv, Outcome, AppliedIsWhole
<1> QED
  BY <1>2, Invariance, PTL

\* The rollback takes the allow rule away only when the deny rule that the same call
\* has inserted behind it is gone, unless a command has failed before.
THEOREM FrontIsNeverDenied == Spec => FrontNeverDenied
<1> DEFINE Kept == Has("allow") /\ Has("deny") /\ ~In(before.rules, "deny") =>
                     In(rules', "allow") \/ ~In(rules', "deny") \/ errors \/ doubt
<1>1. ASSUME rules' = rules
      PROVE  Kept
  BY <1>1, HasIn
<1>2. ASSUME Inv, rules' = <<"allow">> \o rules
      PROVE  Kept
  <2>1. rules \in Seq(Rule) /\ "allow" \in Rule
    BY <1>2 DEF Inv, Typed, Rule
  <2> QED
    BY <1>2, <2>1, PrependedIn
<1>3. ASSUME Inv, rules' = InsertAt(rules, 2, "deny")
      PROVE  Kept
  <2>1. ASSUME Has("allow")
        PROVE  In(rules', "allow")
    <3>1. rules \in Seq(Rule) /\ "deny" \in Rule /\ rules # <<>>
      BY <1>3, <2>1 DEF Inv, Typed, Rule, Has, At
    <3> QED
      BY <1>3, <2>1, <3>1, InsertedIn, HasIn
  <2> QED
    BY <2>1
<1>4. ASSUME Inv, Has("deny"), rules' = RemoveAt(rules, CHOOSE i \in At("deny") : TRUE)
      PROVE  Kept
  <2>1. Has("allow") => Has("allow")'
    BY <1>4, Deletion DEF Inv
  <2>2. Has("allow")' => In(rules', "allow")
    BY DEF Has, At, In
  <2> QED
    BY <2>1, <2>2
<1>5. ASSUME Inv, UndoRule
      PROVE  Kept
  <2>1. CASE DeleteRule("deny")
    BY <1>4, <1>5, <2>1 DEF DeleteRule
  <2>2. CASE Undoing("allow")
    <3> SUFFICES ASSUME ~errors, ~doubt
                 PROVE  Has("deny") => In(before.rules, "deny")
      OBVIOUS
    <3>1. pc = "undo" /\ journal # <<>> /\ Entry = "allow"
      BY <2>2 DEF Undoing
    <3>2. In(journal, "allow")
      BY <1>5, <3>1, FrontIn DEF Inv, Typed, Ordered, Entry
    <3>3. ~In(journal, "deny")
      <4> SUFFICES ASSUME In(journal, "deny")
                   PROVE  FALSE
        OBVIOUS
      <4>1. journal \in Seq(EntryKind) /\ Sorted(journal)
        BY <1>5 DEF Inv, Typed, Ordered
      <4>2. In(Front(journal), "deny")
        BY <3>1, <4>1, FrontIn DEF Entry
      <4>3. Rank["deny"] < Rank["allow"]
        BY <3>1, <4>1, <4>2, FrontIn DEF Entry
      <4> QED
        BY <4>3 DEF Rank
    <3>4. rules = WithAllow
      BY <1>5, <3>1, <3>3 DEF Inv, Layered, FirewallLayered
    <3> QED
      BY <1>5, <3>1, <3>4, AllowLayer, HasIn DEF Inv
  <2> QED
    BY <1>5, <2>1, <2>2 DEF UndoRule
<1>6. ASSUME Inv, StepFails
      PROVE  Kept
  <2>1. \/ rules' = rules
        \/ rules' = <<"allow">> \o rules
        \/ rules' = InsertAt(rules, 2, "deny")
    BY <1>6 DEF StepFails, host, firewall, InsertAllow, InsertDeny, AppendMss
  <2> QED
    BY <1>1, <1>2, <1>3, <1>6, <2>1
<1>7. ASSUME Inv, AddAllow \/ AddDeny
      PROVE  Kept
  <2>1. \/ rules' = rules
        \/ rules' = <<"allow">> \o rules
        \/ rules' = InsertAt(rules, 2, "deny")
    BY <1>7 DEF AddAllow, AddDeny, Except, host, InsertAllow, InsertDeny
  <2> QED
    BY <1>1, <1>2, <1>3, <1>7, <2>1
<1>8. ASSUME Inv, UndoFails
      PROVE  Kept
  <2>1. \/ rules' = rules
        \/ Has("deny") /\ rules' = RemoveAt(rules, CHOOSE i \in At("deny") : TRUE)
    BY <1>8 DEF UndoFails, host, firewall
  <2> QED
    BY <1>1, <1>4, <1>8, <2>1
<1>9. ASSUME \/ Begin \/ WriteFile \/ SetKey \/ ReadBack \/ AddMss \/ Verify \/ UndoDeny6
             \/ UndoRefused \/ UndoSysctl \/ UndoMss \/ Undone \/ Killed \/ Reboot \/ IfaceChanges
      PROVE  Kept
  <2>1. rules' = rules
    BY <1>9
       DEF Begin, WriteFile, SetKey, ReadBack, AddMss, Verify, UndoDeny6, UndoRefused, UndoSysctl,
           UndoMss, Undone, Killed, Reboot, IfaceChanges, Except, AppendMss, host, firewall
  <2> QED
    BY <1>1, <2>1
<1>10. Inv /\ [Next]_vars => [Kept]_vars
  <2> SUFFICES ASSUME Inv, Next
               PROVE  Kept
    OBVIOUS
  <2> HIDE DEF Kept
  <2> QED
    BY <1>5, <1>6, <1>7, <1>8, <1>9 DEF Next, Step
<1>11. Spec => [][Kept]_vars
  BY <1>10, Invariance, PTL DEF Spec
<1> QED
  BY <1>11 DEF FrontNeverDenied

===============================================================================
