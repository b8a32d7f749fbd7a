-------------------------- MODULE StackCtrlProofs --------------------------
(***************************************************************************)
(* Theorems about StackCtrl, for every set of ctrls and every depth of       *)
(* calls.                                                                    *)
(***************************************************************************)
EXTENDS StackCtrl, Integers, SequenceTheorems, FiniteSetTheorems, WellFoundedInduction, TLAPS

USE StackAssumption DEF StackAssumption

---------------------------------------------------------------------------
\* What the index helpers return.

\* A set of numbers that is not empty has a least member.
LEMMA LeastGives ==
  ASSUME NEW S \in SUBSET Nat, S # {}
  PROVE  Seqs!Min(S) \in S /\ \A n \in S : Seqs!Min(S) <= n
<1>1. PICK m \in S : \A n \in S : ~(<<n, m>> \in OpToRel(<, Nat))
  BY NatLessThanWellFounded, WFMin
<1>2. \A n \in S : m <= n
  <2> SUFFICES ASSUME NEW n \in S, n < m PROVE FALSE
    OBVIOUS
  <2> QED BY <1>1 DEF OpToRel
<1> QED BY <1>2 DEF Seqs!Min

\* Find gives the first place of a stacked ctrl, and 0 for any other.
LEMMA FindGives ==
  ASSUME TypeOK, NEW c
  PROVE  /\ c \in Stacked => /\ Find(c) \in 1 .. Len(list) /\ list[Find(c)] = c
                             /\ \A k \in 1 .. Find(c) - 1 : list[k] # c
         /\ c \notin Stacked => Find(c) = 0
<1> DEFINE I == {i \in 1 .. Len(list) : list[i] = c}
<1>1. Find(c) = IF I # {} THEN Seqs!Min(I) ELSE 0
  BY DEF Find, Seqs!SelectInSeq
<1>2. DOMAIN list = 1 .. Len(list) /\ Len(list) \in Nat
  BY DEF TypeOK
<1>3. c \in Stacked <=> I # {}
  BY <1>2 DEF Stacked, Seqs!ToSet
<1>4. ASSUME I # {}
      PROVE  Seqs!Min(I) \in I /\ \A k \in 1 .. Seqs!Min(I) - 1 : list[k] # c
  <2>1. I \in SUBSET Nat
    OBVIOUS
  <2>2. Seqs!Min(I) \in I /\ \A n \in I : Seqs!Min(I) <= n
    BY <1>4, <2>1, LeastGives
  <2> DEFINE m == Seqs!Min(I)
  <2>3. m \in I /\ \A n \in I : m <= n
    BY <2>2
  <2> HIDE DEF m
  <2>4. \A k \in 1 .. m - 1 : k \in 1 .. Len(list) /\ ~(m <= k)
    BY <1>2, <2>3
  <2>5. \A k \in 1 .. m - 1 : list[k] # c
    BY <2>3, <2>4
  <2> QED BY <2>3, <2>5 DEF m
<1> QED BY <1>1, <1>3, <1>4

\* The indices Prev and Next go to are places of the stack.
LEMMA IndexGives ==
  ASSUME TypeOK
  PROVE  /\ PrevIndex # 0 => PrevIndex \in 1 .. Len(list)
         /\ NextIndex # 0 => NextIndex \in 1 .. Len(list)
<1>1. Len(list) \in Nat /\ DOMAIN list = 1 .. Len(list)
  BY DEF TypeOK
<1>2. Find(activectrl) = 0 \/ Find(activectrl) \in 1 .. Len(list)
  BY FindGives
<1> QED BY <1>1, <1>2 DEF PrevIndex, NextIndex

\* Once every place of c is out of the stack the other ctrls are there still.
LEMMA Detached ==
  ASSUME TypeOK, NEW c \in Ctrls, Detach(c)
  PROVE  list' \in Seq(Ctrls) /\ Stacked' = Stacked \ {c}
<1> DEFINE kept == {i \in DOMAIN list : list[i] # c}
           n    == Cardinality(kept)
<1>1. DOMAIN list = 1 .. Len(list) /\ Len(list) \in Nat /\ \A i \in DOMAIN list : list[i] \in Ctrls
  BY DEF TypeOK
<1>2. n \in Nat
  <2>1. IsFiniteSet(1 .. Len(list)) /\ kept \subseteq 1 .. Len(list)
    BY <1>1, FS_Interval
  <2>2. IsFiniteSet(kept)
    BY <2>1, FS_Subset
  <2> QED BY <2>2, FS_CardinalityType
<1>3. PICK from \in [1 .. n -> kept] : /\ \A i \in kept : \E k \in 1 .. n : from[k] = i
                                      /\ list' = [k \in 1 .. n |-> list[from[k]]]
  BY DEF Detach
<1> HIDE DEF n
<1>4. \A k \in 1 .. n : from[k] \in kept /\ list'[k] = list[from[k]]
  BY <1>3
<1>5. list' \in Seq(Ctrls) /\ DOMAIN list' = 1 .. n
  BY <1>1, <1>2, <1>3, <1>4
<1>6. \A d \in Stacked' : d \in Stacked /\ d # c
  BY <1>4, <1>5 DEF Stacked, Seqs!ToSet
<1>7. ASSUME NEW d \in Stacked, d # c PROVE d \in Stacked'
  <2>1. PICK i \in kept : d = list[i]
    BY <1>7 DEF Stacked, Seqs!ToSet
  <2>2. PICK k \in 1 .. n : from[k] = i
    BY <1>3, <2>1
  <2> QED BY <1>4, <1>5, <2>1, <2>2 DEF Stacked, Seqs!ToSet
<1> QED BY <1>5, <1>6, <1>7

\* Insert adds a place of c and leaves the others there.
LEMMA Inserted ==
  ASSUME TypeOK, NEW c \in Ctrls, NEW i \in 1 .. Len(list) + 1,
         list' = Seqs!InsertAt(list, i, c)
  PROVE  list' \in Seq(Ctrls) /\ Stacked' = Stacked \cup {c}
<1> DEFINE before == SubSeq(list, 1, i - 1)
           after  == SubSeq(list, i, Len(list))
           rest   == <<c>> \o after
<1>1. Len(list) \in Nat /\ list \in Seq(Ctrls) /\ \A k \in 1 .. Len(list) : list[k] \in Ctrls
  BY DEF TypeOK
<1>2. list' = before \o <<c>> \o after
  BY DEF Seqs!InsertAt
<1>4. /\ before \in Seq(Ctrls) /\ Len(before) = i - 1
      /\ \A k \in 1 .. i - 1 : before[k] = list[k]
  <2>1. i - 1 \in Int /\ \A k \in 1 .. i - 1 : list[k] \in Ctrls
    BY <1>1
  <2>2. /\ before \in Seq(Ctrls)
        /\ Len(before) = IF 1 <= i - 1 THEN (i - 1) - 1 + 1 ELSE 0
        /\ \A k \in 1 .. (i - 1) - 1 + 1 : before[k] = list[1 + k - 1]
    BY <2>1, SubSeqProperties
  <2> QED BY <1>1, <2>2
<1>5. /\ after \in Seq(Ctrls) /\ Len(after) = Len(list) - i + 1
      /\ \A k \in 1 .. Len(list) - i + 1 : after[k] = list[i + k - 1]
  <2>1. i \in Int /\ Len(list) \in Int /\ \A k \in i .. Len(list) : list[k] \in Ctrls
    BY <1>1
  <2>2. /\ after \in Seq(Ctrls)
        /\ Len(after) = IF i <= Len(list) THEN Len(list) - i + 1 ELSE 0
        /\ \A k \in 1 .. Len(list) - i + 1 : after[k] = list[i + k - 1]
    BY <2>1, SubSeqProperties
  <2> QED BY <1>1, <2>2
<1> HIDE DEF before, after
<1>6. <<c>> \in Seq(Ctrls) /\ Len(<<c>>) = 1 /\ <<c>>[1] = c
  OBVIOUS
<1>7. /\ rest \in Seq(Ctrls) /\ Len(rest) = Len(list) - i + 2
      /\ \A k \in 1 .. Len(list) - i + 2 : rest[k] = IF k <= 1 THEN c ELSE after[k - 1]
  <2>1. Len(<<c>>) + Len(after) = Len(list) - i + 2
    BY <1>1, <1>5, <1>6
  <2>2. /\ rest \in Seq(Ctrls) /\ Len(rest) = Len(<<c>>) + Len(after)
        /\ \A k \in 1 .. Len(<<c>>) + Len(after) :
              rest[k] = IF k <= Len(<<c>>) THEN <<c>>[k] ELSE after[k - Len(<<c>>)]
    <3>1. <<c>> \in Seq(Ctrls) /\ after \in Seq(Ctrls)
      BY <1>5, <1>6
    <3> HIDE DEF rest
    <3>2. rest = <<c>> \o after
      BY DEF rest
    <3> QED BY <3>1, <3>2, ConcatProperties, SMTT(20)
  <2>3. \A k \in 1 .. Len(list) - i + 2 : k <= 1 => k = 1
    BY <1>1
  <2> QED BY <1>6, <2>1, <2>2, <2>3
<1>8. list' = before \o rest
  BY <1>2, <1>4, <1>5, <1>6, ConcatAssociative
<1> HIDE DEF rest
<1>9. /\ list' \in Seq(Ctrls) /\ Len(list') = Len(list) + 1
      /\ \A k \in 1 .. Len(list) + 1 : list'[k] = IF k <= i - 1 THEN before[k] ELSE rest[k - (i - 1)]
  <2>1. Len(before) + Len(rest) = Len(list) + 1
    BY <1>1, <1>4, <1>7
  <2>2. /\ before \o rest \in Seq(Ctrls) /\ Len(before \o rest) = Len(before) + Len(rest)
        /\ \A k \in 1 .. Len(before) + Len(rest) :
              (before \o rest)[k] = IF k <= Len(before) THEN before[k] ELSE rest[k - Len(before)]
    <3>1. before \in Seq(Ctrls) /\ rest \in Seq(Ctrls)
      BY <1>4, <1>7
    <3> QED BY <3>1, ConcatProperties, SMTT(20)
  <2> DEFINE t == before \o rest
  <2>3. list' = t
    BY <1>8
  <2>4. /\ t \in Seq(Ctrls) /\ Len(t) = Len(before) + Len(rest)
        /\ \A k \in 1 .. Len(before) + Len(rest) :
              t[k] = IF k <= Len(before) THEN before[k] ELSE rest[k - Len(before)]
    BY <2>2
  <2> HIDE DEF t
  <2> QED BY <1>4, <2>1, <2>3, <2>4
<1>10. ASSUME NEW k \in 1 .. Len(list) + 1
       PROVE  list'[k] = IF k < i THEN list[k] ELSE IF k = i THEN c ELSE list[k - 1]
  <2>1. CASE k < i
    <3>1. k <= i - 1 /\ k \in 1 .. i - 1 BY <1>1, <2>1
    <3> QED BY <1>4, <1>9, <2>1, <3>1
  <2>2. CASE k = i
    <3>1. ~(k <= i - 1) /\ k - (i - 1) = 1 /\ 1 \in 1 .. Len(list) - i + 2 BY <1>1, <2>2
    <3>2. list'[k] = c BY <1>7, <1>9, <3>1
    <3> QED BY <1>1, <2>2, <3>2
  <2>3. CASE ~(k < i) /\ k # i
    <3>1. /\ ~(k <= i - 1) /\ k - (i - 1) \in 1 .. Len(list) - i + 2 /\ ~(k - (i - 1) <= 1)
          /\ k - (i - 1) - 1 \in 1 .. Len(list) - i + 1 /\ i + (k - (i - 1) - 1) - 1 = k - 1
      BY <1>1, <2>3
    <3>2. list'[k] = after[k - (i - 1) - 1] BY <1>7, <1>9, <3>1
    <3>3. after[k - (i - 1) - 1] = list[k - 1] BY <1>5, <3>1
    <3> QED BY <2>3, <3>2, <3>3
  <2> QED BY <2>1, <2>2, <2>3
<1>11. DOMAIN list = 1 .. Len(list) /\ DOMAIN list' = 1 .. Len(list) + 1
  BY <1>1, <1>9
<1>12. ASSUME NEW d \in Stacked' PROVE d \in Stacked \cup {c}
  <2>1. PICK k \in 1 .. Len(list) + 1 : d = list'[k]
    BY <1>11, <1>12 DEF Stacked, Seqs!ToSet
  <2>2. CASE k < i
    <3>1. k \in 1 .. Len(list) /\ d = list[k] BY <1>1, <1>10, <2>1, <2>2
    <3> QED BY <1>11, <3>1 DEF Stacked, Seqs!ToSet
  <2>3. CASE k = i
    BY <1>1, <1>10, <2>1, <2>3
  <2>4. CASE ~(k < i) /\ k # i
    <3>1. k - 1 \in 1 .. Len(list) /\ d = list[k - 1] BY <1>1, <1>10, <2>1, <2>4
    <3> QED BY <1>11, <3>1 DEF Stacked, Seqs!ToSet
  <2> QED BY <2>2, <2>3, <2>4
<1>13. ASSUME NEW d \in Stacked \cup {c} PROVE d \in Stacked'
  <2>1. PICK k \in 1 .. Len(list) + 1 : d = list'[k]
    <3>1. CASE d = c
      <4>1. i \in 1 .. Len(list) + 1 /\ list'[i] = c BY <1>1, <1>10
      <4> QED BY <3>1, <4>1
    <3>2. CASE d # c
      <4>1. PICK l \in 1 .. Len(list) : d = list[l]
        BY <1>11, <1>13, <3>2 DEF Stacked, Seqs!ToSet
      <4>2. CASE l < i
        <5>1. l \in 1 .. Len(list) + 1 /\ list'[l] = list[l] BY <1>1, <1>10, <4>2
        <5> QED BY <4>1, <5>1
      <4>3. CASE ~(l < i)
        <5>1. l + 1 \in 1 .. Len(list) + 1 /\ ~(l + 1 < i) /\ l + 1 # i /\ (l + 1) - 1 = l BY <1>1, <4>3
        <5>2. list'[l + 1] = list[l] BY <1>10, <5>1
        <5> QED BY <4>1, <5>1, <5>2
      <4> QED BY <4>2, <4>3
    <3> QED BY <3>1, <3>2
  <2> QED BY <1>11, <2>1 DEF Stacked, Seqs!ToSet
<1> QED BY <1>9, <1>12, <1>13

---------------------------------------------------------------------------
\* The calls under way.

\* One more place in front of those of s.
LEMMA Pushed ==
  ASSUME TypeOK, NEW s \in Seq(Places), NEW c \in Ctrls,
         NEW at \in {"animate", "action", "remove"}
  PROVE  /\ Place(at, c) \o s \in Seq(Places)
         /\ Len(Place(at, c) \o s) = Len(s) + 1
         /\ (Place(at, c) \o s)[1].at = at /\ (Place(at, c) \o s)[1].ctrl = c
         /\ (Place(at, c) \o s)[1].was = activectrl
         /\ \A k \in 1 .. Len(s) : (Place(at, c) \o s)[k + 1] = s[k]
         /\ Incoming(Place(at, c) \o s) = Incoming(s) \cup (IF at = "animate" THEN {c} ELSE {})
<1> DEFINE pl == [at |-> at, ctrl |-> c, was |-> activectrl]
           t  == <<pl>> \o s
<1>1. pl \in Places /\ pl.at = at /\ pl.ctrl = c /\ pl.was = activectrl
  BY DEF TypeOK, Places
<1>2. Place(at, c) = <<pl>>
  BY DEF Place
<1> HIDE DEF pl
<1>3. <<pl>> \in Seq(Places) /\ Len(<<pl>>) = 1 /\ <<pl>>[1] = pl
  BY <1>1
<1>4. /\ t \in Seq(Places) /\ Len(t) = 1 + Len(s)
      /\ \A k \in 1 .. 1 + Len(s) : t[k] = IF k <= 1 THEN <<pl>>[k] ELSE s[k - 1]
  <2>1. /\ t \in Seq(Places) /\ Len(t) = Len(<<pl>>) + Len(s)
        /\ \A k \in 1 .. Len(<<pl>>) + Len(s) :
              t[k] = IF k <= Len(<<pl>>) THEN <<pl>>[k] ELSE s[k - Len(<<pl>>)]
    BY <1>3, ConcatProperties
  <2> QED BY <1>3, <2>1
<1> HIDE DEF t
<1>5. Len(s) \in Nat /\ DOMAIN s = 1 .. Len(s) /\ DOMAIN t = 1 .. Len(s) + 1
  BY <1>4
<1>6. t[1] = pl
  BY <1>3, <1>4, <1>5
<1>7. \A k \in 1 .. Len(s) : t[k + 1] = s[k]
  <2> TAKE k \in 1 .. Len(s)
  <2>1. k + 1 \in 1 .. 1 + Len(s) /\ ~(k + 1 <= 1) /\ (k + 1) - 1 = k
    BY <1>5
  <2> QED BY <1>4, <2>1
<1>8. ASSUME NEW d PROVE d \in Incoming(t) <=> d \in Incoming(s) \/ (at = "animate" /\ d = c)
  <2>1. ASSUME NEW k \in 1 .. Len(s) + 1, t[k].at = "animate", d = t[k].ctrl
        PROVE  d \in Incoming(s) \/ (at = "animate" /\ d = c)
    <3>1. CASE k = 1
      BY <1>1, <1>6, <2>1, <3>1
    <3>2. CASE k # 1
      <4>1. k - 1 \in 1 .. Len(s) /\ t[k] = s[k - 1] BY <1>5, <1>4, <3>2
      <4> QED BY <1>5, <2>1, <4>1 DEF Incoming
    <3> QED BY <3>1, <3>2
  <2>2. ASSUME NEW k \in 1 .. Len(s), s[k].at = "animate", d = s[k].ctrl PROVE d \in Incoming(t)
    <3>1. k + 1 \in 1 .. Len(s) + 1 /\ t[k + 1] = s[k] BY <1>5, <1>7
    <3> QED BY <1>5, <2>2, <3>1 DEF Incoming
  <2>3. ASSUME at = "animate", d = c PROVE d \in Incoming(t)
    <3>1. 1 \in 1 .. Len(s) + 1 BY <1>5
    <3> QED BY <1>1, <1>5, <1>6, <2>3, <3>1 DEF Incoming
  <2> QED BY <1>5, <2>1, <2>2, <2>3 DEF Incoming
<1>9. Incoming(t) = Incoming(s) \cup (IF at = "animate" THEN {c} ELSE {})
  BY <1>8
<1>10. Place(at, c) \o s = t
  BY <1>2 DEF t
<1> QED BY <1>1, <1>4, <1>5, <1>6, <1>7, <1>9, <1>10

\* The innermost place is left.
LEMMA Popped ==
  ASSUME NEW s \in Seq(Places), s # <<>>
  PROVE  /\ Tail(s) \in Seq(Places) /\ Len(Tail(s)) = Len(s) - 1
         /\ Head(s) = s[1] /\ Head(s) \in Places /\ Len(s) \in Nat \ {0}
         /\ \A k \in 1 .. Len(s) - 1 : Tail(s)[k] = s[k + 1]
         /\ Incoming(Tail(s)) \subseteq Incoming(s)
         /\ Incoming(s) \subseteq Incoming(Tail(s))
                                  \cup (IF Head(s).at = "animate" THEN {Head(s).ctrl} ELSE {})
<1> DEFINE t == Tail(s)
<1>1. /\ t \in Seq(Places) /\ Len(t) = Len(s) - 1
      /\ \A k \in 1 .. Len(t) : t[k] = s[k + 1]
  BY HeadTailProperties
<1>2. Head(s) = s[1] /\ Head(s) \in Places /\ Len(s) \in Nat \ {0} /\ DOMAIN s = 1 .. Len(s)
  BY EmptySeq, HeadTailProperties
<1> HIDE DEF t
<1>3. DOMAIN t = 1 .. Len(s) - 1
  BY <1>1, <1>2
<1>4. Incoming(t) \subseteq Incoming(s)
  <2> SUFFICES ASSUME NEW k \in 1 .. Len(s) - 1, t[k].at = "animate" PROVE t[k].ctrl \in Incoming(s)
    BY <1>3 DEF Incoming
  <2>1. k + 1 \in 1 .. Len(s) /\ t[k] = s[k + 1] BY <1>1, <1>2
  <2> QED BY <1>2, <2>1 DEF Incoming
<1>5. ASSUME NEW k \in 1 .. Len(s), s[k].at = "animate"
      PROVE  s[k].ctrl \in Incoming(t) \cup (IF Head(s).at = "animate" THEN {Head(s).ctrl} ELSE {})
  <2>1. CASE k = 1
    BY <1>2, <1>5, <2>1
  <2>2. CASE k # 1
    <3>1. k - 1 \in 1 .. Len(s) - 1 /\ t[k - 1] = s[k] BY <1>1, <1>2, <2>2
    <3> QED BY <1>3, <1>5, <3>1 DEF Incoming
  <2> QED BY <2>1, <2>2
<1>6. Incoming(s) \subseteq Incoming(t) \cup (IF Head(s).at = "animate" THEN {Head(s).ctrl} ELSE {})
  BY <1>2, <1>5 DEF Incoming
<1> QED BY <1>1, <1>2, <1>4, <1>6 DEF t

\* What Activate does, from wherever it is called: the new innermost place is its
\* own; c is active then, or is being brought in by an animation, and no ctrl is
\* shown that was not but c, nor stays shown that was active.
LEMMA ActivateGives ==
  ASSUME TypeOK, NEW c \in Ctrls, NEW vis \in SUBSET Ctrls, NEW outer \in Seq(Places),
         Activate(c, vis, outer) \/ Switch(c, vis, outer)
  PROVE  /\ activectrl' \in Ctrls \cup {None} /\ shown' \subseteq Ctrls
         /\ calls' \in Seq(Places) /\ Len(calls') = Len(outer) + 1
         /\ calls'[1].at # "remove" /\ calls'[1].ctrl = c
         /\ calls'[1].at = "action" => activectrl' = c
         /\ \A k \in 1 .. Len(outer) : calls'[k + 1] = outer[k]
         /\ \/ activectrl' = c /\ shown' = (vis \ {activectrl}) \cup {c} /\ Incoming(calls') = Incoming(outer)
            \/ activectrl' = activectrl /\ shown' = vis \cup {c} /\ Incoming(calls') = Incoming(outer) \cup {c}
<1>1. CASE Switch(c, vis, outer)
  <2>1. activectrl' = c /\ shown' = (vis \ {activectrl}) \cup {c} /\ calls' = Place("action", c) \o outer
    BY <1>1 DEF Switch
  <2> DEFINE t == Place("action", c) \o outer
  <2>2. /\ t \in Seq(Places) /\ Len(t) = Len(outer) + 1
        /\ t[1].at = "action" /\ t[1].ctrl = c
        /\ \A k \in 1 .. Len(outer) : t[k + 1] = outer[k]
        /\ Incoming(t) = Incoming(outer)
    BY Pushed
  <2> HIDE DEF t
  <2>3. calls' = t
    BY <2>1 DEF t
  <2> QED BY <2>1, <2>2, <2>3
<1>2. CASE Activate(c, vis, outer) /\ ~Switch(c, vis, outer)
  <2>1. activectrl' = activectrl /\ shown' = vis \cup {c} /\ calls' = Place("animate", c) \o outer
    BY <1>2 DEF Activate
  <2>2. activectrl \in Ctrls \cup {None}
    BY DEF TypeOK
  <2> DEFINE t == Place("animate", c) \o outer
  <2>3. /\ t \in Seq(Places) /\ Len(t) = Len(outer) + 1
        /\ t[1].at = "animate" /\ t[1].ctrl = c
        /\ \A k \in 1 .. Len(outer) : t[k + 1] = outer[k]
        /\ Incoming(t) = Incoming(outer) \cup {c}
    BY Pushed
  <2> HIDE DEF t
  <2>4. calls' = t
    BY <2>1 DEF t
  <2> QED BY <2>1, <2>2, <2>3, <2>4
<1> QED BY <1>1, <1>2

\* Activate never shows a third ctrl: the one it goes to is active or coming in.
LEMMA ActivateKeepsOneVisible ==
  ASSUME StackInv, NEW c \in Ctrls, NEW vis \in SUBSET shown, shown \ {c} \subseteq vis,
         NEW outer \in Seq(Places), Incoming(calls) \subseteq Incoming(outer) \cup {c},
         Activate(c, vis, outer) \/ Switch(c, vis, outer),
         Stacked' \subseteq Stacked \cup {c}
  PROVE  OneVisible'
<1>1. TypeOK /\ vis \in SUBSET Ctrls
  BY DEF StackInv, TypeOK
<1>2. \/ activectrl' = c /\ shown' = (vis \ {activectrl}) \cup {c} /\ Incoming(calls') = Incoming(outer)
      \/ activectrl' = activectrl /\ shown' = vis \cup {c} /\ Incoming(calls') = Incoming(outer) \cup {c}
  BY <1>1, ActivateGives
<1>3. /\ shown \cap Stacked \subseteq {activectrl} \cup Incoming(calls)
      /\ activectrl \in Stacked => activectrl \in shown
  BY DEF StackInv, OneVisible
<1>4. shown' \cap Stacked' \subseteq {activectrl'} \cup Incoming(calls')
  BY <1>2, <1>3
<1>5. activectrl' \in Stacked' => activectrl' \in shown'
  BY <1>2, <1>3
<1> QED BY <1>4, <1>5 DEF OneVisible

---------------------------------------------------------------------------
\* The inductive invariant.

LEMMA InitHolds == Init => StackInv
<1> SUFFICES ASSUME Init PROVE StackInv
  OBVIOUS
<1>1. <<>> \in Seq(Ctrls) /\ <<>> \in Seq(Places) /\ DOMAIN <<>> = {} /\ Len(<<>>) = 0
  BY EmptySeq
<1>2. list = <<>> /\ calls = <<>> /\ activectrl = None /\ shown = Ctrls /\ nested = FALSE
      /\ wheel = FALSE /\ animated \in BOOLEAN
  BY DEF Init
<1>3. Stacked = {} /\ Incoming(calls) = {}
  BY <1>1, <1>2 DEF Stacked, Seqs!ToSet, Incoming
<1>4. TypeOK
  BY <1>1, <1>2, <1>3 DEF TypeOK
<1>5. OneVisible /\ QuietInv
  BY <1>1, <1>2, <1>3 DEF OneVisible, QuietInv
<1> QED BY <1>4, <1>5 DEF StackInv

LEMMA InsertStep ==
  ASSUME StackInv, NEW c \in Ctrls, NEW i \in 1 .. Len(list) + 1, Insert(i, c)
  PROVE  StackInv'
<1>1. TypeOK /\ shown \ {c} \in SUBSET Ctrls /\ shown \ {c} \in SUBSET shown /\ calls \in Seq(Places)
  BY DEF StackInv, TypeOK
<1>2. /\ list' = Seqs!InsertAt(list, i, c) /\ nested' = (calls # <<>>)
      /\ Activate(c, shown \ {c}, calls) /\ wheel' = wheel /\ animated' = animated
  BY DEF Insert, Call
<1>3. list' \in Seq(Ctrls) /\ Stacked' = Stacked \cup {c}
  BY <1>1, <1>2, Inserted
<1>4. /\ activectrl' \in Ctrls \cup {None} /\ shown' \subseteq Ctrls
      /\ calls' \in Seq(Places) /\ Len(calls') = Len(calls) + 1 /\ calls'[1].at # "remove"
  BY <1>1, <1>2, ActivateGives
<1>5. TypeOK'
  <2>1. wheel' \in BOOLEAN /\ animated' \in BOOLEAN /\ nested' \in BOOLEAN
    BY <1>1, <1>2 DEF TypeOK
  <2> QED BY <1>3, <1>4, <2>1 DEF TypeOK
<1>6. OneVisible'
  BY <1>1, <1>2, <1>3, ActivateKeepsOneVisible
<1>7. QuietInv'
  <2>1. ~nested' => calls = <<>>
    BY <1>2
  <2>2. ~nested' => Len(calls') = 1
    BY <1>4, <2>1
  <2> QED BY <1>4, <2>2 DEF QuietInv
<1> QED BY <1>5, <1>6, <1>7 DEF StackInv

LEMMA GotoStep ==
  ASSUME StackInv, NEW i \in 1 .. Len(list), Goto(i)
  PROVE  StackInv'
<1> DEFINE c == list[i]
<1>1. TypeOK /\ shown \in SUBSET Ctrls /\ shown \in SUBSET shown /\ calls \in Seq(Places) /\ c \in Ctrls
  BY DEF StackInv, TypeOK
<1>2. /\ list' = list /\ nested' = (calls # <<>>)
      /\ Activate(c, shown, calls) /\ wheel' = wheel /\ animated' = animated
  BY DEF Goto, Call
<1> HIDE DEF c
<1>3. list' \in Seq(Ctrls) /\ Stacked' = Stacked
  BY <1>1, <1>2 DEF TypeOK, Stacked
<1>4. /\ activectrl' \in Ctrls \cup {None} /\ shown' \subseteq Ctrls
      /\ calls' \in Seq(Places) /\ Len(calls') = Len(calls) + 1 /\ calls'[1].at # "remove"
  BY <1>1, <1>2, ActivateGives
<1>5. TypeOK'
  <2>1. wheel' \in BOOLEAN /\ animated' \in BOOLEAN /\ nested' \in BOOLEAN
    BY <1>1, <1>2 DEF TypeOK
  <2> QED BY <1>3, <1>4, <2>1 DEF TypeOK
<1>6. OneVisible'
  BY <1>1, <1>2, <1>3, ActivateKeepsOneVisible
<1>7. QuietInv'
  <2>1. ~nested' => calls = <<>>
    BY <1>2
  <2>2. ~nested' => Len(calls') = 1
    BY <1>4, <2>1
  <2> QED BY <1>4, <2>2 DEF QuietInv
<1> QED BY <1>5, <1>6, <1>7 DEF StackInv

\* Remove goes to a neighbour of the active ctrl; when that is the ctrl it takes
\* out, the neighbour is another one.
LEMMA NeighbourIsOther ==
  ASSUME TypeOK, NEW c \in Stacked, c = activectrl, Len(list) > 1, c \notin FirstTwice
  PROVE  LET to == IF Find(c) > 1 THEN PrevIndex ELSE NextIndex
         IN  to \in 1 .. Len(list) /\ list[to] # c
<1>1. /\ Find(c) \in 1 .. Len(list) /\ list[Find(c)] = c /\ Len(list) \in Nat
      /\ \A k \in 1 .. Find(c) - 1 : list[k] # c
  BY FindGives DEF TypeOK
<1>4. c \in Ctrls
  BY <1>1 DEF TypeOK
<1>2. CASE Find(c) > 1
  <2>1. PrevIndex = Find(c) - 1 /\ Find(c) - 1 \in 1 .. Len(list)
    BY <1>1, <1>2 DEF PrevIndex
  <2> QED BY <1>1, <1>2, <2>1
<1>3. CASE ~(Find(c) > 1)
  <2>1. NextIndex = 2 /\ 2 \in 1 .. Len(list) /\ list[1] = c
    BY <1>1, <1>3 DEF NextIndex
  <2> QED BY <1>3, <1>4, <2>1 DEF FirstTwice
<1> QED BY <1>2, <1>3

LEMMA RemoveStep ==
  ASSUME StackInv, NEW c \in Ctrls, Remove(c)
  PROVE  StackInv'
<1> DEFINE to == IF Find(c) > 1 THEN PrevIndex ELSE NextIndex
<1>1. TypeOK /\ shown \in SUBSET Ctrls /\ shown \in SUBSET shown /\ calls \in Seq(Places)
      /\ c \in Stacked /\ nested' = (calls # <<>>) /\ wheel' = wheel /\ animated' = animated
      /\ Len(calls) \in Nat /\ (calls # <<>> => Len(calls) > 0)
  BY EmptySeq DEF StackInv, TypeOK, Remove, Call
<1>2. wheel' \in BOOLEAN /\ animated' \in BOOLEAN /\ nested' \in BOOLEAN
  BY <1>1 DEF TypeOK
<1>3. CASE to = 0
  <2>1. Detach(c) /\ activectrl' = activectrl /\ shown' = shown /\ calls' = calls
    BY <1>3 DEF Remove
  <2>2. list' \in Seq(Ctrls) /\ Stacked' = Stacked \ {c}
    BY <1>1, <2>1, Detached
  <2>3. TypeOK'
    BY <1>1, <1>2, <2>1, <2>2 DEF TypeOK
  <2>4. OneVisible'
    BY <2>1, <2>2 DEF StackInv, OneVisible
  <2>5. QuietInv'
    <3>1. ~nested' => Len(calls') = 0
      BY <1>1, <2>1, EmptySeq
    <3> QED BY <3>1 DEF QuietInv
  <2> QED BY <2>3, <2>4, <2>5 DEF StackInv
<1>4. CASE to # 0
  <2> DEFINE d == list[to]
             outer == Place("remove", c) \o calls
  <2>1. Activate(d, shown, outer) /\ list' = list
    BY <1>4 DEF Remove
  <2>2. to \in 1 .. Len(list) /\ d \in Ctrls /\ d \in Stacked
    <3>1. to \in 1 .. Len(list)
      BY <1>1, <1>4, IndexGives
    <3> QED BY <1>1, <3>1 DEF TypeOK, Stacked, Seqs!ToSet
  <2>3. /\ outer \in Seq(Places) /\ Len(outer) = Len(calls) + 1 /\ Incoming(outer) = Incoming(calls)
        /\ outer[1].at = "remove" /\ outer[1].ctrl = c /\ outer[1].was = activectrl
    BY <1>1, Pushed
  <2>4. c = activectrl /\ Len(list) > 1 /\ c \notin FirstTwice => d # c
    BY <1>1, NeighbourIsOther
  <2> HIDE DEF d, outer
  <2>5. list' \in Seq(Ctrls) /\ Stacked' = Stacked
    BY <1>1, <2>1 DEF TypeOK, Stacked
  <2>6. /\ activectrl' \in Ctrls \cup {None} /\ shown' \subseteq Ctrls
        /\ calls' \in Seq(Places) /\ Len(calls') = Len(outer) + 1
        /\ calls'[1].at # "remove" /\ calls'[1].ctrl = d
        /\ calls'[1].at = "action" => activectrl' = d
        /\ \A k \in 1 .. Len(outer) : calls'[k + 1] = outer[k]
    BY <1>1, <2>1, <2>2, <2>3, ActivateGives
  <2>7. TypeOK'
    BY <1>2, <2>5, <2>6 DEF TypeOK
  <2>8. OneVisible'
    BY <1>1, <2>1, <2>2, <2>3, <2>5, ActivateKeepsOneVisible
  <2>9. calls'[2] = outer[1]
    BY <1>1, <2>3, <2>6
  <2>10. QuietInv'
    <3> SUFFICES ASSUME ~nested'
                 PROVE  /\ Len(calls') = 2
                        /\ calls'[1].at # "remove" /\ calls'[2].at = "remove"
                        /\ calls'[1].ctrl \in Stacked'
                        /\ calls'[1].at = "action" => activectrl' = calls'[1].ctrl
                        /\ calls'[2].ctrl = calls'[2].was /\ Len(list') > 1 /\ calls'[2].ctrl \notin FirstTwice'
                              => calls'[1].ctrl # calls'[2].ctrl
      BY DEF QuietInv
    <3>1. Len(calls) = 0
      BY <1>1, EmptySeq
    <3> QED BY <2>1, <2>2, <2>3, <2>4, <2>5, <2>6, <2>9, <3>1 DEF FirstTwice
  <2> QED BY <2>7, <2>8, <2>10 DEF StackInv
<1> QED BY <1>3, <1>4

LEMMA ConfigureStep == ASSUME StackInv, Configure PROVE StackInv'
<1>1. TypeOK' /\ OneVisible' /\ QuietInv'
  BY DEF StackInv, Configure, TypeOK, OneVisible, QuietInv, Stacked, Places
<1> QED BY <1>1 DEF StackInv

LEMMA AnimationStep == ASSUME StackInv, AnimationEnds PROVE StackInv'
<1> DEFINE c == Head(calls).ctrl
           outer == Tail(calls)
<1>1. TypeOK /\ shown \in SUBSET Ctrls /\ shown \in SUBSET shown
      /\ calls \in Seq(Places) /\ calls # <<>> /\ Head(calls).at = "animate"
      /\ Switch(c, shown, outer) /\ list' = list /\ wheel' = wheel
      /\ animated' = animated /\ nested' = nested
  BY DEF StackInv, TypeOK, AnimationEnds
<1>2. /\ outer \in Seq(Places) /\ Len(outer) = Len(calls) - 1
      /\ Head(calls) = calls[1] /\ Head(calls) \in Places /\ Len(calls) \in Nat \ {0}
      /\ \A k \in 1 .. Len(calls) - 1 : outer[k] = calls[k + 1]
      /\ Incoming(calls) \subseteq Incoming(outer) \cup {c}
  BY <1>1, Popped
<1>3. c \in Ctrls
  BY <1>2 DEF Places
<1> HIDE DEF outer
<1>4. list' \in Seq(Ctrls) /\ Stacked' = Stacked
  BY <1>1 DEF TypeOK, Stacked
<1>5. /\ activectrl' \in Ctrls \cup {None} /\ shown' \subseteq Ctrls
      /\ calls' \in Seq(Places) /\ Len(calls') = Len(outer) + 1
      /\ calls'[1].at # "remove" /\ calls'[1].ctrl = c
      /\ calls'[1].at = "action" => activectrl' = c
      /\ \A k \in 1 .. Len(outer) : calls'[k + 1] = outer[k]
  BY <1>1, <1>2, <1>3, ActivateGives
<1>6. TypeOK'
  BY <1>1, <1>4, <1>5 DEF TypeOK
<1>7. OneVisible'
  BY <1>1, <1>2, <1>3, <1>4, ActivateKeepsOneVisible
<1>8. Len(calls') = Len(calls) /\ calls'[1].ctrl = calls[1].ctrl
      /\ (Len(calls) = 2 => calls'[2] = calls[2])
  BY <1>2, <1>5
<1>9. QuietInv'
  BY <1>1, <1>2, <1>4, <1>5, <1>8 DEF StackInv, QuietInv, FirstTwice
<1> QED BY <1>6, <1>7, <1>9 DEF StackInv

LEMMA ActionStep == ASSUME StackInv, ActionEnds PROVE StackInv'
<1> DEFINE outer == Tail(calls)
<1>1. TypeOK /\ calls \in Seq(Places) /\ calls # <<>> /\ Head(calls).at = "action"
      /\ activectrl' = activectrl /\ shown' = shown /\ wheel' = wheel
      /\ animated' = animated /\ nested' = nested
  BY DEF StackInv, TypeOK, ActionEnds
<1>2. /\ outer \in Seq(Places) /\ Len(outer) = Len(calls) - 1
      /\ Head(calls) = calls[1] /\ Len(calls) \in Nat \ {0}
      /\ \A k \in 1 .. Len(calls) - 1 : outer[k] = calls[k + 1]
      /\ Incoming(calls) \subseteq Incoming(outer)
  BY <1>1, Popped
<1>3. CASE Len(calls) > 1 /\ calls[2].at = "remove"
  <2> DEFINE c == calls[2].ctrl
  <2>1. Detach(c) /\ calls' = Tail(outer)
    BY <1>3 DEF ActionEnds
  <2>2. c \in Ctrls /\ calls[2] = outer[1]
    <3>1. 2 \in 1 .. Len(calls) /\ 1 \in 1 .. Len(calls) - 1 /\ 1 + 1 = 2
      BY <1>2, <1>3
    <3>2. calls[2] \in Places
      BY <1>1, <3>1, ElementOfSeq
    <3> QED BY <1>2, <3>1, <3>2 DEF Places
  <2> HIDE DEF outer, c
  <2>3. outer # <<>>
    BY <1>2, <1>3, EmptySeq
  <2>4. /\ calls' \in Seq(Places) /\ Len(calls') = Len(outer) - 1
        /\ Incoming(outer) \subseteq Incoming(calls')
    <3>1. /\ Tail(outer) \in Seq(Places) /\ Len(Tail(outer)) = Len(outer) - 1
          /\ Head(outer) = outer[1]
          /\ Incoming(outer) \subseteq Incoming(Tail(outer))
                \cup (IF Head(outer).at = "animate" THEN {Head(outer).ctrl} ELSE {})
      BY <1>2, <2>3, Popped
    <3> QED BY <1>3, <2>1, <2>2, <3>1
  <2>5. list' \in Seq(Ctrls) /\ Stacked' = Stacked \ {c}
    BY <1>1, <2>1, <2>2, Detached
  <2>6. TypeOK'
    BY <1>1, <2>4, <2>5 DEF TypeOK
  <2>7. OneVisible'
    BY <1>1, <1>2, <2>4, <2>5 DEF StackInv, OneVisible
  <2>8. QuietInv'
    <3>1. Len(calls') = Len(calls) - 2
      BY <1>2, <2>4
    <3> QED BY <1>1, <1>2, <3>1 DEF StackInv, QuietInv
  <2> QED BY <2>6, <2>7, <2>8 DEF StackInv
<1>4. CASE ~(Len(calls) > 1 /\ calls[2].at = "remove")
  <2>1. calls' = outer /\ list' = list
    BY <1>4 DEF ActionEnds
  <2> HIDE DEF outer
  <2>2. TypeOK'
    BY <1>1, <1>2, <2>1 DEF TypeOK
  <2>3. OneVisible'
    BY <1>1, <1>2, <2>1 DEF StackInv, OneVisible, Stacked
  <2>4. QuietInv'
    <3>1. ~nested => Len(calls') = 0
      BY <1>2, <1>4, <2>1 DEF StackInv, QuietInv
    <3> QED BY <1>1, <3>1 DEF QuietInv
  <2> QED BY <2>2, <2>3, <2>4 DEF StackInv
<1> QED BY <1>3, <1>4

\* The inductive invariant holds.
THEOREM StackInvariant == Spec => []StackInv
<1>1. ASSUME StackInv, [StackNext]_vars PROVE StackInv'
  <2>1. ASSUME NEW c \in Ctrls, NEW i \in 1 .. Len(list) + 1, Insert(i, c) PROVE StackInv'
    BY <1>1, <2>1, InsertStep
  <2>2. ASSUME NEW i \in 1 .. Len(list), Goto(i) PROVE StackInv'
    BY <1>1, <2>2, GotoStep
  <2>3. CASE Prev \/ Next
    BY <1>1, <2>2, <2>3, IndexGives DEF StackInv, Prev, Next
  <2>4. ASSUME NEW c \in Ctrls, Remove(c) PROVE StackInv'
    BY <1>1, <2>4, RemoveStep
  <2>5. CASE Configure     BY <1>1, <2>5, ConfigureStep
  <2>6. CASE AnimationEnds BY <1>1, <2>6, AnimationStep
  <2>7. CASE ActionEnds    BY <1>1, <2>7, ActionStep
  <2>8. CASE UNCHANGED vars
    BY <1>1, <2>8 DEF vars, StackInv, TypeOK, OneVisible, QuietInv, Stacked, FirstTwice
  <2> QED BY <1>1, <2>1, <2>2, <2>3, <2>4, <2>5, <2>6, <2>7, <2>8 DEF StackNext
<1> QED BY <1>1, InitHolds, PTL DEF Spec

\* Whatever the handlers call, never two visible ctrls but the pair of an
\* animation, and the active one is visible.
THEOREM OneIsVisible == Spec => []OneVisible
<1>1. StackInv => OneVisible
  BY DEF StackInv
<1> QED BY <1>1, StackInvariant, PTL

\* Two places under way and no call from a handler: Remove has gone elsewhere.
LEMMA QuietPair ==
  ASSUME StackInv, ~nested, Len(calls) > 1
  PROVE  /\ Len(calls) = 2 /\ calls[1].ctrl \in Stacked
         /\ calls[1].at = "action" => activectrl = calls[1].ctrl
         /\ calls[2].ctrl = calls[2].was /\ Len(list) > 1 /\ calls[2].ctrl \notin FirstTwice
              => calls[1].ctrl # calls[2].ctrl
<1>1. QuietInv /\ calls \in Seq(Places)
  BY DEF StackInv, TypeOK
<1>2. Len(calls) <= 2 /\ Len(calls) \in Nat
  BY <1>1 DEF QuietInv
<1>3. Len(calls) = 2
  <2>1. \A n \in Nat : n > 1 /\ n <= 2 => n = 2
    OBVIOUS
  <2> QED BY <1>2, <2>1, Zenon
<1> QED BY <1>1, <1>3 DEF QuietInv

\* Remove of the active ctrl leaves another one active when no handler interferes.
THEOREM RemoveMoves == Spec => RemoveOfActiveMoves
<1> DEFINE P == \A c \in Ctrls : /\ ~nested'
                                 /\ c \in Stacked /\ c \notin Seqs!ToSet(list')
                                 /\ Len(list) > 1 /\ c \notin FirstTwice
                                 /\ c = IF calls = <<>> THEN activectrl ELSE calls[Len(calls)].was
                                 => activectrl' \in Seqs!ToSet(list')
<1>1. ASSUME StackInv, [StackNext]_vars PROVE P
  <2> SUFFICES ASSUME NEW c \in Ctrls, ~nested', c \in Stacked, c \notin Stacked',
                      Len(list) > 1, c \notin FirstTwice,
                      c = IF calls = <<>> THEN activectrl ELSE calls[Len(calls)].was
               PROVE  activectrl' \in Stacked'
    BY DEF Stacked
  <2>0. TypeOK /\ Len(calls) \in Nat /\ (Len(calls) = 0 => calls = <<>>) /\ calls \in Seq(Places)
    BY <1>1, EmptySeq DEF StackInv, TypeOK
  <2>1. \A d \in Ctrls, i \in 1 .. Len(list) + 1 : ~Insert(i, d)
    <3> SUFFICES ASSUME NEW d \in Ctrls, NEW i \in 1 .. Len(list) + 1, Insert(i, d) PROVE FALSE
      OBVIOUS
    <3>1. list' = Seqs!InsertAt(list, i, d)
      BY DEF Insert
    <3> QED BY <2>0, <3>1, Inserted
  <2>2. list' # list
    BY DEF Stacked
  <2>3. ASSUME NEW d \in Ctrls, Remove(d) PROVE FALSE
    <3>1. /\ d \in Stacked /\ nested' = (calls # <<>>) /\ Detach(d)
          /\ (IF Find(d) > 1 THEN PrevIndex ELSE NextIndex) = 0
      BY <2>2, <2>3 DEF Remove, Call
    <3>2. Stacked' = Stacked \ {d}
      BY <2>0, <2>3, <3>1, Detached
    <3>3. d = c /\ c = activectrl
      BY <3>1, <3>2
    <3>4. (IF Find(d) > 1 THEN PrevIndex ELSE NextIndex) \in 1 .. Len(list)
      BY <2>0, <3>1, <3>3, NeighbourIsOther
    <3> QED BY <3>1, <3>4
  <2>4. ASSUME ActionEnds PROVE activectrl' \in Stacked'
    <3>1. /\ calls # <<>> /\ Head(calls).at = "action" /\ nested' = nested /\ activectrl' = activectrl
          /\ Len(calls) > 1 /\ calls[2].at = "remove" /\ Detach(calls[2].ctrl)
      BY <2>2, <2>4 DEF ActionEnds
    <3>2. /\ Len(calls) = 2 /\ calls[1].ctrl \in Stacked
          /\ calls[1].at = "action" => activectrl = calls[1].ctrl
          /\ calls[2].ctrl = calls[2].was /\ Len(list) > 1 /\ calls[2].ctrl \notin FirstTwice
              => calls[1].ctrl # calls[2].ctrl
      BY <1>1, <3>1, QuietPair
    <3>3. Head(calls) = calls[1] /\ calls[2] \in Places
      <4>1. Len(calls) = 2
        BY <3>2
      <4> QED BY <2>0, <3>1, <4>1, ElementOfSeq
    <3>4. Stacked' = Stacked \ {calls[2].ctrl}
      BY <2>0, <3>1, <3>3, Detached DEF Places
    <3>5. c = calls[2].ctrl /\ c = calls[2].was
      BY <3>1, <3>2, <3>4
    <3> QED BY <3>1, <3>2, <3>3, <3>4, <3>5
  <2>5. ASSUME NEW i, Goto(i) PROVE FALSE
    BY <2>2, <2>5 DEF Goto
  <2>6. ~Configure /\ ~AnimationEnds /\ ~(UNCHANGED vars)
    BY <2>2 DEF Configure, AnimationEnds, vars
  <2> QED BY <1>1, <2>1, <2>3, <2>4, <2>5, <2>6 DEF StackNext, Prev, Next
<1>2. Spec => [][P]_vars
  BY <1>1, StackInvariant, PTL DEF Spec
<1> QED BY <1>2 DEF RemoveOfActiveMoves
=============================================================================
