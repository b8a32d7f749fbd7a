-------------------------- MODULE PtyProcessProofs --------------------------
(***************************************************************************)
(* Theorems about PtyProcess, for any objects, children and sizes.           *)
(***************************************************************************)
EXTENDS PtyProcess, SequenceTheorems, TLAPS

---------------------------------------------------------------------------
\* Rows of bytes that end with the byte n.

LEMMA EndsAppended ==
  ASSUME NEW s \in Seq(Nat), NEW n \in Nat, NEW k \in Nat, EndsWith(s, n)
  PROVE  LET t == s \o [i \in 1 .. k |-> n + i]
         IN  t \in Seq(Nat) /\ Len(t) = Len(s) + k /\ EndsWith(t, n + k)
<1> DEFINE e == [i \in 1 .. k |-> n + i]
<1>1. e \in Seq(Nat) /\ Len(e) = k /\ \A i \in 1 .. k : e[i] = n + i
  OBVIOUS
<1> HIDE DEF e
<1>2. /\ s \o e \in Seq(Nat) /\ Len(s \o e) = Len(s) + k
      /\ \A i \in 1 .. Len(s) + k : (s \o e)[i] = IF i <= Len(s) THEN s[i] ELSE e[i - Len(s)]
  BY <1>1, ConcatProperties
<1>3. ASSUME NEW i \in 1 .. Len(s) + k PROVE (s \o e)[i] = n + k - (Len(s) + k) + i
  <2>0. i \in Int /\ Len(s) \in Nat /\ 1 <= i /\ i <= Len(s) + k
    BY LenProperties
  <2>1. CASE i <= Len(s)
    <3>1. i \in 1 .. Len(s) /\ (s \o e)[i] = s[i]
      BY <2>0, <2>1, <1>2
    <3> QED BY <3>1, <2>0 DEF EndsWith
  <2>2. CASE ~(i <= Len(s))
    <3>1. i - Len(s) \in 1 .. k /\ (s \o e)[i] = e[i - Len(s)]
      BY <2>0, <2>2, <1>2
    <3> QED BY <3>1, <2>0, <1>1
  <2> QED BY <2>1, <2>2
<1> QED BY <1>2, <1>3 DEF e, EndsWith

LEMMA EndsCut ==
  ASSUME NEW s \in Seq(Nat), NEW t \in Seq(Nat), NEW n \in Nat, NEW j \in 0 .. Len(s),
         EndsWith(s, n), Len(s) <= n
  PROVE  /\ SubSeq(s, j + 1, Len(s)) \in Seq(Nat)
         /\ Len(SubSeq(s, j + 1, Len(s))) = Len(s) - j
         /\ EndsWith(SubSeq(s, j + 1, Len(s)), n)
         /\ t \o SubSeq(s, 1, j) \in Seq(Nat)
         /\ Len(t \o SubSeq(s, 1, j)) = Len(t) + j
         /\ EndsWith(t, n - Len(s)) => EndsWith(t \o SubSeq(s, 1, j), n - Len(s) + j)
<1> DEFINE r == SubSeq(s, j + 1, Len(s))
           h == SubSeq(s, 1, j)
<1>0. Len(s) \in Nat /\ j \in Nat /\ j <= Len(s)
  BY LenProperties
<1>1. r \in Seq(Nat) /\ Len(r) = Len(s) - j /\ \A i \in 1 .. Len(s) - j : r[i] = s[j + i]
  OBVIOUS
<1>2. h \in Seq(Nat) /\ Len(h) = j /\ \A i \in 1 .. j : h[i] = s[i]
  OBVIOUS
<1> HIDE DEF r, h
<1>3. EndsWith(r, n)
  <2> SUFFICES ASSUME NEW i \in 1 .. Len(s) - j PROVE r[i] = n - (Len(s) - j) + i
    BY <1>1 DEF EndsWith
  <2>1. j + i \in 1 .. Len(s)
    BY <1>0
  <2> QED BY <2>1, <1>0, <1>1 DEF EndsWith
<1>4. /\ t \o h \in Seq(Nat) /\ Len(t \o h) = Len(t) + j
      /\ \A i \in 1 .. Len(t) + j : (t \o h)[i] = IF i <= Len(t) THEN t[i] ELSE h[i - Len(t)]
  BY <1>2, ConcatProperties
<1>5. ASSUME EndsWith(t, n - Len(s)), NEW i \in 1 .. Len(t) + j
      PROVE  (t \o h)[i] = n - Len(s) + j - (Len(t) + j) + i
  <2>0. i \in Int /\ Len(t) \in Nat /\ 1 <= i /\ i <= Len(t) + j
    BY <1>0, LenProperties
  <2>1. CASE i <= Len(t)
    <3>1. i \in 1 .. Len(t) /\ (t \o h)[i] = t[i]
      BY <2>0, <2>1, <1>4
    <3> QED BY <3>1, <2>0, <1>0, <1>5 DEF EndsWith
  <2>2. CASE ~(i <= Len(t))
    <3>1. i - Len(t) \in 1 .. j /\ i - Len(t) \in 1 .. Len(s)
      BY <2>0, <2>2, <1>0
    <3>2. (t \o h)[i] = s[i - Len(t)]
      BY <3>1, <2>0, <2>2, <1>2, <1>4
    <3> QED BY <3>1, <3>2, <2>0, <1>0 DEF EndsWith
  <2> QED BY <2>1, <2>2
<1>6. EndsWith(t, n - Len(s)) => EndsWith(t \o h, n - Len(s) + j)
  <2> DEFINE u == t \o h
  <2>1. Len(u) = Len(t) + j
    BY <1>4
  <2>2. ASSUME EndsWith(t, n - Len(s)), NEW i \in 1 .. Len(u)
        PROVE  u[i] = (n - Len(s) + j) - Len(u) + i
    BY <1>5, <2>1, <2>2
  <2> HIDE DEF u
  <2> QED BY <2>2 DEF EndsWith, u
<1> QED BY <1>1, <1>3, <1>4, <1>6 DEF r, h

LEMMA EndsTaken ==
  ASSUME NEW s \in Seq(Nat), NEW n \in Nat, EndsWith(s, n), s # <<>>
  PROVE  /\ Tail(s) \in Seq(Nat) /\ Len(Tail(s)) = Len(s) - 1
         /\ EndsWith(Tail(s), n) /\ Head(s) = n - Len(Tail(s))
<1>1. Tail(s) \in Seq(Nat) /\ Len(Tail(s)) = Len(s) - 1
      /\ \A i \in 1 .. Len(s) - 1 : Tail(s)[i] = s[i + 1]
  OBVIOUS
<1>2. Head(s) = s[1] /\ Len(s) >= 1
  OBVIOUS
<1> QED BY <1>1, <1>2 DEF EndsWith

---------------------------------------------------------------------------
USE PtyAssumption DEF PtyAssumption

LEMMA InitHolds == Init => PtyInv
<1> SUFFICES ASSUME Init PROVE PtyInv
  OBVIOUS
<1> USE DEF Init, NoKid
<1>1. TypeOK         BY DEF TypeOK, Objs, KidStates, Codes
<1>2. PidInv         BY DEF PidInv, Forked, NoPid, Closed
<1>3. ExitInv        BY DEF ExitInv
<1>4. ChildAccounted BY DEF ChildAccounted, Forked
<1>5. OutInv         BY DEF OutInv
<1>6. InInv          BY DEF InInv, EndsWith, Forked
<1> QED BY <1>1, <1>2, <1>3, <1>4, <1>5, <1>6 DEF PtyInv

---------------------------------------------------------------------------
\* What may become of a child in one step, however many objects there are.
Onward(k, l) ==
    /\ l.owner = k.owner
    /\ l.st = "none" <=> k.st = "none"
    /\ l.st \in Alive => k.st \in Alive
    /\ GivenUp(k) => GivenUp(l)
    /\ k.rcv <= k.wrote => l.rcv <= l.wrote
    /\ k.st \notin Alive /\ k.rcv = k.wrote => l.rcv = l.wrote

SameIn(k, l) == l.tin = k.tin /\ l.last = k.last

LEMMA TakenFacts ==
  ASSUME NEW k \in KidStates, NEW x, k.st \in {"dead", "stop"}
  PROVE  LET l == TakenBy(x, k)
         IN  /\ l \in KidStates /\ Onward(k, l) /\ SameIn(k, l)
             /\ l.rcv = k.rcv /\ l.wrote = k.wrote /\ (l.st \in Alive <=> k.st \in Alive)
             /\ k.st = "dead" \/ x = k.owner => GivenUp(l)
BY DEF KidStates, TakenBy, Onward, SameIn, GivenUp, Alive

LEMMA EndedFacts ==
  ASSUME NEW k \in KidStates, k.st = "run"
  PROVE  LET l == Ended(k)
         IN  l \in KidStates /\ Onward(k, l) /\ l.tin = <<>> /\ l.last = 0 /\ l.st = "dead"
<1>1. <<>> \in Seq(Nat)
  BY EmptySeq
<1>2. NoKid \in KidStates /\ NoKid.tin = <<>> /\ NoKid.last = 0
  BY <1>1 DEF KidStates, NoKid
<1>3. LET l == Ended(k)
      IN  /\ l \in KidStates /\ l.tin = <<>> /\ l.last = 0 /\ l.st = "dead"
          /\ l.owner = k.owner /\ l.seen = k.seen /\ l.wrote = k.wrote /\ l.rcv = k.rcv
  BY <1>2 DEF KidStates, Ended
<1> QED BY <1>3 DEF Onward, GivenUp, Alive

LEMMA HungUpFacts ==
  ASSUME NEW k \in KidStates
  PROVE  LET l == HungUpKid(k)
         IN  l \in KidStates /\ Onward(k, l) /\ l.tin = <<>> /\ l.last = 0
<1>0. <<>> \in Seq(Nat)
  BY EmptySeq
<1> DEFINE none == [k EXCEPT !.tin = <<>>, !.last = 0, !.wrote = 0, !.rcv = 0]
<1>1. /\ none \in KidStates /\ none.tin = <<>> /\ none.last = 0 /\ none.wrote = 0 /\ none.rcv = 0
      /\ none.owner = k.owner /\ none.st = k.st /\ none.seen = k.seen
  BY <1>0 DEF KidStates
<1> HIDE DEF none
<1>2. CASE k.st \in Alive
  <2> DEFINE l == [none EXCEPT !.hup = TRUE, !.st = "run", !.report = FALSE]
  <2>1. /\ l \in KidStates /\ l.tin = <<>> /\ l.last = 0 /\ l.wrote = 0 /\ l.rcv = 0
        /\ l.owner = k.owner /\ l.st = "run" /\ l.seen = k.seen
    BY <1>1 DEF KidStates
  <2>2. HungUpKid(k) = l
    BY <1>2 DEF HungUpKid, none
  <2> QED BY <1>2, <2>1, <2>2 DEF Onward, GivenUp, Alive
<1>3. CASE k.st \notin Alive
  <2>1. HungUpKid(k) = none
    BY <1>3 DEF HungUpKid, none
  <2> QED BY <1>1, <1>3, <2>1 DEF Onward, GivenUp, Alive
<1> QED BY <1>2, <1>3

---------------------------------------------------------------------------
\* An object is done with its child, or about to be.
DoneWith(y) == (Idle(y) /\ obj[y].exit # Null) \/ pc[y] \in {"free", "reap"}

\* What a step may do to an object, for the object's part of the invariant.
ObjectKept(y) ==
    /\ \/ obj'[y].pid = obj[y].pid
       \/ obj'[y].pid = NoPid /\ (obj[y].pid = NoPid \/ GivenUp(kid[obj[y].pid]))
    /\ obj'[y].master \in {Closed, obj'[y].pid}
    /\ pc'[y] \in {"hangup", "wait"} => obj'[y].pid # NoPid
    /\ pc'[y] = "reap" => obj'[y].master = Closed
    /\ pc'[y] = "start" => obj'[y].pid = NoPid
    /\ obj'[y].pid # NoPid /\ DoneWith(y)' => DoneWith(y) \/ GivenUp(kid'[obj'[y].pid])
    /\ obj'[y].pid # NoPid /\ pc'[y] # "reap" =>
         /\ pc[y] # "reap"
         /\ \/ obj'[y].master = obj[y].master
            \/ kid'[obj'[y].pid].st \notin Alive /\ kid'[obj'[y].pid].rcv = kid'[obj'[y].pid].wrote

\* A step without a fork keeps everything but the order of the input.
LEMMA StepKept ==
  ASSUME PtyInv, TypeOK',
         \A c \in Kids : Onward(kid[c], kid'[c]), \A y \in Objects : ObjectKept(y)
  PROVE  PidInv' /\ ExitInv' /\ ChildAccounted' /\ OutInv'
<1>1. Forked' = Forked /\ \A c \in Kids : kid'[c].owner = kid[c].owner
  BY DEF Forked, Onward
<1>2. PidInv'
  <2>1. ASSUME NEW c \in Forked' PROVE kid'[c].owner \in Objects
    BY <1>1 DEF PtyInv, PidInv, Forked
  <2>2. ASSUME NEW y \in Objects, obj'[y].pid # NoPid
        PROVE  obj'[y].pid \in Forked' /\ kid'[obj'[y].pid].owner = y
    <3>1. obj'[y].pid = obj[y].pid /\ obj[y].pid \in Forked /\ kid[obj[y].pid].owner = y
      BY <2>2 DEF PtyInv, PidInv, ObjectKept
    <3> QED BY <3>1, <1>1 DEF Forked
  <2> QED BY <2>1, <2>2 DEF PidInv, ObjectKept
<1>3. \A y \in Objects : obj'[y].pid # NoPid =>
         obj'[y].pid = obj[y].pid /\ obj[y].pid \in Kids
  BY DEF PtyInv, PidInv, ObjectKept, Forked
<1>4. ExitInv'
  <2> SUFFICES ASSUME NEW y \in Objects, obj'[y].pid # NoPid, DoneWith(y)'
               PROVE  GivenUp(kid'[obj'[y].pid])
    BY DEF ExitInv, DoneWith, GivenUp, Idle
  <2>1. CASE DoneWith(y)
    <3>1. GivenUp(kid[obj[y].pid])
      BY <2>1, <1>3 DEF PtyInv, ExitInv, DoneWith
    <3> QED BY <3>1, <1>3 DEF Onward
  <2>2. CASE ~DoneWith(y)
    BY <2>2 DEF ObjectKept
  <2> QED BY <2>1, <2>2
<1>5. ChildAccounted'
  <2> SUFFICES ASSUME NEW c \in Forked, kid'[c].st # "reaped", ~kid'[c].seen
               PROVE  obj'[kid[c].owner].pid = c
    BY <1>1 DEF ChildAccounted, Forked
  <2>1. ~GivenUp(kid[c]) /\ c \in Kids /\ kid[c].owner \in Objects
    BY DEF Onward, GivenUp, Forked, PtyInv, PidInv
  <2>2. obj[kid[c].owner].pid = c
    BY <2>1 DEF PtyInv, ChildAccounted, GivenUp
  <2>3. c # NoPid
    BY DEF Forked, NoPid
  <2> QED BY <2>1, <2>2, <2>3 DEF ObjectKept
<1>6. OutInv'
  <2>1. \A c \in Kids : kid'[c].rcv <= kid'[c].wrote
    BY DEF PtyInv, OutInv, Onward
  <2>2. ASSUME NEW y \in Objects, obj'[y].pid # NoPid, pc'[y] # "reap", obj'[y].master # obj'[y].pid
        PROVE  kid'[obj'[y].pid].st \notin Alive /\ kid'[obj'[y].pid].rcv = kid'[obj'[y].pid].wrote
    <3>1. CASE obj'[y].master = obj[y].master
      <4>1. kid[obj[y].pid].st \notin Alive /\ kid[obj[y].pid].rcv = kid[obj[y].pid].wrote
        BY <2>2, <3>1, <1>3 DEF PtyInv, OutInv, ObjectKept
      <4> QED BY <4>1, <1>3, <2>2 DEF Onward
    <3>2. CASE obj'[y].master # obj[y].master
      BY <2>2, <3>2 DEF ObjectKept
    <3> QED BY <3>1, <3>2
  <2> QED BY <2>1, <2>2 DEF OutInv
<1> QED BY <1>2, <1>4, <1>5, <1>6

\* What a step may do to the input of a child, when nothing is written.
InputKept(c) ==
    IF Reachable(c)' THEN Reachable(c) /\ SameIn(kid[c], kid'[c])
    ELSE \/ kid'[c].tin = <<>> /\ kid'[c].last = 0
         \/ ~Reachable(c) /\ SameIn(kid[c], kid'[c])

LEMMA OrderKept ==
  ASSUME PtyInv, TypeOK',
         \A c \in Kids : Onward(kid[c], kid'[c]) /\ InputKept(c),
         \A y \in Objects : obj'[y].wbuf = obj[y].wbuf, UNCHANGED written
  PROVE  InInv'
<1>1. Forked' = Forked /\ Forked \subseteq Kids /\ \A c \in Kids : kid'[c].owner = kid[c].owner
  BY DEF Forked, Onward
<1>2. \A y \in Objects : EndsWith(obj'[y].wbuf, written'[y]) /\ Len(obj'[y].wbuf) <= written'[y]
  BY DEF PtyInv, InInv, InputOf
<1>3. ASSUME NEW c \in Forked
      PROVE  InputOf(c)'
  <2>1. kid[c].owner \in Objects /\ kid'[c].owner = kid[c].owner /\ InputKept(c)
    BY <1>1 DEF PtyInv, PidInv
  <2> QED BY <2>1 DEF PtyInv, InInv, InputOf, InputKept, SameIn
<1> QED BY <1>1, <1>2, <1>3 DEF InInv, EndsWith

---------------------------------------------------------------------------
\* The steps of the children.

LEMMA KidChanged ==
  ASSUME PtyInv, NEW c \in Kids, NEW l \in KidStates, KidStep(c, l), Onward(kid[c], l)
  PROVE  /\ TypeOK' /\ PidInv' /\ ExitInv' /\ ChildAccounted' /\ OutInv'
         /\ kid'[c] = l /\ \A d \in Kids \ {c} : kid'[d] = kid[d]
         /\ \A d \in Kids : Onward(kid[d], kid'[d])
<1>1. kid'[c] = l /\ (\A d \in Kids \ {c} : kid'[d] = kid[d]) /\ UNCHANGED <<obj, pc, written>>
  BY DEF KidStep, PtyInv, TypeOK
<1>2. TypeOK'
  BY DEF KidStep, PtyInv, TypeOK
<1>3. \A d \in Kids : Onward(kid[d], kid'[d])
  BY <1>1 DEF Onward
<1>4. \A y \in Objects : ObjectKept(y)
  BY <1>1 DEF ObjectKept, DoneWith, Idle, PtyInv, PidInv
<1> QED BY <1>1, <1>2, <1>3, <1>4, StepKept

\* A child that writes, ends, is stopped or goes on.
LEMMA KidGoesOn ==
  ASSUME PtyInv, NEW c \in Kids, NEW l \in KidStates, KidStep(c, l), Onward(kid[c], l),
         \/ SameIn(kid[c], l) /\ (l.st \in Alive <=> kid[c].st \in Alive)
         \/ l.tin = <<>> /\ l.last = 0 /\ l.st \notin Alive
  PROVE  PtyInv'
<1>1. UNCHANGED <<obj, written>>
  BY DEF KidStep
<1>2. \A d \in Kids : Reachable(d)' <=> kid'[d].st \in Alive /\ obj[kid'[d].owner].master = d
  BY <1>1 DEF Reachable
<1>3. \A d \in Kids : InputKept(d)
  BY <1>2, KidChanged DEF InputKept, Reachable, SameIn, Onward
<1> QED BY <1>1, <1>3, KidChanged, OrderKept DEF PtyInv

LEMMA KidWritesStep == ASSUME PtyInv, NEW c \in Kids, KidWrites(c) PROVE PtyInv'
<1> DEFINE w == kid[c].wrote + 1
           l == [kid[c] EXCEPT !.wrote = w]
<1>1. kid[c] \in KidStates /\ kid[c].st = "run" /\ kid[c].rcv <= kid[c].wrote
  BY DEF PtyInv, TypeOK, OutInv, KidWrites
<1>2. l \in KidStates /\ Onward(kid[c], l) /\ SameIn(kid[c], l) /\ l.st = "run"
  <2>2. kid[c].rcv \in Nat /\ kid[c].wrote \in Nat /\ w \in Nat /\ w > kid[c].wrote
    BY <1>1 DEF KidStates
  <2> HIDE DEF w
  <2>1. /\ l \in KidStates /\ l.wrote = w /\ l.rcv = kid[c].rcv
        /\ l.st = kid[c].st /\ l.owner = kid[c].owner /\ l.seen = kid[c].seen
        /\ l.tin = kid[c].tin /\ l.last = kid[c].last
    BY <1>1, <2>2 DEF KidStates
  <2> HIDE DEF l
  <2> QED BY <1>1, <2>1, <2>2 DEF Onward, SameIn, GivenUp, Alive
<1>3. KidStep(c, l)
  BY DEF KidWrites
<1> HIDE DEF l
<1> QED BY <1>1, <1>2, <1>3, KidGoesOn DEF Alive

LEMMA KidEndsStep == ASSUME PtyInv, NEW c \in Kids, KidEnds(c) \/ KidHup(c) PROVE PtyInv'
<1>1. kid[c] \in KidStates /\ kid[c].st = "run" /\ KidStep(c, Ended(kid[c]))
  BY DEF PtyInv, TypeOK, KidEnds, KidHup
<1> QED BY <1>1, EndedFacts, KidGoesOn DEF Alive

LEMMA KidStopsStep == ASSUME PtyInv, NEW c \in Kids, KidStops(c) \/ KidContinues(c) PROVE PtyInv'
<1> DEFINE s == [kid[c] EXCEPT !.st = "stop", !.report = TRUE]
           r == [kid[c] EXCEPT !.st = "run", !.report = FALSE]
<1>1. kid[c] \in KidStates
  BY DEF PtyInv, TypeOK
<1>2. CASE KidStops(c)
  <2>1. kid[c].st = "run" /\ KidStep(c, s)
    BY <1>2 DEF KidStops
  <2>2. s \in KidStates /\ Onward(kid[c], s) /\ SameIn(kid[c], s) /\ s.st = "stop"
    BY <1>1, <2>1 DEF KidStates, Onward, SameIn, GivenUp, Alive
  <2> QED BY <2>1, <2>2, KidGoesOn DEF Alive
<1>3. CASE KidContinues(c)
  <2>1. kid[c].st = "stop" /\ KidStep(c, r)
    BY <1>3 DEF KidContinues
  <2>2. r \in KidStates /\ Onward(kid[c], r) /\ SameIn(kid[c], r) /\ r.st = "run"
    BY <1>1, <2>1 DEF KidStates, Onward, SameIn, GivenUp, Alive
  <2> QED BY <2>1, <2>2, KidGoesOn DEF Alive
<1> QED BY <1>2, <1>3

LEMMA KidReadsStep == ASSUME PtyInv, NEW c \in Kids, KidReads(c) PROVE PtyInv'
<1> DEFINE l == [kid[c] EXCEPT !.last = Head(kid[c].tin), !.tin = Tail(@)]
           x == kid[c].owner
           n == written[x] - Len(obj[x].wbuf)
<1>1. kid[c] \in KidStates /\ kid[c].st = "run" /\ kid[c].tin # <<>> /\ c \in Forked
  BY DEF PtyInv, TypeOK, KidReads, Forked
<1>2. x \in Objects /\ Reachable(c) /\ EndsWith(kid[c].tin, n) /\ Len(kid[c].tin) <= TtyRoom
  BY <1>1 DEF PtyInv, PidInv, InInv, InputOf
<1>3. n \in Nat /\ kid[c].tin \in Seq(Nat)
  BY <1>1, <1>2 DEF PtyInv, TypeOK, InInv, Objs, KidStates
<1>4. /\ Tail(kid[c].tin) \in Seq(Nat) /\ Len(Tail(kid[c].tin)) = Len(kid[c].tin) - 1
      /\ EndsWith(Tail(kid[c].tin), n) /\ Head(kid[c].tin) = n - Len(Tail(kid[c].tin))
      /\ Head(kid[c].tin) \in Nat
  BY <1>1, <1>2, <1>3, EndsTaken, HeadTailProperties
<1>5. /\ l \in KidStates /\ Onward(kid[c], l) /\ l.st = "run" /\ l.owner = x
      /\ l.tin = Tail(kid[c].tin) /\ l.last = Head(kid[c].tin)
  BY <1>1, <1>4 DEF KidStates, Onward, GivenUp, Alive
<1>6. KidStep(c, l)
  BY DEF KidReads
<1>7. /\ TypeOK' /\ PidInv' /\ ExitInv' /\ ChildAccounted' /\ OutInv'
      /\ kid'[c] = l /\ \A d \in Kids \ {c} : kid'[d] = kid[d]
  BY <1>5, <1>6, KidChanged
<1>8. UNCHANGED <<obj, written>>
  BY <1>6 DEF KidStep
<1> HIDE DEF l
<1>9. InInv'
  <2>1. ASSUME NEW d \in Forked', d # c
        PROVE  d \in Forked /\ kid'[d] = kid[d] /\ (Reachable(d)' <=> Reachable(d))
    BY <2>1, <1>7, <1>8 DEF Forked, Reachable
  <2>2. Len(Tail(kid[c].tin)) <= TtyRoom
    BY <1>2, <1>3, <1>4, LenProperties
  <2>3. ASSUME NEW d \in Forked', d # c
        PROVE  InputOf(d)'
    BY <2>1, <2>3, <1>8 DEF PtyInv, InInv, InputOf
  <2>4. Reachable(c)'
    BY <1>2, <1>5, <1>7, <1>8 DEF Reachable, Alive
  <2>5. \A y \in Objects : EndsWith(obj'[y].wbuf, written'[y]) /\ Len(obj'[y].wbuf) <= written'[y]
    BY <1>8 DEF PtyInv, InInv, InputOf
  <2>6. EndsWith(kid'[c].tin, n) /\ Len(kid'[c].tin) <= TtyRoom /\ kid'[c].last = n - Len(kid'[c].tin)
        /\ kid'[c].owner = x
    BY <1>4, <1>5, <1>7, <2>2
  <2> QED BY <2>3, <2>4, <2>5, <2>6, <1>8 DEF InInv, InputOf, EndsWith
<1> QED BY <1>7, <1>9 DEF PtyInv

---------------------------------------------------------------------------
\* The calls of an object.

LEMMA ObjectGoesOn ==
  ASSUME PtyInv, NEW x \in Objects, TypeOK', ObjectKept(x),
         \A c \in Kids : Onward(kid[c], kid'[c]) /\ InputKept(c),
         \A y \in Objects \ {x} : obj'[y] = obj[y] /\ pc'[y] = pc[y],
         obj'[x].wbuf = obj[x].wbuf, UNCHANGED written
  PROVE  PtyInv'
<1>1. \A y \in Objects \ {x} : ObjectKept(y)
  BY DEF ObjectKept, DoneWith, Idle, PtyInv, PidInv
<1>2. \A y \in Objects : ObjectKept(y)
  BY <1>1
<1>3. \A y \in Objects : obj'[y].wbuf = obj[y].wbuf
  OBVIOUS
<1> QED BY <1>2, <1>3, StepKept, OrderKept DEF PtyInv

\* The children after a waitpid, or as they were.
Waited(ks) ==
    /\ ks \in [Kids -> KidStates]
    /\ \A c \in Kids : /\ Onward(kid[c], ks[c]) /\ SameIn(kid[c], ks[c])
                       /\ ks[c].rcv = kid[c].rcv /\ ks[c].wrote = kid[c].wrote
                       /\ ks[c].st \in Alive <=> kid[c].st \in Alive

LEMMA NobodyWaited == PtyInv => Waited(kid)
BY DEF PtyInv, TypeOK, Waited, Onward, SameIn

LEMMA WaitedOne ==
  ASSUME PtyInv, NEW x \in Objects, NEW c \in Kids, kid[c].st \in {"dead", "stop"}
  PROVE  /\ Waited([kid EXCEPT ![c] = TakenBy(x, @)])
         /\ kid[c].st = "dead" \/ x = kid[c].owner =>
              GivenUp([kid EXCEPT ![c] = TakenBy(x, @)][c])
<1> DEFINE l == TakenBy(x, kid[c])
           ks == [kid EXCEPT ![c] = l]
<1>1. kid \in [Kids -> KidStates] /\ kid[c] \in KidStates
  BY DEF PtyInv, TypeOK
<1>2. /\ l \in KidStates /\ Onward(kid[c], l) /\ SameIn(kid[c], l)
      /\ l.rcv = kid[c].rcv /\ l.wrote = kid[c].wrote /\ (l.st \in Alive <=> kid[c].st \in Alive)
      /\ kid[c].st = "dead" \/ x = kid[c].owner => GivenUp(l)
  BY <1>1, TakenFacts
<1> HIDE DEF l
<1>3. ks \in [Kids -> KidStates] /\ ks[c] = l /\ \A d \in Kids \ {c} : ks[d] = kid[d]
  BY <1>1, <1>2
<1>4. Waited(ks)
  <2>1. \A d \in Kids \ {c} : /\ Onward(kid[d], ks[d]) /\ SameIn(kid[d], ks[d])
                              /\ ks[d].rcv = kid[d].rcv /\ ks[d].wrote = kid[d].wrote
                              /\ ks[d].st \in Alive <=> kid[d].st \in Alive
    BY <1>3 DEF Onward, SameIn
  <2> HIDE DEF ks
  <2> QED BY <1>2, <1>3, <2>1 DEF Waited
<1> QED BY <1>2, <1>3, <1>4 DEF l

\* IsRunning.
LEMMA PolledFacts ==
  ASSUME PtyInv, NEW x \in Objects
  PROVE  LET o == obj[x]
             q == Polled(o)
             ks == PolledKids(x, o)
         IN  /\ Waited(ks)
             /\ q \in Objs /\ q.pid = o.pid /\ q.master = o.master /\ q.wbuf = o.wbuf
             /\ q.exit = o.exit \/ GivenUp(ks[o.pid])
             /\ o.pid # NoPid /\ ~Running(o) => q.exit # Null
<1> DEFINE o == obj[x]
<1>1. o \in Objs /\ (o.pid # NoPid => o.pid \in Kids /\ kid[o.pid].owner = x)
  BY DEF PtyInv, TypeOK, PidInv, Forked
<1>2. CASE Asks(o) /\ Waitable(o.pid) # {}
  <2>1. o.pid \in Kids /\ kid[o.pid].owner = x
    BY <1>1, <1>2 DEF Asks
  <2>2. PICK c \in Forked : /\ o.pid \in {c, AnyPid}
                            /\ kid[c].st = "dead" \/ (kid[c].st = "stop" /\ kid[c].report)
    BY <1>2 DEF Waitable
  <2>3. o.pid # AnyPid
    BY <2>1 DEF AnyPid
  <2>4. kid[o.pid].st \in {"dead", "stop"}
    BY <2>2, <2>3
  <2>5. StatusOf(kid[o.pid]) \in {"ended", "stopped"}
    BY DEF StatusOf
  <2>6. Polled(o) = [o EXCEPT !.exit = StatusOf(kid[o.pid])]
    BY <1>2 DEF Polled
  <2>7. /\ Polled(o) \in Objs /\ Polled(o).pid = o.pid /\ Polled(o).master = o.master
        /\ Polled(o).wbuf = o.wbuf /\ Polled(o).exit # Null
    BY <1>1, <2>5, <2>6 DEF Objs, Codes, Null
  <2>8. PolledKids(x, o) = [kid EXCEPT ![o.pid] = TakenBy(x, @)]
    BY <1>2 DEF PolledKids
  <2>9. Waited(PolledKids(x, o)) /\ GivenUp(PolledKids(x, o)[o.pid])
    <3>1. /\ Waited([kid EXCEPT ![o.pid] = TakenBy(x, @)])
          /\ GivenUp([kid EXCEPT ![o.pid] = TakenBy(x, @)][o.pid])
      <4>1. o.pid \in Kids /\ kid[o.pid].st \in {"dead", "stop"} /\ x = kid[o.pid].owner
        BY <2>1, <2>4
      <4> HIDE DEF o
      <4> QED BY <4>1, WaitedOne
    <3> QED BY <2>8, <3>1
  <2> QED BY <2>7, <2>9
<1>3. CASE ~(Asks(o) /\ Waitable(o.pid) # {})
  <2>1. Polled(o) = o /\ PolledKids(x, o) = kid
    BY <1>3 DEF Polled, PolledKids
  <2>2. o.pid # NoPid /\ ~Running(o) => o.exit # Null
    BY <1>3 DEF Running, Asks
  <2> QED BY <1>1, <2>1, <2>2, NobodyWaited
<1> QED BY <1>2, <1>3

\* What a wait leaves of the input, when no master is closed.
LEMMA WaitKeepsInput ==
  ASSUME PtyInv, Waited(kid'), \A y \in Objects : obj'[y].master = obj[y].master
  PROVE  \A c \in Kids : Onward(kid[c], kid'[c]) /\ InputKept(c)
<1> SUFFICES ASSUME NEW c \in Kids PROVE Onward(kid[c], kid'[c]) /\ InputKept(c)
  OBVIOUS
<1>1. /\ Onward(kid[c], kid'[c]) /\ SameIn(kid[c], kid'[c])
      /\ kid'[c].st \in Alive <=> kid[c].st \in Alive
  BY DEF Waited
<1>2. CASE kid[c].st \in Alive
  <2>1. kid[c].owner \in Objects
    BY <1>2 DEF PtyInv, PidInv, Forked, Alive
  <2> QED BY <1>1, <2>1 DEF InputKept, Reachable, Onward
<1>3. CASE kid[c].st \notin Alive
  BY <1>1, <1>3 DEF InputKept, Reachable
<1> QED BY <1>2, <1>3

LEMMA PollStep == ASSUME PtyInv, NEW x \in Objects, Poll(x) PROVE PtyInv'
<1> DEFINE q == Polled(obj[x])
           ks == PolledKids(x, obj[x])
<1>1. /\ Waited(ks) /\ q \in Objs /\ q.pid = obj[x].pid /\ q.master = obj[x].master
      /\ q.wbuf = obj[x].wbuf
      /\ q.exit = obj[x].exit \/ GivenUp(ks[obj[x].pid])
  BY PolledFacts
<1>2. obj \in [Objects -> Objs] /\ pc[x] = "idle"
  BY DEF PtyInv, TypeOK, Poll, Idle
<1>3. obj' = [obj EXCEPT ![x] = q] /\ kid' = ks /\ UNCHANGED <<pc, written>>
  BY DEF Poll
<1> HIDE DEF q, ks
<1>4. obj'[x] = q /\ (\A y \in Objects \ {x} : obj'[y] = obj[y] /\ pc'[y] = pc[y])
  BY <1>2, <1>3
<1>5. TypeOK'
  BY <1>1, <1>2, <1>3 DEF PtyInv, TypeOK, Waited
<1>6. ObjectKept(x)
  BY <1>1, <1>2, <1>3, <1>4 DEF ObjectKept, DoneWith, Idle, PtyInv, PidInv
<1>7. \A c \in Kids : Onward(kid[c], kid'[c]) /\ InputKept(c)
  BY <1>1, <1>3, <1>4, WaitKeepsInput
<1> QED BY <1>1, <1>3, <1>4, <1>5, <1>6, <1>7, ObjectGoesOn

LEMMA KillBeginStep == ASSUME PtyInv, NEW x \in Objects, KillBegin(x) PROVE PtyInv'
<1> DEFINE q == Polled(obj[x])
           ks == PolledKids(x, obj[x])
<1>1. /\ Waited(ks) /\ q \in Objs /\ q.pid = obj[x].pid /\ q.master = obj[x].master
      /\ q.wbuf = obj[x].wbuf
      /\ q.exit = obj[x].exit \/ GivenUp(ks[obj[x].pid])
      /\ obj[x].pid # NoPid /\ ~Running(obj[x]) => q.exit # Null
  BY PolledFacts
<1>2. /\ obj \in [Objects -> Objs] /\ pc[x] = "idle"
      /\ pc \in [Objects -> {"idle", "hangup", "wait", "free", "reap", "start"}]
  BY DEF PtyInv, TypeOK, KillBegin, Idle
<1>3. CASE Running(obj[x])
  <2>1. pc' = [pc EXCEPT ![x] = "hangup"] /\ UNCHANGED <<obj, kid, written>>
    BY <1>3 DEF KillBegin
  <2>2. pc'[x] = "hangup" /\ (\A y \in Objects \ {x} : pc'[y] = pc[y])
    BY <1>2, <2>1
  <2>3. TypeOK'
    BY <1>2, <2>1 DEF PtyInv, TypeOK
  <2>4. ObjectKept(x)
    BY <1>2, <1>3, <2>1, <2>2 DEF ObjectKept, DoneWith, Idle, PtyInv, PidInv, Running, Asks
  <2>5. \A c \in Kids : Onward(kid[c], kid'[c]) /\ InputKept(c)
    BY <2>1, NobodyWaited, WaitKeepsInput
  <2> QED BY <2>1, <2>2, <2>3, <2>4, <2>5, ObjectGoesOn
<1>4. CASE ~Running(obj[x])
  <2>1. /\ obj' = [obj EXCEPT ![x] = q] /\ kid' = ks
        /\ pc' = [pc EXCEPT ![x] = "free"] /\ UNCHANGED written
    BY <1>4 DEF KillBegin
  <2> HIDE DEF q, ks
  <2>2. /\ obj'[x] = q /\ pc'[x] = "free"
        /\ \A y \in Objects \ {x} : obj'[y] = obj[y] /\ pc'[y] = pc[y]
    BY <1>2, <2>1
  <2>3. TypeOK'
    BY <1>1, <1>2, <2>1 DEF PtyInv, TypeOK, Waited
  <2>4. obj[x].pid # NoPid => DoneWith(x) \/ GivenUp(ks[obj[x].pid])
    BY <1>1, <1>2, <1>4 DEF DoneWith, Idle
  <2>5. ObjectKept(x)
    BY <1>1, <1>2, <2>1, <2>2, <2>4 DEF ObjectKept, PtyInv, PidInv
  <2>6. \A c \in Kids : Onward(kid[c], kid'[c]) /\ InputKept(c)
    BY <1>1, <2>1, <2>2, WaitKeepsInput
  <2> QED BY <1>1, <2>1, <2>2, <2>3, <2>5, <2>6, ObjectGoesOn
<1> QED BY <1>3, <1>4

\* A step of Kill whose waitpid takes at most one child, and which changes pid,
\* exit_code and its place only.
LEMMA ObjectMoves ==
  ASSUME PtyInv, NEW x \in Objects, NEW o \in Objs, NEW q, Waited(kid'),
         q \in {"idle", "hangup", "wait", "free", "reap", "start"},
         obj' = [obj EXCEPT ![x] = o], pc' = [pc EXCEPT ![x] = q], UNCHANGED written,
         o.wbuf = obj[x].wbuf, o.master = obj[x].master, ObjectKept(x)
  PROVE  PtyInv'
<1>1. /\ obj'[x] = o /\ pc'[x] = q
      /\ \A y \in Objects \ {x} : obj'[y] = obj[y] /\ pc'[y] = pc[y]
  BY DEF PtyInv, TypeOK
<1>2. TypeOK'
  BY DEF PtyInv, TypeOK, Waited
<1>3. \A c \in Kids : Onward(kid[c], kid'[c]) /\ InputKept(c)
  BY <1>1, WaitKeepsInput
<1> QED BY <1>1, <1>2, <1>3, ObjectGoesOn

LEMMA KillHangupStep == ASSUME PtyInv, NEW x \in Objects, KillHangup(x) PROVE PtyInv'
<1> DEFINE c == obj[x].pid
           b == kid[c].st \in Alive
           l == [kid[c] EXCEPT !.hup = b]
           o == [obj[x] EXCEPT !.exit = HungUp]
<1>1. c \in Kids /\ c # NoPid /\ pc[x] = "hangup"
  BY DEF PtyInv, PidInv, Forked, KillHangup
<1>2. kid[c] \in KidStates /\ obj[x] \in Objs
  BY <1>1 DEF PtyInv, TypeOK
<1>3. /\ l \in KidStates /\ l.owner = kid[c].owner /\ l.st = kid[c].st /\ l.seen = kid[c].seen
      /\ l.tin = kid[c].tin /\ l.last = kid[c].last
      /\ l.rcv = kid[c].rcv /\ l.wrote = kid[c].wrote
  <2>1. b \in BOOLEAN
    OBVIOUS
  <2> HIDE DEF b
  <2> QED BY <1>2, <2>1 DEF KidStates
<1>4. o \in Objs /\ o.pid = c /\ o.master = obj[x].master /\ o.wbuf = obj[x].wbuf
  BY <1>2 DEF Objs, Codes, HungUp
<1>5. /\ obj' = [obj EXCEPT ![x] = o] /\ kid' = [kid EXCEPT ![c] = l]
      /\ pc' = [pc EXCEPT ![x] = "wait"] /\ UNCHANGED written
  BY DEF KillHangup
<1> HIDE DEF b, l, o
<1>6. kid'[c] = l /\ \A d \in Kids \ {c} : kid'[d] = kid[d]
  BY <1>1, <1>5 DEF PtyInv, TypeOK
<1>7. Waited(kid')
  <2>1. kid' \in [Kids -> KidStates]
    BY <1>3, <1>5 DEF PtyInv, TypeOK
  <2> QED BY <1>3, <1>6, <2>1 DEF Waited, Onward, SameIn, GivenUp
<1>8. ObjectKept(x)
  <2>1. obj'[x] = o /\ pc'[x] = "wait"
    BY <1>5 DEF PtyInv, TypeOK
  <2> QED BY <1>1, <1>4, <2>1 DEF ObjectKept, DoneWith, Idle, PtyInv, PidInv
<1> QED BY <1>4, <1>5, <1>7, <1>8, ObjectMoves

LEMMA KillWaitStep == ASSUME PtyInv, NEW x \in Objects, KillWait(x) PROVE PtyInv'
<1> DEFINE c == obj[x].pid
           o == [obj[x] EXCEPT !.exit = StatusOf(kid[c])]
<1>1. /\ c \in Kids /\ c # NoPid /\ pc[x] = "wait" /\ kid[c].owner = x
      /\ kid[c].st \notin Alive /\ kid[c].st # "none"
  BY DEF PtyInv, PidInv, Forked, KillWait
<1>2. kid[c] \in KidStates /\ obj[x] \in Objs /\ obj \in [Objects -> Objs]
  BY <1>1 DEF PtyInv, TypeOK
<1>3. pc' = [pc EXCEPT ![x] = "free"] /\ UNCHANGED written
  BY DEF KillWait
<1>4. pc'[x] = "free"
  BY <1>3 DEF PtyInv, TypeOK
<1>5. CASE kid[c].st = "dead"
  <2>1. obj' = [obj EXCEPT ![x] = o] /\ kid' = [kid EXCEPT ![c] = TakenBy(x, @)]
    BY <1>5 DEF KillWait
  <2>2. StatusOf(kid[c]) \in Codes
    BY DEF StatusOf, Codes
  <2>3. o \in Objs /\ o.pid = c /\ o.master = obj[x].master /\ o.wbuf = obj[x].wbuf
    BY <1>2, <2>2 DEF Objs
  <2>4. Waited(kid') /\ GivenUp(kid'[c])
    BY <1>1, <1>5, <2>1, WaitedOne
  <2> HIDE DEF o
  <2>5. obj'[x] = o
    BY <1>2, <2>1
  <2>6. ObjectKept(x)
    BY <1>1, <1>4, <2>3, <2>4, <2>5 DEF ObjectKept, PtyInv, PidInv
  <2> QED BY <1>3, <2>1, <2>3, <2>4, <2>6, ObjectMoves
<1>6. CASE kid[c].st # "dead"
  <2>1. UNCHANGED <<obj, kid>>
    BY <1>6 DEF KillWait
  <2>2. kid[c].st = "reaped"
    BY <1>1, <1>2, <1>6 DEF KidStates, Alive
  <2>3. obj' = [obj EXCEPT ![x] = obj[x]] /\ Waited(kid')
    BY <1>2, <2>1, NobodyWaited
  <2>4. ObjectKept(x)
    BY <1>1, <1>4, <2>1, <2>2 DEF ObjectKept, GivenUp, PtyInv, PidInv
  <2> QED BY <1>2, <1>3, <2>3, <2>4, ObjectMoves
<1> QED BY <1>5, <1>6

\* The wait of Free.
LEMMA ReapFacts ==
  ASSUME PtyInv, NEW x \in Objects, NEW p, Reap(x, p)
  PROVE  Waited(kid')
<1>1. CASE Waitable(p) = {}
  BY <1>1, NobodyWaited DEF Reap
<1>2. CASE Waitable(p) # {}
  <2>1. PICK c \in Waitable(p) : kid' = [kid EXCEPT ![c] = TakenBy(x, @)]
    BY <1>2 DEF Reap
  <2>2. c \in Kids /\ kid[c].st \in {"dead", "stop"}
    BY DEF Waitable, Forked
  <2> QED BY <2>1, <2>2, WaitedOne
<1> QED BY <1>1, <1>2

LEMMA KillReapStep == ASSUME PtyInv, NEW x \in Objects, KillReap(x) PROVE PtyInv'
<1> DEFINE o == [obj[x] EXCEPT !.pid = NoPid]
<1>1. PICK q \in {"idle", "start"} : pc' = [pc EXCEPT ![x] = q]
  BY DEF KillReap
<1>2. obj[x] \in Objs /\ obj \in [Objects -> Objs] /\ pc[x] = "reap"
  BY DEF PtyInv, TypeOK, KillReap
<1>3. obj' = [obj EXCEPT ![x] = o] /\ Waited(kid') /\ UNCHANGED written
  BY ReapFacts DEF KillReap
<1>4. o \in Objs /\ o.pid = NoPid /\ o.master = obj[x].master /\ o.wbuf = obj[x].wbuf
  BY <1>2 DEF Objs
<1>5. obj[x].master = Closed /\ (obj[x].pid # NoPid => GivenUp(kid[obj[x].pid]))
  BY <1>2 DEF PtyInv, PidInv, ExitInv
<1> HIDE DEF o
<1>6. obj'[x] = o /\ pc'[x] = q
  BY <1>1, <1>2, <1>3 DEF PtyInv, TypeOK
<1>7. ObjectKept(x)
  BY <1>4, <1>5, <1>6 DEF ObjectKept
<1> QED BY <1>1, <1>3, <1>4, <1>7, ObjectMoves

LEMMA StartFailsStep ==
  ASSUME PtyInv, NEW x \in Objects, StartFails(x) \/ ForkFails(x)
  PROVE  PtyInv'
<1> DEFINE o == [obj[x] EXCEPT !.exit = Null]
<1>1. pc' = [pc EXCEPT ![x] = "idle"] /\ obj' = [obj EXCEPT ![x] = o] /\ UNCHANGED written
  BY DEF StartFails, ForkFails
<1>2. /\ obj[x] \in Objs /\ obj \in [Objects -> Objs] /\ pc[x] = "start"
      /\ obj[x].pid = NoPid /\ obj[x].master \in {Closed, obj[x].pid}
  BY DEF PtyInv, TypeOK, PidInv, StartFails, ForkFails
<1>3. Waited(kid')
  BY ReapFacts, NobodyWaited DEF StartFails, ForkFails
<1>4. o \in Objs /\ o.pid = NoPid /\ o.master = obj[x].master /\ o.wbuf = obj[x].wbuf
  BY <1>2 DEF Objs, Codes
<1> HIDE DEF o
<1>5. obj'[x] = o /\ pc'[x] = "idle"
  BY <1>1, <1>2 DEF PtyInv, TypeOK
<1>6. ObjectKept(x)
  BY <1>2, <1>4, <1>5 DEF ObjectKept
<1> QED BY <1>1, <1>3, <1>4, <1>6, ObjectMoves

\* Free closes the master of its own child only.
LEMMA KillCloseStep == ASSUME PtyInv, NEW x \in Objects, KillClose(x) PROVE PtyInv'
<1> DEFINE o == [obj[x] EXCEPT !.master = Closed]
           m == obj[x].master
<1>1. /\ pc' = [pc EXCEPT ![x] = "reap"] /\ obj' = [obj EXCEPT ![x] = o]
      /\ kid' = AfterClose(m) /\ UNCHANGED written
  BY DEF KillClose
<1>2. /\ obj[x] \in Objs /\ obj \in [Objects -> Objs] /\ pc[x] = "free"
      /\ kid \in [Kids -> KidStates]
  BY DEF PtyInv, TypeOK, KillClose
<1>3. o \in Objs /\ o.pid = obj[x].pid /\ o.master = Closed /\ o.wbuf = obj[x].wbuf
  BY <1>2 DEF Objs
<1> HIDE DEF o
<1>4. /\ obj'[x] = o /\ pc'[x] = "reap"
      /\ \A y \in Objects \ {x} : obj'[y] = obj[y] /\ pc'[y] = pc[y]
  BY <1>1, <1>2 DEF PtyInv, TypeOK
<1>5. \A c \in Kids : kid'[c] = IF c = m THEN HungUpKid(kid[c]) ELSE kid[c]
  BY <1>1 DEF AfterClose
<1>6. \A c \in Kids : /\ kid'[c] \in KidStates /\ Onward(kid[c], kid'[c])
                      /\ c = m => kid'[c].tin = <<>> /\ kid'[c].last = 0
  BY <1>2, <1>5, HungUpFacts DEF Onward
<1>7. TypeOK'
  <2>1. kid' \in [Kids -> KidStates]
    BY <1>1, <1>2, <1>6 DEF AfterClose
  <2> QED BY <1>1, <1>3, <2>1 DEF PtyInv, TypeOK
<1>8. \A c \in Kids : InputKept(c)
  <2> SUFFICES ASSUME NEW c \in Kids PROVE InputKept(c)
    OBVIOUS
  <2>1. CASE c = m
    <3>1. c # NoPid
      BY DEF NoPid
    <3>2. kid[c].owner = x
      BY <2>1, <3>1 DEF PtyInv, PidInv, Closed, NoPid
    <3>3. ~Reachable(c)'
      BY <1>3, <1>4, <1>6, <3>1, <3>2 DEF Reachable, Onward, Closed, NoPid
    <3> QED BY <2>1, <1>6, <3>3 DEF InputKept
  <2>2. CASE c # m
    <3>1. kid'[c] = kid[c] /\ SameIn(kid[c], kid'[c])
      BY <1>5, <2>2 DEF SameIn
    <3>2. CASE kid[c].st \in Alive
      <4>1. kid[c].owner \in Objects
        BY <3>2 DEF PtyInv, PidInv, Forked, Alive
      <4>2. c # Closed
        BY DEF Closed
      <4>3. Reachable(c)' <=> Reachable(c)
        BY <1>3, <1>4, <2>2, <3>1, <4>1, <4>2 DEF Reachable
      <4> QED BY <3>1, <4>3 DEF InputKept
    <3>3. CASE kid[c].st \notin Alive
      BY <3>1, <3>3 DEF InputKept, Reachable
    <3> QED BY <3>2, <3>3
  <2> QED BY <2>1, <2>2
<1>9. ObjectKept(x)
  BY <1>2, <1>3, <1>4 DEF ObjectKept, DoneWith
<1> QED BY <1>1, <1>3, <1>4, <1>6, <1>7, <1>8, <1>9, ObjectGoesOn

---------------------------------------------------------------------------
\* What Write and Read put into the terminal.

LEMMA FlushFacts ==
  ASSUME PtyInv, NEW o \in Objs, NEW w \in Nat, EndsWith(o.wbuf, w), Len(o.wbuf) <= w,
         o.master # Closed /\ kid[o.master].st \in Alive =>
            EndsWith(kid[o.master].tin, w - Len(o.wbuf)) /\ Len(kid[o.master].tin) <= TtyRoom
  PROVE  LET j == FlushOut(o)
             b == FlushedBuf(o)
             t == kid[o.master].tin \o SubSeq(o.wbuf, 1, j)
         IN  /\ j \in 0 .. Len(o.wbuf)
             /\ b \in Seq(Nat) /\ Len(b) = Len(o.wbuf) - j /\ EndsWith(b, w) /\ Len(b) <= w
             /\ j # 0 => /\ o.master \in Kids /\ kid[o.master].st \in Alive
                         /\ t \in Seq(Nat) /\ EndsWith(t, w - Len(b)) /\ Len(t) <= TtyRoom
                         /\ Len(t) = Len(kid[o.master].tin) + j
<1> DEFINE s == o.wbuf
           j == FlushOut(o)
           room == TtyRoom - Len(kid[o.master].tin)
<1>1. s \in Seq(Nat) /\ Len(s) \in Nat /\ o.master \in Kids \cup {Closed}
  BY LenProperties DEF Objs
<1>2. CASE o.master = Closed \/ kid[o.master].st \notin Alive
  <2>1. j = 0
    BY <1>2 DEF FlushOut
  <2>2. FlushedBuf(o) = s
    BY <1>1, <2>1, SubSeqFull DEF FlushedBuf
  <2> QED BY <1>1, <2>1, <2>2
<1>3. CASE ~(o.master = Closed \/ kid[o.master].st \notin Alive)
  <2>1. /\ o.master \in Kids /\ kid[o.master].st \in Alive
        /\ EndsWith(kid[o.master].tin, w - Len(s)) /\ Len(kid[o.master].tin) <= TtyRoom
    BY <1>1, <1>3
  <2>2. kid[o.master].tin \in Seq(Nat) /\ Len(kid[o.master].tin) \in Nat
    BY <2>1, LenProperties DEF PtyInv, TypeOK, KidStates
  <2>3. j = IF room < Len(s) THEN room ELSE Len(s)
    BY <1>3 DEF FlushOut
  <2>4. j \in 0 .. Len(s) /\ j <= room
    <3>1. room \in Int /\ room >= 0
      <4>1. TtyRoom \in Nat
        OBVIOUS
      <4> QED BY <2>1, <2>2, <4>1
    <3>2. Len(s) \in Nat
      BY <1>1
    <3> HIDE DEF j, room, s
    <3> QED BY <2>3, <3>1, <3>2
  <2>5. FlushedBuf(o) = SubSeq(s, j + 1, Len(s))
    BY DEF FlushedBuf
  <2> HIDE DEF j
  <2>6. /\ SubSeq(s, j + 1, Len(s)) \in Seq(Nat) /\ Len(SubSeq(s, j + 1, Len(s))) = Len(s) - j
        /\ EndsWith(SubSeq(s, j + 1, Len(s)), w)
        /\ kid[o.master].tin \o SubSeq(s, 1, j) \in Seq(Nat)
        /\ Len(kid[o.master].tin \o SubSeq(s, 1, j)) = Len(kid[o.master].tin) + j
        /\ EndsWith(kid[o.master].tin \o SubSeq(s, 1, j), w - Len(s) + j)
    <3>1. EndsWith(s, w) /\ Len(s) <= w
      OBVIOUS
    <3> DEFINE t == kid[o.master].tin
    <3>2. s \in Seq(Nat) /\ t \in Seq(Nat) /\ j \in 0 .. Len(s) /\ EndsWith(t, w - Len(s))
      BY <1>1, <2>1, <2>2, <2>4
    <3> HIDE DEF s, t
    <3>3. /\ SubSeq(s, j + 1, Len(s)) \in Seq(Nat) /\ Len(SubSeq(s, j + 1, Len(s))) = Len(s) - j
          /\ EndsWith(SubSeq(s, j + 1, Len(s)), w)
      BY <3>1, <3>2, EndsCut
    <3>4. t \o SubSeq(s, 1, j) \in Seq(Nat) /\ Len(t \o SubSeq(s, 1, j)) = Len(t) + j
      BY <3>1, <3>2, EndsCut
    <3>5. EndsWith(t \o SubSeq(s, 1, j), w - Len(s) + j)
      BY <3>1, <3>2, EndsCut
    <3> QED BY <3>3, <3>4, <3>5 DEF t
  <2>7. w - Len(s) + j = w - (Len(s) - j) /\ Len(s) - j <= w
    <3>1. Len(s) <= w
      OBVIOUS
    <3> HIDE DEF s
    <3> QED BY <1>1, <2>4, <3>1
  <2>8. Len(kid[o.master].tin) + j <= TtyRoom
    BY <2>2, <2>4
  <2> QED BY <2>1, <2>4, <2>5, <2>6, <2>7, <2>8 DEF j
<1> QED BY <1>2, <1>3

\* Write, and a Read that finds nothing: o is the object with what is to be
\* written, ks the children after the question whether there is one.
LEMMA FlushKeeps ==
  ASSUME PtyInv, NEW x \in Objects, NEW o \in Objs, NEW ks, NEW w \in Nat, Waited(ks),
         pc[x] = "idle", UNCHANGED pc,
         o.pid = obj[x].pid, o.exit = obj[x].exit \/ GivenUp(ks[o.pid]),
         \/ o.master = obj[x].master
         \/ /\ o.master = Closed
            /\ kid[obj[x].pid].st \notin Alive /\ kid[obj[x].pid].rcv = kid[obj[x].pid].wrote,
         EndsWith(o.wbuf, w), Len(o.wbuf) <= w,
         w - Len(o.wbuf) = written[x] - Len(obj[x].wbuf),
         obj' = [obj EXCEPT ![x] = [o EXCEPT !.wbuf = FlushedBuf(o)]],
         kid' = FlushedKids(ks, o), written' = [written EXCEPT ![x] = w]
  PROVE  PtyInv'
<1> DEFINE b == FlushedBuf(o)
           j == FlushOut(o)
           m == o.master
           t == kid[m].tin \o SubSeq(o.wbuf, 1, j)
           n == w - Len(o.wbuf)
           p == [o EXCEPT !.wbuf = b]
<1>1. m # Closed => m \in Forked /\ m = obj[x].pid /\ kid[m].owner = x /\ m = obj[x].master
  BY DEF PtyInv, PidInv, Closed, NoPid
<1>2. m # Closed /\ kid[m].st \in Alive =>
        /\ EndsWith(kid[m].tin, n) /\ Len(kid[m].tin) <= TtyRoom
        /\ kid[m].last # 0 => kid[m].last = n - Len(kid[m].tin)
  <2> SUFFICES ASSUME m # Closed, kid[m].st \in Alive
               PROVE  /\ EndsWith(kid[m].tin, n) /\ Len(kid[m].tin) <= TtyRoom
                      /\ kid[m].last # 0 => kid[m].last = n - Len(kid[m].tin)
    OBVIOUS
  <2>1. InputOf(m) /\ Reachable(m)
    BY <1>1 DEF PtyInv, InInv, Reachable
  <2>2. written[x] - Len(obj[x].wbuf) = n /\ kid[m].owner = x
    BY <1>1
  <2> HIDE DEF n, m
  <2> QED BY <2>1, <2>2 DEF InputOf
<1>3. /\ j \in 0 .. Len(o.wbuf)
      /\ b \in Seq(Nat) /\ Len(b) = Len(o.wbuf) - j /\ EndsWith(b, w) /\ Len(b) <= w
      /\ j # 0 => /\ m \in Kids /\ kid[m].st \in Alive
                  /\ t \in Seq(Nat) /\ EndsWith(t, w - Len(b)) /\ Len(t) <= TtyRoom
                  /\ Len(t) = Len(kid[m].tin) + j
  BY <1>2, FlushFacts
<1>4. Len(o.wbuf) \in Nat /\ j \in Nat /\ w - Len(b) = n + j
  BY <1>3, LenProperties DEF Objs
<1>5. \A c \in Kids : /\ ks[c] \in KidStates /\ ks[c].tin = kid[c].tin /\ ks[c].last = kid[c].last
                      /\ Onward(kid[c], ks[c]) /\ (ks[c].st \in Alive <=> kid[c].st \in Alive)
                      /\ ks[c].rcv = kid[c].rcv /\ ks[c].wrote = kid[c].wrote
  BY DEF Waited, SameIn
<1>6. kid' = IF j = 0 THEN ks ELSE [ks EXCEPT ![m].tin = t]
  <2>1. kid' = IF j = 0 THEN ks ELSE [ks EXCEPT ![m].tin = @ \o SubSeq(o.wbuf, 1, j)]
    BY DEF FlushedKids
  <2>2. CASE j = 0 BY <2>1, <2>2
  <2>3. CASE j # 0
    <3>1. ks[m].tin = kid[m].tin /\ m \in Kids /\ ks \in [Kids -> KidStates]
      BY <1>3, <1>5, <2>3 DEF Waited
    <3> HIDE DEF j
    <3> QED BY <2>1, <2>3, <3>1
  <2> QED BY <2>2, <2>3
<1>7. p \in Objs /\ p.pid = o.pid /\ p.master = m /\ p.exit = o.exit /\ p.wbuf = b
  <2> HIDE DEF b
  <2> QED BY <1>3 DEF Objs
<1>8. /\ obj'[x] = p /\ pc'[x] = "idle" /\ written'[x] = w
      /\ \A y \in Objects \ {x} : obj'[y] = obj[y] /\ pc'[y] = pc[y] /\ written'[y] = written[y]
  <2>1. obj' = [obj EXCEPT ![x] = p]
    OBVIOUS
  <2> HIDE DEF p
  <2> QED BY <2>1 DEF PtyInv, TypeOK
<1> HIDE DEF b, j, t, p, n
<1>9. /\ kid' \in [Kids -> KidStates]
      /\ \A c \in Kids : c # m \/ j = 0 => kid'[c] = ks[c]
      /\ j # 0 => /\ kid'[m].tin = t /\ kid'[m].last = ks[m].last /\ kid'[m].st = ks[m].st
                  /\ kid'[m].owner = ks[m].owner /\ kid'[m].seen = ks[m].seen
                  /\ kid'[m].rcv = ks[m].rcv /\ kid'[m].wrote = ks[m].wrote
  <2>1. CASE j = 0 BY <1>6, <2>1 DEF Waited
  <2>2. CASE j # 0
    <3> DEFINE l == [ks[m] EXCEPT !.tin = t]
    <3>1. m \in Kids /\ ks[m] \in KidStates /\ t \in Seq(Nat)
      BY <1>3, <1>5, <2>2
    <3>2. /\ l \in KidStates /\ l.tin = t /\ l.last = ks[m].last /\ l.st = ks[m].st
          /\ l.owner = ks[m].owner /\ l.seen = ks[m].seen /\ l.rcv = ks[m].rcv /\ l.wrote = ks[m].wrote
      BY <3>1 DEF KidStates
    <3>3. kid' = [ks EXCEPT ![m] = l] /\ ks \in [Kids -> KidStates]
      BY <1>6, <2>2 DEF Waited
    <3> HIDE DEF l
    <3> QED BY <2>2, <3>1, <3>2, <3>3
  <2> QED BY <2>1, <2>2
<1>10. TypeOK'
  BY <1>7, <1>9 DEF PtyInv, TypeOK, p, b
<1>11. \A c \in Kids : /\ Onward(kid[c], kid'[c])
                       /\ kid'[c].rcv = kid[c].rcv /\ kid'[c].wrote = kid[c].wrote
                       /\ (kid'[c].st \in Alive <=> kid[c].st \in Alive)
                       /\ kid'[c].last = kid[c].last
                       /\ c # m \/ j = 0 => kid'[c].tin = kid[c].tin
                       /\ GivenUp(ks[c]) => GivenUp(kid'[c])
  BY <1>5, <1>9 DEF Onward, GivenUp
<1>12. \A y \in Objects : ObjectKept(y)
  <2>1. ASSUME NEW y \in Objects, y # x PROVE ObjectKept(y)
    BY <2>1, <1>8 DEF ObjectKept, DoneWith, Idle, PtyInv, PidInv
  <2>2. ObjectKept(x)
    <3>1. obj[x].pid # NoPid => obj[x].pid \in Kids
      BY DEF PtyInv, PidInv, Forked
    <3>2. p.pid # NoPid => p.exit = obj[x].exit \/ GivenUp(kid'[p.pid])
      BY <1>7, <1>11, <3>1
    <3>3. p.master = obj[x].master \/ p.pid = NoPid
          \/ (kid'[p.pid].st \notin Alive /\ kid'[p.pid].rcv = kid'[p.pid].wrote)
      BY <1>7, <1>11, <3>1
    <3>4. p.master \in {Closed, p.pid}
      BY <1>7, <1>1
    <3> QED BY <1>7, <1>8, <3>2, <3>3, <3>4 DEF ObjectKept, DoneWith, Idle
  <2> QED BY <2>1, <2>2
<1>13. PidInv' /\ ExitInv' /\ ChildAccounted' /\ OutInv'
  BY <1>10, <1>11, <1>12, StepKept
<1>14. \A y \in Objects : EndsWith(obj'[y].wbuf, written'[y]) /\ Len(obj'[y].wbuf) <= written'[y]
  <2>1. EndsWith(obj'[x].wbuf, written'[x]) /\ Len(obj'[x].wbuf) <= written'[x]
    BY <1>3, <1>7, <1>8
  <2>2. ASSUME NEW y \in Objects, y # x
        PROVE  EndsWith(obj'[y].wbuf, written'[y]) /\ Len(obj'[y].wbuf) <= written'[y]
    BY <2>2, <1>8 DEF PtyInv, InInv, InputOf
  <2> QED BY <2>1, <2>2
<1>15. ASSUME NEW c \in Forked'
       PROVE  InputOf(c)'
  <2>1. c \in Forked /\ c \in Kids /\ kid'[c].owner = kid[c].owner /\ kid[c].owner \in Objects
    BY <1>11 DEF Forked, Onward, PtyInv, PidInv
  <2>2. CASE kid[c].owner # x
    <3>1. (Reachable(c)' <=> Reachable(c)) /\ (c # m \/ j = 0)
      <4>1. c # m
        BY <1>1, <2>1, <2>2 DEF Closed
      <4>2. obj'[kid[c].owner] = obj[kid[c].owner] /\ (kid'[c].st \in Alive <=> kid[c].st \in Alive)
        BY <1>8, <1>11, <2>1, <2>2
      <4> QED BY <2>1, <4>1, <4>2 DEF Reachable
    <3>2. /\ kid'[c].tin = kid[c].tin /\ kid'[c].last = kid[c].last
          /\ obj'[kid[c].owner] = obj[kid[c].owner] /\ written'[kid[c].owner] = written[kid[c].owner]
      BY <1>8, <1>11, <2>1, <2>2, <3>1
    <3> QED BY <2>1, <3>1, <3>2 DEF PtyInv, InInv, InputOf
  <2>3. CASE kid[c].owner = x /\ c # m
    <3>1. ~Reachable(c)'
      BY <1>7, <1>8, <2>1, <2>3 DEF Reachable
    <3>2. ~Reachable(c)
      BY <2>1, <2>3, <1>1 DEF Reachable, PtyInv, PidInv, Closed
    <3>3. kid'[c].tin = kid[c].tin /\ kid'[c].last = kid[c].last
      BY <1>11, <2>1, <2>3
    <3> QED BY <2>1, <3>1, <3>2, <3>3 DEF PtyInv, InInv, InputOf
  <2>4. CASE kid[c].owner = x /\ c = m /\ kid[c].st \notin Alive
    <3>1. ~Reachable(c)' /\ ~Reachable(c) /\ j = 0
      BY <1>3, <1>11, <2>1, <2>4 DEF Reachable
    <3>2. kid'[c].tin = kid[c].tin /\ kid'[c].last = kid[c].last
      BY <1>11, <2>1, <3>1
    <3> QED BY <2>1, <3>1, <3>2 DEF PtyInv, InInv, InputOf
  <2>5. CASE kid[c].owner = x /\ c = m /\ kid[c].st \in Alive
    <3>1. Reachable(c)'
      BY <1>7, <1>8, <1>11, <2>1, <2>5 DEF Reachable
    <3>2. m # Closed /\ written'[x] - Len(obj'[x].wbuf) = n + j
      BY <1>4, <1>7, <1>8, <2>1, <2>5 DEF Closed
    <3>3. /\ EndsWith(kid[m].tin, n) /\ Len(kid[m].tin) <= TtyRoom /\ Len(kid[m].tin) \in Nat
          /\ kid[m].last # 0 => kid[m].last = n - Len(kid[m].tin)
          /\ n \in Int
      <4>1. kid[m].tin \in Seq(Nat)
        BY <2>1, <2>5 DEF PtyInv, TypeOK, KidStates
      <4>2. n \in Int
        BY <1>4 DEF n
      <4> QED BY <1>2, <2>5, <3>2, <4>1, <4>2, LenProperties
    <3>4. CASE j = 0
      <4>1. n + j = n /\ kid'[m].tin = kid[m].tin /\ kid'[m].last = kid[m].last
        BY <1>11, <2>1, <2>5, <3>3, <3>4
      <4> QED BY <2>1, <2>5, <3>1, <3>2, <3>3, <4>1 DEF InputOf
    <3>5. CASE j # 0
      <4>1. kid'[m].tin = t /\ EndsWith(t, n + j) /\ Len(t) <= TtyRoom
            /\ Len(t) = Len(kid[m].tin) + j
        BY <1>3, <1>4, <1>9, <3>5
      <4>2. kid'[m].last # 0 => kid'[m].last = (n + j) - Len(kid'[m].tin)
        <5>1. kid'[m].last = kid[m].last
          BY <1>11, <2>1, <2>5
        <5>2. n - Len(kid[m].tin) = (n + j) - (Len(kid[m].tin) + j)
          BY <1>4, <3>3
        <5> QED BY <3>3, <4>1, <5>1, <5>2
      <4> QED BY <2>1, <2>5, <3>1, <3>2, <4>1, <4>2 DEF InputOf
    <3> QED BY <3>4, <3>5
  <2> QED BY <2>2, <2>3, <2>4, <2>5
<1>16. InInv'
  BY <1>14, <1>15 DEF InInv, EndsWith
<1> QED BY <1>10, <1>13, <1>16 DEF PtyInv

LEMMA WriteStep == ASSUME PtyInv, NEW x \in Objects, Write(x) PROVE PtyInv'
<1>1. PICK k \in Lengths : written' = [written EXCEPT ![x] = @ + k]
  BY DEF Write
<1> DEFINE s == obj[x].wbuf
           t == s \o [i \in 1 .. k |-> written[x] + i]
           o == [obj[x] EXCEPT !.wbuf = t]
           w == written[x] + k
<1>2. /\ obj[x] \in Objs /\ s \in Seq(Nat) /\ written[x] \in Nat /\ k \in Nat /\ pc[x] = "idle"
      /\ EndsWith(s, written[x]) /\ Len(s) <= written[x] /\ Len(s) \in Nat
  BY LenProperties DEF PtyInv, TypeOK, InInv, Objs, Write, Idle
<1>3. written'[x] = w /\ written' = [written EXCEPT ![x] = w] /\ written'[x] - written[x] = k
  BY <1>1, <1>2 DEF PtyInv, TypeOK
<1>4. t \in Seq(Nat) /\ Len(t) = Len(s) + k /\ EndsWith(t, w)
  BY <1>2, EndsAppended
<1>5. /\ obj' = [obj EXCEPT ![x] = [o EXCEPT !.wbuf = FlushedBuf(o)]]
      /\ kid' = FlushedKids(kid, o) /\ UNCHANGED pc
  BY <1>3 DEF Write
<1> HIDE DEF t
<1>6. o \in Objs /\ o.pid = obj[x].pid /\ o.exit = obj[x].exit /\ o.master = obj[x].master /\ o.wbuf = t
  BY <1>2, <1>4 DEF Objs
<1> HIDE DEF o
<1>7. w \in Nat /\ Len(o.wbuf) <= w /\ w - Len(o.wbuf) = written[x] - Len(obj[x].wbuf)
  <2> DEFINE a == Len(s)
             h == written[x]
  <2>1. Len(o.wbuf) = a + k /\ w = h + k /\ a \in Nat /\ h \in Nat /\ k \in Nat /\ a <= h
    BY <1>2, <1>4, <1>6
  <2>2. w - Len(o.wbuf) = h - a
    <3> HIDE DEF a, h, w
    <3> QED BY <2>1
  <2>3. w \in Nat /\ Len(o.wbuf) <= w
    <3> HIDE DEF a, h, w
    <3> QED BY <2>1
  <2> QED BY <2>2, <2>3
<1> HIDE DEF w
<1> QED BY <1>2, <1>3, <1>4, <1>5, <1>6, <1>7, NobodyWaited, FlushKeeps

LEMMA ReadStep == ASSUME PtyInv, NEW x \in Objects, Read(x) PROVE PtyInv'
<1> DEFINE ks == PolledKids(x, obj[x])
           o == Polled(obj[x])
           data == o.master # Closed /\ ks[o.master].rcv < ks[o.master].wrote
           gone == o.master # Closed /\ ks[o.master].st \notin Alive
<1>1. /\ Waited(ks) /\ o \in Objs /\ o.pid = obj[x].pid /\ o.master = obj[x].master
      /\ o.wbuf = obj[x].wbuf
      /\ o.exit = obj[x].exit \/ GivenUp(ks[obj[x].pid])
  BY PolledFacts
<1>2. PICK eof \in {FALSE, gone} :
         LET p == IF eof THEN [o EXCEPT !.master = Closed] ELSE o
         IN  IF data
             THEN /\ obj' = [obj EXCEPT ![x] = p]
                  /\ kid' = [ks EXCEPT ![o.master].rcv = ks[o.master].wrote]
             ELSE /\ obj' = [obj EXCEPT ![x] = [p EXCEPT !.wbuf = FlushedBuf(p)]]
                  /\ kid' = FlushedKids(ks, p)
  BY DEF Read
<1> DEFINE p == IF eof THEN [o EXCEPT !.master = Closed] ELSE o
           m == obj[x].master
<1>3. /\ pc[x] = "idle" /\ UNCHANGED <<pc, written>> /\ obj \in [Objects -> Objs]
      /\ EndsWith(obj[x].wbuf, written[x]) /\ Len(obj[x].wbuf) <= written[x] /\ written[x] \in Nat
      /\ m # Closed => m \in Kids /\ m = obj[x].pid /\ kid[m].owner = x
  BY DEF PtyInv, TypeOK, InInv, PidInv, Read, Idle, Forked, Closed, NoPid
<1> HIDE DEF ks, o
<1>4. /\ p \in Objs /\ p.pid = o.pid /\ p.exit = o.exit /\ p.wbuf = o.wbuf
      /\ p.master = o.master \/ (p.master = Closed /\ gone)
  <2>1. CASE eof = FALSE BY <1>1, <2>1
  <2>2. CASE eof = TRUE
    <3>1. gone
      BY <1>2, <2>2
    <3>2. p = [o EXCEPT !.master = Closed]
      BY <2>2
    <3> QED BY <1>1, <3>1, <3>2 DEF Objs
  <2> QED BY <1>2, <2>1, <2>2
<1>5. \A c \in Kids : /\ ks[c] \in KidStates /\ SameIn(kid[c], ks[c]) /\ Onward(kid[c], ks[c])
                      /\ (ks[c].st \in Alive <=> kid[c].st \in Alive)
                      /\ ks[c].rcv = kid[c].rcv /\ ks[c].wrote = kid[c].wrote
  BY <1>1 DEF Waited
<1>6. CASE ~data
  <2>1. /\ obj' = [obj EXCEPT ![x] = [p EXCEPT !.wbuf = FlushedBuf(p)]]
        /\ kid' = FlushedKids(ks, p)
    BY <1>2, <1>6
  <2>2. \/ p.master = obj[x].master
        \/ /\ p.master = Closed
           /\ kid[obj[x].pid].st \notin Alive /\ kid[obj[x].pid].rcv = kid[obj[x].pid].wrote
    <3>1. CASE p.master = o.master BY <1>1, <3>1
    <3>2. CASE p.master = Closed /\ gone
      <4>1. m # Closed /\ ks[m].st \notin Alive /\ ~(ks[m].rcv < ks[m].wrote)
        BY <1>1, <1>6, <3>2
      <4>2. kid[m].st \notin Alive /\ ~(kid[m].rcv < kid[m].wrote)
        BY <1>3, <1>5, <4>1
      <4>3. kid[m].rcv <= kid[m].wrote /\ kid[m].rcv \in Nat /\ kid[m].wrote \in Nat
        BY <1>3, <4>1 DEF PtyInv, OutInv, TypeOK, KidStates
      <4> QED BY <1>3, <3>2, <4>1, <4>2, <4>3
    <3> QED BY <1>4, <3>1, <3>2
  <2>3. written' = [written EXCEPT ![x] = written[x]]
    BY <1>3 DEF PtyInv, TypeOK
  <2> HIDE DEF p
  <2>4. p.pid = obj[x].pid /\ (p.exit = obj[x].exit \/ GivenUp(ks[p.pid]))
    BY <1>1, <1>4
  <2>5. /\ EndsWith(p.wbuf, written[x]) /\ Len(p.wbuf) <= written[x]
        /\ written[x] - Len(p.wbuf) = written[x] - Len(obj[x].wbuf)
    BY <1>1, <1>3, <1>4
  <2>6. p \in Objs /\ written[x] \in Nat /\ pc[x] = "idle" /\ UNCHANGED pc /\ Waited(ks)
    BY <1>1, <1>3, <1>4
  <2> QED BY <2>1, <2>2, <2>3, <2>4, <2>5, <2>6, FlushKeeps
<1>7. CASE data
  <2> DEFINE l == [ks[m] EXCEPT !.rcv = ks[m].wrote]
  <2>1. obj' = [obj EXCEPT ![x] = p] /\ kid' = [ks EXCEPT ![m] = l]
    BY <1>1, <1>2, <1>7
  <2>2. m \in Kids /\ m = obj[x].pid /\ kid[m].owner = x /\ ks[m] \in KidStates
    BY <1>1, <1>3, <1>5, <1>7
  <2>3. /\ l \in KidStates /\ l.tin = ks[m].tin /\ l.last = ks[m].last /\ l.st = ks[m].st
        /\ l.owner = ks[m].owner /\ l.seen = ks[m].seen /\ l.rcv = l.wrote
    BY <2>2 DEF KidStates
  <2>4. l.wrote \in Nat
    BY <2>3 DEF KidStates
  <2> HIDE DEF l, p
  <2>5. kid' \in [Kids -> KidStates] /\ kid'[m] = l /\ \A c \in Kids \ {m} : kid'[c] = ks[c]
    BY <1>1, <2>1, <2>2, <2>3 DEF Waited
  <2>6. TypeOK'
    BY <1>3, <1>4, <2>1, <2>5 DEF PtyInv, TypeOK
  <2>7. /\ obj'[x] = p /\ \A y \in Objects \ {x} : obj'[y] = obj[y]
    BY <1>3, <2>1
  <2>8. Onward(kid[m], l) /\ SameIn(kid[m], l) /\ (l.st \in Alive <=> kid[m].st \in Alive)
        /\ (GivenUp(ks[m]) => GivenUp(l))
    <3>1. l.rcv <= l.wrote
      BY <2>3, <2>4
    <3>2. Onward(kid[m], ks[m]) /\ SameIn(kid[m], ks[m]) /\ (ks[m].st \in Alive <=> kid[m].st \in Alive)
      BY <1>5, <2>2
    <3> QED BY <2>3, <3>1, <3>2 DEF Onward, SameIn, GivenUp
  <2>9. \A c \in Kids : /\ Onward(kid[c], kid'[c]) /\ SameIn(kid[c], kid'[c])
                        /\ (kid'[c].st \in Alive <=> kid[c].st \in Alive)
    BY <1>5, <2>5, <2>8
  <2>10. p.master = m \/ (p.master = Closed /\ kid'[m].st \notin Alive)
    BY <1>1, <1>4, <2>3, <2>5
  <2>11. ObjectKept(x)
    <3>1. p.exit = obj[x].exit \/ GivenUp(kid'[m])
      BY <1>1, <1>4, <2>2, <2>5, <2>8
    <3>2. kid'[m].rcv = kid'[m].wrote
      BY <2>3, <2>5
    <3> QED BY <1>1, <1>3, <1>4, <2>2, <2>7, <2>10, <3>1, <3>2 DEF ObjectKept, DoneWith, Idle
  <2>12. \A c \in Kids : InputKept(c)
    <3> SUFFICES ASSUME NEW c \in Kids PROVE InputKept(c)
      OBVIOUS
    <3>1. CASE kid[c].st \notin Alive
      BY <2>9, <3>1 DEF InputKept, Reachable
    <3>2. CASE kid[c].st \in Alive
      <4>1. kid[c].owner \in Objects /\ kid'[c].owner = kid[c].owner
        BY <2>9, <3>2 DEF PtyInv, PidInv, Forked, Alive, Onward
      <4>2. obj'[kid[c].owner].master = c <=> obj[kid[c].owner].master = c
        BY <2>2, <2>7, <2>9, <2>10, <3>2, <4>1 DEF Closed
      <4> QED BY <2>9, <4>1, <4>2 DEF InputKept, Reachable
    <3> QED BY <3>1, <3>2
  <2> QED BY <1>1, <1>3, <1>4, <2>6, <2>7, <2>9, <2>11, <2>12, ObjectGoesOn
<1> QED BY <1>6, <1>7

LEMMA StartForkStep == ASSUME PtyInv, NEW x \in Objects, StartFork(x) PROVE PtyInv'
<1>1. PICK c \in Kids \ Forked, i \in {FALSE, (x \in Wild)} :
        /\ kid' = [kid EXCEPT ![c] = [NoKid EXCEPT !.st = "run", !.owner = x, !.ignores = i]]
        /\ obj' = [obj EXCEPT ![x] = [@ EXCEPT !.pid = c, !.exit = Null, !.master = c]]
  BY DEF StartFork
<1> DEFINE l == [NoKid EXCEPT !.st = "run", !.owner = x, !.ignores = i]
           o == [obj[x] EXCEPT !.pid = c, !.exit = Null, !.master = c]
<1>2. /\ obj[x] \in Objs /\ obj \in [Objects -> Objs] /\ kid \in [Kids -> KidStates]
      /\ pc[x] = "start" /\ obj[x].pid = NoPid /\ obj[x].master = Closed
      /\ pc' = [pc EXCEPT ![x] = "idle"] /\ UNCHANGED written
  BY DEF PtyInv, TypeOK, PidInv, StartFork, Closed, NoPid
<1>3. NoKid \in KidStates /\ NoKid.tin = <<>> /\ NoKid.last = 0 /\ NoKid.wrote = 0 /\ NoKid.rcv = 0
  <2>1. <<>> \in Seq(Nat)
    BY EmptySeq
  <2> QED BY <2>1 DEF KidStates, NoKid
<1>4. /\ l \in KidStates /\ l.st = "run" /\ l.owner = x /\ l.tin = <<>> /\ l.last = 0
      /\ l.wrote = 0 /\ l.rcv = 0
  <2>1. i \in BOOLEAN
    <3>1. (x \in Wild) \in BOOLEAN
      OBVIOUS
    <3> QED BY <3>1
  <2> QED BY <1>3, <2>1 DEF KidStates
<1>5. o \in Objs /\ o.pid = c /\ o.exit = Null /\ o.master = c /\ o.wbuf = obj[x].wbuf
  BY <1>2 DEF Objs, Codes
<1> HIDE DEF l, o
<1>6. /\ obj' = [obj EXCEPT ![x] = o] /\ kid' = [kid EXCEPT ![c] = l]
  BY <1>1 DEF l, o
<1>7. /\ obj'[x] = o /\ pc'[x] = "idle" /\ kid'[c] = l
      /\ \A y \in Objects \ {x} : obj'[y] = obj[y] /\ pc'[y] = pc[y]
      /\ \A d \in Kids \ {c} : kid'[d] = kid[d]
  BY <1>2, <1>6 DEF PtyInv, TypeOK
<1>8. TypeOK'
  BY <1>2, <1>4, <1>5, <1>6 DEF PtyInv, TypeOK
<1>9. Forked' = Forked \cup {c} /\ c \notin Forked /\ c \in Kids /\ c # NoPid /\ c # Closed
  BY <1>4, <1>7 DEF Forked, NoPid, Closed
<1>10. \A y \in Objects \ {x} : obj[y].pid # c /\ obj[y].master # c
  BY <1>9 DEF PtyInv, PidInv
<1>11. PidInv'
  <2>1. ASSUME NEW d \in Forked' PROVE kid'[d].owner \in Objects
    BY <1>4, <1>7, <1>9 DEF PtyInv, PidInv, Forked
  <2>2. ASSUME NEW y \in Objects, y # x
        PROVE  /\ obj'[y].pid # NoPid => obj'[y].pid \in Forked' /\ kid'[obj'[y].pid].owner = y
               /\ obj'[y].master \in {Closed, obj'[y].pid}
               /\ pc'[y] \in {"hangup", "wait"} => obj'[y].pid # NoPid
               /\ pc'[y] = "reap" => obj'[y].master = Closed
               /\ pc'[y] = "start" => obj'[y].pid = NoPid
    <3>1. obj'[y] = obj[y] /\ pc'[y] = pc[y]
      BY <1>7, <2>2
    <3>2. ASSUME obj[y].pid # NoPid
          PROVE  obj[y].pid \in Forked' /\ kid'[obj[y].pid].owner = y
      <4>1. obj[y].pid \in Forked /\ kid[obj[y].pid].owner = y
        BY <3>2 DEF PtyInv, PidInv
      <4>2. kid'[obj[y].pid] = kid[obj[y].pid]
        BY <1>7, <1>9, <4>1 DEF Forked
      <4> QED BY <1>9, <4>1, <4>2
    <3> QED BY <3>1, <3>2 DEF PtyInv, PidInv
  <2>3. /\ obj'[x].pid \in Forked' /\ kid'[obj'[x].pid].owner = x
        /\ obj'[x].master = obj'[x].pid
    BY <1>4, <1>5, <1>7, <1>9
  <2> QED BY <1>7, <2>1, <2>2, <2>3 DEF PidInv
<1>12. ExitInv'
  <2>1. ASSUME NEW y \in Objects, y # x, obj'[y].pid # NoPid
        PROVE  obj'[y] = obj[y] /\ pc'[y] = pc[y] /\ kid'[obj'[y].pid] = kid[obj[y].pid]
    BY <1>7, <1>10, <2>1 DEF PtyInv, PidInv, Forked
  <2>2. ~((Idle(x)' /\ obj'[x].exit # Null) \/ pc'[x] \in {"free", "reap"})
    BY <1>5, <1>7
  <2> QED BY <1>7, <2>1, <2>2 DEF ExitInv, PtyInv, Idle
<1>13. ChildAccounted'
  <2>1. obj'[kid'[c].owner].pid = c
    BY <1>4, <1>5, <1>7
  <2>2. ASSUME NEW d \in Forked, kid'[d].st # "reaped"
        PROVE  obj'[kid'[d].owner].pid = d \/ kid'[d].seen
    <3>1. kid'[d] = kid[d] /\ kid[d].owner \in Objects /\ d # NoPid
      BY <1>7, <1>9 DEF PtyInv, PidInv, Forked, NoPid
    <3>2. obj[kid[d].owner].pid = d \/ kid[d].seen
      BY <2>2, <3>1 DEF PtyInv, ChildAccounted
    <3> QED BY <1>2, <1>7, <3>1, <3>2
  <2> QED BY <1>9, <2>1, <2>2 DEF ChildAccounted
<1>14. OutInv'
  <2>1. \A d \in Kids : kid'[d].rcv <= kid'[d].wrote
    BY <1>4, <1>7 DEF PtyInv, OutInv
  <2>2. ASSUME NEW y \in Objects, y # x, obj'[y].pid # NoPid
        PROVE  obj'[y] = obj[y] /\ pc'[y] = pc[y] /\ kid'[obj'[y].pid] = kid[obj[y].pid]
    BY <1>7, <1>10, <2>2 DEF PtyInv, PidInv, Forked
  <2>3. obj'[x].master = obj'[x].pid
    BY <1>5, <1>7
  <2> QED BY <2>1, <2>2, <2>3 DEF OutInv, PtyInv
<1>15. InInv'
  <2>1. \A y \in Objects : obj'[y].wbuf = obj[y].wbuf /\ written'[y] = written[y]
    BY <1>2, <1>5, <1>7
  <2>2. \A y \in Objects : EndsWith(obj'[y].wbuf, written'[y]) /\ Len(obj'[y].wbuf) <= written'[y]
    BY <2>1 DEF PtyInv, InInv, InputOf
  <2>3. EndsWith(kid'[c].tin, written'[x] - Len(obj'[x].wbuf))
        /\ Len(kid'[c].tin) <= TtyRoom /\ kid'[c].last = 0 /\ kid'[c].owner = x /\ kid'[c].tin = <<>>
    BY <1>4, <1>7 DEF EndsWith
  <2>4. ASSUME NEW d \in Forked
        PROVE  /\ kid'[d] = kid[d] /\ kid[d].owner \in Objects
               /\ (Reachable(d)' <=> Reachable(d))
    <3>1. kid'[d] = kid[d] /\ kid[d].owner \in Objects /\ d # c /\ d # Closed
      BY <1>7, <1>9 DEF PtyInv, PidInv, Forked, Closed
    <3>2. obj'[kid[d].owner].master = d <=> obj[kid[d].owner].master = d
      BY <1>2, <1>5, <1>7, <3>1
    <3> QED BY <3>1, <3>2 DEF Reachable
  <2>5. ASSUME NEW d \in Forked
        PROVE  InputOf(d)'
    <3>1. kid'[d] = kid[d] /\ kid[d].owner \in Objects /\ (Reachable(d)' <=> Reachable(d))
      BY <2>4
    <3>2. /\ obj'[kid[d].owner].wbuf = obj[kid[d].owner].wbuf
          /\ written'[kid[d].owner] = written[kid[d].owner]
      BY <2>1, <3>1
    <3>3. InInv
      BY DEF PtyInv
    <3> QED BY <3>1, <3>2, <3>3 DEF InInv, InputOf
  <2> QED BY <1>9, <2>2, <2>3, <2>5 DEF InInv, InputOf, EndsWith
<1> QED BY <1>8, <1>11, <1>12, <1>13, <1>14, <1>15 DEF PtyInv

---------------------------------------------------------------------------
LEMMA NextHolds == PtyInv /\ [Next]_vars => PtyInv'
<1> SUFFICES ASSUME PtyInv, [Next]_vars PROVE PtyInv'
  OBVIOUS
<1>1. CASE UNCHANGED vars
  BY <1>1 DEF vars, PtyInv, TypeOK, PidInv, ExitInv, ChildAccounted, OutInv, InInv, Forked, Idle,
              Reachable, InputOf, EndsWith
<1>2. ASSUME NEW x \in Objects,
             Write(x) \/ Poll(x) \/ Read(x) \/ KillBegin(x) \/ KillStep(x) \/ StartStep(x)
      PROVE  PtyInv'
  BY <1>2, WriteStep, PollStep, ReadStep, KillBeginStep, KillHangupStep, KillWaitStep,
     KillCloseStep, KillReapStep, StartForkStep, StartFailsStep DEF KillStep, StartStep
<1>3. ASSUME NEW c \in Kids,
             KidReads(c) \/ KidWrites(c) \/ KidEnds(c) \/ KidHup(c) \/ KidStops(c) \/ KidContinues(c)
      PROVE  PtyInv'
  BY <1>3, KidReadsStep, KidWritesStep, KidEndsStep, KidStopsStep
<1> QED BY <1>1, <1>2, <1>3 DEF Next

\* The inductive invariant, for any number of objects and of children.
THEOREM PtyInvariant == Spec => []PtyInv
<1> QED BY InitHolds, NextHolds, PTL DEF Spec

\* No child is left behind by Kill, Start or the destructor that was not seen
\* stopped before.
THEOREM ChildrenAccounted == Spec => []ChildAccounted
<1>1. PtyInv => ChildAccounted
  BY DEF PtyInv
<1> QED BY PtyInvariant, <1>1, PTL

\* Read closes the terminal only after the last byte of the output.
THEOREM OutputIsKept == Spec => []OutputKept
<1>1. PtyInv => OutputKept
  <2> SUFFICES ASSUME PtyInv, NEW x \in Objects, Idle(x), obj[x].pid # NoPid,
                      kid[obj[x].pid].rcv < kid[obj[x].pid].wrote
               PROVE  obj[x].master = obj[x].pid
    BY DEF OutputKept
  <2>1. obj[x].pid \in Kids
    BY DEF PtyInv, PidInv, Forked
  <2>2. kid[obj[x].pid].rcv \in Nat /\ kid[obj[x].pid].wrote \in Nat
    BY <2>1 DEF PtyInv, TypeOK, KidStates
  <2> QED BY <2>2 DEF PtyInv, OutInv, Idle
<1> QED BY PtyInvariant, <1>1, PTL

\* A child gets what was written to its object in the order of the writes, none
\* twice and none left out.
THEOREM InputIsInOrder == Spec => []InputInOrder
<1>1. PtyInv => InputInOrder
  <2> SUFFICES ASSUME PtyInv, NEW c \in Forked, kid[c].st \in Alive
               PROVE  LET x  == kid[c].owner
                          in == kid[c].tin \o (IF obj[x].master = c THEN obj[x].wbuf ELSE <<>>)
                      IN  /\ \A i \in 2 .. Len(in) : in[i] = in[i - 1] + 1
                          /\ kid[c].last # 0 /\ in # <<>> => Head(in) = kid[c].last + 1
    BY DEF InputInOrder
  <2> DEFINE x == kid[c].owner
             s == kid[c].tin
             b == IF obj[x].master = c THEN obj[x].wbuf ELSE <<>>
             n == written[x] - Len(obj[x].wbuf)
  <2>1. x \in Objects /\ c \in Kids
    BY DEF PtyInv, PidInv, Forked
  <2>2. s \in Seq(Nat) /\ obj[x].wbuf \in Seq(Nat) /\ written[x] \in Nat
    BY <2>1 DEF PtyInv, TypeOK, KidStates, Objs
  <2>3. CASE obj[x].master # c
    <3>1. s = <<>> /\ b = <<>> /\ kid[c].last = 0
      BY <2>1, <2>3 DEF PtyInv, InInv, InputOf, Reachable
    <3>2. s \o b = <<>>
      BY <3>1
    <3> QED BY <3>1, <3>2
  <2>4. CASE obj[x].master = c
    <3>1. /\ EndsWith(s, n) /\ EndsWith(obj[x].wbuf, written[x]) /\ b = obj[x].wbuf
          /\ kid[c].last # 0 => kid[c].last = n - Len(s)
      BY <2>1, <2>4 DEF PtyInv, InInv, InputOf, Reachable
    <3> DEFINE r == s \o b
    <3>0. s \in Seq(Nat) /\ b \in Seq(Nat)
      BY <2>2, <3>1
    <3>2. /\ r \in Seq(Nat) /\ Len(r) = Len(s) + Len(b)
          /\ \A i \in 1 .. Len(s) + Len(b) : r[i] = IF i <= Len(s) THEN s[i] ELSE b[i - Len(s)]
      <4> HIDE DEF s, b
      <4> QED BY <3>0, ConcatProperties
    <3>3. Len(s) \in Nat /\ Len(b) \in Nat
      BY <2>2, <3>1, LenProperties
    <3> HIDE DEF r, s, b
    <3>4. ASSUME NEW i \in 1 .. Len(r) PROVE r[i] = n - Len(s) + i
      <4>1. CASE i <= Len(s)
        <5>1. i \in 1 .. Len(s) /\ r[i] = s[i]
          BY <3>2, <3>3, <4>1
        <5> QED BY <5>1, <3>1 DEF EndsWith
      <4>2. CASE ~(i <= Len(s))
        <5>1. i - Len(s) \in 1 .. Len(b) /\ r[i] = b[i - Len(s)]
          BY <3>2, <3>3, <4>2
        <5>2. b[i - Len(s)] = written[x] - Len(b) + (i - Len(s))
          BY <5>1, <3>1 DEF EndsWith
        <5>3. Len(obj[x].wbuf) = Len(b)
          BY <3>1
        <5> QED BY <2>2, <3>3, <5>1, <5>2, <5>3
      <4> QED BY <4>1, <4>2
    <3>5. n \in Int
      BY <2>2, LenProperties
    <3> HIDE DEF n
    <3>6. \A i \in 2 .. Len(r) : r[i] = r[i - 1] + 1
      <4> SUFFICES ASSUME NEW i \in 2 .. Len(r) PROVE r[i] = r[i - 1] + 1
        OBVIOUS
      <4>1. i \in 1 .. Len(r) /\ i - 1 \in 1 .. Len(r)
        BY <3>2, <3>3
      <4>2. r[i] = n - Len(s) + i /\ r[i - 1] = n - Len(s) + (i - 1)
        BY <3>4, <4>1
      <4> QED BY <3>3, <3>5, <4>2
    <3>7. kid[c].last # 0 /\ r # <<>> => Head(r) = kid[c].last + 1
      <4> SUFFICES ASSUME kid[c].last # 0, r # <<>> PROVE Head(r) = kid[c].last + 1
        OBVIOUS
      <4>1. Head(r) = r[1] /\ 1 \in 1 .. Len(r)
        BY <3>2, EmptySeq
      <4> QED BY <3>1, <3>3, <3>4, <3>5, <4>1
    <3> QED BY <3>6, <3>7 DEF r, s, b
  <2> QED BY <2>3, <2>4
<1> QED BY PtyInvariant, <1>1, PTL
=============================================================================
