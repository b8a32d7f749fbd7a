----------------------------- MODULE StackCtrl -----------------------------
(***************************************************************************)
(* CtrlLib/StackCtrl: a stack of ctrls of which one is active.               *)
(*                                                                           *)
(* Activate ends in a call of the application's WhenAction, and the animated *)
(* transition runs the event loop, so a handler may call the stack again     *)
(* while a call is under way.  `calls' holds the places where the calls      *)
(* under way stand, the innermost first.  Indices count from 1.              *)
(***************************************************************************)
EXTENDS Naturals, Sequences, FiniteSets

Seqs == INSTANCE SequencesExt

CONSTANTS Ctrls,        \* the ctrls of the application
          None,         \* the null pointer
          Animations,   \* the settings of Animation that are tried
          MaxStack,     \* bound: ctrls in the stack
          MaxCalls      \* bound: places of calls under way

ASSUME StackAssumption == /\ None \notin Ctrls
                          /\ Animations \subseteq BOOLEAN
                          /\ MaxStack \in Nat
                          /\ MaxCalls \in Nat \ {0}

VARIABLES list,         \* the stacked ctrls; one may be there twice
          activectrl,   \* a pointer: it may outlive the ctrl's place in the stack
          shown,        \* the ctrls whose Show flag is set
          wheel,
          animated,     \* duration >= 100
          calls,
          nested        \* history: a handler has called during the call under way

vars == <<list, activectrl, shown, wheel, animated, calls, nested>>

Stacked == Seqs!ToSet(list)

\* Animate waits in its event loop; WhenAction runs; Remove waits for Prev or
\* Next.  `was' is history: the ctrl that was active when the place was entered.
Places == [at : {"animate", "action", "remove"}, ctrl : Ctrls, was : Ctrls \cup {None}]

TypeOK == /\ list \in Seq(Ctrls)
          /\ activectrl \in Ctrls \cup {None}
          /\ shown \subseteq Ctrls
          /\ wheel \in BOOLEAN
          /\ animated \in BOOLEAN
          /\ calls \in Seq(Places)
          /\ nested \in BOOLEAN

Init == /\ list = <<>>
        /\ activectrl = None
        /\ shown = Ctrls
        /\ wheel = FALSE
        /\ animated \in Animations
        /\ calls = <<>>
        /\ nested = FALSE

Animating == \E k \in DOMAIN calls : calls[k].at = "animate"

\* list.Find: the first place of c, 0 when there is none.
Find(c) == Seqs!SelectInSeq(list, LAMBDA d : d = c)

\* The application calls at top level, or from a handler that is running; a
\* running handler is always the innermost place.
Call == Len(calls) < MaxCalls /\ nested' = (calls # <<>>)

Place(at, c) == <<[at |-> at, ctrl |-> c, was |-> activectrl]>>

---------------------------------------------------------------------------
\* Mutant: the ctrl that was active is not hidden.
SwitchKeepsShown(c, vis, outer) ==
    /\ activectrl' = c
    /\ shown' = vis \cup {c}
    /\ calls' = Place("action", c) \o outer

\* The end of Activate: hide the ctrl that is active now, show c, WhenAction.
Switch(c, vis, outer) ==
    /\ activectrl' = c
    /\ shown' = (vis \ {activectrl}) \cup {c}
    /\ calls' = Place("action", c) \o outer

\* Activate called at `outer' when the ctrls `vis' are shown.  Animate does
\* nothing when an animation is under way.
Activate(c, vis, outer) ==
    IF activectrl \notin {None, c} /\ animated /\ ~Animating
    THEN /\ shown' = vis \cup {c}
         /\ calls' = Place("animate", c) \o outer
         /\ UNCHANGED activectrl
    ELSE Switch(c, vis, outer)

\* The index Prev goes to, 0 when it goes nowhere.
PrevIndex == LET i == Find(activectrl) IN
             IF i > 1 THEN i - 1 ELSE IF i = 1 /\ wheel THEN Len(list) ELSE 0

NextIndex == LET i == Find(activectrl) IN
             IF i = 0 THEN 0
             ELSE IF i < Len(list) THEN i + 1 ELSE IF wheel THEN 1 ELSE 0

\* list.RemoveKey takes out every place of c (none, when a handler has done so):
\* the k-th of those that stay comes from the place from[k].
Detach(c) ==
    LET kept == {i \in DOMAIN list : list[i] # c}
        size == 1 .. Cardinality(kept) IN
    \E from \in [size -> kept] :
        /\ \A k, l \in size : k < l => from[k] < from[l]
        /\ \A i \in kept : \E k \in size : from[k] = i
        /\ list' = [k \in size |-> list[from[k]]]

---------------------------------------------------------------------------
\* Add and Insert.  A ctrl that is stacked already gets a second place.
Insert(i, c) ==
    /\ Call /\ Len(list) < MaxStack
    /\ list' = Seqs!InsertAt(list, i, c)
    /\ Activate(c, shown \ {c}, calls)
    /\ UNCHANGED <<wheel, animated>>

\* Goto, GoBegin, GoEnd.
Goto(i) ==
    /\ Call
    /\ Activate(list[i], shown, calls)
    /\ UNCHANGED <<list, wheel, animated>>

Prev == PrevIndex # 0 /\ Goto(PrevIndex)
Next == NextIndex # 0 /\ Goto(NextIndex)

\* Mutant: always to the next one.
RemoveGoesNext(c) ==
    /\ Call /\ c \in Stacked
    /\ IF NextIndex = 0
       THEN Detach(c) /\ UNCHANGED <<activectrl, shown, calls>>
       ELSE /\ Activate(list[NextIndex], shown, Place("remove", c) \o calls)
            /\ UNCHANGED list
    /\ UNCHANGED <<wheel, animated>>

\* Remove goes to a neighbour of the active ctrl, and takes c out after that.
Remove(c) ==
    /\ Call /\ c \in Stacked
    /\ LET to == IF Find(c) > 1 THEN PrevIndex ELSE NextIndex IN
       IF to = 0
       THEN Detach(c) /\ UNCHANGED <<activectrl, shown, calls>>
       ELSE /\ Activate(list[to], shown, Place("remove", c) \o calls)
            /\ UNCHANGED list
    /\ UNCHANGED <<wheel, animated>>

\* Wheel and Animation.
Configure ==
    /\ calls = <<>>
    /\ wheel' \in BOOLEAN /\ animated' \in Animations
    /\ UNCHANGED <<list, activectrl, shown, calls, nested>>

\* The transition is over: Animate returns to Activate.
AnimationEnds ==
    /\ calls # <<>> /\ Head(calls).at = "animate"
    /\ Switch(Head(calls).ctrl, shown, Tail(calls))
    /\ UNCHANGED <<list, wheel, animated, nested>>

\* WhenAction returns, and the call that activated with it; Remove goes on.
ActionEnds ==
    /\ calls # <<>> /\ Head(calls).at = "action"
    /\ IF Len(calls) > 1 /\ calls[2].at = "remove"
       THEN Detach(calls[2].ctrl) /\ calls' = Tail(Tail(calls))
       ELSE calls' = Tail(calls) /\ UNCHANGED list
    /\ UNCHANGED <<activectrl, shown, wheel, animated, nested>>

StackNext == \/ \E c \in Ctrls : \E i \in 1 .. Len(list) + 1 : Insert(i, c)
             \/ \E i \in 1 .. Len(list) : Goto(i)
             \/ Prev
             \/ Next
             \/ \E c \in Ctrls : Remove(c)
             \/ Configure
             \/ AnimationEnds
             \/ ActionEnds

Spec == Init /\ [][StackNext]_vars

---------------------------------------------------------------------------
\* Properties.

\* The ctrls that the animations among the calls s bring in.
Incoming(s) == {s[k].ctrl : k \in {l \in DOMAIN s : s[l].at = "animate"}}

\* Whatever the handlers call while calls are under way: the active ctrl is
\* visible, and no other stacked ctrl is but the one an animation brings in.
OneVisible == /\ shown \cap Stacked \subseteq {activectrl} \cup Incoming(calls)
              /\ activectrl \in Stacked => activectrl \in shown

\* The ctrl, if there is one, that has the first two places: Remove of it, when it
\* is active, goes from the one to the other and then takes both out.
FirstTwice == {c \in Ctrls : Len(list) > 1 /\ list[1] = c /\ list[2] = c}

\* When no handler calls back: Remove of the active ctrl, when there is another
\* one, leaves one of the others active (not the one it takes out, at however many
\* places).  Left out is a ctrl that was inserted twice and has the first two
\* places: the code leaves the stack without an active ctrl then.
RemoveOfActiveMoves ==
    [][\A c \in Ctrls : /\ ~nested'
                        /\ c \in Stacked /\ c \notin Seqs!ToSet(list')
                        /\ Len(list) > 1 /\ c \notin FirstTwice
                        /\ c = IF calls = <<>> THEN activectrl ELSE calls[Len(calls)].was
                        => activectrl' \in Seqs!ToSet(list')]_vars
---------------------------------------------------------------------------
\* The inductive invariant.

\* Without a call from a handler, at most one call of the application is under
\* way; when it is Remove's, it has gone to a ctrl that is stacked, and other than
\* the one it takes out when that one was active and there was another.
QuietInv ==
    ~nested =>
      /\ Len(calls) <= 2
      /\ Len(calls) = 1 => calls[1].at # "remove"
      /\ Len(calls) = 2 =>
            /\ calls[1].at # "remove" /\ calls[2].at = "remove"
            /\ calls[1].ctrl \in Stacked
            /\ calls[1].at = "action" => activectrl = calls[1].ctrl
            /\ calls[2].ctrl = calls[2].was /\ Len(list) > 1 /\ calls[2].ctrl \notin FirstTwice
                  => calls[1].ctrl # calls[2].ctrl

StackInv == TypeOK /\ OneVisible /\ QuietInv
=============================================================================
