----------------------------- MODULE PtyProcess -----------------------------
(***************************************************************************)
(* Core/PtyProcess on POSIX: the objects of one program that each run a      *)
(* child process on a pseudo terminal.                                       *)
(*                                                                           *)
(* A child is named by its pid, which is not used again; the pty it runs on  *)
(* has its name too.  The kernel keeps what the objects do not: whether a    *)
(* child runs, is stopped, has ended (and waits to be taken by waitpid) or   *)
(* is taken, and the two queues of its pty.  The output of a child is        *)
(* numbered, so that two counts stand for its queue.  The calls of an object *)
(* are single steps, Kill apart: there the child goes on between the system  *)
(* calls.                                                                    *)
(***************************************************************************)
EXTENDS Integers, Sequences

CONSTANTS Objects,
          None,
          Kids,          \* bound: the pids, in the order they are given out
          TtyRoom,       \* room in the input queue of a pty
          Lengths,       \* how many bytes a Write takes
          MaxIn,         \* bound: bytes written to each object
          Wild,          \* bound: the objects whose children stop or ignore SIGHUP
          MaxOut         \* bound: bytes of output of each child, by its object

ASSUME PtyAssumption == /\ Kids \subseteq Nat \ {0}
                        /\ TtyRoom \in Nat \ {0} /\ Lengths \subseteq Nat \ {0}
                        /\ MaxIn \in [Objects -> Nat] /\ MaxOut \in [Objects -> Nat]
                        /\ None \notin Objects /\ Wild \subseteq Objects

VARIABLES obj,     \* the objects: pid, exit_code, master, wbuffer
          pc,      \* where each object is in Kill or Start
          written, \* how many bytes were written to each object
          kid      \* the children

vars == <<obj, pc, written, kid>>

Null     == "Null"
HungUp   == "255"
NoPid    == 0
AnyPid   == -1
Closed   == 0
Alive    == {"run", "stop"}
Codes    == {Null, HungUp, "ended", "stopped"}

NoKid == [st |-> "none", owner |-> None, ignores |-> FALSE,
          hup |-> FALSE, report |-> FALSE,
          seen |-> FALSE,
          tin |-> <<>>, last |-> 0, wrote |-> 0, rcv |-> 0]

Init == /\ obj = [x \in Objects |-> [pid |-> NoPid, exit |-> Null,
                                     master |-> Closed, wbuf |-> <<>>]]
        /\ pc = [x \in Objects |-> "idle"]
        /\ written = [x \in Objects |-> 0]
        /\ kid = [c \in Kids |-> NoKid]

Forked == {c \in Kids : kid[c].st # "none"}
Idle(x) == pc[x] = "idle"

---------------------------------------------------------------------------
(* The kernel: waitpid, and what closing a master means for the child.      *)

\* What waitpid(pid, WNOHANG | WUNTRACED) can take; AnyPid stands for every
\* child of the program.
Waitable(p) == {c \in Forked : /\ p \in {c, AnyPid}
                               /\ kid[c].st = "dead" \/ (kid[c].st = "stop" /\ kid[c].report)}

\* DecodeExitCode: an exit status and a signal that ended the child are told
\* apart by the number only.
StatusOf(k) == IF k.st = "dead" THEN "ended" ELSE "stopped"

\* The kernel forgets what it kept for a child that has ended, its output apart.
Ended(k) == [NoKid EXCEPT !.st = "dead", !.owner = k.owner, !.seen = k.seen,
                          !.wrote = k.wrote, !.rcv = k.rcv]

TakenBy(x, k) == IF k.st = "dead" THEN [k EXCEPT !.st = "reaped", !.seen = FALSE]
                                  ELSE [k EXCEPT !.report = FALSE, !.seen = @ \/ x = k.owner]

\* The session leader of a pty that is hung up gets SIGHUP and SIGCONT; what
\* was in the queues is gone.
HungUpKid(k) == LET none == [k EXCEPT !.tin = <<>>, !.last = 0, !.wrote = 0, !.rcv = 0]
                IN  IF k.st \in Alive THEN [none EXCEPT !.hup = TRUE, !.st = "run", !.report = FALSE]
                                      ELSE none

AfterClose(m) == [c \in Kids |-> IF c = m THEN HungUpKid(kid[c]) ELSE kid[c]]

---------------------------------------------------------------------------
(* The object.                                                              *)

\* IsRunning of o = obj[x]: its answer, the object and the children after it.
Asks(o)    == o.pid # NoPid /\ o.exit = Null
Running(o) == Asks(o) /\ Waitable(o.pid) = {}
Polled(o)  == IF Asks(o) /\ Waitable(o.pid) # {}
              THEN [o EXCEPT !.exit = StatusOf(kid[o.pid])] ELSE o
PolledKids(x, o) == IF Asks(o) /\ Waitable(o.pid) # {}
                    THEN [kid EXCEPT ![o.pid] = TakenBy(x, @)] ELSE kid

\* Free closes the master, then waits once, without blocking, for the pid it
\* has.  exit_code and wbuffer stay as they are.
Reap(x, p) == IF Waitable(p) = {} THEN UNCHANGED kid
              ELSE \E c \in Waitable(p) : kid' = [kid EXCEPT ![c] = TakenBy(x, @)]

\* Write and the flush of Read: what the pty has room for goes to the child.
FlushOut(o) == IF o.master = Closed \/ kid[o.master].st \notin Alive THEN 0
               ELSE LET room == TtyRoom - Len(kid[o.master].tin)
                    IN  IF room < Len(o.wbuf) THEN room ELSE Len(o.wbuf)

\* A mutant: what the pty has taken stays in the buffer.
FlushedBuf_NotRemoved(o) == o.wbuf

FlushedBuf(o) == SubSeq(o.wbuf, FlushOut(o) + 1, Len(o.wbuf))

FlushedKids(ks, o) == IF FlushOut(o) = 0 THEN ks
                      ELSE [ks EXCEPT ![o.master].tin = @ \o SubSeq(o.wbuf, 1, FlushOut(o))]

\* Write: what the pty does not take waits in wbuffer.
Write(x) == /\ Idle(x)
            /\ \E n \in Lengths :
                 /\ written[x] + n <= MaxIn[x]
                 /\ written' = [written EXCEPT ![x] = @ + n]
            /\ LET o == [obj[x] EXCEPT !.wbuf = @ \o [i \in 1 .. written'[x] - written[x]
                                                        |-> written[x] + i]]
               IN  /\ obj' = [obj EXCEPT ![x] = [o EXCEPT !.wbuf = FlushedBuf(o)]]
                   /\ kid' = FlushedKids(kid, o)
            /\ UNCHANGED <<pc>>

\* IsRunning and GetExitCode
Poll(x) == /\ Idle(x) /\ obj' = [obj EXCEPT ![x] = Polled(@)]
           /\ kid' = PolledKids(x, obj[x])
           /\ UNCHANGED <<pc, written>>

\* A mutant: a read that comes back empty is taken for the end of the file.
Read_ClosesWhenIdle(x) ==
    /\ Idle(x)
    /\ LET ks   == PolledKids(x, obj[x])
           o    == Polled(obj[x])
           data == o.master # Closed /\ ks[o.master].rcv < ks[o.master].wrote
       IN  /\ kid' = IF data THEN [ks EXCEPT ![o.master].rcv = ks[o.master].wrote] ELSE ks
           /\ obj' = [obj EXCEPT ![x] = [o EXCEPT !.master = Closed]]
    /\ UNCHANGED <<pc, written>>

\* A mutant: a read that finds nothing does not flush.
Read_NoFlush(x) ==
    /\ Idle(x)
    /\ LET ks   == PolledKids(x, obj[x])
           o    == Polled(obj[x])
           data == o.master # Closed /\ ks[o.master].rcv < ks[o.master].wrote
       IN  /\ kid' = IF data THEN [ks EXCEPT ![o.master].rcv = ks[o.master].wrote] ELSE ks
           /\ obj' = [obj EXCEPT ![x] = o]
    /\ UNCHANGED <<pc, written>>

\* Read asks IsRunning first, then takes all there is; with nothing there it
\* flushes the input.  It closes the master when read() gives 0: from a pty that
\* no child holds any more this is so on some systems, on others it is EIO.
Read(x) ==
    /\ Idle(x)
    /\ LET ks   == PolledKids(x, obj[x])
           o    == Polled(obj[x])
           data == o.master # Closed /\ ks[o.master].rcv < ks[o.master].wrote
           gone == o.master # Closed /\ ks[o.master].st \notin Alive
       IN  \E eof \in {FALSE, gone} :
             LET p == IF eof THEN [o EXCEPT !.master = Closed] ELSE o
             IN  IF data
                 THEN /\ obj' = [obj EXCEPT ![x] = p]
                      /\ kid' = [ks EXCEPT ![o.master].rcv = ks[o.master].wrote]
                 ELSE /\ obj' = [obj EXCEPT ![x] = [p EXCEPT !.wbuf = FlushedBuf(p)]]
                      /\ kid' = FlushedKids(ks, p)
    /\ UNCHANGED <<pc, written>>

\* Kill, alone (and in the destructor) or at the head of Start: which of the two
\* it is shows when it returns.  When the child does not run any more only Free
\* is left.
KillBegin(x) ==
    /\ Idle(x)
    /\ LET o == obj[x] IN
       IF Running(o)
       THEN /\ pc' = [pc EXCEPT ![x] = "hangup"]
            /\ UNCHANGED <<obj, kid>>
       ELSE /\ obj' = [obj EXCEPT ![x] = Polled(o)]
            /\ kid' = PolledKids(x, o)
            /\ pc' = [pc EXCEPT ![x] = "free"]
    /\ UNCHANGED <<written>>

\* A mutant: no signal is sent.
KillHangup_NoSignal(x) ==
    /\ pc[x] = "hangup"
    /\ obj' = [obj EXCEPT ![x].exit = HungUp]
    /\ pc' = [pc EXCEPT ![x] = "wait"]
    /\ UNCHANGED <<written, kid>>

\* SIGHUP, and the exit code of a child that was killed.
KillHangup(x) ==
    /\ pc[x] = "hangup"
    /\ obj' = [obj EXCEPT ![x].exit = HungUp]
    /\ kid' = [kid EXCEPT ![obj[x].pid].hup = kid[obj[x].pid].st \in Alive]
    /\ pc' = [pc EXCEPT ![x] = "wait"]
    /\ UNCHANGED <<written>>

\* A mutant: the wait does not block.
KillWait_NoHang(x) ==
    /\ pc[x] = "wait"
    /\ IF kid[obj[x].pid].st = "dead"
       THEN /\ obj' = [obj EXCEPT ![x].exit = StatusOf(kid[obj[x].pid])]
            /\ kid' = [kid EXCEPT ![obj[x].pid] = TakenBy(x, @)]
       ELSE UNCHANGED <<obj, kid>>
    /\ pc' = [pc EXCEPT ![x] = "free"]
    /\ UNCHANGED written

\* waitpid without WNOHANG: it blocks until the child has ended, and fails when
\* another object has taken the child.
KillWait(x) ==
    /\ pc[x] = "wait" /\ kid[obj[x].pid].st \notin Alive
    /\ IF kid[obj[x].pid].st = "dead"
       THEN /\ obj' = [obj EXCEPT ![x].exit = StatusOf(kid[obj[x].pid])]
            /\ kid' = [kid EXCEPT ![obj[x].pid] = TakenBy(x, @)]
       ELSE UNCHANGED <<obj, kid>>
    /\ pc' = [pc EXCEPT ![x] = "free"]
    /\ UNCHANGED <<written>>

\* Free closes the master ...
KillClose(x) ==
    /\ pc[x] = "free"
    /\ kid' = AfterClose(obj[x].master)
    /\ obj' = [obj EXCEPT ![x].master = Closed]
    /\ pc' = [pc EXCEPT ![x] = "reap"]
    /\ UNCHANGED <<written>>

\* ... and waits once for the pid, without blocking.
KillReap(x) ==
    /\ pc[x] = "reap"
    /\ Reap(x, obj[x].pid)
    /\ obj' = [obj EXCEPT ![x].pid = NoPid]
    /\ \E next \in {"idle", "start"} : pc' = [pc EXCEPT ![x] = next]
    /\ UNCHANGED <<written>>

\* DoStart after its Kill: exit_code = Null, then the pty and the fork.
StartFork(x) ==
    /\ pc[x] = "start"
    /\ \E c \in Kids \ Forked, i \in {FALSE, (x \in Wild)} :
          /\ \A d \in Kids \ Forked : c <= d
          /\ kid' = [kid EXCEPT ![c] = [NoKid EXCEPT !.st = "run", !.owner = x, !.ignores = i]]
          /\ obj' = [obj EXCEPT ![x] = [@ EXCEPT !.pid = c, !.exit = Null, !.master = c]]
    /\ pc' = [pc EXCEPT ![x] = "idle"]
    /\ UNCHANGED <<written>>

\* The arguments, the path or the pty were no good: nothing is left to free.
StartFails(x) ==
    /\ pc[x] = "start"
    /\ obj' = [obj EXCEPT ![x].exit = Null]
    /\ pc' = [pc EXCEPT ![x] = "idle"]
    /\ UNCHANGED <<written, kid>>

\* fork failed: pid is -1 when Free waits for it.
ForkFails(x) ==
    /\ pc[x] = "start"
    /\ Reap(x, AnyPid)
    /\ obj' = [obj EXCEPT ![x].exit = Null]
    /\ pc' = [pc EXCEPT ![x] = "idle"]
    /\ UNCHANGED <<written>>

---------------------------------------------------------------------------
(* The children and the user who stops and continues them.                  *)
KidStep(c, k) == kid' = [kid EXCEPT ![c] = k] /\ UNCHANGED <<obj, pc, written>>

KidReads(c) == /\ kid[c].st = "run" /\ kid[c].tin # <<>>
               /\ KidStep(c, [kid[c] EXCEPT !.last = Head(kid[c].tin), !.tin = Tail(@)])

\* What a child writes after it was hung up nobody reads: it is not counted.
KidWrites(c) == /\ kid[c].st = "run" /\ kid[c].wrote < MaxOut[kid[c].owner]
                /\ ~kid[c].hup
                /\ KidStep(c, [kid[c] EXCEPT !.wrote = @ + 1])

KidEnds(c) == /\ kid[c].st = "run"
              /\ KidStep(c, Ended(kid[c]))

KidHup(c) == /\ kid[c].st = "run" /\ kid[c].hup /\ ~kid[c].ignores
             /\ KidStep(c, Ended(kid[c]))

KidStops(c) == /\ kid[c].st = "run" /\ kid[c].owner \in Wild
               /\ KidStep(c, [kid[c] EXCEPT !.st = "stop", !.report = TRUE])

KidContinues(c) == kid[c].st = "stop" /\ KidStep(c, [kid[c] EXCEPT !.st = "run", !.report = FALSE])

---------------------------------------------------------------------------
KillStep(x) == KillHangup(x) \/ KillWait(x) \/ KillClose(x) \/ KillReap(x)
StartStep(x) == StartFork(x) \/ StartFails(x) \/ ForkFails(x)

Next == \/ \E x \in Objects : \/ Write(x) \/ Poll(x) \/ Read(x)
                              \/ KillBegin(x)
                              \/ KillStep(x) \/ StartStep(x)
        \/ \E c \in Kids : \/ KidReads(c) \/ KidWrites(c) \/ KidEnds(c) \/ KidHup(c)
                           \/ KidStops(c) \/ KidContinues(c)

Spec == Init /\ [][Next]_vars

\* A call goes on once it is begun, the program reads its objects again and
\* again, and the kernel delivers a signal to a process that runs.
FairSpec == /\ Spec
            /\ \A x \in Objects : WF_vars(KillStep(x) \/ StartStep(x)) /\ WF_vars(Read(x))
            /\ \A c \in Kids : WF_vars(KidHup(c)) /\ WF_vars(KidReads(c))

---------------------------------------------------------------------------
\* Properties.

Objs == [pid : Kids \cup {NoPid}, exit : Codes, master : Kids \cup {Closed}, wbuf : Seq(Nat)]

KidStates == [st : {"none", "run", "stop", "dead", "reaped"}, owner : Objects \cup {None},
              ignores : BOOLEAN, hup : BOOLEAN, report : BOOLEAN, seen : BOOLEAN,
              tin : Seq(Nat), last : Nat, wrote : Nat, rcv : Nat]

TypeOK ==
    /\ obj \in [Objects -> Objs]
    /\ pc \in [Objects -> {"idle", "hangup", "wait", "free", "reap", "start"}]
    /\ written \in [Objects -> Nat]
    /\ kid \in [Kids -> KidStates]

\* Every child that was forked and not taken from the kernel is still the child
\* of its object, or was seen stopped and given up by it: no zombie is left
\* behind by Kill, Start or the destructor, whatever the child does between
\* their system calls.
ChildAccounted ==
    \A c \in Forked : kid[c].st # "reaped" => obj[kid[c].owner].pid = c \/ kid[c].seen

\* Output the child of an object has written stays within reach of Read as long
\* as the child is the object's, after its end too: Read closes the master only
\* when there is no more to come.
OutputKept ==
    \A x \in Objects : LET c == obj[x].pid IN
        Idle(x) /\ c # NoPid /\ kid[c].rcv < kid[c].wrote => obj[x].master = c

\* A child gets the bytes written to its object in the order of the writes, none
\* twice and none left out: what it has read, what waits in its pty and what
\* waits in wbuffer follow on each other, for as long as it is there to read.
InputInOrder ==
    \A c \in Forked : LET x  == kid[c].owner
                         in == kid[c].tin \o (IF obj[x].master = c THEN obj[x].wbuf ELSE <<>>)
                     IN  kid[c].st \in Alive =>
                           /\ \A i \in 2 .. Len(in) : in[i] = in[i - 1] + 1
                           /\ kid[c].last # 0 /\ in # <<>> => Head(in) = kid[c].last + 1

Unmoved(k) == k.ignores \/ k.st = "stop"

\* Kill ends, and with it Start and the destructor, unless the child ignores
\* SIGHUP or is stopped when the hangup comes.
KillReturns ==
    \A x \in Objects :
        ~Idle(x) ~> (Idle(x) \/ (obj[x].pid # NoPid /\ Unmoved(kid[obj[x].pid])))

Waits(x) == obj[x].wbuf # <<>> /\ obj[x].master # Closed /\ kid[obj[x].master].st = "run"

\* What Write could not put goes out with the calls of Read that follow, as long
\* as the child reads and the object is not killed.  (The output is bounded here;
\* Read does not flush while there is always some.)
InputFlushed ==
    \A x \in Objects : Waits(x) ~> (~Waits(x) \/ ~Idle(x))
---------------------------------------------------------------------------
\* The inductive invariant.

\* Whose child a pid is, and what is left of it in each place of Kill and Start.
PidInv ==
    /\ \A c \in Forked : kid[c].owner \in Objects
    /\ \A x \in Objects :
         /\ obj[x].pid # NoPid => obj[x].pid \in Forked /\ kid[obj[x].pid].owner = x
         /\ obj[x].master \in {Closed, obj[x].pid}
         /\ pc[x] \in {"hangup", "wait"} => obj[x].pid # NoPid
         /\ pc[x] = "reap" => obj[x].master = Closed
         /\ pc[x] = "start" => obj[x].pid = NoPid

GivenUp(k) == k.st = "reaped" \/ k.seen

\* An object that has an exit code, or frees its child, waited for it or saw it
\* stopped.
ExitInv ==
    \A x \in Objects :
        /\ obj[x].pid # NoPid
        /\ (Idle(x) /\ obj[x].exit # Null) \/ pc[x] \in {"free", "reap"}
        => GivenUp(kid[obj[x].pid])

\* The terminal of a child is closed only after its output, or by Kill.
OutInv ==
    /\ \A c \in Kids : kid[c].rcv <= kid[c].wrote
    /\ \A x \in Objects :
         obj[x].pid # NoPid /\ pc[x] # "reap" =>
            \/ obj[x].master = obj[x].pid
            \/ kid[obj[x].pid].st \notin Alive /\ kid[obj[x].pid].rcv = kid[obj[x].pid].wrote

\* The row s ends with the byte n.
EndsWith(s, n) == \A i \in 1 .. Len(s) : s[i] = n - Len(s) + i

\* The child c can read what is written to its object.
Reachable(c) == kid[c].st \in Alive /\ obj[kid[c].owner].master = c

\* What was written for the child c and not read is in its terminal and then in
\* wbuffer.
InputOf(c) ==
    LET x == kid[c].owner
        n == written[x] - Len(obj[x].wbuf)
    IN  IF Reachable(c)
        THEN /\ EndsWith(kid[c].tin, n) /\ Len(kid[c].tin) <= TtyRoom
             /\ kid[c].last # 0 => kid[c].last = n - Len(kid[c].tin)
        ELSE kid[c].tin = <<>> /\ kid[c].last = 0

InInv ==
    /\ \A x \in Objects : EndsWith(obj[x].wbuf, written[x]) /\ Len(obj[x].wbuf) <= written[x]
    /\ \A c \in Forked : InputOf(c)

PtyInv == TypeOK /\ PidInv /\ ExitInv /\ ChildAccounted /\ OutInv /\ InInv
=============================================================================
