----------------------------- MODULE JobWorker -----------------------------
(***************************************************************************)
(* Core/Job: a Job owns a JobWorker, which owns one worker thread.  Client   *)
(* threads call Do, Get (Pick, operator~), Cancel and the destructor; the    *)
(* worker thread runs JobWorker::Loop.                                       *)
(*                                                                           *)
(* Every step is one access the other threads can see: `status' and `cancel' *)
(* are atomics read and written with and without the mutex `lock', so each   *)
(* access is a step of its own.  A block a client runs under the mutex is    *)
(* one step when the other thread can only observe it under the mutex.       *)
(* A function is the number of the Do call that brought it.                  *)
(***************************************************************************)
EXTENDS Naturals, FiniteSets

CONSTANTS Clients,      \* threads that use the Job
          Owner,        \* the client that destroys it
          MaxJobs,      \* bound: calls of Do
          Spurious      \* TRUE: a condition variable may wake with no signal (POSIX)

ASSUME JobAssumption == /\ Owner \in Clients
                        /\ MaxJobs \in Nat
                        /\ Spurious \in BOOLEAN

Jobs   == 1 .. MaxJobs
NoJob  == 0
Free   == "free"        \* values of `lock': nobody, or the worker
Worker == "worker"

VARIABLES status,       \* IDLE, WORKING, SHUTDOWN
          cancel,
          lock,
          cb,           \* the stored function
          exc,          \* the function whose exception is stored
          ret,          \* the function whose value is stored
          wpc,          \* where the worker is in Loop
          pc,           \* where each client is
          op,           \* the call of Wait a client is in: get, cancel, destroy
          arg,          \* the function a client is starting
          issued,       \* calls of Do so far
          \* history, never read by the code:
          last,         \* the function accepted last
          finished,     \* the function completed last
          runs,         \* how often each function ran
          got,          \* the function whose result a client was given last
          missed        \* cv was signalled in the gap before cv.Wait

store  == <<cb, exc, ret>>
client == <<pc, op, arg, issued>>
hist   == <<last, finished, runs, got, missed>>
vars   == <<status, cancel, lock, store, wpc, client, hist>>

WorkerPC == {"init", "test", "test2", "sleepy", "sleep", "wake",
             "run", "done", "exit"}
ClientPC == {"idle", "start", "started", "signal",
             "wait", "waiting", "rethrow", "read",
             "shutdown", "shutsignal", "join", "gone"}
Ops      == {"get", "cancel", "destroy"}

Holding == {"test", "test2", "sleepy", "run", "done"}    \* with the mutex

TypeOK == /\ status \in {"IDLE", "WORKING", "SHUTDOWN"}
          /\ cancel \in BOOLEAN
          /\ lock \in {Free, Worker}
          /\ cb \in Jobs \cup {NoJob}
          /\ exc \in Jobs \cup {NoJob}
          /\ ret \in Jobs \cup {NoJob}
          /\ wpc \in WorkerPC
          /\ pc \in [Clients -> ClientPC]
          /\ op \in [Clients -> Ops]
          /\ arg \in [Clients -> Jobs \cup {NoJob}]
          /\ issued \in 0 .. MaxJobs
          /\ last \in Jobs \cup {NoJob}
          /\ finished \in Jobs \cup {NoJob}
          /\ runs \in [Jobs -> Nat]
          /\ got \in [Clients -> Jobs \cup {NoJob}]
          /\ missed \in BOOLEAN

\* The constructor: the thread is started and runs Loop on its own time.
Init == /\ status = "IDLE"
        /\ cancel = FALSE
        /\ lock = Free
        /\ cb = NoJob
        /\ exc = NoJob
        /\ ret = NoJob
        /\ wpc = "init"
        /\ pc = [c \in Clients |-> "idle"]
        /\ op = [c \in Clients |-> "get"]
        /\ arg = [c \in Clients |-> NoJob]
        /\ issued = 0
        /\ last = NoJob
        /\ finished = NoJob
        /\ runs = [j \in Jobs |-> 0]
        /\ got = [c \in Clients |-> NoJob]
        /\ missed = FALSE

---------------------------------------------------------------------------
\* Mutants of the signals: the call is forgotten.
SignalCvLost == wpc' = wpc
SignalWvLost == pc' = pc

\* ConditionVariable::Signal on cv: at most the worker waits there.
SignalCv == wpc' = IF wpc = "sleep" THEN "wake" ELSE wpc

\* ConditionVariable::Signal on wv wakes one of the waiting clients.
SignalWv == LET waiting == {c \in Clients : pc[c] = "waiting"} IN
            IF waiting = {} THEN pc' = pc
            ELSE \E c \in waiting : pc' = [pc EXCEPT ![c] = "wait"]

Goto(c, l) == pc' = [pc EXCEPT ![c] = l]

---------------------------------------------------------------------------
\* JobWorker::Start, called by Job::Do.

\* The worker is busy: Do returns false.
DoRefused(c) ==
    /\ pc[c] = "idle" /\ issued < MaxJobs /\ status = "WORKING"
    /\ issued' = issued + 1
    /\ UNCHANGED <<status, cancel, lock, store, wpc, pc, op, arg, hist>>

\* Mutant: the check Is(WORKING) is dropped.
DoUnchecked(c) ==
    /\ pc[c] = "idle" /\ issued < MaxJobs
    /\ issued' = issued + 1
    /\ arg' = [arg EXCEPT ![c] = issued + 1]
    /\ Goto(c, "start")
    /\ UNCHANGED <<status, cancel, lock, store, wpc, op, hist>>

\* The check Is(WORKING) is passed, before the mutex is taken.
DoAdmitted(c) ==
    /\ pc[c] = "idle" /\ issued < MaxJobs /\ status # "WORKING"
    /\ issued' = issued + 1
    /\ arg' = [arg EXCEPT ![c] = issued + 1]
    /\ Goto(c, "start")
    /\ UNCHANGED <<status, cancel, lock, store, wpc, op, hist>>

\* Mutant: the exception of the function before is kept.
StartSetKeepsExc(c) ==
    /\ pc[c] = "start" /\ lock = Free
    /\ cb' = arg[c] /\ cancel' = FALSE
    /\ Goto(c, "started")
    /\ UNCHANGED <<status, lock, exc, ret, wpc, op, arg, issued, hist>>

\* Between lock.Enter and lock.Leave.
StartSet(c) ==
    /\ pc[c] = "start" /\ lock = Free
    /\ cb' = arg[c] /\ exc' = NoJob /\ cancel' = FALSE
    /\ Goto(c, "started")
    /\ UNCHANGED <<status, lock, ret, wpc, op, arg, issued, hist>>

\* status = WORKING, after the mutex is released.
StartStatus(c) ==
    /\ pc[c] = "started"
    /\ status' = "WORKING" /\ last' = arg[c]
    /\ Goto(c, "signal")
    /\ UNCHANGED <<cancel, lock, store, wpc, op, arg, issued, finished, runs, got, missed>>

\* cv.Signal(), and Do returns true.
StartSignal(c) ==
    /\ pc[c] = "signal"
    /\ SignalCv
    /\ missed' = (missed \/ (status = "WORKING" /\ wpc \in {"test2", "sleepy"}))
    /\ Goto(c, "idle")
    /\ UNCHANGED <<status, cancel, lock, store, op, arg, issued, last, finished, runs, got>>

---------------------------------------------------------------------------
\* JobWorker::Wait and its callers.

Get(c) ==
    /\ pc[c] = "idle"
    /\ Goto(c, "wait") /\ op' = [op EXCEPT ![c] = "get"]
    /\ UNCHANGED <<status, cancel, lock, store, wpc, arg, issued, hist>>

Cancel(c) ==
    /\ pc[c] = "idle"
    /\ cancel' = TRUE
    /\ Goto(c, "wait") /\ op' = [op EXCEPT ![c] = "cancel"]
    /\ UNCHANGED <<status, lock, store, wpc, arg, issued, hist>>

\* Mutant: the destructor does not wait for the function under way.
DestroyAtOnce ==
    /\ \A c \in Clients : pc[c] = "idle"
    /\ cancel' = TRUE
    /\ pc' = [c \in Clients |-> IF c = Owner THEN "shutdown" ELSE "gone"]
    /\ op' = [op EXCEPT ![Owner] = "destroy"]
    /\ UNCHANGED <<status, lock, store, wpc, arg, issued, hist>>

\* ~JobWorker: nobody else may still use the object.
Destroy ==
    /\ \A c \in Clients : pc[c] = "idle"
    /\ cancel' = TRUE
    /\ pc' = [c \in Clients |-> IF c = Owner THEN "wait" ELSE "gone"]
    /\ op' = [op EXCEPT ![Owner] = "destroy"]
    /\ UNCHANGED <<status, lock, store, wpc, arg, issued, hist>>

\* Wait: take the mutex and test; wv.Wait releases it and sleeps atomically.
WaitTest(c) ==
    /\ pc[c] = "wait" /\ lock = Free
    /\ Goto(c, IF status = "WORKING" THEN "waiting"
               ELSE IF op[c] = "destroy" THEN "shutdown" ELSE "rethrow")
    /\ UNCHANGED <<status, cancel, lock, store, wpc, op, arg, issued, hist>>

\* Mutant: `if' instead of `while' around wv.Wait.
SpuriousClientIf(c) ==
    /\ Spurious /\ pc[c] = "waiting" /\ lock = Free
    /\ Goto(c, IF op[c] = "destroy" THEN "shutdown" ELSE "rethrow")
    /\ UNCHANGED <<status, cancel, lock, store, wpc, op, arg, issued, hist>>

\* wv.Wait may return with no signal; the loop tests again.
SpuriousClient(c) ==
    /\ Spurious /\ pc[c] = "waiting"
    /\ Goto(c, "wait")
    /\ UNCHANGED <<status, cancel, lock, store, wpc, op, arg, issued, hist>>

\* Rethrow finds no exception: Get goes on to read ret, Cancel returns.
RethrowNone(c) ==
    /\ pc[c] = "rethrow" /\ lock = Free /\ exc = NoJob
    /\ Goto(c, IF op[c] = "get" THEN "read" ELSE "idle")
    /\ UNCHANGED <<status, cancel, lock, store, wpc, op, arg, issued, hist>>

\* Rethrow throws the stored exception to the client and keeps it stored.
RethrowThrow(c) ==
    /\ pc[c] = "rethrow" /\ lock = Free /\ exc # NoJob
    /\ got' = [got EXCEPT ![c] = exc]
    /\ Goto(c, "idle")
    /\ UNCHANGED <<status, cancel, lock, store, wpc, op, arg, issued, last, finished, runs, missed>>

\* Result::Get: return ret, with no mutex.
ReadRet(c) ==
    /\ pc[c] = "read"
    /\ got' = [got EXCEPT ![c] = ret]
    /\ Goto(c, "idle")
    /\ UNCHANGED <<status, cancel, lock, store, wpc, op, arg, issued, last, finished, runs, missed>>

\* ~JobWorker: status = SHUTDOWN, with no mutex.
SetShutdown ==
    /\ pc[Owner] = "shutdown"
    /\ status' = "SHUTDOWN"
    /\ Goto(Owner, "shutsignal")
    /\ UNCHANGED <<cancel, lock, store, wpc, op, arg, issued, hist>>

ShutSignal ==
    /\ pc[Owner] = "shutsignal"
    /\ SignalCv
    /\ missed' = (missed \/ wpc = "sleepy")
    /\ Goto(Owner, "join")
    /\ UNCHANGED <<status, cancel, lock, store, op, arg, issued, last, finished, runs, got>>

\* ~JobWorker: work.Wait() joins the worker thread.
Join ==
    /\ pc[Owner] = "join" /\ wpc = "exit"
    /\ Goto(Owner, "gone")
    /\ UNCHANGED <<status, cancel, lock, store, wpc, op, arg, issued, hist>>

---------------------------------------------------------------------------
\* JobWorker::Loop.

\* The worker thread takes the mutex: at the start of Loop, or inside cv.Wait.
WorkerLock ==
    /\ wpc \in {"init", "wake"} /\ lock = Free
    /\ lock' = Worker /\ wpc' = "test"
    /\ UNCHANGED <<status, cancel, store, client, hist>>

\* Mutant: the flag is reset when the function is picked up.
TestWorkingResets ==
    /\ wpc = "test"
    /\ wpc' = IF status = "WORKING" THEN "run" ELSE "test2"
    /\ cancel' = (cancel /\ status # "WORKING")
    /\ UNCHANGED <<status, lock, store, client, hist>>

\* while(!Is(WORKING))
TestWorking ==
    /\ wpc = "test"
    /\ wpc' = IF status = "WORKING" THEN "run" ELSE "test2"
    /\ UNCHANGED <<status, cancel, lock, store, client, hist>>

\* if(Is(SHUTDOWN)) return;  the guard releases the mutex.
TestShutdown ==
    /\ wpc = "test2"
    /\ IF status = "SHUTDOWN" THEN wpc' = "exit" /\ lock' = Free
                              ELSE wpc' = "sleepy" /\ lock' = lock
    /\ UNCHANGED <<status, cancel, store, client, hist>>

\* cv.Wait(lock): release the mutex and sleep atomically.
WorkerSleep ==
    /\ wpc = "sleepy"
    /\ lock' = Free /\ wpc' = "sleep"
    /\ UNCHANGED <<status, cancel, store, client, hist>>

SpuriousWorker ==
    /\ Spurious /\ wpc = "sleep"
    /\ wpc' = "wake"
    /\ UNCHANGED <<status, cancel, lock, store, client, hist>>

\* cb() ends, run with the mutex held: it returned a value or it threw.
RunEnds ==
    /\ wpc = "run"
    /\ \/ ret' = cb /\ exc' = exc
       \/ exc' = cb /\ ret' = ret
    /\ runs' = [runs EXCEPT ![cb] = @ + 1]
    /\ wpc' = "done"
    /\ UNCHANGED <<status, cancel, lock, cb, client, last, finished, got, missed>>

\* cancel = false; status = IDLE; wv.Signal();  one step: a thread that does
\* not need the mutex reads only one of them, and sets `cancel' to no effect.
Finish ==
    /\ wpc = "done"
    /\ cancel' = FALSE /\ status' = "IDLE" /\ finished' = cb
    /\ SignalWv
    /\ wpc' = "test"
    /\ UNCHANGED <<lock, store, op, arg, issued, last, runs, got, missed>>

---------------------------------------------------------------------------
WorkerStep == WorkerLock \/ TestWorking \/ TestShutdown \/ WorkerSleep \/ RunEnds \/ Finish

Call(c) == DoRefused(c) \/ DoAdmitted(c) \/ Get(c) \/ Cancel(c)

\* The steps that carry a call a client has made to its return.
ClientStep(c) == \/ StartSet(c) \/ StartStatus(c) \/ StartSignal(c)
                 \/ WaitTest(c) \/ RethrowNone(c) \/ RethrowThrow(c) \/ ReadRet(c)

OwnerStep == SetShutdown \/ ShutSignal \/ Join

\* The Job is destroyed: nothing is left to do.
Destroyed == pc[Owner] = "gone" /\ UNCHANGED vars

Next == \/ WorkerStep
        \/ SpuriousWorker
        \/ \E c \in Clients : Call(c) \/ ClientStep(c) \/ SpuriousClient(c)
        \/ Destroy
        \/ OwnerStep
        \/ Destroyed

Spec == Init /\ [][Next]_vars

\* Threads are scheduled, the functions end, and a thread that finds the mutex
\* free again and again gets it.
FairSpec == /\ Spec
            /\ WF_vars(WorkerStep)
            /\ WF_vars(OwnerStep)
            /\ \A c \in Clients : SF_vars(ClientStep(c))

---------------------------------------------------------------------------
\* Properties.

CallbackKept == wpc \in {"run", "done"} => cb' = cb /\ exc' \in {exc, cb}

\* Loop runs a function with `lock' held, so no Start of any client replaces
\* the function, and none clears its exception, while it runs.
CallbackStable == [][CallbackKept]_vars

\* One owner thread: what Get and Cancel find after Wait is the exception or
\* the value of the function accepted last, and that one ran exactly once;
\* neither an older value nor an exception left over from an older function.
ResultOfLastJob ==
    \A c \in Clients : pc[c] \in {"rethrow", "read"} /\ last # NoJob
        => /\ runs[last] = 1
           /\ IF exc # NoJob THEN exc = last ELSE ret = last

\* One owner thread: `ret' is read without the mutex, so no function may be
\* about to write it or be running then.
NoRetRace == \A c \in Clients : pc[c] = "read" => wpc # "run" /\ status # "WORKING"

\* One owner thread: while Cancel or the destructor waits, a function that is
\* running can see the request (Start and the end of an older function both
\* reset the flag).
CancelStands ==
    \A c \in Clients : /\ pc[c] \in {"wait", "waiting"}
                       /\ op[c] \in {"cancel", "destroy"}
                       /\ wpc = "run"
                       => cancel

\* One owner thread: when the destructor is done the worker thread has ended
\* and no accepted function was dropped or run twice.
DestroyDrains ==
    pc[Owner] = "gone" => /\ wpc = "exit" /\ lock = Free
                          /\ \A j \in Jobs : runs[j] <= 1
                          /\ last # NoJob => finished = last /\ runs[last] = 1

\* Get and Cancel return (Upp_Job docs: Get "waits for the work to be finished
\* (if necessary), then returns the result").
WaitReturns ==
    \A c \in Clients : pc[c] = "wait" /\ op[c] # "destroy" ~> pc[c] = "idle"

\* One owner thread: with spurious wakeups and whatever was started, only a
\* signal of cv that fell between the tests of status and cv.Wait can keep Get
\* and Cancel from returning, ...
GetReturns ==
    \A c \in Clients : pc[c] = "wait" /\ op[c] # "destroy" ~> pc[c] = "idle" \/ missed

\* ... or the destructor (Upp_Job docs: it "waits for the worker to join"), ...
DestroyReturns ==
    pc[Owner] = "wait" /\ op[Owner] = "destroy" ~> pc[Owner] = "gone" \/ missed

\* ... or a function whose Do was answered true from being run.
AcceptedRuns == \A j \in Jobs : last = j ~> runs[j] > 0 \/ missed

---------------------------------------------------------------------------
\* The inductive invariants.

\* Any number of clients: the worker holds the mutex exactly in these places.
LockInv == lock = Worker <=> wpc \in Holding

\* One owner thread, at p: functions are accepted in the order of their Do
\* calls, and each stage of the accepted one fixes what the worker has done.
OrderInv ==
    LET p == pc[Owner] IN
    /\ finished <= last /\ last <= issued
    /\ \A j \in Jobs : runs[j] <= 1 /\ (j > last => runs[j] = 0)
    /\ p \in {"start", "started"} => last < arg[Owner] /\ arg[Owner] <= issued

\* Where the owner can be in each status, and the worker's end.
PlaceInv ==
    LET p == pc[Owner] IN
    /\ status = "WORKING" => p \notin {"start", "started", "rethrow", "read", "shutdown"}
    /\ status = "SHUTDOWN" <=> p \in {"shutsignal", "join", "gone"}
    /\ wpc \in {"run", "done"} => status = "WORKING"
    /\ wpc = "exit" => status = "SHUTDOWN"
    /\ p = "gone" => wpc = "exit"
    /\ p \in {"wait", "waiting"} /\ op[Owner] # "get" /\ status = "WORKING" => cancel
    /\ p = "rethrow" => op[Owner] # "destroy"

\* The value or the exception stored is the one of the function j.
Holds(j) == exc = j \/ (exc = NoJob /\ ret = j)

\* What is stored, while a function is under way and while none is.
ResultInv ==
    LET p == pc[Owner] IN
    /\ status = "WORKING" =>
         /\ last \in Jobs /\ cb = last
         /\ IF wpc = "done" THEN runs[last] = 1 /\ Holds(last)
                            ELSE runs[last] = 0 /\ exc = NoJob
    /\ status # "WORKING" =>
         /\ finished = last
         /\ last # NoJob => runs[last] = 1 /\ (p # "started" => Holds(last))
         /\ last = NoJob => exc = NoJob /\ ret = NoJob
    /\ p = "started" => cb = arg[Owner] /\ exc = NoJob
    /\ p = "read" => exc = NoJob

\* One owner thread: all of the above, kept by every step.
IInv == TypeOK /\ LockInv /\ OrderInv /\ PlaceInv /\ ResultInv

---------------------------------------------------------------------------
\* The slot the owner sees: a function is pending from status = WORKING to
\* status = IDLE.
Slot == INSTANCE JobSpec WITH
            pending  <- IF status = "WORKING" THEN last ELSE NoJob,
            finished <- finished,
            got      <- got[Owner],
            down     <- status = "SHUTDOWN"

\* One owner thread: the worker implements the slot.
ImplementsSlot == Slot!JobSpecification
=============================================================================
