-------------------------- MODULE JobWorkerProofs --------------------------
(***************************************************************************)
(* Theorems about JobWorker, for every number of Do calls.  Type correctness *)
(* and the two theorems about the mutex hold for every set of client         *)
(* threads; the others are about a Job that one thread owns and uses.        *)
(***************************************************************************)
EXTENDS JobWorker, TLAPS

\* Every variable keeps its type, whatever the threads do.
THEOREM TypeCorrect == Spec => []TypeOK
<1> USE JobAssumption DEF JobAssumption, TypeOK, Jobs, NoJob, Free, Worker, WorkerPC, ClientPC, Ops
<1>1. ASSUME Init PROVE TypeOK
  <2>1. issued \in 0 .. MaxJobs /\ runs \in [Jobs -> Nat]
    BY <1>1 DEF Init
  <2>2. cancel \in BOOLEAN /\ wpc \in WorkerPC
    BY <1>1 DEF Init
  <2> QED BY <1>1, <2>1, <2>2 DEF Init
<1>2. TypeOK /\ [Next]_vars => TypeOK'
  <2> SUFFICES ASSUME TypeOK, [Next]_vars PROVE TypeOK'
    OBVIOUS
  <2> USE DEF store, client, hist, Goto
  <2>1. ASSUME WorkerStep PROVE TypeOK'
    <3>1. CASE WorkerLock \/ TestWorking \/ TestShutdown \/ WorkerSleep
      BY <3>1 DEF WorkerLock, TestWorking, TestShutdown, WorkerSleep
    <3>2. CASE RunEnds
      <4>1. runs' = [runs EXCEPT ![cb] = runs[cb] + 1]
        BY <3>2 DEF RunEnds
      <4>2. runs' \in [Jobs -> Nat]
        <5>1. CASE cb \in Jobs
          BY <4>1, <5>1
        <5>2. CASE cb \notin Jobs
          BY <4>1, <5>2
        <5> QED BY <5>1, <5>2
      <4>3. exc' \in Jobs \cup {NoJob} /\ ret' \in Jobs \cup {NoJob}
        BY <3>2 DEF RunEnds
      <4> QED BY <3>2, <4>2, <4>3 DEF RunEnds
    <3>3. CASE Finish
      <4>1. pc' \in [Clients -> ClientPC]
        BY <3>3 DEF Finish, SignalWv
      <4> QED BY <3>3, <4>1 DEF Finish
    <3> QED BY <2>1, <3>1, <3>2, <3>3 DEF WorkerStep
  <2>2. CASE SpuriousWorker
    BY <2>2 DEF SpuriousWorker
  <2>3. ASSUME NEW c \in Clients, Call(c) PROVE TypeOK'
    <3>1. CASE DoRefused(c)
      BY <3>1 DEF DoRefused
    <3>2. CASE DoAdmitted(c)
      BY <3>2 DEF DoAdmitted
    <3>3. CASE Get(c) \/ Cancel(c)
      BY <3>3 DEF Get, Cancel
    <3> QED BY <2>3, <3>1, <3>2, <3>3 DEF Call
  <2>4. ASSUME NEW c \in Clients, ClientStep(c) PROVE TypeOK'
    <3>1. CASE StartSet(c)
      BY <3>1 DEF StartSet
    <3>2. CASE StartStatus(c)
      BY <3>2 DEF StartStatus
    <3>3. CASE StartSignal(c)
      BY <3>3 DEF StartSignal, SignalCv
    <3>4. CASE WaitTest(c)
      BY <3>4 DEF WaitTest
    <3>5. CASE RethrowNone(c)
      BY <3>5 DEF RethrowNone
    <3>6. CASE RethrowThrow(c)
      BY <3>6 DEF RethrowThrow
    <3>7. CASE ReadRet(c)
      BY <3>7 DEF ReadRet
    <3> QED BY <2>4, <3>1, <3>2, <3>3, <3>4, <3>5, <3>6, <3>7 DEF ClientStep
  <2>5. ASSUME NEW c \in Clients, SpuriousClient(c) PROVE TypeOK'
    BY <2>5 DEF SpuriousClient
  <2>6. CASE Destroy
    BY <2>6 DEF Destroy
  <2>7. CASE OwnerStep
    BY <2>7 DEF OwnerStep, SetShutdown, ShutSignal, Join, SignalCv
  <2>8. CASE Destroyed \/ UNCHANGED vars
    <3>1. UNCHANGED vars
      BY <2>8 DEF Destroyed
    <3> QED BY <3>1 DEF vars, store, client, hist
  <2> QED BY <2>1, <2>2, <2>3, <2>4, <2>5, <2>6, <2>7, <2>8 DEF Next
<1> QED BY <1>1, <1>2, PTL DEF Spec

\* The worker holds `lock' exactly from its waking in Loop to its sleeping or
\* leaving, and no client keeps it across a step.
THEOREM LockHeld == Spec => []LockInv
<1> USE DEF LockInv, Holding, Free, Worker
<1>1. ASSUME Init PROVE LockInv
  BY <1>1 DEF Init
<1>2. ASSUME LockInv, [Next]_vars PROVE LockInv'
  <2> USE <1>2 DEF store, client, hist
  <2>1. CASE WorkerStep
    BY <2>1 DEF WorkerStep, WorkerLock, TestWorking, TestShutdown, WorkerSleep,
                RunEnds, Finish
  <2>2. CASE SpuriousWorker
    BY <2>2 DEF SpuriousWorker
  <2>3. ASSUME NEW c \in Clients, Call(c) PROVE LockInv'
    BY <2>3 DEF Call, DoRefused, DoAdmitted, Get, Cancel
  <2>4. ASSUME NEW c \in Clients, ClientStep(c) PROVE LockInv'
    BY <2>4 DEF ClientStep, StartSet, StartStatus, StartSignal, SignalCv, WaitTest,
                RethrowNone, RethrowThrow, ReadRet
  <2>5. ASSUME NEW c \in Clients, SpuriousClient(c) PROVE LockInv'
    BY <2>5 DEF SpuriousClient
  <2>6. CASE Destroy \/ OwnerStep
    BY <2>6 DEF Destroy, OwnerStep, SetShutdown, ShutSignal, SignalCv, Join
  <2>7. CASE Destroyed \/ UNCHANGED vars
    BY <2>7 DEF Destroyed, vars
  <2> QED BY <2>1, <2>2, <2>3, <2>4, <2>5, <2>6, <2>7 DEF Next
<1> QED BY <1>1, <1>2, PTL DEF Spec

\* While Loop runs a function, no Start of any client replaces the function or
\* clears its exception: only StartSet writes them, and it needs the mutex.
THEOREM CallbackIsStable == Spec => CallbackStable
<1>1. ASSUME LockInv, [Next]_vars PROVE CallbackKept
  <2> SUFFICES ASSUME wpc \in {"run", "done"} PROVE cb' = cb /\ exc' \in {exc, cb}
    BY DEF CallbackKept
  <2> USE <1>1 DEF store, client, hist
  <2>1. lock # Free
    BY DEF LockInv, Holding, Free, Worker
  <2>2. CASE WorkerStep
    BY <2>2 DEF WorkerStep, WorkerLock, TestWorking, TestShutdown, WorkerSleep,
                RunEnds, Finish
  <2>3. CASE SpuriousWorker
    BY <2>3 DEF SpuriousWorker
  <2>4. ASSUME NEW c \in Clients, Call(c) \/ ClientStep(c) \/ SpuriousClient(c)
        PROVE cb' = cb /\ exc' \in {exc, cb}
    BY <2>1, <2>4 DEF Call, DoRefused, DoAdmitted, Get, Cancel, ClientStep, StartSet,
                StartStatus, StartSignal, WaitTest, RethrowNone, RethrowThrow, ReadRet,
                SpuriousClient
  <2>5. CASE Destroy \/ OwnerStep
    BY <2>5 DEF Destroy, OwnerStep, SetShutdown, ShutSignal, Join
  <2>6. CASE Destroyed \/ UNCHANGED vars
    BY <2>6 DEF Destroyed, vars
  <2> QED BY <2>2, <2>3, <2>4, <2>5, <2>6 DEF Next
<1> QED BY <1>1, LockHeld, PTL DEF Spec, CallbackStable

\* Function numbers keep the order of their calls, and a function runs once.
LEMMA OrderStep == ASSUME Clients = {Owner}, IInv, [Next]_vars PROVE OrderInv'
<1> USE JobAssumption DEF JobAssumption, IInv, TypeOK, LockInv, OrderInv, PlaceInv, ResultInv, Holds, Holding,
        Jobs, NoJob, Free, Worker, WorkerPC, ClientPC, Ops, store, client, hist, Goto
<1>1. CASE WorkerLock
  BY <1>1 DEF WorkerLock
<1>2. CASE TestWorking
  BY <1>2 DEF TestWorking
<1>3. CASE TestShutdown
  BY <1>3 DEF TestShutdown
<1>4. CASE WorkerSleep
  BY <1>4 DEF WorkerSleep
<1>5. CASE RunEnds
  BY <1>5 DEF RunEnds
<1>6. CASE Finish
  BY <1>6 DEF Finish, SignalWv
<1>7. CASE SpuriousWorker
  BY <1>7 DEF SpuriousWorker
<1>8. CASE Destroy
  BY <1>8 DEF Destroy
<1>9. CASE SetShutdown
  BY <1>9 DEF SetShutdown
<1>10. CASE ShutSignal
  BY <1>10 DEF ShutSignal, SignalCv
<1>11. CASE Join
  BY <1>11 DEF Join
<1>12. CASE DoRefused(Owner)
  BY <1>12 DEF DoRefused
<1>13. CASE DoAdmitted(Owner)
  BY <1>13 DEF DoAdmitted
<1>14. CASE Get(Owner)
  BY <1>14 DEF Get
<1>15. CASE Cancel(Owner)
  BY <1>15 DEF Cancel
<1>16. CASE StartSet(Owner)
  BY <1>16 DEF StartSet
<1>17. CASE StartStatus(Owner)
  BY <1>17 DEF StartStatus
<1>18. CASE StartSignal(Owner)
  BY <1>18 DEF StartSignal, SignalCv
<1>19. CASE WaitTest(Owner)
  BY <1>19 DEF WaitTest
<1>20. CASE RethrowNone(Owner)
  BY <1>20 DEF RethrowNone
<1>21. CASE RethrowThrow(Owner)
  BY <1>21 DEF RethrowThrow
<1>22. CASE ReadRet(Owner)
  BY <1>22 DEF ReadRet
<1>23. CASE SpuriousClient(Owner)
  BY <1>23 DEF SpuriousClient
<1>24. CASE UNCHANGED vars
  BY <1>24 DEF vars
<1> QED
  BY <1>1, <1>2, <1>3, <1>4, <1>5, <1>6, <1>7, <1>8, <1>9, <1>10, <1>11, <1>12,
     <1>13, <1>14, <1>15, <1>16, <1>17, <1>18, <1>19, <1>20, <1>21, <1>22, <1>23, <1>24
  DEF Next, WorkerStep, Call, ClientStep, OwnerStep, Destroyed

\* The owner's place, the status and the worker's place stay in agreement.
LEMMA PlaceStep == ASSUME Clients = {Owner}, IInv, [Next]_vars PROVE PlaceInv'
<1> USE JobAssumption DEF JobAssumption, IInv, TypeOK, LockInv, OrderInv, PlaceInv, ResultInv, Holds, Holding,
        Jobs, NoJob, Free, Worker, WorkerPC, ClientPC, Ops, store, client, hist, Goto
<1>1. CASE WorkerLock
  BY <1>1 DEF WorkerLock
<1>2. CASE TestWorking
  BY <1>2 DEF TestWorking
<1>3. CASE TestShutdown
  BY <1>3 DEF TestShutdown
<1>4. CASE WorkerSleep
  BY <1>4 DEF WorkerSleep
<1>5. CASE RunEnds
  BY <1>5 DEF RunEnds
<1>6. CASE Finish
  BY <1>6 DEF Finish, SignalWv
<1>7. CASE SpuriousWorker
  BY <1>7 DEF SpuriousWorker
<1>8. CASE Destroy
  BY <1>8 DEF Destroy
<1>9. CASE SetShutdown
  BY <1>9 DEF SetShutdown
<1>10. CASE ShutSignal
  BY <1>10 DEF ShutSignal, SignalCv
<1>11. CASE Join
  BY <1>11 DEF Join
<1>12. CASE DoRefused(Owner)
  BY <1>12 DEF DoRefused
<1>13. CASE DoAdmitted(Owner)
  BY <1>13 DEF DoAdmitted
<1>14. CASE Get(Owner)
  BY <1>14 DEF Get
<1>15. CASE Cancel(Owner)
  BY <1>15 DEF Cancel
<1>16. CASE StartSet(Owner)
  BY <1>16 DEF StartSet
<1>17. CASE StartStatus(Owner)
  BY <1>17 DEF StartStatus
<1>18. CASE StartSignal(Owner)
  BY <1>18 DEF StartSignal, SignalCv
<1>19. CASE WaitTest(Owner)
  BY <1>19 DEF WaitTest
<1>20. CASE RethrowNone(Owner)
  BY <1>20 DEF RethrowNone
<1>21. CASE RethrowThrow(Owner)
  BY <1>21 DEF RethrowThrow
<1>22. CASE ReadRet(Owner)
  BY <1>22 DEF ReadRet
<1>23. CASE SpuriousClient(Owner)
  BY <1>23 DEF SpuriousClient
<1>24. CASE UNCHANGED vars
  BY <1>24 DEF vars
<1> QED
  BY <1>1, <1>2, <1>3, <1>4, <1>5, <1>6, <1>7, <1>8, <1>9, <1>10, <1>11, <1>12,
     <1>13, <1>14, <1>15, <1>16, <1>17, <1>18, <1>19, <1>20, <1>21, <1>22, <1>23, <1>24
  DEF Next, WorkerStep, Call, ClientStep, OwnerStep, Destroyed

\* What is stored stays the result of the function accepted last.
LEMMA ResultStep == ASSUME Clients = {Owner}, IInv, [Next]_vars PROVE ResultInv'
<1> USE JobAssumption DEF JobAssumption, IInv, TypeOK, LockInv, OrderInv, PlaceInv, ResultInv, Holds, Holding,
        Jobs, NoJob, Free, Worker, WorkerPC, ClientPC, Ops, store, client, hist, Goto
<1>1. CASE WorkerLock
  BY <1>1 DEF WorkerLock
<1>2. CASE TestWorking
  BY <1>2 DEF TestWorking
<1>3. CASE TestShutdown
  BY <1>3 DEF TestShutdown
<1>4. CASE WorkerSleep
  BY <1>4 DEF WorkerSleep
<1>5. CASE RunEnds
  BY <1>5 DEF RunEnds
<1>6. CASE Finish
  BY <1>6 DEF Finish, SignalWv
<1>7. CASE SpuriousWorker
  BY <1>7 DEF SpuriousWorker
<1>8. CASE Destroy
  BY <1>8 DEF Destroy
<1>9. CASE SetShutdown
  BY <1>9 DEF SetShutdown
<1>10. CASE ShutSignal
  BY <1>10 DEF ShutSignal, SignalCv
<1>11. CASE Join
  BY <1>11 DEF Join
<1>12. CASE DoRefused(Owner)
  BY <1>12 DEF DoRefused
<1>13. CASE DoAdmitted(Owner)
  BY <1>13 DEF DoAdmitted
<1>14. CASE Get(Owner)
  BY <1>14 DEF Get
<1>15. CASE Cancel(Owner)
  BY <1>15 DEF Cancel
<1>16. CASE StartSet(Owner)
  BY <1>16 DEF StartSet
<1>17. CASE StartStatus(Owner)
  BY <1>17 DEF StartStatus
<1>18. CASE StartSignal(Owner)
  BY <1>18 DEF StartSignal, SignalCv
<1>19. CASE WaitTest(Owner)
  BY <1>19 DEF WaitTest
<1>20. CASE RethrowNone(Owner)
  BY <1>20 DEF RethrowNone
<1>21. CASE RethrowThrow(Owner)
  BY <1>21 DEF RethrowThrow
<1>22. CASE ReadRet(Owner)
  BY <1>22 DEF ReadRet
<1>23. CASE SpuriousClient(Owner)
  BY <1>23 DEF SpuriousClient
<1>24. CASE UNCHANGED vars
  BY <1>24 DEF vars
<1> QED
  BY <1>1, <1>2, <1>3, <1>4, <1>5, <1>6, <1>7, <1>8, <1>9, <1>10, <1>11, <1>12,
     <1>13, <1>14, <1>15, <1>16, <1>17, <1>18, <1>19, <1>20, <1>21, <1>22, <1>23, <1>24
  DEF Next, WorkerStep, Call, ClientStep, OwnerStep, Destroyed

\* One owner thread: the stages of an accepted function are an invariant.
THEOREM OwnerInvariant == ASSUME Clients = {Owner} PROVE Spec => []IInv
<1>1. ASSUME Init PROVE OrderInv /\ PlaceInv /\ ResultInv
  <2> USE <1>1, JobAssumption DEF JobAssumption, Init, Jobs, NoJob
  <2>1. OrderInv
    BY DEF OrderInv
  <2>2. PlaceInv
    BY DEF PlaceInv
  <2>3. ResultInv
    BY DEF ResultInv
  <2> QED BY <2>1, <2>2, <2>3
<1>2. ASSUME IInv, [Next]_vars PROVE OrderInv' /\ PlaceInv' /\ ResultInv'
  BY <1>2, OrderStep, PlaceStep, ResultStep
<1> QED BY <1>1, <1>2, TypeCorrect, LockHeld, PTL DEF Spec, IInv

\* One owner thread: what Get and Cancel find is the result of the function
\* accepted last, which ran exactly once.
THEOREM ResultIsLast == ASSUME Clients = {Owner} PROVE Spec => []ResultOfLastJob
<1>1. ASSUME IInv PROVE ResultOfLastJob
  BY <1>1 DEF IInv, PlaceInv, ResultInv, Holds, ResultOfLastJob, NoJob
<1> QED BY <1>1, OwnerInvariant, PTL

\* One owner thread: Get reads `ret' while no function can write it.
THEOREM RetIsRaceFree == ASSUME Clients = {Owner} PROVE Spec => []NoRetRace
<1>1. ASSUME IInv PROVE NoRetRace
  BY <1>1 DEF IInv, PlaceInv, NoRetRace
<1> QED BY <1>1, OwnerInvariant, PTL

\* One owner thread: the cancel flag stands while Cancel or ~Job waits for a
\* function that runs.
THEOREM CancelIsSeen == ASSUME Clients = {Owner} PROVE Spec => []CancelStands
<1>1. ASSUME IInv PROVE CancelStands
  BY <1>1 DEF IInv, TypeOK, Ops, PlaceInv, CancelStands
<1> QED BY <1>1, OwnerInvariant, PTL

\* One owner thread: ~Job returns with the thread ended and nothing dropped.
THEOREM DestroyIsClean == ASSUME Clients = {Owner} PROVE Spec => []DestroyDrains
<1>1. ASSUME IInv PROVE DestroyDrains
  BY <1>1 DEF IInv, TypeOK, LockInv, Holding, OrderInv, PlaceInv, ResultInv, DestroyDrains,
              Free, Worker
<1> QED BY <1>1, OwnerInvariant, PTL

\* One owner thread: JobWorker implements the slot of JobSpec.
THEOREM Implements == ASSUME Clients = {Owner} PROVE Spec => ImplementsSlot
<1> USE JobAssumption DEF JobAssumption, Slot!JobSpecification, Slot!JobInit, Slot!JobNext,
        Slot!jobVars, Slot!NoJob, Slot!Jobs, NoJob, Jobs
<1>1. ASSUME Init PROVE Slot!JobInit
  BY <1>1 DEF Init
<1>2. ASSUME IInv, [Next]_vars PROVE [Slot!JobNext]_(Slot!jobVars)
  <2> USE <1>2 DEF IInv, TypeOK, OrderInv, PlaceInv, ResultInv, Holds, store, client, hist, Goto
  <2>1. CASE StartStatus(Owner)
    <3>1. Slot!Accept
      BY <2>1 DEF StartStatus, Slot!Accept
    <3> QED BY <3>1
  <2>2. CASE Finish
    <3>1. Slot!Complete
      BY <2>2 DEF Finish, Slot!Complete
    <3> QED BY <3>1
  <2>3. CASE ReadRet(Owner) \/ RethrowThrow(Owner)
    <3>1. Slot!Deliver
      BY <2>3 DEF ReadRet, RethrowThrow, Slot!Deliver
    <3> QED BY <3>1
  <2>4. CASE SetShutdown
    <3>1. Slot!ShutDown
      BY <2>4 DEF SetShutdown, Slot!ShutDown
    <3> QED BY <3>1
  <2>5. CASE WorkerLock \/ TestWorking \/ TestShutdown \/ WorkerSleep \/ RunEnds
             \/ SpuriousWorker
    BY <2>5 DEF WorkerLock, TestWorking, TestShutdown, WorkerSleep, RunEnds, SpuriousWorker
  <2>6. CASE Call(Owner) \/ StartSet(Owner) \/ StartSignal(Owner) \/ WaitTest(Owner)
             \/ RethrowNone(Owner) \/ SpuriousClient(Owner)
    BY <2>6 DEF Call, DoRefused, DoAdmitted, Get, Cancel, StartSet, StartSignal, WaitTest,
                RethrowNone, SpuriousClient
  <2>7. CASE Destroy \/ ShutSignal \/ Join \/ UNCHANGED vars
    BY <2>7 DEF Destroy, ShutSignal, Join, vars
  <2> QED BY <2>1, <2>2, <2>3, <2>4, <2>5, <2>6, <2>7
          DEF Next, WorkerStep, ClientStep, OwnerStep, Destroyed
<1> QED BY <1>1, <1>2, OwnerInvariant, PTL DEF Spec, ImplementsSlot
=============================================================================
