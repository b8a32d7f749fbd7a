------------------------------ MODULE JobSpec ------------------------------
(***************************************************************************)
(* What a Job promises to the thread that owns it (Core/Job, Upp_Job docs):  *)
(* one slot that runs one function at a time.  A function is accepted only   *)
(* when the slot is free, an accepted function is completed exactly once,    *)
(* and a result is handed out only while the slot is free, and it is then    *)
(* the result of the function accepted last.                                 *)
(***************************************************************************)
EXTENDS Naturals

CONSTANT MaxJobs            \* how many functions are ever offered to the slot

Jobs  == 1 .. MaxJobs
NoJob == 0

VARIABLES pending,          \* the accepted function that is not completed yet
          finished,         \* the function completed last
          got,              \* the function whose result was handed out last
          down              \* the slot is shut down

jobVars == <<pending, finished, got, down>>

JobInit == /\ pending = NoJob
           /\ finished = NoJob
           /\ got = NoJob
           /\ down = FALSE

Accept == /\ pending = NoJob
          /\ ~down
          /\ \E j \in Jobs : j > finished /\ pending' = j
          /\ UNCHANGED <<finished, got, down>>

Complete == /\ pending # NoJob
            /\ finished' = pending
            /\ pending' = NoJob
            /\ UNCHANGED <<got, down>>

Deliver == /\ pending = NoJob
           /\ ~down
           /\ got' = finished
           /\ UNCHANGED <<pending, finished, down>>

ShutDown == /\ pending = NoJob
            /\ ~down
            /\ down' = TRUE
            /\ UNCHANGED <<pending, finished, got>>

JobNext == Accept \/ Complete \/ Deliver \/ ShutDown

JobSpecification == JobInit /\ [][JobNext]_jobVars
=============================================================================
