---------------------------- MODULE SshScpProofs ----------------------------
(***************************************************************************)
(* Theorems about SshScp, for every file size and chunk size.                *)
(***************************************************************************)
EXTENDS SshScp, SequenceTheorems, TLAPS

USE ScpAssumption DEF ScpAssumption

LEMMA InitHolds == Init => ScpInv
<1>1. <<>> \in Seq(1 .. Size) /\ Len(<<>>) = 0
  OBVIOUS
<1>2. ASSUME Init PROVE TypeOK
  <2>1. out \in Seq(1 .. Size)
    BY <1>1, <1>2 DEF Init
  <2>2. /\ timed \in BOOLEAN /\ mode \in {"save", "load"}
        /\ pc \in Calls /\ run \in {"out", "wait", "in"}
        /\ status \in {"IDLE", "WORKING", "FAILED", "ABORTED"}
    BY <1>2 DEF Init, Calls
  <2>3. /\ spos \in 0 .. Size /\ start \in 0 .. Size /\ moved \in 0 .. Size
        /\ len \in 0 .. ChunkSize /\ done \in 0 .. len
    BY <1>2 DEF Init
  <2>4. /\ eof \in BOOLEAN /\ gotEof \in BOOLEAN /\ msg \in BOOLEAN /\ result \in BOOLEAN
        /\ trouble \subseteq Troubles
    BY <1>2 DEF Init
  <2> QED BY <2>1, <2>2, <2>3, <2>4 DEF TypeOK
<1>3. Init => ChunkInv /\ AlignInv /\ StopReported
  BY <1>1 DEF Init, ChunkInv, AlignInv, StopReported, Calls
<1> QED BY <1>2, <1>3 DEF ScpInv

\* Every step but Loop, Move and Progress leaves the bytes and the chunk alone.
LEMMA RunStep ==
  ASSUME ScpInv,
         RunBegins \/ StepBegins \/ StepAgain \/ RunFails \/ RunEnds
           \/ ShutEnds \/ ServerEof \/ Abort \/ UNCHANGED vars
  PROVE  ScpInv'
<1> USE DEF ScpInv, TypeOK, ChunkInv, AlignInv, StopReported, IsError, Calls, Troubles, chunk
<1>1. CASE RunBegins  BY <1>1 DEF RunBegins
<1>2. CASE StepBegins BY <1>2 DEF StepBegins
<1>3. CASE StepAgain  BY <1>3 DEF StepAgain
<1>4. CASE RunFails
  <2>1. /\ pc' \in Calls \cup {"returned", "progress", "shut"}
        /\ pc = "move" => pc' = "progress"
        /\ pc # "move" => pc' \notin {"open", "loop", "move", "progress"}
        /\ pc' = "returned" => pc = "open"
    BY <1>4 DEF RunFails, Fails, After
  <2>2. TypeOK' /\ ChunkInv' /\ StopReported'
    <3>1. /\ trouble' \subseteq Troubles /\ run' = "out" /\ status' = "FAILED" /\ pc \in Calls
          /\ timed' = timed /\ mode' = mode /\ out' = out /\ moved' = moved /\ done' = done
          /\ start' = start /\ spos' = spos /\ len' = len
      BY <1>4 DEF RunFails, Fails
    <3>2. eof' = eof /\ gotEof' = gotEof /\ msg' = msg /\ result' = result
      BY <1>4 DEF RunFails, Fails
    <3>3. TypeOK'
      BY <2>1, <3>1, <3>2
    <3>4. ChunkInv'
      BY <2>1, <3>1, <3>2
    <3>5. StopReported'
      BY <2>1, <3>1, <3>2
    <3> QED BY <3>3, <3>4, <3>5
  <2>3. ASSUME "cut" \notin trouble' PROVE AlignInv'
    <3>1. /\ "cut" \notin trouble /\ status' = "FAILED" /\ pc \in Calls
          /\ timed' = timed /\ mode' = mode /\ out' = out /\ moved' = moved /\ done' = done
          /\ start' = start /\ spos' = spos /\ len' = len
      BY <1>4, <2>3 DEF RunFails, Fails
    <3>2. Len(out) = IF pc = "move" THEN moved + done ELSE moved
      BY <3>1
    <3>3. pc' \in {"move", "progress"} <=> pc = "move"
      BY <2>1, <3>1
    <3> QED BY <2>1, <3>1, <3>2, <3>3
  <2>4. "cut" \in trouble' => AlignInv'
    OBVIOUS
  <2> QED BY <2>2, <2>3, <2>4
<1>5. CASE RunEnds    BY <1>5 DEF RunEnds, After
<1>6. CASE ShutEnds   BY <1>6 DEF ShutEnds
<1>7. CASE ServerEof  BY <1>7 DEF ServerEof
<1>8. CASE Abort      BY <1>8 DEF Abort
<1>9. CASE UNCHANGED vars BY <1>9 DEF vars
<1> QED BY <1>1, <1>2, <1>3, <1>4, <1>5, <1>6, <1>7, <1>8, <1>9

LEMMA LoopStep == ASSUME ScpInv, Loop PROVE ScpInv'
<1> USE DEF Loop, ScpInv, TypeOK, ChunkInv, AlignInv, StopReported, IsError, Calls
<1>1. CASE moved < Size /\ ~eof /\ ~IsError /\ mode = "save" BY <1>1 DEF Least
<1>2. CASE moved < Size /\ ~eof /\ ~IsError /\ mode = "load" BY <1>2 DEF Least
<1>3. CASE ~(moved < Size /\ ~eof /\ ~IsError) BY <1>3
<1> QED BY <1>1, <1>2, <1>3

LEMMA ProgressStep == ASSUME ScpInv, Progress PROVE ScpInv'
<1> USE DEF Progress, ScpInv, TypeOK, ChunkInv
<1>1. StopReported' /\ pc' \in {"loop", "puteof"}
  BY DEF StopReported
<1>6. msg' \in BOOLEAN
  BY Zenon
<1>4. moved' \in 0 .. Size /\ spos' \in 0 .. Size
  <2>1. moved \in Nat /\ done \in Nat /\ len \in Nat /\ spos \in 0 .. Size
        /\ done <= len /\ moved + len <= Size /\ moved' = moved + done
        /\ spos' \in {done, spos}
    OBVIOUS
  <2> QED BY <2>1
<1>5. TypeOK' /\ ChunkInv'
  BY <1>1, <1>4, <1>6 DEF Calls
<1>2. ASSUME "cut" \notin trouble PROVE AlignInv'
  <2>1. /\ \A i \in 1 .. Len(out) : out[i] = i
        /\ Len(out) = moved + done
        /\ mode = "save" => spos = moved + len
        /\ done = len \/ eof \/ IsError
    BY <1>2 DEF AlignInv
  <2>2. out' = out /\ eof' = eof /\ (IsError' <=> IsError) /\ moved' = moved + done
    BY DEF IsError
  <2>3. pc' \in {"loop", "puteof"}
    OBVIOUS
  <2>4. mode' = "save" /\ done = len => spos' = moved'
    BY <2>1, <2>2
  <2> QED BY <1>2, <2>1, <2>2, <2>3, <2>4 DEF AlignInv
<1>3. ASSUME "cut" \in trouble PROVE AlignInv'
  BY <1>3 DEF AlignInv
<1> QED BY <1>1, <1>2, <1>3, <1>5

\* The bytes a write or a read appends are the next ones of the chunk.
LEMMA MoveStep == ASSUME ScpInv, NEW k \in 1 .. ChunkSize, Move(k) PROVE ScpInv'
<1> DEFINE piece == [i \in 1 .. k |-> start + done + i]
<1>1. /\ out \in Seq(1 .. Size) /\ start \in Nat /\ done \in Nat /\ k \in Nat
      /\ start + done + k <= Size
  BY DEF Move, ScpInv, TypeOK, ChunkInv
<1>2. piece \in Seq(1 .. Size) /\ Len(piece) = k /\ \A i \in 1 .. k : piece[i] = start + done + i
  BY <1>1
<1>3. out' = out \o piece
  BY DEF Move
<1> HIDE DEF piece
<1>4. out' \in Seq(1 .. Size) /\ Len(out') = Len(out) + k
  BY <1>1, <1>2, <1>3, ConcatProperties
<1>5. \A i \in 1 .. Len(out) + k :
        out'[i] = IF i <= Len(out) THEN out[i] ELSE piece[i - Len(out)]
  BY <1>1, <1>2, <1>3, SMTT(30)
<1>6. \A i \in 1 .. Len(out') : out'[i] = IF i <= Len(out) THEN out[i]
                                         ELSE start + done + (i - Len(out))
  <2>1. Len(out') = Len(out) + k /\ Len(out) \in Nat BY <1>1, <1>4
  <2>2. \A i \in 1 .. Len(out) + k : i > Len(out) => i - Len(out) \in 1 .. k
    BY <1>1, <2>1
  <2> QED BY <1>2, <1>5, <2>1, <2>2
<1>7. TypeOK' /\ ChunkInv' /\ StopReported'
  BY <1>1, <1>4 DEF Move, ScpInv, TypeOK, ChunkInv, StopReported, Calls
<1>8. ASSUME "cut" \notin trouble PROVE AlignInv'
  <2>1. /\ pc = "move" /\ start = moved /\ moved \in Nat
        /\ \A i \in 1 .. Len(out) : out[i] = i
        /\ Len(out) = moved + done
    BY <1>8 DEF Move, ScpInv, TypeOK, AlignInv
  <2>2. \A i \in 1 .. Len(out') : out'[i] = i
    BY <1>1, <1>4, <1>6, <2>1
  <2>3. Len(out') = moved + done'
    BY <1>1, <1>4, <2>1 DEF Move
  <2> QED BY <1>8, <2>1, <2>2, <2>3 DEF Move, ScpInv, AlignInv
<1>9. ASSUME "cut" \in trouble PROVE AlignInv'
  BY <1>9 DEF Move, AlignInv
<1> QED BY <1>7, <1>8, <1>9 DEF ScpInv

\* The inductive invariant holds.
THEOREM ScpInvariant == Spec => []ScpInv
<1>1. ASSUME ScpInv, [Next]_vars PROVE ScpInv'
  BY <1>1, RunStep, LoopStep, ProgressStep, MoveStep DEF Next, Returned
<1> QED BY <1>1, InitHolds, PTL DEF Spec

\* What arrives is the beginning of the file, whatever fails.
THEOREM PrefixIsKept == Spec => []PrefixKept
<1>1. ScpInv => PrefixKept
  BY DEF ScpInv, TypeOK, AlignInv, PrefixKept
<1> QED BY <1>1, ScpInvariant, PTL

\* A transfer stopped by WhenProgress ends as a failure.
THEOREM StopIsReported == Spec => []StopReported
<1>1. ScpInv => StopReported
  BY DEF ScpInv
<1> QED BY <1>1, ScpInvariant, PTL

---------------------------------------------------------------------------
LEMMA CleanInit == Init => CleanInv
  BY DEF Init, CleanInv, IsError

LEMMA CleanStep ==
  ASSUME ScpInv, CleanInv, [Next]_vars
  PROVE  CleanInv'
<1> USE DEF CleanInv, ScpInv, TypeOK, ChunkInv, StopReported, IsError, Calls, Troubles, chunk
<1>1. CASE RunBegins  BY <1>1 DEF RunBegins
<1>2. CASE StepBegins BY <1>2 DEF StepBegins
<1>3. CASE StepAgain  BY <1>3 DEF StepAgain
<1>4. CASE RunFails
  <2>1. pc' = After(FALSE) /\ pc \in Calls /\ status' = "FAILED"
    BY <1>4 DEF RunFails, Fails
  <2>2. pc = "move" => trouble' # {}
    BY <1>4 DEF RunFails, Fails
  <2>3. trouble' = {} => trouble = {}
    BY <1>4 DEF RunFails, Fails
  <2>4. eof' = eof /\ moved' = moved /\ msg' = msg /\ result' = result
    BY <1>4 DEF RunFails, Fails
  <2> QED BY <2>1, <2>2, <2>3, <2>4 DEF After
<1>5. CASE RunEnds
  <2>1. pc' = After(TRUE) /\ pc \in Calls /\ status' = "IDLE"
    BY <1>5 DEF RunEnds
  <2>2. trouble' = {} => trouble = {}
    BY <1>5 DEF RunEnds
  <2>3. eof' = eof /\ moved' = moved /\ msg' = msg /\ result' = result
    BY <1>5 DEF RunEnds
  <2> QED BY <2>1, <2>2, <2>3 DEF After
<1>6. CASE ShutEnds
  <2>1. result' => ~msg
    BY <1>6 DEF ShutEnds
  <2> QED BY <1>6, <2>1 DEF ShutEnds
<1>7. CASE ServerEof  BY <1>7 DEF ServerEof
<1>8. CASE Abort      BY <1>8 DEF Abort
<1>9. CASE Loop
  <2>1. CASE moved < Size /\ ~eof /\ ~IsError BY <1>9, <2>1 DEF Loop
  <2>2. CASE ~(moved < Size /\ ~eof /\ ~IsError)
    <3>1. trouble = {} => moved = Size
      BY <1>9, <2>2 DEF Loop
    <3> QED BY <1>9, <2>2, <3>1 DEF Loop
  <2> QED BY <2>1, <2>2
<1>10. CASE Progress
  <2>1. /\ pc = "progress" /\ status' = status /\ eof' = eof /\ trouble' = trouble /\ result' = result
        /\ pc' = "loop" \/ (pc' = "puteof" /\ msg' = TRUE)
    BY <1>10 DEF Progress
  <2> QED BY <2>1
<1>11. ASSUME NEW k \in 1 .. ChunkSize, Move(k) PROVE CleanInv'
  BY <1>11 DEF Move
<1>12. CASE UNCHANGED vars BY <1>12 DEF vars
<1> QED BY <1>1, <1>2, <1>3, <1>4, <1>5, <1>6, <1>7, <1>8, <1>9, <1>10, <1>11, <1>12 DEF Next, Returned

\* A transfer that nothing went wrong with and that is reported as successful has
\* moved the whole file, each byte once and in order.
THEOREM CleanTransferIsWhole == Spec => []CleanIsWhole
<1>1. ScpInv /\ CleanInv => CleanIsWhole
  <2> SUFFICES ASSUME ScpInv, CleanInv, result, trouble = {} PROVE CleanIsWhole
    BY DEF CleanIsWhole
  <2>1. pc = "returned" /\ moved = Size
    BY DEF CleanInv
  <2>2. (\A i \in 1 .. Len(out) : out[i] = i) /\ Len(out) = moved
    BY <2>1 DEF ScpInv, AlignInv
  <2> QED BY <2>1, <2>2 DEF CleanIsWhole
<1>2. Spec => []CleanInv
  BY CleanInit, CleanStep, ScpInvariant, PTL DEF Spec
<1> QED BY <1>1, <1>2, ScpInvariant, PTL
=============================================================================
