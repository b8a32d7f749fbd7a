------------------------------- MODULE SshScp -------------------------------
(***************************************************************************)
(* Core/SSH: one file transfer of an Scp object, SaveFile or LoadFile.       *)
(*                                                                           *)
(* A transfer is a row of calls of Ssh::Run.  Run stores WORKING, repeats    *)
(* its step with the loop lock held and waits between the steps, and ends    *)
(* with IDLE or FAILED.  Abort may be called at any time by a callback or by *)
(* another thread.  A byte of the file is its position in it.                *)
(***************************************************************************)
EXTENDS Naturals, Sequences, FiniteSets

CONSTANTS Size,         \* bytes in the file
          ChunkSize     \* ssh->chunk_size

ASSUME ScpAssumption == Size \in Nat /\ ChunkSize \in Nat \ {0}

VARIABLES timed,        \* the session has a timeout (by default it has none)
          mode,         \* save or load
          pc,           \* the call the transfer is in
          run,          \* out: not in Run; wait: in Run, no step; in: in a step
          status,
          spos,         \* position of the local stream (Save)
          start,        \* Save: position in the stream of the chunk
          len,          \* length of the chunk
          done,         \* bytes of the chunk moved by Put or Get
          moved,        \* done_: bytes the transfer counts as moved
          out,          \* the bytes that arrived, in their order of arrival
          eof,          \* the server's EOF has arrived
          gotEof,       \* GetEof has succeeded
          msg,          \* WhenProgress has asked to stop
          result,
          trouble       \* history: what has gone wrong

chunk == <<spos, start, len, done, moved>>
vars  == <<timed, mode, pc, run, status, chunk, out, eof, gotEof, msg, result, trouble>>

Calls == {"open", "move", "puteof", "geteof", "close", "waitclose"}

\* A step of Put or Get ended with a part of the chunk, or nothing of it, moved;
\* a Put or Get failed; Abort was called; the server gave up.
Troubles == {"cut", "failed", "aborted", "early"}

TypeOK == /\ timed \in BOOLEAN
          /\ mode \in {"save", "load"}
          /\ pc \in Calls \cup {"loop", "progress", "shut", "returned"}
          /\ run \in {"out", "wait", "in"}
          /\ status \in {"IDLE", "WORKING", "FAILED", "ABORTED"}
          /\ spos \in 0 .. Size /\ start \in 0 .. Size /\ moved \in 0 .. Size
          /\ len \in 0 .. ChunkSize /\ done \in 0 .. len
          /\ out \in Seq(1 .. Size)
          /\ eof \in BOOLEAN /\ gotEof \in BOOLEAN
          /\ msg \in BOOLEAN /\ result \in BOOLEAN
          /\ trouble \subseteq Troubles

Init == /\ timed \in BOOLEAN
        /\ mode \in {"save", "load"}
        /\ pc = "open" /\ run = "out" /\ status = "IDLE"
        /\ spos = 0 /\ start = 0 /\ len = 0 /\ done = 0 /\ moved = 0
        /\ out = <<>>
        /\ eof = FALSE /\ gotEof = FALSE /\ msg = FALSE /\ result = FALSE
        /\ trouble = {}

IsError == status \in {"FAILED", "ABORTED"}
Least(m, n) == IF m < n THEN m ELSE n

---------------------------------------------------------------------------
\* Ssh::Run.

\* status = WORKING: what the calls before left there is gone.
RunBegins ==
    /\ pc \in Calls /\ run = "out"
    /\ run' = "wait" /\ status' = "WORKING"
    /\ UNCHANGED <<timed, mode, pc, chunk, out, eof, gotEof, msg, result, trouble>>

\* A step takes the loop lock and passes the checks.
StepBegins ==
    /\ run = "wait" /\ status # "ABORTED"
    /\ run' = "in"
    /\ UNCHANGED <<timed, mode, pc, status, chunk, out, eof, gotEof, msg, result, trouble>>

\* The step answers EAGAIN: Wait, then the next one.
StepAgain ==
    /\ run = "in"
    /\ pc = "move" => done < len
    /\ run' = "wait"
    /\ UNCHANGED <<timed, mode, pc, status, chunk, out, eof, gotEof, msg, result, trouble>>

\* Where the transfer goes on when its call has ended: Shut skips GetEof if
\* PutEof fails or the progress gate stopped the transfer, and WaitClose if
\* GetEof or Close failed.
After(ok) ==
    CASE pc = "open"      -> IF ok THEN "loop" ELSE "returned"
      [] pc = "move"      -> "progress"
      [] pc = "puteof"    -> IF ok /\ ~msg THEN "geteof" ELSE "close"
      [] pc = "geteof"    -> "close"
      [] pc = "close"     -> IF ok /\ gotEof THEN "waitclose" ELSE "shut"
      [] pc = "waitclose" -> "shut"

\* An exception in Do, and SetError.
Fails ==
    /\ run' = "out" /\ status' = "FAILED"
    /\ pc' = After(FALSE)
    /\ trouble' = IF pc = "move" THEN trouble \cup {"failed"} ELSE trouble
    /\ UNCHANGED <<timed, mode, chunk, out, eof, gotEof, msg, result>>

\* The abort is seen, the timeout has passed or the socket has an error at the
\* start of a step, or libssh2 answers an error in it.
RunFails  == run \in {"wait", "in"} /\ Fails
TimesOut  == run = "wait" /\ timed /\ Fails
SeesAbort == run = "wait" /\ status = "ABORTED" /\ Fails

\* The step has done its work: status = IDLE, even if Abort came meanwhile.  A
\* step of Put or Get ends as well when a write or a read answers 0 or the
\* timeout has passed, with whatever it has moved, nothing included.
RunEnds ==
    /\ run = "in"
    /\ pc = "geteof" => eof
    /\ run' = "out" /\ status' = "IDLE"
    /\ pc' = After(TRUE)
    /\ gotEof' = (gotEof \/ pc = "geteof")
    /\ trouble' = IF pc = "move" /\ done < len /\ ~eof THEN trouble \cup {"cut"} ELSE trouble
    /\ UNCHANGED <<timed, mode, chunk, out, eof, msg, result>>

---------------------------------------------------------------------------
\* Mutant: the chunk is read again from the start of the stream.
LoopFromStart ==
    /\ pc = "loop"
    /\ IF moved < Size /\ ~eof /\ ~IsError
       THEN LET l == Least(Least(Size - moved, ChunkSize), Size) IN
            /\ pc' = "move" /\ len' = l /\ done' = 0
            /\ start' = 0 /\ spos' = IF mode = "save" THEN l ELSE spos
       ELSE pc' = "puteof" /\ UNCHANGED <<len, done, start, spos>>
    /\ UNCHANGED <<timed, mode, run, status, moved, out, eof, gotEof, msg, result, trouble>>

\* Mutant: the loops do not test IsError.
LoopOnError ==
    /\ pc = "loop"
    /\ IF moved < Size /\ ~eof
       THEN LET l == Least(Size - moved, ChunkSize) IN
            /\ pc' = "move" /\ done' = 0
            /\ IF mode = "save"
               THEN /\ len' = Least(l, Size - spos)
                    /\ start' = spos /\ spos' = spos + len'
               ELSE len' = l /\ start' = moved /\ UNCHANGED spos
       ELSE pc' = "puteof" /\ UNCHANGED <<len, done, start, spos>>
    /\ UNCHANGED <<timed, mode, run, status, moved, out, eof, gotEof, msg, result, trouble>>

\* The test of the loops of Save and Load; Save reads the next chunk.
Loop ==
    /\ pc = "loop"
    /\ IF moved < Size /\ ~eof /\ ~IsError
       THEN LET l == Least(Size - moved, ChunkSize) IN
            /\ pc' = "move" /\ done' = 0
            /\ IF mode = "save"
               THEN /\ len' = Least(l, Size - spos)
                    /\ start' = spos /\ spos' = spos + len'
               ELSE len' = l /\ start' = moved /\ UNCHANGED spos
       ELSE pc' = "puteof" /\ UNCHANGED <<len, done, start, spos>>
    /\ UNCHANGED <<timed, mode, run, status, moved, out, eof, gotEof, msg, result, trouble>>

\* One write or read inside Put's or Get's step moves k bytes.
Move(k) ==
    /\ pc = "move" /\ run = "in" /\ ~eof
    /\ done + k <= len
    /\ done' = done + k
    /\ out' = out \o [i \in 1 .. k |-> start + done + i]
    /\ UNCHANGED <<timed, mode, pc, run, status, spos, start, len, moved, eof, gotEof, msg, result, trouble>>

\* After Put or Get: count the bytes, seek back after a short Put (to `done',
\* from the start of the stream), and ask WhenProgress.
Progress ==
    /\ pc = "progress"
    /\ moved' = moved + done
    /\ spos' = IF mode = "save" /\ 0 < done /\ done < len THEN done ELSE spos
    /\ \/ pc' = "loop" /\ UNCHANGED msg
       \/ done > 0 /\ pc' = "puteof" /\ msg' = TRUE
    /\ UNCHANGED <<timed, mode, run, status, start, len, done, out, eof, gotEof, result, trouble>>

\* Mutant: the message is not made an error.
ShutIgnoresMsg ==
    /\ pc = "shut"
    /\ pc' = "returned" /\ result' = ~IsError
    /\ UNCHANGED <<timed, mode, run, status, chunk, out, eof, gotEof, msg, trouble>>

\* The end of Shut: the status of the call before decides, or the message does.
ShutEnds ==
    /\ pc = "shut"
    /\ status' = IF msg THEN "FAILED" ELSE status
    /\ pc' = "returned" /\ result' = (status' \notin {"FAILED", "ABORTED"})
    /\ UNCHANGED <<timed, mode, run, chunk, out, eof, gotEof, msg, trouble>>

---------------------------------------------------------------------------
\* The server: EOF when it has ours, or when it gives up.
ServerEof ==
    /\ ~eof /\ eof' = TRUE
    /\ pc # "open"
    /\ trouble' = IF pc \in {"geteof", "close", "waitclose"} THEN trouble
                  ELSE trouble \cup {"early"}
    /\ UNCHANGED <<timed, mode, pc, run, status, chunk, out, gotEof, msg, result>>

\* Ssh::Abort.
Abort ==
    /\ pc # "returned" /\ status # "ABORTED"
    /\ status' = "ABORTED"
    /\ trouble' = trouble \cup {"aborted"}
    /\ UNCHANGED <<timed, mode, pc, run, chunk, out, eof, gotEof, msg, result>>

Returned == pc = "returned" /\ UNCHANGED vars

Next == \/ RunBegins \/ StepBegins \/ StepAgain \/ RunFails \/ RunEnds
        \/ Loop \/ Progress \/ ShutEnds
        \/ \E k \in 1 .. ChunkSize : Move(k)
        \/ ServerEof \/ Abort \/ Returned

Spec == Init /\ [][Next]_vars

\* The transfer runs on, a step comes to its end (libssh2 does not block), and
\* the clock passes a timeout that is set: a step that is repeated for ever is
\* given up.  Nothing is asked of the server.
FairSpec == /\ Spec
            /\ WF_vars(RunBegins \/ StepBegins \/ SeesAbort \/ Loop \/ Progress \/ ShutEnds)
            /\ WF_vars(StepAgain \/ RunEnds)
            /\ SF_vars(TimesOut)

---------------------------------------------------------------------------
\* Properties.

\* As long as no step is cut short, what has arrived is the beginning of the
\* file, each byte once and in order, and the transfer counts no byte that did
\* not arrive, whatever fails and whoever aborts.
PrefixKept == "cut" \notin trouble => /\ \A i \in 1 .. Len(out) : out[i] = i
                                      /\ moved <= Len(out)

\* A transfer stopped by WhenProgress ends and is reported as failed.
StopReported == /\ msg => pc \notin {"loop", "move", "progress"}
                /\ pc = "returned" /\ msg => ~result

\* With EAGAIN anywhere, partial writes and a progress gate that may stop, and
\* nothing going wrong: a transfer reported as successful moved the whole file.
CleanIsWhole ==
    result /\ trouble = {} => Len(out) = Size /\ \A i \in 1 .. Size : out[i] = i

\* A transfer in which a Put or a Get failed is not reported as successful
\* (Upp_Ssh_Channels docs: "Saves the content of data to remote path. Returns
\* true on success").
FailureReported == result => "failed" \notin trouble

\* With a timeout set, SaveFile and LoadFile return whatever the server does: a
\* call it never answers is given up, and the loops count up or see the error.
\* Without a timeout a silent server keeps them for ever.  A step cut short is
\* left out: after a Put that moved nothing Save does not seek back, reads to
\* the end of the stream and then goes round with empty chunks.
TransferReturns == timed => <>(pc = "returned" \/ "cut" \in trouble)

---------------------------------------------------------------------------
\* The inductive invariant.

\* The chunk in hand lies within the file, and is counted nowhere yet.
ChunkInv == /\ pc \in {"move", "progress"} => moved + len <= Size /\ start + len <= Size
            /\ run # "out" => pc \in Calls
            /\ moved <= Size
            /\ pc = "open" => ~msg

\* With no step cut short the chunk follows what has arrived, a chunk that did not
\* pass in full is followed by the end of the loop, and otherwise the stream
\* stands where the count does.
AlignInv ==
    "cut" \notin trouble =>
      /\ \A i \in 1 .. Len(out) : out[i] = i
      /\ Len(out) = IF pc \in {"move", "progress"} THEN moved + done ELSE moved
      /\ pc \in {"move", "progress"} => start = moved
      /\ pc \in {"move", "progress"} /\ mode = "save" => spos = start + len
      /\ pc = "open" => spos = moved
      /\ pc = "loop" /\ mode = "save" => spos = moved \/ eof \/ IsError
      /\ pc = "progress" => done = len \/ eof \/ IsError

ScpInv == TypeOK /\ ChunkInv /\ AlignInv /\ StopReported

\* While nothing has gone wrong, the loop is left only with the whole file counted,
\* or at the word of WhenProgress.
CleanInv ==
    /\ result => pc = "returned"
    /\ trouble = {} =>
         /\ pc \in {"open", "loop", "move", "progress", "puteof"} => ~eof
         /\ pc \in {"loop", "move", "progress"} => ~IsError
         /\ pc \in {"puteof", "geteof", "close", "waitclose", "shut"} => moved = Size \/ msg
         /\ result => moved = Size
=============================================================================
