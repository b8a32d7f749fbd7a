-------------------------------- MODULE Ftp --------------------------------
(***************************************************************************)
(* Core/FTP: a client of the file transfer protocol, and its server.         *)
(*                                                                           *)
(* Every call of the client fills a queue of small programs, and Do0 runs    *)
(* the head of the queue until it says that it is done or throws.  PutGet,   *)
(* which most of them call, sends a command over the control connection and  *)
(* reads the reply; it may be left in between, in non-blocking mode within   *)
(* the reply.  Files go over a connection of their own.                      *)
(*                                                                           *)
(* A byte of a file is its position in it, and Content says what it is.      *)
(* Left out: SSL, the text of the replies, the addresses, partial writes on  *)
(* the control connection.                                                   *)
(***************************************************************************)
EXTENDS Naturals, Sequences

CONSTANTS Calls,        \* bound: what the application may call first, second, ...
          Size,         \* bytes in the file, and in the listing of a directory
          Content,      \* what each of them is
          Modes,        \* ACTIVE, PASSIVE
          Blockings     \* values of IsBlocking

Ops == {"Login", "Get", "Put", "Append", "ListDir", "Delete", "Rename", "Disconnect"}

ASSUME FtpAssumption ==
    /\ Calls \in Seq(SUBSET Ops)
    /\ Size \in Nat \ {0}
    /\ Content \in [1 .. Size -> {"char", "cr", "lf"}]
    /\ Modes \subseteq {"ACTIVE", "PASSIVE"} /\ Blockings \subseteq BOOLEAN

VARIABLES mode, blocking,
          timed,                \* Timeout has given the sockets one (the default is none)
          ascii,                \* the transfer goes by ReadAscii
          status, queue, opcode,
          events,               \* where PutGet is: 0, or waiting for a reply
          reply, prevcode,      \* the code of the reply, and the last one there was
          half,                 \* PutGet has read the code, and not the text after it
          connected, aborted, data_error,
          position, done,
          packet,               \* the bytes ReadAscii has of a line not at its end
          data,                 \* the data socket of the client
          up, down,             \* commands and replies under way
          lost,                 \* the control connection is broken
          peer, wire,           \* the server's data socket, the bytes under way
          xfer, rest,           \* the server's transfer, and where the next one starts
          call, calls,          \* the call, its number
          \* history:
          dest, stored,         \* what the application and the server have of the file;
                                \*   in dest 0 stands for a byte that is not handed on
          effect,               \* the server did what the call asks for
          trouble

socks   == <<data, peer, wire>>
offsets == <<position, done, packet>>
client  == <<status, queue, opcode, events, reply, prevcode, half>>
flags   == <<connected, aborted, data_error>>
server  == <<xfer, rest, stored, effect>>
conf    == <<mode, blocking, timed, ascii, call, calls>>
vars    == <<conf, client, flags, offsets, socks, up, down, lost, server, dest, trouble>>

NoXfer == [cmd |-> "none", at |-> 0]
Idle   == 0
Read   == 1

Cr == {i \in 1 .. Size : Content[i] = "cr"}
Lf == {i \in 1 .. Size : Content[i] = "lf"}

Init == /\ mode \in Modes /\ blocking \in Blockings
        /\ timed \in {FALSE, blocking} /\ ascii = FALSE
        /\ status = "IDLE" /\ queue = <<>> /\ opcode = "NONE"
        /\ events = Idle /\ reply = 0 /\ prevcode = 0 /\ half = FALSE
        /\ connected = FALSE /\ aborted = FALSE /\ data_error = FALSE
        /\ position = 0 /\ done = 0 /\ packet = <<>>
        /\ data = "closed" /\ peer = "closed" /\ wire = <<>>
        /\ up = <<>> /\ down = <<>> /\ lost = FALSE
        /\ xfer = NoXfer /\ rest = 0 /\ stored = <<>> /\ effect = FALSE
        /\ call = "none" /\ calls = 0 /\ dest = <<>> /\ trouble = {}

---------------------------------------------------------------------------
\* The calls.

Transfers == [Get |-> "RETR", Put |-> "STOR", Append |-> "APPE", ListDir |-> "LIST"]

\* A mutant: nobody waits for the reply after the data.
TransferNoReply(code, again) ==
    <<"TYPE", IF mode = "PASSIVE" THEN "EPSV" ELSE "EPRT">>
    \o (IF mode = "PASSIVE" THEN <<"DATA", code>> ELSE <<"LISTEN", code, "ACCEPT">>)
    \o <<IF code \in {"RETR", "LIST"} THEN "READ" ELSE "WRITE">>

\* StartTransfer, SendData and RecvData; the transfer starts at the position, or not.
Transfer(code, again) ==
    <<"TYPE">> \o (IF code = "LIST" THEN <<>> ELSE <<"SIZE">>)
    \o <<IF mode = "PASSIVE" THEN "EPSV" ELSE "EPRT">>
    \o (IF again THEN <<"REST">> ELSE <<>>)
    \o (IF mode = "PASSIVE" THEN <<"DATA", code>> ELSE <<"LISTEN", code, "ACCEPT">>)
    \o <<IF code \in {"RETR", "LIST"} THEN "READ" ELSE "WRITE", "REPLY">>

Program(op, again) ==
    CASE op \in DOMAIN Transfers -> Transfer(Transfers[op], again)
      [] op = "Connect"    -> <<"CONNECT", "LOGIN">>
      [] op = "Login"      -> <<"LOGIN">>
      [] op = "Delete"     -> <<"DELE">>
      [] op = "Rename"     -> <<"RNFR">>
      [] op = "Disconnect" -> <<"QUIT">>

LoggedIn == {202, 211, 230}

\* A call when none is under way.  After a Get that failed the application may
\* call SetPos with GetPos, and Get again, in the same way and into the same stream.
\* A listing is always read by lines; what is sent is sent as it is.
Run(op, again) ==
    /\ status # "WORKING" /\ calls < Len(Calls)
    /\ op \in Calls[calls + 1] \cup {"Connect"}
    /\ op = "Connect" <=> ~connected \/ lost
    /\ again => call = "Get" /\ op = "Get" /\ status = "FAILED" /\ position > 0 /\ dest # <<>>
    /\ calls' = calls + 1 /\ call' = op
    /\ ascii' \in IF again THEN {ascii} ELSE IF op = "Get" THEN BOOLEAN ELSE {op = "ListDir"}
    /\ status' = "WORKING" /\ reply' = 0 /\ data_error' = FALSE
    /\ queue' = Program(op, again)
    /\ done' = IF op \in DOMAIN Transfers THEN 0 ELSE done
    /\ dest' = IF again THEN dest ELSE <<>>
    /\ effect' = FALSE
    /\ trouble' = trouble \cup (IF again /\ position # Len(dest) THEN {"rewound"} ELSE {})
                          \cup (IF op = "Login" /\ prevcode \in LoggedIn THEN {"relogin"} ELSE {})
    /\ UNCHANGED <<mode, blocking, timed, opcode, events, prevcode, half, connected, aborted,
                   position, packet, socks, up, down, lost, xfer, rest, stored>>

\* Abort, by a handler, another thread, or between two calls of Do; once for a
\* connection (bound).
Abort ==
    /\ status = "WORKING" /\ "abort" \notin trouble
    /\ aborted' = TRUE
    /\ trouble' = trouble \cup {"abort"}
    /\ UNCHANGED <<conf, client, connected, data_error, offsets, socks, up, down, lost, server, dest>>

---------------------------------------------------------------------------
\* Do0 runs the head of the queue.

At(e) == status = "WORKING" /\ queue # <<>> /\ Head(queue) = e

\* The head is done; q is what is left.
Left(q) == queue' = q /\ status' = IF q = <<>> THEN "FINISHED" ELSE status

\* The head throws: the call fails, or StartAbort begins another queue.
Throws ==
    /\ events' = Idle /\ opcode' = "NONE"
    /\ aborted' = FALSE
    /\ IF aborted
       THEN /\ queue' = <<"IP", "OOB", "ABOR", "ABORREPLY">>
            /\ data' = IF data = "open" THEN "aborted" ELSE data
            /\ UNCHANGED status
       ELSE queue' = <<>> /\ status' = "FAILED" /\ UNCHANGED data

Commands == {"TYPE", "SIZE", "EPSV", "EPRT", "REST", "RETR", "STOR", "APPE", "LIST",
             "DELE", "RNFR", "QUIT"}

\* A command takes a turn to set its opcode.
Begins ==
    /\ \E c \in Commands : At(c) /\ opcode = "NONE" /\ opcode' = c
    /\ UNCHANGED <<conf, status, queue, events, reply, prevcode, half, flags, offsets, socks,
                   up, down, lost, server, dest, trouble>>

\* The head calls PutGet, to send a command or to wait for a reply only.
Null == "null"
Puts == CASE At("LOGIN") -> (CASE prevcode \in {200, 220} -> "USER"
                               [] prevcode = 331 -> "PASS"
                               [] prevcode = 332 -> "ACCT"
                               [] OTHER -> "no")
          [] At("CONNECT") -> IF opcode = "HELO" THEN Null ELSE "no"
          [] At("REPLY") \/ At("ABORREPLY") \/ At("LASTREPLY") -> Null
          [] OTHER -> IF opcode # "NONE" /\ \E c \in Commands : At(c) THEN opcode ELSE "no"

InPutGet == status = "WORKING" /\ queue # <<>> /\ Puts # "no"

\* The classes of replies PutGet is told to accept.
Any == 0 .. 5
Accepted == CASE At("LOGIN") -> IF Puts = "ACCT" THEN {2} ELSE {2, 3}
              [] opcode \in {"RETR", "STOR", "APPE", "LIST"} -> {1}
              [] opcode \in {"REST", "RNFR"} -> {3}
              [] opcode \in {"SIZE", "EPSV", "EPRT"} \/ At("ABORREPLY") -> Any
              [] OTHER -> {2}

PutGetSends ==
    /\ InPutGet /\ events = Idle /\ ~lost
    /\ events' = Read /\ reply' = 0 /\ half' = FALSE /\ done' = 0 /\ packet' = <<>>
    /\ up' = IF Puts = Null THEN up ELSE Append(up, Puts)
    /\ UNCHANGED <<conf, status, queue, opcode, prevcode, flags, position, socks, down, lost,
                   server, dest, trouble>>

\* What is left of a reply whose code was read: no code, PutGet throws.
Garbage == 0

\* The socket has the code of a reply, and not yet the text.
PutGetReadsCode ==
    /\ InPutGet /\ events = Read /\ ~half /\ down # <<>> /\ ~blocking
    /\ Head(down) # Garbage
    /\ half' = TRUE /\ reply' = Head(down) /\ prevcode' = Head(down)
    /\ UNCHANGED <<conf, status, queue, opcode, events, flags, offsets, socks, up, down, lost,
                   server, dest, trouble>>

\* A mutant: a server that refuses EPSV is asked again.
AfterSame(code) ==
    [queue |-> IF At("LOGIN") \/ (opcode \in {"EPSV", "EPRT"} /\ code >= 300) THEN queue ELSE Tail(queue),
     opcode |-> IF opcode = "RNFR" THEN "RNTO" ELSE "NONE"]

\* What the head does with the reply it accepts: the queue left, and the opcode.
After(code) ==
    LET good == code \in 200 .. 299
        rest_ == Tail(queue)
    IN  CASE At("LOGIN") -> [queue |-> queue, opcode |-> "NONE"]
          [] opcode = "EPSV" /\ ~good -> [queue |-> queue, opcode |-> "PASV"]
          [] opcode = "EPRT" /\ ~good -> [queue |-> queue, opcode |-> "PORT"]
          [] opcode = "RNFR" -> [queue |-> queue, opcode |-> "RNTO"]
          [] At("ABORREPLY") /\ code >= 400 -> [queue |-> Append(rest_, "LASTREPLY"), opcode |-> "NONE"]
          [] OTHER -> [queue |-> rest_, opcode |-> "NONE"]

PutGetEnds ==
    /\ InPutGet /\ events = Read /\ down # <<>>
    /\ LET code == IF half THEN reply ELSE Head(down)
           bad  == Head(down) = Garbage
       IN
       /\ reply' = code /\ prevcode' = (IF half \/ bad THEN prevcode ELSE code)
       /\ IF code \div 100 \in Accepted /\ ~bad /\ ~At("LASTREPLY")
          THEN /\ events' = Idle
               /\ Left(After(code).queue) /\ opcode' = After(code).opcode
               /\ connected' = IF opcode = "HELO" THEN TRUE
                               ELSE IF opcode = "QUIT" THEN FALSE ELSE connected
               /\ aborted' = (aborted /\ opcode # "QUIT")
               /\ data' = IF opcode = "QUIT" THEN "closed" ELSE data
          ELSE Throws /\ UNCHANGED connected
    /\ down' = Tail(down) /\ half' = FALSE
    /\ UNCHANGED <<conf, data_error, offsets, peer, wire, up, lost, server, dest, trouble>>

\* Check(control_socket) throws: the timeout has passed, if one was set, or the
\* connection is lost.
PutGetFails ==
    /\ InPutGet
    /\ lost \/ (timed /\ events = Read /\ down = <<>>)
    /\ Throws
    /\ half' = FALSE
    /\ trouble' = IF lost THEN trouble ELSE trouble \cup {"late"}
    /\ UNCHANGED <<conf, reply, prevcode, connected, data_error, offsets, peer, wire, up, down,
                   lost, server, dest>>

---------------------------------------------------------------------------
\* StartLogin.

LoginEnds ==
    /\ At("LOGIN") /\ prevcode \in LoggedIn
    /\ Left(Tail(queue))
    /\ trouble' = IF half THEN trouble \cup {"split"} ELSE trouble
    /\ UNCHANGED <<conf, opcode, events, reply, prevcode, half, flags, offsets, socks, up, down,
                   lost, server, dest>>

LoginThrows ==
    /\ At("LOGIN") /\ prevcode \notin LoggedIn \cup {200, 220, 331, 332}
    /\ Throws
    /\ IF half /\ down # <<>> THEN down' = <<Garbage>> \o Tail(down) /\ trouble' = trouble \cup {"split"}
                        ELSE UNCHANGED <<down, trouble>>
    /\ half' = FALSE
    /\ UNCHANGED <<conf, reply, prevcode, connected, data_error, offsets, peer, wire, up, lost,
                   server, dest>>

\* StartConnect for the control connection: a new session with the server.
ConnectBegins ==
    /\ At("CONNECT") /\ opcode = "NONE"
    /\ opcode' = "DNS" /\ events' = Idle /\ done' = 0
    /\ connected' = FALSE /\ aborted' = FALSE
    /\ up' = <<>> /\ down' = <<>> /\ lost' = FALSE
    /\ peer' = "closed" /\ wire' = <<>> /\ xfer' = NoXfer /\ rest' = 0
    /\ trouble' = {}
    /\ UNCHANGED <<conf, status, queue, reply, prevcode, half, data_error, position, packet,
                   data, stored, effect, dest>>

ConnectEnds ==
    /\ At("CONNECT") /\ opcode = "DNS"
    /\ \/ opcode' = "HELO" /\ down' = <<220>> /\ UNCHANGED <<status, queue, events, aborted, data>>
       \/ Throws /\ UNCHANGED down
    /\ UNCHANGED <<conf, reply, prevcode, half, connected, data_error, offsets, peer, wire, up,
                   lost, server, dest, trouble>>

\* ... and for the data connection, which forgets an Abort.
DataBegins ==
    /\ At("DATA") /\ opcode = "NONE"
    /\ opcode' = "DNS" /\ events' = Idle /\ done' = 0 /\ aborted' = FALSE /\ data' = "closed"
    /\ UNCHANGED <<conf, status, queue, reply, prevcode, half, connected, data_error, position, packet,
                   peer, wire, up, down, lost, server, dest, trouble>>

DataConnects ==
    /\ At("DATA") /\ opcode = "DNS"
    /\ \/ /\ data' = "open" /\ peer' = "open" /\ wire' = <<>>
          /\ opcode' = "NONE" /\ Left(Tail(queue)) /\ UNCHANGED <<events, aborted>>
       \/ Throws /\ UNCHANGED <<peer, wire>>
    /\ UNCHANGED <<conf, reply, prevcode, half, connected, data_error, offsets, up, down, lost,
                   server, dest, trouble>>

\* StartAccept.
Listens ==
    /\ At("LISTEN")
    /\ \/ Left(Tail(queue)) /\ peer' = "closed" /\ wire' = <<>> /\ UNCHANGED <<opcode, events, aborted, data>>
       \/ Throws /\ UNCHANGED <<peer, wire>>
    /\ UNCHANGED <<conf, reply, prevcode, half, connected, data_error, offsets, up, down, lost,
                   server, dest, trouble>>

Accepts ==
    /\ At("ACCEPT") /\ peer = "open"
    /\ data' = "open" /\ Left(Tail(queue))
    /\ UNCHANGED <<conf, opcode, events, reply, prevcode, half, flags, offsets, peer, wire, up,
                   down, lost, server, dest, trouble>>

AcceptFails ==
    /\ At("ACCEPT") /\ peer # "open" /\ timed
    /\ Throws
    /\ trouble' = trouble \cup {"late"}
    /\ UNCHANGED <<conf, reply, prevcode, half, connected, data_error, offsets, peer, wire, up,
                   down, lost, server, dest>>

---------------------------------------------------------------------------
\* The transfer of data.

\* IsDataEof: the data connection is at its end or not, with an error or not.
IsDataEof(n, eof, bad) ==
    /\ position' = n
    /\ IF aborted THEN Throws /\ UNCHANGED data_error
       ELSE /\ data_error' = bad
            /\ IF eof THEN data' = "closed" /\ events' = Idle /\ Left(Tail(queue))
                      ELSE UNCHANGED <<data, events, queue, status>>
            /\ UNCHANGED <<opcode, aborted>>

DataUnchanged == UNCHANGED <<conf, reply, prevcode, half, connected, up, down, lost, server, trouble>>

\* ReadBinary hands on all it gets.  ReadAscii hands on whole lines, without
\* their CRs; of a line that is not at its end nothing.
HandsOn(got, k) ==
    IF ascii THEN (k > 0 => got[k] \in Lf) /\ \A i \in k + 1 .. Len(got) : got[i] \notin Lf
             ELSE k = Len(got)
Handed(i) == IF ascii /\ i \in Cr THEN 0 ELSE i

\* ReadBinary and ReadAscii get n bytes, or find the end.
Reads(n) ==
    LET left == SubSeq(wire, n + 1, Len(wire))
        eof  == left = <<>> /\ peer = "closed"
        got  == packet \o SubSeq(wire, 1, n)
    IN  /\ At("READ") /\ n <= Len(wire) /\ (n > 0 \/ eof \/ aborted)
        /\ wire' = left /\ done' = done + n
        /\ \E k \in 0 .. Len(got) :
              /\ HandsOn(got, k)
              /\ dest' = dest \o [i \in 1 .. k |-> Handed(got[i])]
              /\ packet' = SubSeq(got, k + 1, Len(got))
        /\ IsDataEof(done + n, eof, FALSE)
        /\ UNCHANGED peer /\ DataUnchanged

\* WriteData puts n bytes, and closes after the last one.
Writes(n) ==
    /\ At("WRITE") /\ done + n <= Size /\ (n > 0 \/ aborted)
    /\ wire' = wire \o [i \in 1 .. n |-> done + i] /\ done' = done + n
    /\ IsDataEof(done + n, done + n = Size, FALSE)
    /\ UNCHANGED <<packet, peer, dest>> /\ DataUnchanged

\* A mutant: data_error forgets the timeout.
DataFailsSilently ==
    /\ At("READ") \/ At("WRITE")
    /\ wire' = <<>>
    /\ IsDataEof(done, TRUE, FALSE)
    /\ UNCHANGED <<done, packet, peer, dest>> /\ DataUnchanged

\* The data connection breaks, or its timeout passes.
DataFails ==
    /\ At("READ") \/ At("WRITE")
    /\ wire' = <<>>
    /\ IsDataEof(done, TRUE, TRUE)
    /\ UNCHANGED <<done, packet, peer, dest>> /\ DataUnchanged

---------------------------------------------------------------------------
\* StartAbort: the interrupt, and ABOR.

AbortPuts ==
    /\ \/ At("IP") /\ ~lost /\ UNCHANGED <<up, data>>
       \/ At("OOB") /\ UNCHANGED <<up, data>>
       \/ At("ABOR") /\ ~lost /\ up' = Append(up, "ABOR") /\ data' = "closed"
    /\ Left(Tail(queue))
    /\ UNCHANGED <<conf, opcode, events, reply, prevcode, half, flags, offsets, peer, wire, down,
                   lost, server, dest, trouble>>

ClientStep ==
    \/ Begins \/ PutGetSends \/ PutGetReadsCode \/ PutGetEnds
    \/ LoginEnds \/ LoginThrows \/ ConnectBegins \/ ConnectEnds \/ DataBegins \/ DataConnects
    \/ Listens \/ Accepts \/ AbortPuts
    \/ \E n \in 0 .. Size : Reads(n) \/ Writes(n)

---------------------------------------------------------------------------
\* The server.

Answers(c) ==
    CASE c = "USER" -> {331, 230, 530} [] c = "PASS" -> {230, 332, 530} [] c = "ACCT" -> {230, 530}
      [] c = "TYPE" -> {200} [] c = "SIZE" -> {213, 550} [] c = "EPSV" -> {229, 500}
      [] c = "PASV" -> {227} [] c = "EPRT" -> {200, 500} [] c = "PORT" -> {200}
      [] c = "REST" -> {350, 500} [] c \in {"RETR", "STOR", "APPE", "LIST"} -> {150, 550}
      [] c = "DELE" -> {250, 550} [] c = "RNFR" -> {350, 550} [] c = "RNTO" -> {250, 550}
      [] c = "QUIT" -> {221}

\* What is left of a file that is written from place n on.
Cut(s, n) == SubSeq(s, 1, IF n < Len(s) THEN n ELSE Len(s))

\* The commands that do what a call asks for.
Final == {"USER", "PASS", "ACCT", "DELE", "RNTO", "QUIT"}

ServerAnswers ==
    /\ up # <<>> /\ Head(up) # "ABOR" /\ xfer = NoXfer /\ ~lost
    /\ \E code \in Answers(Head(up)) :
          /\ code = 150 /\ mode = "ACTIVE" => data # "open" /\ wire = <<>>
          /\ down' = Append(down, code)
          /\ effect' = (effect \/ (Head(up) \in Final /\ code \in 200 .. 299))
          /\ rest' = IF code = 350 /\ Head(up) = "REST" THEN position ELSE 0
          /\ IF code = 150
             THEN /\ xfer' = [cmd |-> Head(up), at |-> rest]
                  /\ peer' = IF mode = "ACTIVE" THEN "open" ELSE peer
                  /\ stored' = IF Head(up) = "STOR" THEN Cut(stored, rest) ELSE stored
                  /\ UNCHANGED wire
             ELSE /\ peer' = IF code = 550 THEN "closed" ELSE peer
                  /\ UNCHANGED <<xfer, stored, wire>>
    /\ up' = Tail(up)
    /\ UNCHANGED <<conf, client, flags, offsets, data, lost, dest, trouble>>

Sending   == xfer.cmd \in {"RETR", "LIST"}
Receiving == xfer.cmd \in {"STOR", "APPE"}

ServerMoves ==
    /\ peer = "open" /\ ~lost
    /\ \/ /\ Sending /\ xfer.at < Size
          /\ wire' = Append(wire, xfer.at + 1) /\ UNCHANGED stored
       \/ /\ Receiving /\ wire # <<>>
          /\ stored' = Append(stored, Head(wire)) /\ wire' = Tail(wire)
    /\ xfer' = [xfer EXCEPT !.at = @ + 1]
    /\ UNCHANGED <<conf, client, flags, offsets, data, peer, up, down, lost, rest, effect, dest, trouble>>

\* The end of the transfer, with the reply to it.
ServerEnds(code) ==
    /\ xfer # NoXfer /\ ~lost
    /\ code = 226 => \/ Sending /\ xfer.at = Size
                     \/ Receiving /\ wire = <<>> /\ data = "closed"
    /\ peer' = "closed" /\ xfer' = NoXfer
    /\ down' = Append(down, code)
    /\ UNCHANGED <<conf, client, flags, offsets, data, wire, up, lost, rest, stored, effect, dest, trouble>>

ServerAborts ==
    /\ up # <<>> /\ Head(up) = "ABOR" /\ ~lost
    /\ IF xfer # NoXfer THEN down' = down \o <<426, 226>>
       ELSE \E code \in {226, 502} : down' = Append(down, code)
    /\ peer' = "closed" /\ xfer' = NoXfer /\ up' = Tail(up)
    /\ UNCHANGED <<conf, client, flags, offsets, data, wire, lost, rest, stored, effect, dest, trouble>>

\* The control connection breaks.
Breaks ==
    /\ connected /\ ~lost /\ status = "WORKING"
    /\ lost' = TRUE /\ up' = <<>> /\ down' = <<>> /\ peer' = "closed" /\ xfer' = NoXfer
    /\ UNCHANGED <<conf, client, flags, offsets, data, wire, rest, stored, effect, dest, trouble>>

Server == ServerAnswers \/ ServerMoves \/ ServerAborts \/ \E code \in {226, 426} : ServerEnds(code)

\* One call of Do0.
Turn == ClientStep \/ PutGetFails \/ AcceptFails \/ DataFails

Next == \/ \E op \in Ops \cup {"Connect"}, again \in BOOLEAN : Run(op, again)
        \/ Abort
        \/ Turn
        \/ Server \/ Breaks

Spec == Init /\ [][Next]_vars

\* A blocking call spins in Do0; when its sockets have a timeout, each of its waits
\* ends with what it waits for or with that.  Nothing is asked of the server.
FairSpec == Spec /\ WF_vars(timed /\ Turn)

---------------------------------------------------------------------------
\* Properties.

Heads == {"CONNECT", "LOGIN", "DATA", "LISTEN", "ACCEPT", "READ", "WRITE", "REPLY",
          "IP", "OOB", "ABOR", "ABORREPLY", "LASTREPLY"} \cup Commands

Opcodes == {"NONE", "DNS", "HELO", "PASV", "PORT", "RNTO"} \cup Commands
Codes    == {"RETR", "STOR", "APPE", "LIST"}

Sent    == Commands \cup {"USER", "PASS", "ACCT", "PASV", "PORT", "RNTO", "ABOR"}

\* Type invariant: of the call, of the queue, of the control connection, of the data.
CallOK  == /\ mode \in {"ACTIVE", "PASSIVE"} /\ blocking \in BOOLEAN
           /\ timed \in BOOLEAN /\ ascii \in BOOLEAN
           /\ call \in Ops \cup {"Connect", "none"} /\ calls \in Nat
QueueOK == /\ status \in {"IDLE", "WORKING", "FINISHED", "FAILED"}
           /\ queue \in Seq(Heads)
           /\ status = "WORKING" <=> queue # <<>>
           /\ queue # <<>> => call # "none"
LineOK  == /\ opcode \in Opcodes /\ events \in {Idle, Read} /\ half \in BOOLEAN
           /\ reply \in 0 .. 599 /\ prevcode \in 0 .. 599
           /\ connected \in BOOLEAN /\ aborted \in BOOLEAN /\ lost \in BOOLEAN
           /\ up \in Seq(Sent) /\ down \in Seq(0 .. 599)
DataOK  == /\ data \in {"closed", "open", "aborted"} /\ peer \in {"closed", "open"}
           /\ position \in Nat /\ done \in Nat /\ rest \in Nat
           /\ data_error \in BOOLEAN /\ effect \in BOOLEAN
           /\ packet \in Seq(Nat) /\ wire \in Seq(Nat) /\ dest \in Seq(Nat) /\ stored \in Seq(Nat)
           /\ xfer = NoXfer \/ xfer \in [cmd : Codes, at : Nat]
TypeOK  == CallOK /\ QueueOK /\ LineOK /\ DataOK

\* Between two calls the client and the server agree on where they are: no
\* command without a reply, no reply that nobody read, no transfer that still
\* runs.  An Abort, a reply later than the timeout, and a login that ends on
\* half a reply break this for the rest of the connection.
InStep ==
    status # "WORKING" /\ connected /\ ~lost /\ trouble \cap {"abort", "late", "split"} = {}
       => up = <<>> /\ down = <<>> /\ events = Idle /\ xfer = NoXfer

Whole == [i \in 1 .. Size |-> i]

\* What a call tells its caller, !IsError().
Succeeds == status = "FINISHED" /\ ~data_error

\* What has come of the file is its beginning, byte by byte, or line by line; and
\* it is all up to the end of the file, or to the end of its last line that has one.
Beginning == /\ \A i \in 1 .. Len(dest) : dest[i] = Handed(i)
             /\ ascii => Len(dest) \in Lf \cup {0}
Delivered == /\ Beginning /\ Len(dest) <= Size
             /\ IF ascii THEN \A i \in Len(dest) + 1 .. Size : i \notin Lf ELSE Len(dest) = Size

\* A call that returns true has done what it was asked for: the file is whole
\* where it goes to, the command was carried out.  (Whole but for the CRs and an
\* unterminated last line in an ASCII Get and in ListDir: ReadAscii drops them,
\* Ftp.cpp:886-919, and the call returns true all the same.)
TrueIsDone ==
    Succeeds /\ trouble = {} =>
        /\ call \in {"Get", "ListDir"} => Delivered
        /\ call = "Put" => stored = Whole
        /\ call = "Append" => Len(stored) >= Size /\ SubSeq(stored, Len(stored) - Size + 1, Len(stored)) = Whole
        /\ call \in {"Connect", "Login", "Delete", "Rename", "Disconnect"} => effect

\* With a timeout a blocking call returns, whatever the server does, as long as
\* there is a connection; without one the interrupt of an Abort is put for ever.
CallEnds == timed /\ status = "WORKING" ~> status # "WORKING" \/ lost
---------------------------------------------------------------------------
\* The inductive invariant.

\* The client is to know where the conversation stands.
Calm == trouble \cap {"abort", "late", "split"} = {}

Entry == IF queue = <<>> THEN "none" ELSE Head(queue)

\* The entries of a call, and the one that follows each.
Dials == IF mode = "PASSIVE" THEN "DATA" ELSE "LISTEN"
Moves == IF call \in {"Get", "ListDir"} THEN "READ" ELSE "WRITE"
Entries ==
    CASE call = "Connect"    -> {"CONNECT", "LOGIN"}
      [] call = "Login"      -> {"LOGIN"}
      [] call = "Delete"     -> {"DELE"}
      [] call = "Rename"     -> {"RNFR"}
      [] call = "Disconnect" -> {"QUIT"}
      [] OTHER -> {"TYPE", "SIZE", "EPSV", "EPRT", "REST", Dials, Transfers[call], "ACCEPT",
                   Moves, "REPLY"}
Then(e) ==
    CASE e = "CONNECT"                      -> "LOGIN"
      [] e = "TYPE" /\ call # "ListDir"     -> "SIZE"
      [] e = "SIZE" \/ (e = "TYPE" /\ call = "ListDir") -> (IF mode = "PASSIVE" THEN "EPSV" ELSE "EPRT")
      [] e \in {"EPSV", "EPRT"}             -> (IF dest = <<>> THEN Dials ELSE "REST")
      [] e = "REST"                         -> Dials
      [] e \in {"DATA", "LISTEN"}           -> Transfers[call]
      [] e \in Codes                        -> (IF mode = "PASSIVE" THEN Moves ELSE "ACCEPT")
      [] e = "ACCEPT"                       -> Moves
      [] e \in {"READ", "WRITE"}            -> "REPLY"
      [] OTHER                              -> "none"

ConnectInv ==
    /\ \A i \in 2 .. Len(queue) : queue[i] # "CONNECT"
    /\ Entry = "CONNECT" => call = "Connect" /\ queue = <<"CONNECT", "LOGIN">>

OrderInv ==
    Calm => \A i \in 1 .. Len(queue) :
               /\ queue[i] \in Entries
               /\ Then(queue[i]) = IF i = Len(queue) THEN "none" ELSE queue[i + 1]

LostInv  == lost => up = <<>> /\ down = <<>> /\ xfer = NoXfer
AbortInv == aborted => "abort" \in trouble

OpcodeInv ==
    /\ Entry \notin Commands \cup {"CONNECT", "DATA"} => opcode = "NONE"
    /\ Entry \in Commands =>
          \/ opcode \in {"NONE", Entry}
          \/ <<Entry, opcode>> \in {<<"EPSV", "PASV">>, <<"EPRT", "PORT">>, <<"RNFR", "RNTO">>}
    /\ Entry = "DATA" => opcode \in {"NONE", "DNS"}
    /\ Entry = "CONNECT" => \/ opcode = "NONE"
                            \/ opcode \in {"DNS", "HELO"} /\ ~connected /\ ~lost

\* Where the conversation is: between two commands, with a command whose reply is
\* on its way, with a transfer that begins, with one whose end is on its way.
Silent      == up = <<>> /\ down = <<>> /\ events = Idle /\ xfer = NoXfer
Quiet       == Silent /\ ~half
HalfRead    == half => events = Read /\ down # <<>> /\ reply = Head(down)
Asked(c)    == up = <<c>> /\ down = <<>> /\ xfer = NoXfer
Answered(c) == up = <<>> /\ xfer = NoXfer /\ \E code \in Answers(c) \ {150} : down = <<code>>
Talking(c)  == events = Read /\ HalfRead /\ (Asked(c) \/ Answered(c))
Opened      == /\ events = Read /\ HalfRead /\ up = <<>>
               /\ \/ down = <<150>> /\ xfer # NoXfer
                  \/ down \in {<<150, 226>>, <<150, 426>>} /\ xfer = NoXfer
Owed        == /\ HalfRead /\ up = <<>>
               /\ \/ down = <<>> /\ xfer # NoXfer
                  \/ down \in {<<226>>, <<426>>} /\ xfer = NoXfer

StepInv ==
    Calm /\ ~lost =>
      /\ Entry = "none" /\ (connected \/ status = "FINISHED") => Quiet
      /\ Entry = "none" \/ (Entry = "CONNECT" /\ opcode # "HELO") => Silent
      /\ Entry = "CONNECT" /\ opcode = "HELO" =>
            /\ up = <<>> /\ down = <<220>> /\ xfer = NoXfer
            /\ events = Read /\ half => reply = 220 /\ prevcode = 220
      /\ Entry = "LOGIN" =>
            \/ Quiet
            \/ /\ \E c \in {"USER", "PASS", "ACCT"} : Talking(c)
               /\ IF half THEN prevcode = reply ELSE prevcode \in {200, 220, 331, 332}
      /\ Entry \in Commands => Quiet \/ (opcode # "NONE" /\ Talking(opcode)) \/ (opcode \in Codes /\ Opened)
      /\ Entry \in {"DATA", "LISTEN"} => Quiet
      /\ Entry \in {"ACCEPT", "READ", "WRITE"} => Owed /\ events = Idle
      /\ Entry = "REPLY" => Owed

\* The server's end of the data connection.
PeerInv ==
    Calm => /\ xfer # NoXfer => peer = "open"
            /\ Entry \in Codes /\ mode = "PASSIVE" =>
                  data = "open" /\ (~lost /\ xfer = NoXfer /\ down = <<>> => peer = "open")
            /\ Entry \in Codes /\ down # <<>> /\ peer = "open" => xfer # NoXfer
            /\ Entry = "WRITE" => data = "open"
            /\ Entry \in {"ACCEPT", "READ", "WRITE"} /\ peer = "open" => xfer # NoXfer

\* Where the next transfer starts.
RestInv ==
    trouble = {} /\ call \in DOMAIN Transfers =>
      /\ call \in {"Put", "Append", "ListDir"} /\ Entry \notin {"none", "READ", "REPLY"} => dest = <<>>
      /\ Entry = "REST" \/ (Entry \in {"TYPE", "SIZE", "EPSV", "EPRT"} /\ dest # <<>>)
            => position = Len(dest)
      /\ Entry \in {"EPSV", "EPRT"} /\ dest = <<>> /\ down # <<>> => rest = 0
      /\ Entry = "REST" /\ down = <<350>> => rest = Len(dest)
      /\ Entry \in {"DATA", "LISTEN"} => rest = Len(dest)
      /\ Entry \in Codes /\ ~lost /\ xfer = NoXfer /\ down = <<>> => rest = Len(dest) /\ wire = <<>>

\* A file that comes: what there is of it, and what is on the way.
Ended(code) == down # <<>> /\ down[Len(down)] = code
Got == IF Entry = "READ" THEN Len(dest) + Len(packet) ELSE Len(dest)
ReadInv ==
    trouble = {} /\ call \in {"Get", "ListDir"} =>
      /\ Beginning
      /\ (Entry \in Codes /\ events = Read /\ ~lost) \/ Entry = "ACCEPT" => packet = <<>>
      /\ Entry = "READ" => \A i \in 1 .. Len(packet) : packet[i] = Len(dest) + i
      /\ Entry \in Codes \cup {"ACCEPT", "READ"} =>
            /\ \A i \in 1 .. Len(wire) : wire[i] = Got + i
            /\ xfer # NoXfer => xfer.cmd = Transfers[call] /\ xfer.at = Got + Len(wire)
            /\ Ended(226) => Got + Len(wire) = Size
      /\ Entry = "REPLY" /\ ~data_error => xfer = NoXfer /\ (Ended(226) => Delivered)

\* A file that goes: the server's and what is on the way end with its first n bytes.
Row(n) ==
    LET all == stored \o wire
    IN  /\ n <= Len(all) /\ \A i \in 1 .. n : all[Len(all) - n + i] = i
        /\ call = "Put" => Len(all) = n
WriteInv ==
    trouble = {} /\ call \in {"Put", "Append"} =>
      /\ Entry \in Codes /\ events = Read /\ ~lost => done = 0
      /\ Entry \in Codes \cup {"ACCEPT", "WRITE"} /\ xfer # NoXfer =>
            xfer.cmd = Transfers[call] /\ Row(done)
      /\ Entry = "WRITE" \/ (Entry \in Codes /\ mode = "PASSIVE") => ~Ended(226)
      /\ Entry = "REPLY" /\ ~data_error /\ xfer # NoXfer => xfer.cmd = Transfers[call] /\ Row(Size)
      /\ Entry = "REPLY" /\ ~data_error /\ Ended(226) => wire = <<>> /\ Row(Size)

\* What the reply to a command says was done.
EffectInv ==
    trouble = {} =>
      /\ Entry \in {"LOGIN", "DELE", "RNFR", "QUIT"} =>
            \A i \in 1 .. Len(down) : down[i] \in 200 .. 299 => effect
      /\ Entry = "LOGIN" /\ prevcode \in LoggedIn => effect

FtpInv == /\ TypeOK /\ ConnectInv /\ OrderInv /\ LostInv /\ AbortInv /\ OpcodeInv /\ StepInv
          /\ PeerInv /\ RestInv /\ ReadInv /\ WriteInv /\ EffectInv /\ TrueIsDone
=============================================================================
