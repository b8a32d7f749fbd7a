----------------------------- MODULE FtpProofs -----------------------------
(***************************************************************************)
(* Proofs about Ftp: its inductive invariant, that client and server stay in *)
(* step, and that a call that returns true has done its work.                *)
(***************************************************************************)
EXTENDS Ftp, SequenceTheorems, TLAPS

---------------------------------------------------------------------------
\* Sequences.

LEMMA AppendToOne == ASSUME NEW a, NEW b PROVE Append(<<a>>, b) = <<a, b>>
<1> DEFINE S == {a, b} s == Append(<<a>>, b) t == <<a, b>>
<1>1. <<a>> \in Seq(S) /\ b \in S
  OBVIOUS
<1>2. s \in Seq(S) /\ Len(s) = 2 /\ s[1] = a /\ s[2] = b
  BY <1>1, AppendProperties
<1>3. t \in Seq(S) /\ Len(t) = 2 /\ t[1] = a /\ t[2] = b
  OBVIOUS
<1> HIDE DEF s, t
<1>4. \A i \in 1 .. 2 : s[i] = t[i]
  <2>1. \A i \in 1 .. 2 : i = 1 \/ i = 2
    OBVIOUS
  <2> QED BY <1>2, <1>3, <2>1
<1>5. s = t
  BY <1>2, <1>3, <1>4, SeqEqual
<1> QED BY <1>5 DEF s, t

---------------------------------------------------------------------------
\* The queue: its head, and what becomes of it.

\* What holds whatever the client knows of the server.
Base == TypeOK /\ ConnectInv /\ OpcodeInv /\ LostInv /\ AbortInv

\* The entry under way is the head of the queue.
LEMMA EntryIsHead ==
  ASSUME TypeOK
  PROVE  /\ Entry \in Heads \cup {"none"}
         /\ Entry = "none" <=> queue = <<>>
         /\ Entry # "none" <=> status = "WORKING"
         /\ \A e \in Heads : At(e) <=> Entry = e
<1>1. queue \in Seq(Heads) /\ (status = "WORKING" <=> queue # <<>>)
  BY DEF TypeOK, QueueOK
<1>2. "none" \notin Heads
  BY DEF Heads, Commands
<1>3. queue # <<>> => Head(queue) \in Heads
  BY <1>1
<1> QED BY <1>1, <1>2, <1>3 DEF Entry, At

\* An entry that is done leaves the rest of the queue.
LEMMA Pops ==
  ASSUME TypeOK, ConnectInv, queue # <<>>, Left(Tail(queue))
  PROVE  /\ queue' \in Seq(Heads)
         /\ status' \in {"IDLE", "WORKING", "FINISHED", "FAILED"}
         /\ status' = "WORKING" <=> queue' # <<>>
         /\ status' \in {"WORKING", "FINISHED"}
         /\ ConnectInv' /\ Entry' # "CONNECT"
<1>1. queue \in Seq(Heads) /\ status = "WORKING" /\ queue' = Tail(queue)
  BY DEF TypeOK, QueueOK, Left
<1>2. /\ queue' \in Seq(Heads)
      /\ Len(queue') = Len(queue) - 1
      /\ \A i \in 1 .. Len(queue') : queue'[i] = queue[i + 1]
  BY <1>1, HeadTailProperties
<1>3. Len(queue) \in Nat /\ Len(queue') \in Nat
  BY <1>1, <1>2, LenProperties
<1>4. \A i \in 1 .. Len(queue') : queue'[i] # "CONNECT"
  <2> TAKE i \in 1 .. Len(queue')
  <2>1. i + 1 \in 2 .. Len(queue)
    BY <1>2, <1>3
  <2> QED BY <1>2, <2>1 DEF ConnectInv
<1>5. \A i \in 2 .. Len(queue') : queue'[i] # "CONNECT"
  BY <1>3, <1>4
<1>6. Entry' # "CONNECT"
  <2>1. CASE queue' = <<>>
    BY <2>1 DEF Entry
  <2>2. CASE queue' # <<>>
    <3>1. 1 \in 1 .. Len(queue') /\ Head(queue') = queue'[1]
      BY <1>2, <1>3, <2>2
    <3> QED BY <1>4, <2>2, <3>1 DEF Entry
  <2> QED BY <2>1, <2>2
<1>7. /\ status' \in {"WORKING", "FINISHED"}
      /\ status' = "WORKING" <=> queue' # <<>>
  BY <1>1 DEF Left
<1> QED BY <1>2, <1>5, <1>6, <1>7 DEF ConnectInv

\* An entry that throws ends the call, or begins to abort it.
LEMMA Fails ==
  ASSUME TypeOK, queue # <<>>, Throws
  PROVE  /\ queue' \in Seq(Heads)
         /\ status' \in {"IDLE", "WORKING", "FINISHED", "FAILED"}
         /\ status' = "WORKING" <=> queue' # <<>>
         /\ Entry' \in {"none", "IP"} /\ ConnectInv'
         /\ events' = Idle /\ opcode' = "NONE" /\ aborted' = FALSE
         /\ data' \in {"closed", "open", "aborted"}
         /\ ~aborted => queue' = <<>> /\ Entry' = "none" /\ status' = "FAILED" /\ data' = data
<1>1. status = "WORKING" /\ data \in {"closed", "open", "aborted"} /\ aborted \in BOOLEAN
  BY DEF TypeOK, QueueOK, DataOK, LineOK
<1>2. events' = Idle /\ opcode' = "NONE" /\ aborted' = FALSE /\ data' \in {"closed", "open", "aborted"}
  BY <1>1 DEF Throws
<1>3. CASE aborted
  <2> DEFINE q == <<"IP", "OOB", "ABOR", "ABORREPLY">>
  <2>1. queue' = q /\ status' = "WORKING"
    BY <1>1, <1>3 DEF Throws
  <2>2. /\ q \in Seq(Heads) /\ q # <<>> /\ Head(q) = "IP" /\ Len(q) = 4
        /\ q[2] = "OOB" /\ q[3] = "ABOR" /\ q[4] = "ABORREPLY"
    BY DEF Heads
  <2>3. \A i \in 2 .. 4 : i = 2 \/ i = 3 \/ i = 4
    OBVIOUS
  <2> HIDE DEF q
  <2>4. Entry' = "IP"
    BY <2>1, <2>2 DEF Entry
  <2>5. \A i \in 2 .. Len(queue') : queue'[i] # "CONNECT"
    BY <2>1, <2>2, <2>3
  <2> QED BY <1>2, <1>3, <2>1, <2>2, <2>4, <2>5 DEF ConnectInv
<1>4. CASE ~aborted
  <2>1. queue' = <<>> /\ status' = "FAILED" /\ data' = data
    BY <1>4 DEF Throws
  <2>2. Entry' = "none"
    BY <2>1 DEF Entry
  <2>3. \A i \in 2 .. Len(queue') : queue'[i] # "CONNECT"
    BY <2>1
  <2> QED BY <1>2, <2>1, <2>2, <2>3, EmptySeq DEF ConnectInv
<1> QED BY <1>1, <1>3, <1>4

LEMMA Stays ==
  ASSUME ConnectInv, queue' = queue, call' = call
  PROVE  ConnectInv' /\ Entry' = Entry
BY DEF ConnectInv, Entry

---------------------------------------------------------------------------
\* What holds in every state, step by step.

LEMMA InitBase == Init => Base
<1> SUFFICES ASSUME Init PROVE Base
  OBVIOUS
<1>1. queue = <<>> /\ Entry = "none" /\ opcode = "NONE" /\ lost = FALSE /\ aborted = FALSE
  BY DEF Init, Entry
<1>2. CallOK /\ QueueOK
  <2>1. blocking \in BOOLEAN /\ timed \in {FALSE, blocking} /\ ascii = FALSE
    BY FtpAssumption DEF Init
  <2>2. timed \in BOOLEAN /\ ascii \in BOOLEAN
    BY <2>1
  <2>3. mode \in {"ACTIVE", "PASSIVE"} /\ call = "none" /\ calls = 0
    BY FtpAssumption DEF Init
  <2>4. QueueOK
    BY DEF Init, QueueOK
  <2> QED BY <2>1, <2>2, <2>3, <2>4 DEF CallOK
<1>3. LineOK
  <2>1. up \in Seq(Sent) /\ down \in Seq(0 .. 599)
    BY EmptySeq DEF Init
  <2>2. opcode \in Opcodes /\ events \in {Idle, Read} /\ reply \in 0 .. 599 /\ prevcode \in 0 .. 599
    BY DEF Init, Opcodes
  <2> QED BY <2>1, <2>2 DEF Init, LineOK
<1>4. DataOK
  <2>1. packet \in Seq(Nat) /\ wire \in Seq(Nat) /\ dest \in Seq(Nat) /\ stored \in Seq(Nat)
    BY EmptySeq DEF Init
  <2>2. position \in Nat /\ done \in Nat /\ rest \in Nat
    BY DEF Init
  <2> QED BY <2>1, <2>2 DEF Init, DataOK
<1>5. ConnectInv
  BY <1>1 DEF ConnectInv
<1>6. OpcodeInv /\ LostInv /\ AbortInv
  BY <1>1 DEF OpcodeInv, LostInv, AbortInv, Commands
<1> QED BY <1>2, <1>3, <1>4, <1>5, <1>6 DEF Base, TypeOK

\* What a step that leaves the queue, or the data, alone keeps.
LEMMA QueueKept ==
  ASSUME Base, queue' = queue, status' = status, UNCHANGED conf
  PROVE  CallOK' /\ QueueOK' /\ ConnectInv' /\ Entry' = Entry
<1>1. CallOK /\ QueueOK /\ ConnectInv
  BY DEF Base, TypeOK
<1>2. CallOK' /\ QueueOK'
  BY <1>1 DEF CallOK, QueueOK, conf
<1>3. ConnectInv' /\ Entry' = Entry
  BY <1>1, Stays DEF conf
<1> QED BY <1>2, <1>3

LEMMA QueuePopped ==
  ASSUME Base, queue # <<>>, Left(Tail(queue)), UNCHANGED conf
  PROVE  CallOK' /\ QueueOK' /\ ConnectInv' /\ Entry' # "CONNECT"
<1>1. CallOK /\ QueueOK
  BY DEF Base, TypeOK
<1>2. CallOK'
  BY <1>1 DEF CallOK, conf
<1>3. QueueOK' /\ ConnectInv' /\ Entry' # "CONNECT"
  BY <1>1, Pops DEF QueueOK, conf, Base
<1> QED BY <1>2, <1>3

LEMMA QueueFails ==
  ASSUME Base, queue # <<>>, Throws, UNCHANGED conf
  PROVE  CallOK' /\ QueueOK' /\ ConnectInv' /\ Entry' \in {"none", "IP"}
<1>1. CallOK /\ QueueOK
  BY DEF Base, TypeOK
<1>2. CallOK'
  BY <1>1 DEF CallOK, conf
<1>3. QueueOK' /\ ConnectInv' /\ Entry' \in {"none", "IP"}
  BY <1>1, Fails DEF QueueOK, conf, Base
<1> QED BY <1>2, <1>3

LEMMA DataKept ==
  ASSUME Base, UNCHANGED <<data, peer, position, done, rest, data_error, effect, packet, wire, dest, stored, xfer>>
  PROVE  DataOK'
BY DEF Base, TypeOK, DataOK

LEMMA BaseBegins == ASSUME Base, Begins PROVE Base'
<1> USE DEF Base
<1>1. PICK c \in Commands : At(c) /\ opcode' = c
  BY DEF Begins
<1>2. Entry = c
  <2>1. c \in Heads
    BY DEF Heads
  <2> QED BY <1>1, <2>1, EntryIsHead
<1>3. CallOK' /\ QueueOK' /\ ConnectInv' /\ Entry' = c
  BY <1>2, QueueKept DEF Begins
<1>4. LineOK'
  BY <1>1 DEF TypeOK, LineOK, Begins, flags, Opcodes
<1>5. DataOK'
  BY DataKept DEF Begins, flags, offsets, socks, server
<1>6. OpcodeInv'
  BY <1>1, <1>3 DEF OpcodeInv, Commands
<1>7. LostInv' /\ AbortInv'
  BY DEF Begins, LostInv, AbortInv, flags, server
<1> QED BY <1>3, <1>4, <1>5, <1>6, <1>7 DEF TypeOK

LEMMA BaseAbort == ASSUME Base, Abort PROVE Base'
<1> USE DEF Base
<1>1. CallOK' /\ QueueOK' /\ ConnectInv' /\ Entry' = Entry
  BY QueueKept DEF Abort, client
<1>2. LineOK'
  BY DEF TypeOK, LineOK, Abort, client
<1>3. DataOK'
  BY DataKept DEF Abort, offsets, socks, server
<1>4. OpcodeInv'
  BY <1>1 DEF OpcodeInv, Abort, client
<1>5. LostInv' /\ AbortInv'
  BY DEF Abort, LostInv, AbortInv, server
<1> QED BY <1>1, <1>2, <1>3, <1>4, <1>5 DEF TypeOK

\* What PutGet is asked to send.
LEMMA PutsIs ==
  ASSUME Base, InPutGet
  PROVE  /\ Puts \in Commands \cup {"USER", "PASS", "ACCT", "PASV", "PORT", "RNTO", Null}
         /\ Entry = "LOGIN" => Puts \in {"USER", "PASS", "ACCT"} /\ prevcode \in {200, 220, 331, 332}
         /\ Entry = "CONNECT" => Puts = Null /\ opcode = "HELO"
         /\ Entry \in Commands => Puts = opcode /\ opcode # "NONE"
         /\ Entry = "REPLY" => Puts = Null
         /\ Entry \in Commands \cup {"LOGIN", "CONNECT", "REPLY", "ABORREPLY", "LASTREPLY"}
<1>1. Entry # "none" /\ Entry \in Heads
  BY EntryIsHead DEF InPutGet, Base
<1>2. /\ At("LOGIN") <=> Entry = "LOGIN"
      /\ At("CONNECT") <=> Entry = "CONNECT"
      /\ At("REPLY") <=> Entry = "REPLY"
      /\ At("ABORREPLY") <=> Entry = "ABORREPLY"
      /\ At("LASTREPLY") <=> Entry = "LASTREPLY"
      /\ (\E c \in Commands : At(c)) <=> Entry \in Commands
  BY EntryIsHead DEF Heads, Base
<1>3. Puts # "no"
  BY DEF InPutGet
<1>4. CASE Entry = "LOGIN"
  BY <1>2, <1>3, <1>4 DEF Puts, Commands
<1>5. CASE Entry = "CONNECT"
  BY <1>2, <1>3, <1>5 DEF Puts, Commands
<1>6. CASE Entry \in {"REPLY", "ABORREPLY", "LASTREPLY"}
  BY <1>2, <1>3, <1>6 DEF Puts, Commands
<1>7. CASE Entry \in Commands
  <2>1. Puts = opcode /\ opcode # "NONE"
    BY <1>2, <1>3, <1>7 DEF Puts, Commands
  <2>2. opcode \in {Entry, "PASV", "PORT", "RNTO"}
    BY <1>7, <2>1 DEF Base, OpcodeInv
  <2> QED BY <1>7, <2>1, <2>2 DEF Commands
<1>8. CASE Entry \notin Commands \cup {"LOGIN", "CONNECT", "REPLY", "ABORREPLY", "LASTREPLY"}
  BY <1>2, <1>3, <1>8 DEF Puts
<1> QED BY <1>4, <1>5, <1>6, <1>7, <1>8

LEMMA BasePutGetSends == ASSUME Base, PutGetSends PROVE Base'
<1> USE DEF Base
<1>1. CallOK' /\ QueueOK' /\ ConnectInv' /\ Entry' = Entry
  BY QueueKept DEF PutGetSends
<1>2. up' \in Seq(Sent)
  <2>1. up \in Seq(Sent)
    BY DEF TypeOK, LineOK
  <2>2. Puts # Null => Puts \in Sent
    BY PutsIs DEF PutGetSends, Sent
  <2> QED BY <2>1, <2>2, AppendProperties DEF PutGetSends
<1>3. LineOK'
  <2>1. events' = Read /\ reply' \in 0 .. 599 /\ half' = FALSE
    BY DEF PutGetSends
  <2> QED BY <1>2, <2>1 DEF TypeOK, LineOK, PutGetSends, flags
<1>4. DataOK'
  BY DEF TypeOK, DataOK, PutGetSends, flags, socks, server
<1>5. OpcodeInv'
  BY <1>1 DEF OpcodeInv, PutGetSends, flags
<1>6. LostInv' /\ AbortInv'
  BY DEF PutGetSends, LostInv, AbortInv, flags
<1> QED BY <1>1, <1>3, <1>4, <1>5, <1>6 DEF TypeOK

\* The replies that are on their way.
LEMMA Replies ==
  ASSUME Base, down # <<>>
  PROVE  Head(down) \in 0 .. 599 /\ Tail(down) \in Seq(0 .. 599)
<1> DEFINE T == 0 .. 599
<1>1. down \in Seq(T)
  BY DEF Base, TypeOK, LineOK
<1> HIDE DEF T
<1>2. Head(down) \in T /\ Tail(down) \in Seq(T)
  BY <1>1, HeadTailProperties
<1> QED BY <1>2 DEF T

LEMMA BasePutGetReadsCode == ASSUME Base, PutGetReadsCode PROVE Base'
<1> USE DEF Base
<1>1. CallOK' /\ QueueOK' /\ ConnectInv' /\ Entry' = Entry
  BY QueueKept DEF PutGetReadsCode
<1>2. Head(down) \in 0 .. 599
  BY Replies DEF PutGetReadsCode
<1>3. LineOK'
  BY <1>2 DEF TypeOK, LineOK, PutGetReadsCode, flags
<1>4. DataOK'
  BY DataKept DEF PutGetReadsCode, flags, offsets, socks, server
<1>5. OpcodeInv'
  BY <1>1 DEF OpcodeInv, PutGetReadsCode, flags
<1>6. LostInv' /\ AbortInv'
  BY DEF PutGetReadsCode, LostInv, AbortInv, flags, server
<1> QED BY <1>1, <1>3, <1>4, <1>5, <1>6 DEF TypeOK

\* The opcode is of the entry under way.
LEMMA OpcodeOfEntry ==
  ASSUME Base
  PROVE  /\ opcode \in Commands => Entry = opcode
         /\ opcode = "HELO" => Entry = "CONNECT"
         /\ opcode = "RNTO" => Entry = "RNFR"
         /\ opcode = "PASV" => Entry = "EPSV"
         /\ opcode = "PORT" => Entry = "EPRT"
         /\ opcode \in Opcodes
BY DEF Base, OpcodeInv, Commands, TypeOK, LineOK

LEMMA NoOpcode == ASSUME opcode' = "NONE" PROVE OpcodeInv'
BY DEF OpcodeInv

\* What an entry does with the reply it accepts.
LEMMA Afters ==
  ASSUME Base, NEW code
  PROVE  /\ Entry = "LOGIN" => After(code).queue = queue /\ After(code).opcode = "NONE"
         /\ opcode = "EPSV" /\ code \notin 200 .. 299 => After(code).queue = queue /\ After(code).opcode = "PASV"
         /\ opcode = "EPRT" /\ code \notin 200 .. 299 => After(code).queue = queue /\ After(code).opcode = "PORT"
         /\ opcode = "RNFR" => After(code).queue = queue /\ After(code).opcode = "RNTO"
         /\ Entry = "ABORREPLY" =>
              /\ After(code).queue \in {Tail(queue), Append(Tail(queue), "LASTREPLY")}
              /\ After(code).opcode = "NONE"
         /\ /\ Entry \notin {"LOGIN", "ABORREPLY"} /\ opcode # "RNFR"
            /\ opcode \in {"EPSV", "EPRT"} => code \in 200 .. 299
            => After(code).queue = Tail(queue) /\ After(code).opcode = "NONE"
<1>1. (At("LOGIN") <=> Entry = "LOGIN") /\ (At("ABORREPLY") <=> Entry = "ABORREPLY")
  BY EntryIsHead DEF Heads, Base
<1>2. opcode \in {"EPSV", "EPRT", "RNFR"} => Entry = opcode
  BY OpcodeOfEntry DEF Commands
<1>3. CASE Entry = "LOGIN"
  BY <1>1, <1>2, <1>3 DEF After
<1>4. CASE Entry = "ABORREPLY"
  BY <1>1, <1>2, <1>4 DEF After
<1>5. CASE opcode = "EPSV"
  BY <1>1, <1>2, <1>5 DEF After
<1>6. CASE opcode = "EPRT"
  BY <1>1, <1>2, <1>6 DEF After
<1>7. CASE opcode = "RNFR"
  BY <1>1, <1>2, <1>7 DEF After
<1>8. CASE Entry \notin {"LOGIN", "ABORREPLY"} /\ opcode \notin {"EPSV", "EPRT", "RNFR"}
  BY <1>1, <1>2, <1>8 DEF After
<1> QED BY <1>3, <1>4, <1>5, <1>6, <1>7, <1>8

\* After the reply to ABOR the queue may get one entry more.
LEMMA QueueGrows ==
  ASSUME Base, queue # <<>>, Left(Append(Tail(queue), "LASTREPLY")), Entry = "ABORREPLY", UNCHANGED conf
  PROVE  CallOK' /\ QueueOK' /\ ConnectInv' /\ Entry' # "CONNECT"
<1> DEFINE q == Tail(queue) r == Append(q, "LASTREPLY")
<1>1. queue \in Seq(Heads) /\ status = "WORKING" /\ "LASTREPLY" \in Heads /\ CallOK
  BY DEF Base, TypeOK, QueueOK, Heads
<1>2. /\ q \in Seq(Heads) /\ Len(q) = Len(queue) - 1
      /\ \A i \in 1 .. Len(q) : q[i] = queue[i + 1]
  BY <1>1, HeadTailProperties
<1>3. Len(queue) \in Nat /\ Len(q) \in Nat
  BY <1>1, <1>2, LenProperties
<1>4. /\ r \in Seq(Heads) /\ r # <<>> /\ Len(r) = Len(q) + 1
      /\ \A i \in 1 .. Len(q) : r[i] = q[i]
      /\ r[Len(q) + 1] = "LASTREPLY"
  <2> HIDE DEF q
  <2>1. q \in Seq(Heads) /\ "LASTREPLY" \in Heads
    BY <1>1, <1>2
  <2> QED BY <2>1, AppendProperties
<1>5. queue' = r /\ status' = "WORKING" /\ CallOK' /\ QueueOK'
  <2>1. queue' = r /\ status' = "WORKING"
    BY <1>1, <1>4 DEF Left
  <2>2. call' # "none"
    BY DEF Base, TypeOK, QueueOK, conf
  <2> HIDE DEF r
  <2> QED BY <1>1, <1>4, <2>1, <2>2 DEF CallOK, QueueOK, conf
<1> HIDE DEF r, q
<1>6. \A i \in 1 .. Len(r) : r[i] # "CONNECT"
  <2> TAKE i \in 1 .. Len(r)
  <2>1. CASE i <= Len(q)
    <3>1. i \in 1 .. Len(q) /\ i + 1 \in 2 .. Len(queue)
      BY <1>2, <1>3, <1>4, <2>1
    <3> QED BY <1>2, <1>4, <3>1 DEF ConnectInv, Base
  <2>2. CASE i = Len(q) + 1
    BY <1>4, <2>2
  <2> QED BY <1>3, <1>4, <2>1, <2>2
<1>7. Len(r) \in Nat \ {0}
  BY <1>3, <1>4
<1>8. Entry' # "CONNECT"
  <2>1. Head(r) = r[1]
    BY <1>4
  <2> QED BY <1>4, <1>5, <1>6, <1>7, <2>1 DEF Entry
<1> QED BY <1>5, <1>6, <1>8 DEF ConnectInv

LEMMA BasePutGetEnds == ASSUME Base, PutGetEnds PROVE Base'
<1> USE DEF Base
<1> DEFINE code == IF half THEN reply ELSE Head(down)
<1>1. InPutGet /\ queue # <<>> /\ down # <<>> /\ down' = Tail(down) /\ half' = FALSE
  BY DEF PutGetEnds, InPutGet
<1>2. Head(down) \in 0 .. 599 /\ down' \in Seq(0 .. 599) /\ ~lost
  <2>2. Head(down) \in 0 .. 599 /\ Tail(down) \in Seq(0 .. 599)
    BY <1>1, Replies
  <2>3. ~lost
    BY <1>1 DEF LostInv
  <2> QED BY <1>1, <2>2, <2>3
<1>3. /\ code \in 0 .. 599 /\ reply' = code /\ prevcode' \in 0 .. 599
  <2>1. reply \in 0 .. 599 /\ prevcode \in 0 .. 599
    BY DEF TypeOK, LineOK
  <2>2. reply' = code /\ prevcode' \in {prevcode, code}
    BY DEF PutGetEnds
  <2> HIDE DEF code
  <2>3. code \in 0 .. 599
    BY <1>2, <2>1 DEF code
  <2> QED BY <2>1, <2>2, <2>3
<1>4. /\ UNCHANGED <<conf, data_error, offsets, peer, wire, up, lost, server, dest, trouble>>
      /\ \/ /\ events' = Idle /\ Left(After(code).queue) /\ opcode' = After(code).opcode
            /\ connected' = IF opcode = "HELO" THEN TRUE ELSE IF opcode = "QUIT" THEN FALSE ELSE connected
            /\ aborted' = (aborted /\ opcode # "QUIT")
            /\ data' = IF opcode = "QUIT" THEN "closed" ELSE data
         \/ Throws /\ UNCHANGED connected
  BY DEF PutGetEnds
<1> HIDE DEF code
<1>5. UNCHANGED conf /\ UNCHANGED <<lost, up, xfer, trouble>>
  BY <1>4 DEF server
<1>6. LostInv'
  BY <1>1, <1>2, <1>5 DEF LostInv
<1>7. CASE Throws /\ UNCHANGED connected
  <2>1. /\ events' = Idle /\ opcode' = "NONE" /\ aborted' = FALSE
        /\ data' \in {"closed", "open", "aborted"}
    BY <1>1, <1>7, Fails
  <2>2. CallOK' /\ QueueOK' /\ ConnectInv'
    BY <1>1, <1>5, <1>7, QueueFails
  <2>3. LineOK'
    <3>1. LineOK
      BY DEF TypeOK
    <3>2. events' \in {Idle, Read} /\ half' \in BOOLEAN /\ opcode' \in Opcodes /\ aborted' \in BOOLEAN
      BY <1>1, <2>1 DEF Opcodes
    <3>3. lost' \in BOOLEAN /\ up' \in Seq(Sent) /\ connected' \in BOOLEAN
      BY <1>5, <1>7, <3>1 DEF LineOK
    <3> QED BY <1>2, <1>3, <3>2, <3>3 DEF LineOK
  <2>4. DataOK'
    BY <1>4, <2>1 DEF TypeOK, DataOK, offsets, server
  <2> QED BY <1>6, <2>1, <2>2, <2>3, <2>4, NoOpcode DEF TypeOK, AbortInv
<1>8. CASE /\ events' = Idle /\ Left(After(code).queue) /\ opcode' = After(code).opcode
           /\ connected' = IF opcode = "HELO" THEN TRUE ELSE IF opcode = "QUIT" THEN FALSE ELSE connected
           /\ aborted' = (aborted /\ opcode # "QUIT")
           /\ data' = IF opcode = "QUIT" THEN "closed" ELSE data
  <2>1. /\ data' \in {"closed", "open", "aborted"} /\ connected' \in BOOLEAN /\ aborted' \in BOOLEAN
        /\ aborted' => aborted
    BY <1>8 DEF TypeOK, DataOK, LineOK
  <2>2. AbortInv'
    BY <1>5, <2>1 DEF AbortInv
  <2>3. opcode \in Opcodes => opcode' \in Opcodes \cup {After(code).opcode}
    BY <1>8
  <2>4. DataOK'
    BY <1>4, <2>1 DEF TypeOK, DataOK, offsets, server
  <2>5. opcode' \in Opcodes => LineOK'
    <3>1. LineOK
      BY DEF TypeOK
    <3>2. events' \in {Idle, Read} /\ half' \in BOOLEAN
      BY <1>1, <1>8
    <3>3. lost' \in BOOLEAN /\ up' \in Seq(Sent)
      BY <1>5, <3>1 DEF LineOK
    <3> QED BY <1>2, <1>3, <2>1, <3>2, <3>3 DEF LineOK
  <2>6. CASE After(code).queue = queue
    <3>1. queue' = queue /\ status' = status
      BY <1>1, <1>8, <2>6 DEF Left, TypeOK, QueueOK
    <3>2. CallOK' /\ QueueOK' /\ ConnectInv' /\ Entry' = Entry
      BY <1>5, <3>1, QueueKept
    <3>3. CASE Entry = "LOGIN"
      <4>1. opcode' = "NONE"
        BY <1>8, <3>3, Afters
      <4> QED BY <1>6, <2>2, <2>4, <2>5, <3>2, <4>1, NoOpcode DEF TypeOK, Opcodes
    <3>4. CASE opcode \in {"EPSV", "EPRT", "RNFR"}
      <4>1. opcode = Entry
        BY <3>4, OpcodeOfEntry DEF Commands
      <4>2. <<Entry, opcode'>> \in {<<"EPSV", "PASV">>, <<"EPRT", "PORT">>, <<"RNFR", "RNTO">>} \/ opcode' = "NONE"
        <5>1. opcode' = After(code).opcode /\ Entry \notin {"LOGIN", "ABORREPLY"}
          BY <1>8, <3>4, <4>1
        <5>2. CASE opcode = "EPSV"
          BY <5>1, <5>2, <4>1, Afters
        <5>3. CASE opcode = "EPRT"
          BY <5>1, <5>3, <4>1, Afters
        <5>4. CASE opcode = "RNFR"
          BY <5>1, <5>4, <4>1, Afters
        <5> QED BY <3>4, <5>2, <5>3, <5>4
      <4>3. OpcodeInv'
        BY <3>2, <3>4, <4>1, <4>2 DEF OpcodeInv, Commands
      <4>4. opcode' \in Opcodes
        BY <4>2 DEF Opcodes
      <4> QED BY <1>6, <2>2, <2>4, <2>5, <3>2, <4>3, <4>4 DEF TypeOK
    <3>5. CASE Entry # "LOGIN" /\ opcode \notin {"EPSV", "EPRT", "RNFR"}
      <4>1. opcode' = "NONE"
        BY <1>8, <3>5, Afters
      <4> QED BY <1>6, <2>2, <2>4, <2>5, <3>2, <4>1, NoOpcode DEF TypeOK, Opcodes
    <3> QED BY <3>3, <3>4, <3>5
  <2>7. CASE After(code).queue # queue
    <3>1. /\ After(code).queue = Tail(queue) \/ (Entry = "ABORREPLY" /\ After(code).queue = Append(Tail(queue), "LASTREPLY"))
          /\ opcode' = "NONE"
      <4>1. opcode' = After(code).opcode
        BY <1>8
      <4>2. CASE Entry = "ABORREPLY"
        BY <4>1, <4>2, Afters
      <4>3. CASE Entry # "ABORREPLY"
        <5>1. /\ Entry # "LOGIN" /\ opcode # "RNFR"
              /\ opcode \in {"EPSV", "EPRT"} => code \in 200 .. 299
          BY <2>7, Afters
        <5> QED BY <4>1, <4>3, <5>1, Afters
      <4> QED BY <4>2, <4>3
    <3>2. CallOK' /\ QueueOK' /\ ConnectInv'
      BY <1>1, <1>5, <1>8, <3>1, QueuePopped, QueueGrows
    <3> QED BY <1>6, <2>2, <2>4, <2>5, <3>1, <3>2, NoOpcode DEF TypeOK, Opcodes
  <2> QED BY <2>6, <2>7
<1> QED BY <1>4, <1>7, <1>8

LEMMA LineFails ==
  ASSUME Base, events' = Idle, opcode' = "NONE", aborted' = FALSE, half' \in {half, FALSE},
         UNCHANGED <<reply, prevcode, connected, lost, up, down>>
  PROVE  LineOK'
<1>1. LineOK
  BY DEF Base, TypeOK
<1>2. events' \in {Idle, Read} /\ opcode' \in Opcodes /\ aborted' \in BOOLEAN
  BY DEF Opcodes
<1>3. half' \in BOOLEAN /\ up' \in Seq(Sent) /\ down' \in Seq(0 .. 599)
  BY <1>1 DEF LineOK
<1>4. reply' \in 0 .. 599 /\ prevcode' \in 0 .. 599 /\ connected' \in BOOLEAN /\ lost' \in BOOLEAN
  BY <1>1 DEF LineOK
<1> QED BY <1>2, <1>3, <1>4 DEF LineOK

LEMMA BasePutGetFails == ASSUME Base, PutGetFails PROVE Base'
<1> USE DEF Base
<1>1. queue # <<>> /\ Throws /\ half' = FALSE
  BY DEF PutGetFails, InPutGet
<1>2. /\ events' = Idle /\ opcode' = "NONE" /\ aborted' = FALSE
      /\ data' \in {"closed", "open", "aborted"}
  BY <1>1, Fails
<1>3. CallOK' /\ QueueOK' /\ ConnectInv'
  BY <1>1, QueueFails DEF PutGetFails
<1>4. LineOK'
  BY <1>1, <1>2, LineFails DEF PutGetFails
<1>5. DataOK'
  BY <1>2 DEF TypeOK, DataOK, PutGetFails, offsets, server
<1>6. LostInv' /\ AbortInv'
  BY <1>2 DEF LostInv, AbortInv, PutGetFails, server
<1> QED BY <1>2, <1>3, <1>4, <1>5, <1>6, NoOpcode DEF TypeOK

\* Steps at an entry that has no opcode, which it leaves, or throws from.
LEMMA NoneAt ==
  ASSUME Base, Entry \notin Commands \cup {"CONNECT", "DATA"}
  PROVE  opcode = "NONE"
BY DEF Base, OpcodeInv

LEMMA AtEntry ==
  ASSUME Base, NEW e \in Heads, At(e)
  PROVE  Entry = e /\ queue # <<>> /\ status = "WORKING"
BY EntryIsHead DEF Base, At

LEMMA BaseLogin == ASSUME Base, LoginEnds \/ LoginThrows PROVE Base'
<1> USE DEF Base
<1>1. Entry = "LOGIN" /\ queue # <<>> /\ opcode = "NONE"
  <2>1. "LOGIN" \in Heads /\ "LOGIN" \notin Commands \cup {"CONNECT", "DATA"}
    BY DEF Heads, Commands
  <2> QED BY <2>1, AtEntry, NoneAt DEF LoginEnds, LoginThrows
<1>2. CASE LoginEnds
  <2>1. CallOK' /\ QueueOK' /\ ConnectInv'
    BY <1>1, <1>2, QueuePopped DEF LoginEnds
  <2>2. LineOK'
    BY <1>2 DEF TypeOK, LineOK, LoginEnds, flags
  <2>3. DataOK'
    BY <1>2, DataKept DEF LoginEnds, flags, offsets, socks, server
  <2>4. LostInv' /\ AbortInv' /\ opcode' = "NONE"
    BY <1>1, <1>2 DEF LostInv, AbortInv, LoginEnds, flags, server
  <2> QED BY <2>1, <2>2, <2>3, <2>4, NoOpcode DEF TypeOK
<1>3. CASE LoginThrows
  <2>1. /\ events' = Idle /\ opcode' = "NONE" /\ aborted' = FALSE
        /\ data' \in {"closed", "open", "aborted"}
    BY <1>1, <1>3, Fails DEF LoginThrows
  <2>2. CallOK' /\ QueueOK' /\ ConnectInv'
    BY <1>1, <1>3, QueueFails DEF LoginThrows
  <2>3. down' \in Seq(0 .. 599) /\ (lost => down' = down)
    <3>1. CASE half /\ down # <<>>
      <4>1. <<Garbage>> \in Seq(0 .. 599)
        BY DEF Garbage
      <4>3. Tail(down) \in Seq(0 .. 599) /\ ~lost
        BY <3>1, Replies DEF LostInv
      <4>4. down' = <<Garbage>> \o Tail(down)
        BY <1>3, <3>1 DEF LoginThrows
      <4> QED BY <4>1, <4>3, <4>4, <3>1, ConcatProperties
    <3>2. CASE ~(half /\ down # <<>>)
      BY <1>3, <3>2 DEF LoginThrows, TypeOK, LineOK
    <3> QED BY <3>1, <3>2 DEF LostInv
  <2>4. LineOK'
    <3>1. LineOK
      BY DEF TypeOK
    <3>2. events' \in {Idle, Read} /\ half' \in BOOLEAN /\ opcode' \in Opcodes /\ aborted' \in BOOLEAN
      BY <1>3, <2>1 DEF LoginThrows, Opcodes
    <3>3. UNCHANGED <<reply, prevcode, connected, lost, up>>
      BY <1>3 DEF LoginThrows
    <3>4. /\ reply' \in 0 .. 599 /\ prevcode' \in 0 .. 599
          /\ connected' \in BOOLEAN /\ lost' \in BOOLEAN /\ up' \in Seq(Sent)
      BY <3>1, <3>3 DEF LineOK
    <3> QED BY <2>3, <3>2, <3>4 DEF LineOK
  <2>5. DataOK'
    BY <1>3, <2>1 DEF TypeOK, DataOK, LoginThrows, offsets, server
  <2>6. LostInv' /\ AbortInv'
    BY <1>3, <2>1, <2>3 DEF LostInv, AbortInv, LoginThrows, server
  <2> QED BY <2>1, <2>2, <2>4, <2>5, <2>6, NoOpcode DEF TypeOK
<1> QED BY <1>2, <1>3

LEMMA BaseConnectBegins == ASSUME Base, ConnectBegins PROVE Base'
<1> USE DEF Base
<1>1. Entry = "CONNECT"
  BY AtEntry DEF ConnectBegins, Heads
<1>2. CallOK' /\ QueueOK' /\ ConnectInv' /\ Entry' = Entry
  BY QueueKept DEF ConnectBegins
<1>3. LineOK'
  <2>1. up' \in Seq(Sent) /\ down' \in Seq(0 .. 599)
    BY EmptySeq DEF ConnectBegins
  <2> QED BY <2>1 DEF TypeOK, LineOK, ConnectBegins, Opcodes
<1>4. DataOK'
  <2>1. wire' \in Seq(Nat) /\ done' \in Nat /\ rest' \in Nat
    BY EmptySeq DEF ConnectBegins
  <2> QED BY <2>1 DEF TypeOK, DataOK, ConnectBegins
<1>5. OpcodeInv'
  BY <1>1, <1>2 DEF OpcodeInv, ConnectBegins, Commands
<1>6. LostInv' /\ AbortInv'
  BY DEF LostInv, AbortInv, ConnectBegins
<1> QED BY <1>2, <1>3, <1>4, <1>5, <1>6 DEF TypeOK

LEMMA BaseConnectEnds == ASSUME Base, ConnectEnds PROVE Base'
<1> USE DEF Base
<1>1. Entry = "CONNECT" /\ queue # <<>> /\ ~connected /\ ~lost
  BY AtEntry DEF ConnectEnds, Heads, OpcodeInv
<1>2. CASE Throws /\ UNCHANGED down
  <2>1. /\ events' = Idle /\ opcode' = "NONE" /\ aborted' = FALSE
        /\ data' \in {"closed", "open", "aborted"}
    BY <1>1, <1>2, Fails
  <2>2. CallOK' /\ QueueOK' /\ ConnectInv'
    BY <1>1, <1>2, QueueFails DEF ConnectEnds
  <2>3. LineOK'
    BY <1>2, <2>1 DEF TypeOK, LineOK, ConnectEnds, Opcodes
  <2>4. DataOK'
    BY <1>2, <2>1 DEF TypeOK, DataOK, ConnectEnds, offsets, server
  <2>5. LostInv' /\ AbortInv'
    BY <1>2, <2>1 DEF LostInv, AbortInv, ConnectEnds, server
  <2> QED BY <2>1, <2>2, <2>3, <2>4, <2>5, NoOpcode DEF TypeOK
<1>3. CASE opcode' = "HELO" /\ down' = <<220>> /\ UNCHANGED <<status, queue, events, aborted, data>>
  <2>1. CallOK' /\ QueueOK' /\ ConnectInv' /\ Entry' = Entry
    BY <1>3, QueueKept DEF ConnectEnds
  <2>2. LineOK'
    <3>1. down' \in Seq(0 .. 599)
      BY <1>3
    <3> QED BY <1>3, <3>1 DEF TypeOK, LineOK, ConnectEnds, Opcodes
  <2>3. DataOK'
    BY <1>3, DataKept DEF ConnectEnds, offsets, server
  <2>4. OpcodeInv'
    BY <1>1, <1>3, <2>1 DEF OpcodeInv, ConnectEnds, Commands
  <2>5. LostInv' /\ AbortInv'
    BY <1>1, <1>3 DEF LostInv, AbortInv, ConnectEnds
  <2> QED BY <2>1, <2>2, <2>3, <2>4, <2>5 DEF TypeOK
<1> QED BY <1>2, <1>3 DEF ConnectEnds

LEMMA BaseDataBegins == ASSUME Base, DataBegins PROVE Base'
<1> USE DEF Base
<1>1. Entry = "DATA"
  BY AtEntry DEF DataBegins, Heads
<1>2. CallOK' /\ QueueOK' /\ ConnectInv' /\ Entry' = Entry
  BY QueueKept DEF DataBegins
<1>3. LineOK'
  BY DEF TypeOK, LineOK, DataBegins, Opcodes
<1>4. DataOK'
  BY DEF TypeOK, DataOK, DataBegins, server
<1>5. OpcodeInv'
  BY <1>1, <1>2 DEF OpcodeInv, DataBegins, Commands
<1>6. LostInv' /\ AbortInv'
  BY DEF LostInv, AbortInv, DataBegins, server
<1> QED BY <1>2, <1>3, <1>4, <1>5, <1>6 DEF TypeOK

LEMMA BaseDataConnects == ASSUME Base, DataConnects PROVE Base'
<1> USE DEF Base
<1>1. queue # <<>>
  BY DEF DataConnects, At
<1>2. CASE Throws /\ UNCHANGED <<peer, wire>>
  <2>1. /\ events' = Idle /\ opcode' = "NONE" /\ aborted' = FALSE
        /\ data' \in {"closed", "open", "aborted"}
    BY <1>1, <1>2, Fails
  <2>2. CallOK' /\ QueueOK' /\ ConnectInv'
    BY <1>1, <1>2, QueueFails DEF DataConnects
  <2>3. LineOK'
    BY <1>2, <2>1, LineFails DEF DataConnects
  <2>4. DataOK'
    BY <1>2, <2>1 DEF TypeOK, DataOK, DataConnects, offsets, server
  <2>5. LostInv' /\ AbortInv'
    BY <1>2, <2>1 DEF LostInv, AbortInv, DataConnects, server
  <2> QED BY <2>1, <2>2, <2>3, <2>4, <2>5, NoOpcode DEF TypeOK
<1>3. CASE /\ data' = "open" /\ peer' = "open" /\ wire' = <<>>
           /\ opcode' = "NONE" /\ Left(Tail(queue)) /\ UNCHANGED <<events, aborted>>
  <2>1. CallOK' /\ QueueOK' /\ ConnectInv'
    BY <1>1, <1>3, QueuePopped DEF DataConnects
  <2>2. LineOK'
    BY <1>3 DEF TypeOK, LineOK, DataConnects, Opcodes
  <2>3. DataOK'
    <3>1. wire' \in Seq(Nat)
      BY <1>3, EmptySeq
    <3> QED BY <1>3, <3>1 DEF TypeOK, DataOK, DataConnects, offsets, server
  <2>4. LostInv' /\ AbortInv'
    BY <1>3 DEF LostInv, AbortInv, DataConnects, server
  <2> QED BY <1>3, <2>1, <2>2, <2>3, <2>4, NoOpcode DEF TypeOK
<1> QED BY <1>2, <1>3 DEF DataConnects

LEMMA BaseListens == ASSUME Base, Listens PROVE Base'
<1> USE DEF Base
<1>1. queue # <<>> /\ opcode = "NONE"
  <2>1. "LISTEN" \in Heads /\ "LISTEN" \notin Commands \cup {"CONNECT", "DATA"}
    BY DEF Heads, Commands
  <2> QED BY <2>1, AtEntry, NoneAt DEF Listens
<1>2. CASE Throws /\ UNCHANGED <<peer, wire>>
  <2>1. /\ events' = Idle /\ opcode' = "NONE" /\ aborted' = FALSE
        /\ data' \in {"closed", "open", "aborted"}
    BY <1>1, <1>2, Fails
  <2>2. CallOK' /\ QueueOK' /\ ConnectInv'
    BY <1>1, <1>2, QueueFails DEF Listens
  <2>3. LineOK'
    BY <1>2, <2>1, LineFails DEF Listens
  <2>4. DataOK'
    BY <1>2, <2>1 DEF TypeOK, DataOK, Listens, offsets, server
  <2>5. LostInv' /\ AbortInv'
    BY <1>2, <2>1 DEF LostInv, AbortInv, Listens, server
  <2> QED BY <2>1, <2>2, <2>3, <2>4, <2>5, NoOpcode DEF TypeOK
<1>3. CASE /\ Left(Tail(queue)) /\ peer' = "closed" /\ wire' = <<>>
           /\ UNCHANGED <<opcode, events, aborted, data>>
  <2>1. CallOK' /\ QueueOK' /\ ConnectInv'
    BY <1>1, <1>3, QueuePopped DEF Listens
  <2>2. LineOK'
    BY <1>3 DEF TypeOK, LineOK, Listens
  <2>3. DataOK'
    <3>1. wire' \in Seq(Nat)
      BY <1>3, EmptySeq
    <3> QED BY <1>3, <3>1 DEF TypeOK, DataOK, Listens, offsets, server
  <2>4. LostInv' /\ AbortInv'
    BY <1>3 DEF LostInv, AbortInv, Listens, server
  <2> QED BY <1>1, <1>3, <2>1, <2>2, <2>3, <2>4, NoOpcode DEF TypeOK
<1> QED BY <1>2, <1>3 DEF Listens

LEMMA BaseAccepts == ASSUME Base, Accepts \/ AcceptFails PROVE Base'
<1> USE DEF Base
<1>1. queue # <<>> /\ opcode = "NONE"
  <2>1. "ACCEPT" \in Heads /\ "ACCEPT" \notin Commands \cup {"CONNECT", "DATA"}
    BY DEF Heads, Commands
  <2> QED BY <2>1, AtEntry, NoneAt DEF Accepts, AcceptFails
<1>2. CASE AcceptFails
  <2>1. /\ events' = Idle /\ opcode' = "NONE" /\ aborted' = FALSE
        /\ data' \in {"closed", "open", "aborted"}
    BY <1>1, <1>2, Fails DEF AcceptFails
  <2>2. CallOK' /\ QueueOK' /\ ConnectInv'
    BY <1>1, <1>2, QueueFails DEF AcceptFails
  <2>3. LineOK'
    BY <1>2, <2>1, LineFails DEF AcceptFails
  <2>4. DataOK'
    BY <1>2, <2>1 DEF TypeOK, DataOK, AcceptFails, offsets, server
  <2>5. LostInv' /\ AbortInv'
    BY <1>2, <2>1 DEF LostInv, AbortInv, AcceptFails, server
  <2> QED BY <2>1, <2>2, <2>3, <2>4, <2>5, NoOpcode DEF TypeOK
<1>3. CASE Accepts
  <2>1. CallOK' /\ QueueOK' /\ ConnectInv'
    BY <1>1, <1>3, QueuePopped DEF Accepts
  <2>2. LineOK'
    BY <1>3 DEF TypeOK, LineOK, Accepts, flags
  <2>3. DataOK'
    BY <1>3 DEF TypeOK, DataOK, Accepts, offsets, server, flags
  <2>4. LostInv' /\ AbortInv' /\ opcode' = "NONE"
    BY <1>1, <1>3 DEF LostInv, AbortInv, Accepts, server, flags
  <2> QED BY <2>1, <2>2, <2>3, <2>4, NoOpcode DEF TypeOK
<1> QED BY <1>2, <1>3

LEMMA BaseAbortPuts == ASSUME Base, AbortPuts PROVE Base'
<1> USE DEF Base
<1>1. queue # <<>> /\ opcode = "NONE"
  <2>1. \A e \in {"IP", "OOB", "ABOR"} : e \in Heads /\ e \notin Commands \cup {"CONNECT", "DATA"}
    BY DEF Heads, Commands
  <2>2. PICK e \in {"IP", "OOB", "ABOR"} : At(e)
    BY DEF AbortPuts
  <2> QED BY <2>1, <2>2, AtEntry, NoneAt
<1>2. CallOK' /\ QueueOK' /\ ConnectInv'
  BY <1>1, QueuePopped DEF AbortPuts
<1>3. up' \in Seq(Sent) /\ (lost => up' = up)
  <2>1. up \in Seq(Sent) /\ "ABOR" \in Sent
    BY DEF TypeOK, LineOK, Sent
  <2> QED BY <2>1, AppendProperties DEF AbortPuts
<1>4. LineOK'
  BY <1>3 DEF TypeOK, LineOK, AbortPuts, flags
<1>5. DataOK'
  BY DEF TypeOK, DataOK, AbortPuts, offsets, server, flags
<1>6. LostInv' /\ AbortInv' /\ opcode' = "NONE"
  BY <1>1, <1>3 DEF LostInv, AbortInv, AbortPuts, server, flags
<1> QED BY <1>2, <1>4, <1>5, <1>6, NoOpcode DEF TypeOK

\* Every step of the data connection ends in IsDataEof.
LEMMA BaseIsDataEof ==
  ASSUME Base, NEW n \in Nat, NEW eof, NEW bad \in BOOLEAN,
         IsDataEof(n, eof, bad), DataUnchanged, At("READ") \/ At("WRITE"),
         packet' \in Seq(Nat), wire' \in Seq(Nat), dest' \in Seq(Nat), done' \in Nat, peer' = peer
  PROVE  Base'
<1> USE DEF Base
<1>1. queue # <<>> /\ opcode = "NONE"
  <2>1. \A e \in {"READ", "WRITE"} : e \in Heads /\ e \notin Commands \cup {"CONNECT", "DATA"}
    BY DEF Heads, Commands
  <2>2. PICK e \in {"READ", "WRITE"} : At(e)
    OBVIOUS
  <2> QED BY <2>1, <2>2, AtEntry, NoneAt
<1>2. /\ UNCHANGED conf
      /\ UNCHANGED <<reply, prevcode, half, connected, up, down, lost, xfer, rest, stored, effect, trouble>>
  BY DEF DataUnchanged, server
<1>3. /\ CallOK' /\ QueueOK' /\ ConnectInv' /\ opcode' = "NONE"
      /\ events' \in {Idle, events} /\ aborted' \in BOOLEAN /\ (aborted' => aborted)
      /\ data' \in {"closed", "open", "aborted"} /\ data_error' \in BOOLEAN
  <2>1. data \in {"closed", "open", "aborted"} /\ data_error \in BOOLEAN /\ aborted \in BOOLEAN
    BY DEF TypeOK, DataOK, LineOK
  <2>2. CASE aborted
    <3>1. Throws /\ data_error' = data_error
      BY <2>2 DEF IsDataEof
    <3>2. events' = Idle /\ aborted' = FALSE /\ opcode' = "NONE" /\ data' \in {"closed", "open", "aborted"}
      BY <1>1, <3>1, Fails
    <3> QED BY <3>2, <1>1, <1>2, <2>1, <3>1, Fails, QueueFails
  <2>3. CASE ~aborted /\ eof
    <3>1. /\ data_error' = bad /\ data' = "closed" /\ events' = Idle /\ Left(Tail(queue))
          /\ opcode' = opcode /\ aborted' = aborted
      BY <2>3 DEF IsDataEof
    <3>2. CallOK' /\ QueueOK' /\ ConnectInv'
      BY <1>1, <1>2, <3>1, QueuePopped
    <3> QED BY <1>1, <2>1, <3>1, <3>2
  <2>4. CASE ~aborted /\ ~eof
    <3>1. /\ data_error' = bad /\ data' = data /\ events' = events /\ queue' = queue /\ status' = status
          /\ opcode' = opcode /\ aborted' = aborted
      BY <2>4 DEF IsDataEof
    <3> QED BY <1>1, <1>2, <2>1, <3>1, QueueKept
  <2> QED BY <2>2, <2>3, <2>4
<1>4. LineOK'
  BY <1>2, <1>3 DEF TypeOK, LineOK, Opcodes
<1>5. DataOK'
  <2>1. position' = n
    BY DEF IsDataEof
  <2> QED BY <1>2, <1>3, <2>1 DEF TypeOK, DataOK
<1>6. LostInv' /\ AbortInv'
  BY <1>2, <1>3 DEF LostInv, AbortInv
<1> QED BY <1>3, <1>4, <1>5, <1>6, NoOpcode DEF TypeOK

\* What a Reads hands on, and what it keeps, of the k bytes and of all it got.
LEMMA Parts ==
  ASSUME NEW s \in Seq(Nat), NEW t \in Seq(Nat), NEW k \in 0 .. Len(s)
  PROVE  /\ [i \in 1 .. k |-> Handed(s[i])] \in Seq(Nat)
         /\ t \o [i \in 1 .. k |-> Handed(s[i])] \in Seq(Nat)
         /\ Len(t \o [i \in 1 .. k |-> Handed(s[i])]) = Len(t) + k
         /\ \A i \in 1 .. Len(t) : (t \o [j \in 1 .. k |-> Handed(s[j])])[i] = t[i]
         /\ \A i \in 1 .. k : (t \o [j \in 1 .. k |-> Handed(s[j])])[Len(t) + i] = Handed(s[i])
         /\ SubSeq(s, k + 1, Len(s)) \in Seq(Nat)
         /\ Len(SubSeq(s, k + 1, Len(s))) = Len(s) - k
         /\ \A i \in 1 .. Len(s) - k : SubSeq(s, k + 1, Len(s))[i] = s[k + i]
<1> DEFINE h == [i \in 1 .. k |-> Handed(s[i])] left == SubSeq(s, k + 1, Len(s))
<1>1. Len(s) \in Nat /\ Len(t) \in Nat /\ k \in Nat /\ k <= Len(s)
  BY LenProperties
<1>2. \A i \in 1 .. Len(s) : s[i] \in Nat
  BY ElementOfSeq
<1>3. \A i \in 1 .. k : Handed(s[i]) \in Nat
  <2> TAKE i \in 1 .. k
  <2>1. s[i] \in Nat
    BY <1>1, <1>2
  <2> QED BY <2>1 DEF Handed
<1>4. h \in Seq(Nat) /\ Len(h) = k /\ \A i \in 1 .. k : h[i] = Handed(s[i])
  BY <1>1, <1>3
<1>5. /\ left \in Seq(Nat) /\ Len(left) = Len(s) - k
      /\ \A i \in 1 .. Len(s) - k : left[i] = s[k + i]
  <2>1. /\ left \in Seq(Nat)
        /\ Len(left) = IF k + 1 <= Len(s) THEN Len(s) - (k + 1) + 1 ELSE 0
        /\ \A i \in 1 .. Len(s) - (k + 1) + 1 : left[i] = s[(k + 1) + i - 1]
    <3>1. k + 1 \in Int /\ Len(s) \in Int /\ \A i \in (k + 1) .. Len(s) : s[i] \in Nat
      BY <1>1, <1>2
    <3> QED BY <3>1, SubSeqProperties
  <2> HIDE DEF left
  <2>2. Len(left) = Len(s) - k
    BY <1>1, <2>1
  <2>3. \A i \in 1 .. Len(s) - k : left[i] = s[k + i]
    <3> TAKE i \in 1 .. Len(s) - k
    <3>1. i \in 1 .. Len(s) - (k + 1) + 1 /\ (k + 1) + i - 1 = k + i
      BY <1>1
    <3> QED BY <2>1, <3>1
  <2> QED BY <2>1, <2>2, <2>3
<1> HIDE DEF h, left
<1>6. /\ t \o h \in Seq(Nat) /\ Len(t \o h) = Len(t) + k
      /\ \A i \in 1 .. Len(t) : (t \o h)[i] = t[i]
      /\ \A i \in 1 .. k : (t \o h)[Len(t) + i] = h[i]
  <2>1. /\ t \o h \in Seq(Nat) /\ Len(t \o h) = Len(t) + Len(h)
        /\ \A i \in 1 .. Len(t) + Len(h) :
              (t \o h)[i] = IF i <= Len(t) THEN t[i] ELSE h[i - Len(t)]
    BY <1>4, ConcatProperties
  <2>2. \A i \in 1 .. Len(t) : (t \o h)[i] = t[i]
    <3> TAKE i \in 1 .. Len(t)
    <3>1. i \in 1 .. Len(t) + Len(h) /\ i <= Len(t)
      BY <1>1, <1>4
    <3> QED BY <2>1, <3>1
  <2>3. \A i \in 1 .. k : (t \o h)[Len(t) + i] = h[i]
    <3> TAKE i \in 1 .. k
    <3>1. Len(t) + i \in 1 .. Len(t) + Len(h) /\ ~(Len(t) + i <= Len(t)) /\ Len(t) + i - Len(t) = i
      BY <1>1, <1>4
    <3> QED BY <2>1, <3>1
  <2> QED BY <1>4, <2>1, <2>2, <2>3
<1>7. \A i \in 1 .. k : (t \o h)[Len(t) + i] = Handed(s[i])
  BY <1>4, <1>6
<1> QED BY <1>4, <1>5, <1>6, <1>7 DEF h, left

\* What Reads takes of the data connection, and what it has then.
LEMMA Gets ==
  ASSUME Base, NEW n \in 0 .. Size, n <= Len(wire)
  PROVE  /\ n \in Nat /\ Len(wire) \in Nat /\ Len(packet) \in Nat
         /\ SubSeq(wire, n + 1, Len(wire)) \in Seq(Nat)
         /\ Len(SubSeq(wire, n + 1, Len(wire))) = Len(wire) - n
         /\ \A i \in 1 .. Len(wire) - n : SubSeq(wire, n + 1, Len(wire))[i] = wire[n + i]
         /\ packet \o SubSeq(wire, 1, n) \in Seq(Nat)
         /\ Len(packet \o SubSeq(wire, 1, n)) = Len(packet) + n
         /\ \A i \in 1 .. Len(packet) : (packet \o SubSeq(wire, 1, n))[i] = packet[i]
         /\ \A i \in 1 .. n : (packet \o SubSeq(wire, 1, n))[Len(packet) + i] = wire[i]
<1> DEFINE left == SubSeq(wire, n + 1, Len(wire)) first == SubSeq(wire, 1, n)
<1>1. wire \in Seq(Nat) /\ packet \in Seq(Nat) /\ n \in Nat
  BY FtpAssumption DEF Base, TypeOK, DataOK
<1>2. /\ Len(wire) \in Nat /\ Len(packet) \in Nat
      /\ \A i \in 1 .. Len(wire) : wire[i] \in Nat
  BY <1>1, LenProperties, ElementOfSeq
<1>3. /\ left \in Seq(Nat)
      /\ Len(left) = IF n + 1 <= Len(wire) THEN Len(wire) - (n + 1) + 1 ELSE 0
      /\ \A i \in 1 .. Len(wire) - (n + 1) + 1 : left[i] = wire[(n + 1) + i - 1]
  <2>1. n + 1 \in Int /\ Len(wire) \in Int /\ \A i \in (n + 1) .. Len(wire) : wire[i] \in Nat
    BY <1>1, <1>2
  <2> QED BY <2>1, SubSeqProperties
<1>4. /\ first \in Seq(Nat)
      /\ Len(first) = IF 1 <= n THEN n - 1 + 1 ELSE 0
      /\ \A i \in 1 .. n - 1 + 1 : first[i] = wire[1 + i - 1]
  <2>1. 1 \in Int /\ n \in Int /\ \A i \in 1 .. n : wire[i] \in Nat
    BY <1>1, <1>2
  <2> QED BY <2>1, SubSeqProperties
<1> HIDE DEF left, first
<1>5. Len(left) = Len(wire) - n /\ Len(first) = n
  BY <1>1, <1>2, <1>3, <1>4
<1>6. \A i \in 1 .. Len(wire) - n : left[i] = wire[n + i]
  <2> TAKE i \in 1 .. Len(wire) - n
  <2>1. i \in 1 .. Len(wire) - (n + 1) + 1 /\ (n + 1) + i - 1 = n + i
    BY <1>1, <1>2
  <2> QED BY <1>3, <2>1
<1>7. \A i \in 1 .. n : first[i] = wire[i]
  <2> TAKE i \in 1 .. n
  <2>1. i \in 1 .. n - 1 + 1 /\ 1 + i - 1 = i
    BY <1>1
  <2> QED BY <1>4, <2>1
<1>8. /\ packet \o first \in Seq(Nat) /\ Len(packet \o first) = Len(packet) + Len(first)
      /\ \A i \in 1 .. Len(packet) + Len(first) :
            (packet \o first)[i] = IF i <= Len(packet) THEN packet[i] ELSE first[i - Len(packet)]
  BY <1>1, <1>4, ConcatProperties
<1>9. \A i \in 1 .. Len(packet) : (packet \o first)[i] = packet[i]
  <2> TAKE i \in 1 .. Len(packet)
  <2>1. i \in 1 .. Len(packet) + Len(first) /\ i <= Len(packet)
    BY <1>1, <1>2, <1>5
  <2> QED BY <1>8, <2>1
<1>10. \A i \in 1 .. n : (packet \o first)[Len(packet) + i] = wire[i]
  <2> TAKE i \in 1 .. n
  <2>1. /\ Len(packet) + i \in 1 .. Len(packet) + Len(first)
        /\ ~(Len(packet) + i <= Len(packet)) /\ Len(packet) + i - Len(packet) = i
    BY <1>1, <1>2, <1>5
  <2> QED BY <1>7, <1>8, <2>1
<1> QED BY <1>1, <1>2, <1>3, <1>5, <1>6, <1>8, <1>9, <1>10 DEF left, first

LEMMA BaseReads == ASSUME Base, NEW n \in 0 .. Size, Reads(n) PROVE Base'
<1> DEFINE left == SubSeq(wire, n + 1, Len(wire)) got == packet \o SubSeq(wire, 1, n)
<1>1. dest \in Seq(Nat) /\ done \in Nat /\ n \in Nat
  BY FtpAssumption DEF Base, TypeOK, DataOK
<1>2. left \in Seq(Nat) /\ got \in Seq(Nat)
  BY Gets DEF Reads
<1>3. /\ wire' = left /\ done' = done + n /\ peer' = peer
      /\ At("READ") /\ DataUnchanged
      /\ IsDataEof(done + n, left = <<>> /\ peer = "closed", FALSE)
      /\ \E k \in 0 .. Len(got) : /\ dest' = dest \o [i \in 1 .. k |-> Handed(got[i])]
                                  /\ packet' = SubSeq(got, k + 1, Len(got))
  BY DEF Reads
<1> HIDE DEF left, got
<1>4. packet' \in Seq(Nat) /\ dest' \in Seq(Nat)
  BY <1>1, <1>2, <1>3, Parts
<1>5. wire' \in Seq(Nat) /\ done + n \in Nat
  BY <1>1, <1>2, <1>3
<1> QED BY <1>3, <1>4, <1>5, BaseIsDataEof

LEMMA BaseWrites == ASSUME Base, NEW n \in 0 .. Size, Writes(n) PROVE Base'
<1> DEFINE put == [i \in 1 .. n |-> done + i]
<1>1. packet \in Seq(Nat) /\ wire \in Seq(Nat) /\ dest \in Seq(Nat) /\ done \in Nat /\ n \in Nat
  BY FtpAssumption DEF Base, TypeOK, DataOK
<1>2. put \in Seq(Nat)
  BY <1>1
<1>3. /\ wire' = wire \o put /\ dest' = dest /\ done' = done + n /\ peer' = peer /\ packet' = packet
      /\ At("WRITE") /\ DataUnchanged
      /\ IsDataEof(done + n, done + n = Size, FALSE)
  BY DEF Writes
<1> HIDE DEF put
<1>4. packet' \in Seq(Nat) /\ wire' \in Seq(Nat) /\ dest' \in Seq(Nat) /\ done + n \in Nat
  BY <1>1, <1>2, <1>3, ConcatProperties
<1> QED BY <1>3, <1>4, BaseIsDataEof

LEMMA BaseDataFails == ASSUME Base, DataFails PROVE Base'
<1>1. packet' \in Seq(Nat) /\ wire' \in Seq(Nat) /\ dest' \in Seq(Nat) /\ done \in Nat /\ done' = done
  BY EmptySeq DEF DataFails, Base, TypeOK, DataOK
<1> QED BY <1>1, BaseIsDataEof DEF DataFails

---------------------------------------------------------------------------
\* The server.

LEMMA Answering ==
  ASSUME NEW c \in Sent \ {"ABOR"}, NEW code \in Answers(c)
  PROVE  code \in 1 .. 599 /\ (code = 150 => c \in Codes) /\ (c \in Codes => code \in {150, 550})
BY DEF Answers, Sent, Commands, Codes

LEMMA BaseServerAnswers == ASSUME Base, ServerAnswers PROVE Base'
<1> USE DEF Base
<1>1. /\ up \in Seq(Sent) /\ up # <<>> /\ Head(up) # "ABOR" /\ ~lost /\ up' = Tail(up)
      /\ down \in Seq(0 .. 599)
  BY DEF ServerAnswers, TypeOK, LineOK
<1>2. Head(up) \in Sent \ {"ABOR"} /\ up' \in Seq(Sent)
  BY <1>1, HeadTailProperties
<1>3. PICK code \in Answers(Head(up)) :
          /\ code = 150 /\ mode = "ACTIVE" => data # "open" /\ wire = <<>>
          /\ down' = Append(down, code)
          /\ effect' = (effect \/ (Head(up) \in Final /\ code \in 200 .. 299))
          /\ rest' = IF code = 350 /\ Head(up) = "REST" THEN position ELSE 0
          /\ IF code = 150
             THEN /\ xfer' = [cmd |-> Head(up), at |-> rest]
                  /\ peer' = IF mode = "ACTIVE" THEN "open" ELSE peer
                  /\ stored' = IF Head(up) = "STOR" THEN Cut(stored, rest) ELSE stored
                  /\ UNCHANGED wire
             ELSE /\ peer' = IF code = 550 THEN "closed" ELSE peer
                  /\ UNCHANGED <<xfer, stored, wire>>
  BY DEF ServerAnswers
<1>4. code \in 0 .. 599 /\ (code = 150 => Head(up) \in Codes)
  BY <1>2, Answering
<1>5. down' \in Seq(0 .. 599)
  BY <1>1, <1>3, <1>4, AppendProperties
<1>6. CallOK' /\ QueueOK' /\ ConnectInv' /\ Entry' = Entry
  BY QueueKept DEF ServerAnswers, client
<1>7. LineOK'
  BY <1>2, <1>5 DEF TypeOK, LineOK, ServerAnswers, client, flags
<1>8. DataOK'
  <2>1. /\ position \in Nat /\ rest \in Nat /\ stored \in Seq(Nat) /\ effect \in BOOLEAN
        /\ peer \in {"closed", "open"} /\ wire' = wire
        /\ xfer = NoXfer \/ xfer \in [cmd : Codes, at : Nat]
    BY <1>3 DEF TypeOK, DataOK
  <2>2. rest' \in Nat /\ peer' \in {"closed", "open"} /\ effect' \in BOOLEAN
    BY <1>3, <2>1
  <2>3. stored' \in Seq(Nat)
    <3> DEFINE m == IF rest < Len(stored) THEN rest ELSE Len(stored)
    <3>1. m \in Int /\ 1 \in Int /\ \A i \in 1 .. m : stored[i] \in Nat
      BY <2>1, LenProperties, ElementOfSeq
    <3>2. Cut(stored, rest) \in Seq(Nat)
      <4>1. Cut(stored, rest) = SubSeq(stored, 1, m)
        BY DEF Cut
      <4> HIDE DEF m
      <4> QED BY <3>1, <4>1, SubSeqProperties
    <3> QED BY <1>3, <2>1, <3>2
  <2>4. xfer' = NoXfer \/ xfer' \in [cmd : Codes, at : Nat]
    <3>1. code = 150 => xfer' = [cmd |-> Head(up), at |-> rest]
      BY <1>3
    <3>2. code # 150 => xfer' = xfer
      BY <1>3
    <3> QED BY <1>4, <2>1, <3>1, <3>2
  <2> QED BY <2>1, <2>2, <2>3, <2>4 DEF TypeOK, DataOK, ServerAnswers, offsets, flags
<1>9. OpcodeInv'
  BY <1>6 DEF OpcodeInv, ServerAnswers, client, flags
<1>10. LostInv' /\ AbortInv'
  BY <1>1 DEF LostInv, AbortInv, ServerAnswers, flags
<1> QED BY <1>6, <1>7, <1>8, <1>9, <1>10 DEF TypeOK

\* A transfer that runs is one of the four.
LEMMA Xfers ==
  ASSUME Base
  PROVE  /\ xfer # NoXfer => xfer \in [cmd : Codes, at : Nat]
         /\ Sending \/ Receiving => xfer # NoXfer
         /\ ~(Sending /\ Receiving)
         /\ ~lost \/ xfer = NoXfer
BY DEF Base, TypeOK, DataOK, Sending, Receiving, NoXfer, LostInv

LEMMA BaseServerMoves == ASSUME Base, ServerMoves PROVE Base'
<1> USE DEF Base
<1>1. /\ xfer # NoXfer /\ xfer \in [cmd : Codes, at : Nat] /\ ~lost
      /\ wire \in Seq(Nat) /\ stored \in Seq(Nat)
  BY Xfers DEF ServerMoves, TypeOK, DataOK
<1>2. xfer' \in [cmd : Codes, at : Nat]
  <2>1. xfer' = [xfer EXCEPT !.at = @ + 1]
    BY DEF ServerMoves
  <2>2. xfer' = [xfer EXCEPT !.at = xfer.at + 1]
    BY <1>1, <2>1
  <2>3. xfer.at + 1 \in Nat
    BY <1>1
  <2> QED BY <1>1, <2>2, <2>3
<1>3. wire' \in Seq(Nat) /\ stored' \in Seq(Nat)
  <2>1. CASE wire' = Append(wire, xfer.at + 1) /\ UNCHANGED stored
    <3>1. xfer.at + 1 \in Nat
      BY <1>1
    <3> QED BY <1>1, <2>1, <3>1, AppendProperties
  <2>2. CASE wire # <<>> /\ stored' = Append(stored, Head(wire)) /\ wire' = Tail(wire)
    <3>1. Head(wire) \in Nat /\ Tail(wire) \in Seq(Nat)
      BY <1>1, <2>2, HeadTailProperties
    <3> QED BY <1>1, <2>2, <3>1, AppendProperties
  <2> QED BY <2>1, <2>2 DEF ServerMoves
<1>4. CallOK' /\ QueueOK' /\ ConnectInv' /\ Entry' = Entry
  BY QueueKept DEF ServerMoves, client
<1>5. LineOK'
  BY DEF TypeOK, LineOK, ServerMoves, client, flags
<1>6. DataOK'
  BY <1>2, <1>3 DEF TypeOK, DataOK, ServerMoves, offsets, flags
<1>7. OpcodeInv'
  BY <1>4 DEF OpcodeInv, ServerMoves, client, flags
<1>8. LostInv' /\ AbortInv'
  BY <1>1 DEF LostInv, AbortInv, ServerMoves, flags
<1> QED BY <1>4, <1>5, <1>6, <1>7, <1>8 DEF TypeOK

LEMMA BaseServerEnds == ASSUME Base, NEW code \in {226, 426}, ServerEnds(code) PROVE Base'
<1> USE DEF Base
<1>1. down' \in Seq(0 .. 599) /\ ~lost
  <2>1. down \in Seq(0 .. 599) /\ code \in 0 .. 599
    BY DEF TypeOK, LineOK
  <2> QED BY <2>1, AppendProperties DEF ServerEnds
<1>2. CallOK' /\ QueueOK' /\ ConnectInv' /\ Entry' = Entry
  BY QueueKept DEF ServerEnds, client
<1>3. LineOK'
  BY <1>1 DEF TypeOK, LineOK, ServerEnds, client, flags
<1>4. DataOK'
  BY DEF TypeOK, DataOK, ServerEnds, offsets, flags
<1>5. OpcodeInv'
  BY <1>2 DEF OpcodeInv, ServerEnds, client, flags
<1>6. LostInv' /\ AbortInv'
  BY <1>1 DEF LostInv, AbortInv, ServerEnds, flags
<1> QED BY <1>2, <1>3, <1>4, <1>5, <1>6 DEF TypeOK

LEMMA BaseServerAborts == ASSUME Base, ServerAborts PROVE Base'
<1> USE DEF Base
<1>1. down' \in Seq(0 .. 599) /\ ~lost /\ up' \in Seq(Sent)
  <2>1. down \in Seq(0 .. 599) /\ up \in Seq(Sent) /\ <<426, 226>> \in Seq(0 .. 599)
    BY DEF TypeOK, LineOK
  <2>2. \A code \in {226, 502} : code \in 0 .. 599
    OBVIOUS
  <2>3. ~lost /\ up # <<>> /\ up' = Tail(up)
    BY DEF ServerAborts
  <2>4. up' \in Seq(Sent)
    BY <2>1, <2>3, HeadTailProperties
  <2> DEFINE both == down' = down \o <<426, 226>>
             one(code) == down' = Append(down, code)
             sound == down' \in Seq(0 .. 599)
  <2>5. both \/ \E code \in {226, 502} : one(code)
    BY DEF ServerAborts
  <2>6. both => sound
    BY <2>1, ConcatProperties
  <2>7. ASSUME NEW code \in {226, 502}, one(code) PROVE sound
    <3>1. code \in 0 .. 599
      BY <2>2
    <3> QED BY <2>1, <2>7, <3>1, AppendProperties
  <2>8. sound
    <3> HIDE DEF both, one, sound
    <3> QED BY <2>5, <2>6, <2>7
  <2> QED BY <2>3, <2>4, <2>8
<1>2. CallOK' /\ QueueOK' /\ ConnectInv' /\ Entry' = Entry
  BY QueueKept DEF ServerAborts, client
<1>3. LineOK'
  BY <1>1 DEF TypeOK, LineOK, ServerAborts, client, flags
<1>4. DataOK'
  BY DEF TypeOK, DataOK, ServerAborts, offsets, flags
<1>5. OpcodeInv'
  BY <1>2 DEF OpcodeInv, ServerAborts, client, flags
<1>6. LostInv' /\ AbortInv'
  BY <1>1 DEF LostInv, AbortInv, ServerAborts, flags
<1> QED BY <1>2, <1>3, <1>4, <1>5, <1>6 DEF TypeOK

LEMMA BaseBreaks == ASSUME Base, Breaks PROVE Base'
<1> USE DEF Base
<1>1. CallOK' /\ QueueOK' /\ ConnectInv' /\ Entry' = Entry
  BY QueueKept DEF Breaks, client
<1>2. LineOK'
  <2>1. up' \in Seq(Sent) /\ down' \in Seq(0 .. 599)
    BY EmptySeq DEF Breaks
  <2> QED BY <2>1 DEF TypeOK, LineOK, Breaks, client, flags
<1>3. DataOK'
  BY DEF TypeOK, DataOK, Breaks, offsets, flags
<1>4. OpcodeInv'
  BY <1>1 DEF OpcodeInv, Breaks, client, flags
<1>5. LostInv' /\ AbortInv'
  BY DEF LostInv, AbortInv, Breaks, flags
<1> QED BY <1>1, <1>2, <1>3, <1>4, <1>5 DEF TypeOK

---------------------------------------------------------------------------
\* The queue of a call is a chain: each entry is followed by its Then.

Linked(s, f) == \A i \in 1 .. Len(s) - 1 : f[s[i]] = s[i + 1]

Chain(s, f, S, first, last) ==
    /\ s \in Seq(S) /\ Len(s) \in Nat \ {0} /\ Linked(s, f)
    /\ s[1] = first /\ s[Len(s)] = last

LEMMA Link ==
  ASSUME NEW f, NEW S, NEW s, NEW t, NEW a, NEW b, NEW c, NEW d,
         Chain(s, f, S, a, b), Chain(t, f, S, c, d), f[b] = c
  PROVE  Chain(s \o t, f, S, a, d)
<1> DEFINE u == s \o t
<1>1. s \in Seq(S) /\ t \in Seq(S)
  BY DEF Chain
<1>2. /\ u \in Seq(S) /\ Len(u) = Len(s) + Len(t)
      /\ \A i \in 1 .. Len(s) + Len(t) : u[i] = IF i <= Len(s) THEN s[i] ELSE t[i - Len(s)]
  BY <1>1, ConcatProperties
<1> HIDE DEF u
<1>3. PICK m \in Nat \ {0}, n \in Nat \ {0} : m = Len(s) /\ n = Len(t)
  BY DEF Chain
<1>4. /\ \A i \in 1 .. m - 1 : f[s[i]] = s[i + 1]
      /\ \A i \in 1 .. n - 1 : f[t[i]] = t[i + 1]
      /\ s[1] = a /\ s[m] = b /\ t[1] = c /\ t[n] = d
  BY <1>3 DEF Chain, Linked
<1>5. /\ Len(u) = m + n
      /\ \A i \in 1 .. m : u[i] = s[i]
      /\ \A i \in 1 .. n : u[m + i] = t[i]
  <2>1. Len(u) = m + n /\ \A i \in 1 .. m + n : u[i] = IF i <= m THEN s[i] ELSE t[i - m]
    BY <1>2, <1>3
  <2>2. \A i \in 1 .. m : i \in 1 .. m + n /\ i <= m
    BY <1>3
  <2>3. \A i \in 1 .. n : m + i \in 1 .. m + n /\ ~(m + i <= m) /\ m + i - m = i
    BY <1>3
  <2> QED BY <2>1, <2>2, <2>3
<1>6. \A i \in 1 .. m + n - 1 : f[u[i]] = u[i + 1]
  <2> TAKE i \in 1 .. m + n - 1
  <2>1. CASE i \in 1 .. m - 1
    <3>1. i \in 1 .. m /\ i + 1 \in 1 .. m
      BY <1>3, <2>1
    <3> QED BY <1>4, <1>5, <2>1, <3>1
  <2>2. CASE i = m
    <3>1. 1 \in 1 .. n /\ m \in 1 .. m
      BY <1>3
    <3> QED BY <1>4, <1>5, <2>2, <3>1
  <2>3. CASE i \in (m + 1) .. m + n - 1
    <3> DEFINE j == i - m
    <3>1. m \in Nat /\ n \in Nat
      BY <1>3
    <3>2. /\ j \in 1 .. n - 1 /\ j \in 1 .. n /\ j + 1 \in 1 .. n
          /\ i = m + j /\ i + 1 = m + (j + 1)
      BY <2>3, <3>1
    <3> HIDE DEF j
    <3>3. u[m + j] = t[j] /\ u[m + (j + 1)] = t[j + 1] /\ f[t[j]] = t[j + 1]
      BY <1>4, <1>5, <3>2
    <3> QED BY <3>2, <3>3
  <2> QED BY <1>3, <2>1, <2>2, <2>3
<1>7. u[1] = a /\ u[m + n] = d
  <2>1. 1 \in 1 .. m /\ n \in 1 .. n
    BY <1>3
  <2> QED BY <1>4, <1>5, <2>1
<1>8. Len(u) \in Nat \ {0}
  BY <1>3, <1>5
<1>9. Linked(u, f)
  BY <1>5, <1>6 DEF Linked
<1> QED BY <1>2, <1>5, <1>7, <1>8, <1>9 DEF Chain, u

LEMMA OneLink ==
  ASSUME NEW f, NEW S, NEW a \in S
  PROVE  Chain(<<a>>, f, S, a, a)
BY DEF Chain, Linked

LEMMA TwoLinks ==
  ASSUME NEW f, NEW S, NEW a \in S, NEW b \in S, f[a] = b
  PROVE  Chain(<<a, b>>, f, S, a, b)
<1>1. <<a, b>> \in Seq(S) /\ Len(<<a, b>>) = 2 /\ <<a, b>>[1] = a /\ <<a, b>>[2] = b
  OBVIOUS
<1>2. \A i \in 1 .. 2 - 1 : i = 1
  OBVIOUS
<1> QED BY <1>1, <1>2 DEF Chain, Linked

LEMMA ThreeLinks ==
  ASSUME NEW f, NEW S, NEW a \in S, NEW b \in S, NEW c \in S, f[a] = b, f[b] = c
  PROVE  Chain(<<a, b, c>>, f, S, a, c)
<1>1. /\ <<a, b, c>> \in Seq(S) /\ Len(<<a, b, c>>) = 3
      /\ <<a, b, c>>[1] = a /\ <<a, b, c>>[2] = b /\ <<a, b, c>>[3] = c
  OBVIOUS
<1>2. \A i \in 1 .. 3 - 1 : i = 1 \/ i = 2
  OBVIOUS
<1> QED BY <1>1, <1>2 DEF Chain, Linked

\* An empty part of a program changes nothing.
LEMMA NoLink ==
  ASSUME NEW f, NEW S, NEW s, NEW a, NEW b, Chain(s, f, S, a, b)
  PROVE  s \o <<>> = s
BY ConcatEmptySeq DEF Chain

\* The program of a transfer.
LEMMA TransferChain ==
  ASSUME NEW m \in {"ACTIVE", "PASSIVE"}, mode = m, NEW op \in DOMAIN Transfers,
         NEW again \in BOOLEAN, NEW f, NEW S, NEW ep, NEW dl, NEW mv, NEW code,
         code = Transfers[op],
         ep = (IF m = "PASSIVE" THEN "EPSV" ELSE "EPRT"),
         dl = (IF m = "PASSIVE" THEN "DATA" ELSE "LISTEN"),
         mv = (IF code \in {"RETR", "LIST"} THEN "READ" ELSE "WRITE"),
         S = {"TYPE", "SIZE", "EPSV", "EPRT", "REST", dl, code, "ACCEPT", mv, "REPLY"},
         f["TYPE"] = (IF code = "LIST" THEN ep ELSE "SIZE"), f["SIZE"] = ep,
         f[ep] = (IF again THEN "REST" ELSE dl), f["REST"] = dl, f[dl] = code,
         f[code] = (IF m = "PASSIVE" THEN mv ELSE "ACCEPT"), f["ACCEPT"] = mv, f[mv] = "REPLY"
  PROVE  Chain(Transfer(code, again), f, S, "TYPE", "REPLY")
<1> DEFINE a2 == IF code = "LIST" THEN <<>> ELSE <<"SIZE">>
           a3 == IF m = "PASSIVE" THEN "EPSV" ELSE "EPRT"
           a4 == IF again THEN <<"REST">> ELSE <<>>
           a5 == IF m = "PASSIVE" THEN <<"DATA", code>> ELSE <<"LISTEN", code, "ACCEPT">>
           a6 == IF code \in {"RETR", "LIST"} THEN "READ" ELSE "WRITE"
           s2 == <<"TYPE">> \o a2
           s3 == s2 \o <<a3>>
           s4 == s3 \o a4
           s5 == s4 \o a5
<1>1. Transfer(code, again) = s5 \o <<a6, "REPLY">>
  BY DEF Transfer
<1>2. a3 = ep /\ a6 = mv
  OBVIOUS
<1>3. Chain(s2, f, S, "TYPE", IF code = "LIST" THEN "TYPE" ELSE "SIZE")
  <2>1. Chain(<<"TYPE">>, f, S, "TYPE", "TYPE") /\ Chain(<<"SIZE">>, f, S, "SIZE", "SIZE")
    BY OneLink
  <2>2. CASE code = "LIST"
    BY <2>1, <2>2, NoLink
  <2>3. CASE code # "LIST"
    BY <2>1, <2>3, Link
  <2> QED BY <2>2, <2>3
<1> HIDE DEF s2
<1>4. Chain(s3, f, S, "TYPE", ep)
  <2>1. Chain(<<ep>>, f, S, ep, ep)
    BY OneLink
  <2>2. f[IF code = "LIST" THEN "TYPE" ELSE "SIZE"] = ep
    OBVIOUS
  <2> QED BY <1>2, <1>3, <2>1, <2>2, Link
<1> HIDE DEF s3
<1>5. Chain(s4, f, S, "TYPE", IF again THEN "REST" ELSE ep)
  <2>1. Chain(<<"REST">>, f, S, "REST", "REST")
    BY OneLink
  <2>2. CASE ~again
    BY <1>4, <2>2, NoLink
  <2>3. CASE again
    BY <1>4, <2>1, <2>3, Link
  <2> QED BY <2>2, <2>3
<1> HIDE DEF s4
<1>6. Chain(s5, f, S, "TYPE", IF m = "PASSIVE" THEN code ELSE "ACCEPT")
  <2>1. f[IF again THEN "REST" ELSE ep] = dl
    OBVIOUS
  <2>2. CASE m = "PASSIVE"
    <3>1. Chain(<<"DATA", code>>, f, S, dl, code)
      BY <2>2, TwoLinks
    <3> QED BY <1>5, <2>1, <2>2, <3>1, Link
  <2>3. CASE m # "PASSIVE"
    <3>1. Chain(<<"LISTEN", code, "ACCEPT">>, f, S, dl, "ACCEPT")
      BY <2>3, ThreeLinks
    <3> QED BY <1>5, <2>1, <2>3, <3>1, Link
  <2> QED BY <2>2, <2>3
<1> HIDE DEF s5
<1>7. Chain(<<mv, "REPLY">>, f, S, mv, "REPLY")
  BY TwoLinks
<1>8. f[IF m = "PASSIVE" THEN code ELSE "ACCEPT"] = mv
  OBVIOUS
<1> QED BY <1>1, <1>2, <1>6, <1>7, <1>8, Link

\* The queue that a call begins with.
LEMMA ProgramChain ==
  ASSUME Base, NEW op \in Ops \cup {"Connect"}, NEW again \in BOOLEAN,
         call' = op, mode' = mode, op \in DOMAIN Transfers => (again <=> dest' # <<>>)
  PROVE  LET f == [e \in Heads |-> Then(e)']
             first == CASE op \in DOMAIN Transfers -> "TYPE" [] op = "Connect" -> "CONNECT"
                        [] op = "Login" -> "LOGIN" [] op = "Delete" -> "DELE"
                        [] op = "Rename" -> "RNFR" [] op = "Disconnect" -> "QUIT"
         IN  \E last \in Heads : f[last] = "none" /\ Chain(Program(op, again), f, Entries', first, last)
<1> DEFINE f == [e \in Heads |-> Then(e)']
<1>1. \A e \in Heads : f[e] = Then(e)'
  OBVIOUS
<1> HIDE DEF f
<1>2. mode \in {"ACTIVE", "PASSIVE"}
  BY DEF Base, TypeOK, CallOK
<1>3. DOMAIN Transfers = {"Get", "Put", "Append", "ListDir"}
  BY DEF Transfers
<1>4. CASE op \in DOMAIN Transfers
  <2> DEFINE m == mode
             code == Transfers[op]
             ep == IF m = "PASSIVE" THEN "EPSV" ELSE "EPRT"
             dl == IF m = "PASSIVE" THEN "DATA" ELSE "LISTEN"
             mv == IF code \in {"RETR", "LIST"} THEN "READ" ELSE "WRITE"
             S == {"TYPE", "SIZE", "EPSV", "EPRT", "REST", dl, code, "ACCEPT", mv, "REPLY"}
  <2>1. /\ code \in Codes /\ (code \in {"RETR", "LIST"} <=> op \in {"Get", "ListDir"})
        /\ code = "LIST" <=> op = "ListDir"
    BY <1>3, <1>4 DEF Transfers, Codes
  <2>2. Entries' = S
    BY <1>3, <1>4, <2>1 DEF Entries, Dials, Moves
  <2>3. /\ {"TYPE", "SIZE", ep, "REST", dl, code, "ACCEPT", mv, "REPLY"} \subseteq Heads
    BY <2>1 DEF Heads, Commands, Codes
  <2>4. /\ f["TYPE"] = (IF code = "LIST" THEN ep ELSE "SIZE") /\ f["SIZE"] = ep
        /\ f[ep] = (IF again THEN "REST" ELSE dl) /\ f["REST"] = dl /\ f[dl] = code
    BY <1>1, <1>4, <2>1, <2>3 DEF Then, Dials, Codes
  <2>5. /\ f[code] = (IF m = "PASSIVE" THEN mv ELSE "ACCEPT") /\ f["ACCEPT"] = mv /\ f[mv] = "REPLY"
        /\ f["REPLY"] = "none"
    BY <1>1, <2>1, <2>3 DEF Then, Moves, Codes
  <2> HIDE DEF S
  <2>6. Chain(Transfer(code, again), f, S, "TYPE", "REPLY")
    BY <1>2, <1>4, <2>4, <2>5, TransferChain DEF S
  <2>7. Program(op, again) = Transfer(code, again)
    <3> HIDE DEF code
    <3>1. op \in {"Get", "Put", "Append", "ListDir"}
      BY <1>3, <1>4
    <3>2. Program(op, again) = Transfer(Transfers[op], again)
      BY <1>3, <3>1 DEF Program
    <3> QED BY <3>2 DEF code
  <2>8. "REPLY" \in Heads
    BY DEF Heads
  <2>9. f["REPLY"] = "none" /\ Chain(Program(op, again), f, Entries', "TYPE", "REPLY")
    BY <2>2, <2>5, <2>6, <2>7
  <2> HIDE DEF code, ep, dl, mv
  <2> QED BY <1>3, <1>4, <2>8, <2>9 DEF f
<1>5. CASE op = "Connect"
  <2>1. Program(op, again) = <<"CONNECT", "LOGIN">> /\ op \notin DOMAIN Transfers
    BY <1>3, <1>5 DEF Program
  <2>2. Entries' = {"CONNECT", "LOGIN"} /\ "CONNECT" \in Heads /\ "LOGIN" \in Heads
    BY <1>5 DEF Entries, Heads
  <2>3. f["CONNECT"] = "LOGIN" /\ f["LOGIN"] = "none"
    BY <1>1, <2>2 DEF Then, Codes
  <2>4. Chain(<<"CONNECT", "LOGIN">>, f, Entries', "CONNECT", "LOGIN")
    BY <2>2, <2>3, TwoLinks
  <2> QED BY <1>5, <2>1, <2>2, <2>3, <2>4 DEF f
<1>6. CASE op \in {"Login", "Delete", "Rename", "Disconnect"}
  <2> DEFINE e == CASE op = "Login" -> "LOGIN" [] op = "Delete" -> "DELE"
                    [] op = "Rename" -> "RNFR" [] op = "Disconnect" -> "QUIT"
  <2>1. Program(op, again) = <<e>> /\ op \notin DOMAIN Transfers
    BY <1>3, <1>6 DEF Program
  <2>2. Entries' = {e} /\ e \in {"LOGIN", "DELE", "RNFR", "QUIT"}
    BY <1>6 DEF Entries
  <2>3. e \in Heads
    BY <1>6 DEF Heads, Commands
  <2>4. f[e] = "none"
    <3> HIDE DEF e
    <3>1. f[e] = Then(e)'
      BY <1>1, <2>3
    <3>2. Then(e)' = "none"
      BY <2>2 DEF Then, Codes
    <3> QED BY <3>1, <3>2
  <2>5. Chain(<<e>>, f, Entries', e, e)
    BY <2>2, OneLink
  <2> QED BY <1>6, <2>1, <2>3, <2>4, <2>5 DEF f
<1> QED BY <1>3, <1>4, <1>5, <1>6 DEF Ops

\* Its entries come in the order of Then, and it begins with First.
First(op) == CASE op \in DOMAIN Transfers -> "TYPE" [] op = "Connect" -> "CONNECT"
               [] op = "Login" -> "LOGIN" [] op = "Delete" -> "DELE"
               [] op = "Rename" -> "RNFR" [] op = "Disconnect" -> "QUIT"

LEMMA Starts ==
  ASSUME Base, NEW op \in Ops \cup {"Connect"}, NEW again \in BOOLEAN, Run(op, again)
  PROVE  /\ queue' \in Seq(Heads) /\ queue' # <<>> /\ ConnectInv'
         /\ Entry' = First(op)
         /\ \A i \in 1 .. Len(queue') : /\ queue'[i] \in Entries'
                                       /\ Then(queue[i])' = IF i = Len(queue') THEN "none" ELSE queue'[i + 1]
<1> DEFINE f == [e \in Heads |-> Then(e)'] S == Entries' first == First(op)
<1>0. DOMAIN Transfers = {"Get", "Put", "Append", "ListDir"}
  BY DEF Transfers
<1>1. call' = op /\ mode' = mode /\ queue' = Program(op, again)
  BY DEF Run
<1>2. op \in DOMAIN Transfers => (again <=> dest' # <<>>)
  BY DEF Run
<1>3. PICK last \in Heads : f[last] = "none" /\ Chain(queue', f, S, first, last)
  BY <1>1, <1>2, ProgramChain DEF First
<1>4. S \subseteq Heads
  <2>1. call' \in Ops \cup {"Connect"} /\ mode' \in {"ACTIVE", "PASSIVE"}
    BY <1>1 DEF Base, TypeOK, CallOK
  <2>2. CASE call' \in DOMAIN Transfers
    BY <1>0, <2>1, <2>2 DEF Entries, Heads, Commands, Dials, Moves, Transfers
  <2>3. CASE call' \notin DOMAIN Transfers
    BY <1>0, <2>1, <2>3 DEF Entries, Heads, Commands, Ops
  <2> QED BY <2>2, <2>3
<1>5. \A e \in Heads : f[e] = Then(e)'
  OBVIOUS
<1> HIDE DEF f, S, first
<1>6. /\ queue' \in Seq(S) /\ queue'[1] = first /\ queue'[Len(queue')] = last
      /\ \A i \in 1 .. Len(queue') - 1 : f[queue'[i]] = queue'[i + 1]
  BY <1>3 DEF Chain, Linked
<1>7. PICK n \in Nat \ {0} : n = Len(queue')
  BY <1>3 DEF Chain
<1>8. queue' \in Seq(Heads) /\ queue' # <<>>
  <2>1. queue' # <<>>
    BY <1>7
  <2> QED BY <1>4, <1>6, <2>1, SeqMonotonic
<1>9. \A i \in 1 .. n : queue'[i] \in S /\ queue'[i] \in Heads
  BY <1>4, <1>6, <1>7, ElementOfSeq
<1>10. \A i \in 1 .. n : Then(queue[i])' = IF i = n THEN "none" ELSE queue'[i + 1]
  <2> TAKE i \in 1 .. n
  <2>1. f[queue'[i]] = Then(queue[i])'
    BY <1>5, <1>9
  <2>2. CASE i = n
    BY <1>3, <1>6, <1>7, <2>1, <2>2
  <2>3. CASE i # n
    <3>1. i \in 1 .. n - 1
      BY <2>3
    <3> QED BY <1>6, <1>7, <2>1, <2>3, <3>1
  <2> QED BY <2>2, <2>3
<1>11. Entry' = first
  <2>1. Head(queue') = queue'[1]
    BY <1>8
  <2> QED BY <1>6, <1>8, <2>1 DEF Entry
<1>12. ConnectInv'
  <2>1. CASE op = "Connect"
    <3>1. queue' = <<"CONNECT", "LOGIN">> /\ call' = "Connect"
      BY <1>0, <1>1, <2>1 DEF Program
    <3>2. \A i \in 2 .. Len(queue') : i = 2
      BY <3>1
    <3>3. queue'[2] = "LOGIN"
      BY <3>1
    <3> QED BY <3>1, <3>2, <3>3 DEF ConnectInv
  <2>2. CASE op # "Connect"
    <3>1. "CONNECT" \notin S
      BY <1>0, <1>1, <2>2 DEF Entries, S, Dials, Moves, Transfers, Ops
    <3>2. \A i \in 1 .. n : queue'[i] # "CONNECT"
      BY <1>9, <3>1
    <3>3. Entry' # "CONNECT"
      <4>1. 1 \in 1 .. n
        OBVIOUS
      <4> QED BY <1>6, <1>11, <3>2, <4>1
    <3>4. \A i \in 2 .. n : i \in 1 .. n
      OBVIOUS
    <3> QED BY <1>7, <3>2, <3>3, <3>4 DEF ConnectInv
  <2> QED BY <2>1, <2>2
<1> QED BY <1>7, <1>8, <1>9, <1>10, <1>11, <1>12 DEF S, first

LEMMA BaseRun ==
  ASSUME Base, NEW op \in Ops \cup {"Connect"}, NEW again \in BOOLEAN, Run(op, again)
  PROVE  Base'
<1> USE DEF Base
<1>1. queue' \in Seq(Heads) /\ queue' # <<>> /\ ConnectInv' /\ call' = op /\ status' = "WORKING"
  BY Starts DEF Run
<1>2. opcode = "NONE"
  <2>1. Entry = "none" /\ "none" \notin Commands
    BY EntryIsHead DEF Run, Commands
  <2> QED BY <2>1, NoneAt
<1>3. CallOK'
  <2>1. calls' \in Nat
    BY DEF TypeOK, CallOK, Run
  <2> QED BY <1>1, <2>1 DEF TypeOK, CallOK, Run
<1>4. QueueOK'
  BY <1>1 DEF QueueOK, Ops
<1>5. LineOK'
  BY DEF TypeOK, LineOK, Run
<1>6. DataOK'
  <2>1. done' \in Nat /\ dest' \in Seq(Nat)
    BY EmptySeq DEF TypeOK, DataOK, Run
  <2> QED BY <2>1 DEF TypeOK, DataOK, Run, socks
<1>7. LostInv' /\ AbortInv' /\ opcode' = "NONE"
  BY <1>2 DEF LostInv, AbortInv, Run
<1> QED BY <1>1, <1>3, <1>4, <1>5, <1>6, <1>7, NoOpcode DEF TypeOK

---------------------------------------------------------------------------
\* The order of the queue, while the client knows where it stands.

LEMMA Calmer ==
  ASSUME trouble \subseteq trouble'
  PROVE  (Calm' => Calm) /\ (trouble' = {} => trouble = {})
BY DEF Calm

LEMMA NoTrouble == (trouble = {} => Calm) /\ (trouble' = {} => Calm')
BY DEF Calm

\* Which entries a call has.
LEMMA EntryMeans ==
  ASSUME Base, Calm, OrderInv, Entry # "none"
  PROVE  /\ Entry \in Entries
         /\ Entry \in {"CONNECT", "LOGIN", "DATA", "LISTEN", "ACCEPT", "READ", "WRITE", "REPLY"} \cup Commands
         /\ Entry = "CONNECT" => call = "Connect"
         /\ Entry = "LOGIN" => call \in {"Connect", "Login"}
         /\ Entry = "DELE" => call = "Delete"
         /\ Entry = "RNFR" => call = "Rename"
         /\ Entry = "QUIT" => call = "Disconnect"
         /\ Entry \notin {"CONNECT", "LOGIN", "DELE", "RNFR", "QUIT"} => call \in {"Get", "Put", "Append", "ListDir"}
         /\ Entry = "DATA" => mode = "PASSIVE"
         /\ Entry = "LISTEN" => mode = "ACTIVE"
         /\ Entry \in Codes => Entry = Transfers[call]
         /\ Entry = "READ" => call \in {"Get", "ListDir"}
         /\ Entry = "WRITE" => call \in {"Put", "Append"}
         /\ Entry = queue[1]
<1>1. queue \in Seq(Heads) /\ queue # <<>>
  BY EntryIsHead DEF Base, TypeOK, QueueOK
<1>2. Entry = queue[1] /\ Len(queue) \in Nat \ {0}
  BY <1>1, EmptySeq DEF Entry
<1>3. Entry \in Entries
  BY <1>2 DEF OrderInv
<1>4. call \in Ops \cup {"Connect"} /\ mode \in {"ACTIVE", "PASSIVE"}
  BY <1>1 DEF Base, TypeOK, CallOK, QueueOK
<1>5. CASE call \in {"Get", "Put", "Append", "ListDir"}
  <2>1. Entry \in {"TYPE", "SIZE", "EPSV", "EPRT", "REST", Dials, Transfers[call], "ACCEPT", Moves, "REPLY"}
    BY <1>3, <1>5 DEF Entries
  <2>2. /\ Dials = IF mode = "PASSIVE" THEN "DATA" ELSE "LISTEN"
        /\ Moves = IF call \in {"Get", "ListDir"} THEN "READ" ELSE "WRITE"
        /\ Transfers[call] \in Codes
    BY <1>5 DEF Dials, Moves, Transfers, Codes
  <2> QED BY <1>2, <1>3, <1>4, <1>5, <2>1, <2>2 DEF Commands, Codes
<1>6. CASE call \in {"Connect", "Login", "Delete", "Rename", "Disconnect"}
  <2>1. \/ call = "Connect" /\ Entry \in {"CONNECT", "LOGIN"}
        \/ call = "Login" /\ Entry = "LOGIN"
        \/ call = "Delete" /\ Entry = "DELE"
        \/ call = "Rename" /\ Entry = "RNFR"
        \/ call = "Disconnect" /\ Entry = "QUIT"
    BY <1>3, <1>6 DEF Entries
  <2> QED BY <1>2, <1>3, <2>1 DEF Commands, Codes
<1> QED BY <1>4, <1>5, <1>6 DEF Ops

\* What follows each entry.
LEMMA ThenIs ==
  ASSUME Base, Calm, OrderInv
  PROVE  /\ Entry = "CONNECT" => Then(Entry) = "LOGIN"
         /\ Entry \in {"LOGIN", "DELE", "RNFR", "QUIT", "REPLY"} => Then(Entry) = "none"
         /\ Entry = "TYPE" => Then(Entry) \in {"SIZE", "EPSV", "EPRT"}
         /\ Entry = "SIZE" => Then(Entry) \in {"EPSV", "EPRT"}
         /\ Entry \in {"EPSV", "EPRT"} => Then(Entry) = IF dest = <<>> THEN Dials ELSE "REST"
         /\ Entry = "REST" => Then(Entry) = Dials
         /\ Entry \in {"DATA", "LISTEN"} => Then(Entry) = Transfers[call] /\ Then(Entry) \in Codes
         /\ Entry \in Codes => Then(Entry) = IF mode = "PASSIVE" THEN Moves ELSE "ACCEPT"
         /\ Entry = "ACCEPT" => Then(Entry) = Moves
         /\ Entry \in {"READ", "WRITE"} => Then(Entry) = "REPLY"
         /\ Dials \in {"DATA", "LISTEN"} /\ Moves \in {"READ", "WRITE"}
<1>1. Dials \in {"DATA", "LISTEN"} /\ Moves \in {"READ", "WRITE"}
  BY DEF Dials, Moves
<1>2. Entry \in {"DATA", "LISTEN"} => Transfers[call] \in Codes
  BY EntryMeans DEF Transfers, Codes
<1> QED BY <1>1, <1>2 DEF Then, Codes

\* Only Reads changes what the application has, and then the order is settled.
LEMMA ThenStays ==
  ASSUME Base, Calm, OrderInv, UNCHANGED conf, dest' = dest \/ Entry = "READ",
         NEW i \in 1 .. Len(queue)
  PROVE  \A e : e = queue[i] => Then(e)' = Then(e)
<1>1. mode' = mode /\ call' = call
  BY DEF conf
<1>2. CASE dest' = dest
  BY <1>1, <1>2 DEF Then, Dials, Moves
<1>3. CASE Entry = "READ"
  <2>1. queue \in Seq(Heads) /\ queue # <<>> /\ queue[1] = "READ"
    BY <1>3, EntryMeans, EntryIsHead DEF Base, TypeOK, QueueOK
  <2>2. PICK n \in Nat \ {0} : n = Len(queue)
    BY <2>1, EmptySeq
  <2>3. \A j \in 1 .. n : queue[j] \in Heads /\ Then(queue[j]) = IF j = n THEN "none" ELSE queue[j + 1]
    BY <2>1, <2>2, ElementOfSeq DEF OrderInv
  <2>4. Then("READ") = "REPLY" /\ Then("REPLY") = "none" /\ "none" \notin Heads
    BY DEF Then, Codes, Heads, Commands
  <2>5. n # 1 /\ queue[2] = "REPLY"
    <3>1. 1 \in 1 .. n
      OBVIOUS
    <3>2. Then(queue[1]) = "REPLY"
      BY <2>1, <2>4
    <3>3. n # 1
      BY <2>3, <2>4, <3>1, <3>2
    <3> QED BY <2>3, <3>1, <3>2, <3>3
  <2>6. n = 2
    <3>1. 2 \in 1 .. n
      BY <2>5
    <3>2. n # 2 => queue[3] = "none" /\ 3 \in 1 .. n
      BY <2>3, <2>4, <2>5, <3>1
    <3> QED BY <2>3, <2>4, <3>2
  <2>7. i = 1 \/ i = 2
    BY <2>2, <2>6
  <2>8. queue[i] \in {"READ", "REPLY"}
    BY <2>1, <2>5, <2>7
  <2> QED BY <2>8 DEF Then, Codes
<1> QED BY <1>2, <1>3

LEMMA StaysInOrder ==
  ASSUME Base, Calm, OrderInv, queue' = queue, UNCHANGED conf, dest' = dest \/ Entry = "READ"
  PROVE  OrderInv'
<1>1. Entries' = Entries
  BY DEF Entries, Dials, Moves, conf
<1>2. \A i \in 1 .. Len(queue) : Then(queue[i])' = Then(queue[i])
  BY ThenStays
<1>3. \A i \in 1 .. Len(queue) : /\ queue[i] \in Entries
                                 /\ Then(queue[i]) = IF i = Len(queue) THEN "none" ELSE queue[i + 1]
  BY DEF OrderInv
<1> QED BY <1>1, <1>2, <1>3 DEF OrderInv

LEMMA PopsInOrder ==
  ASSUME Base, Calm, OrderInv, queue # <<>>, Left(Tail(queue)), UNCHANGED conf,
         dest' = dest \/ Entry = "READ"
  PROVE  /\ OrderInv' /\ Entry' = Then(Entry)
         /\ status' = IF Then(Entry) = "none" THEN "FINISHED" ELSE "WORKING"
<1>1. queue \in Seq(Heads) /\ status = "WORKING" /\ Entry # "none" /\ "none" \notin Heads
  BY EntryIsHead DEF Base, TypeOK, QueueOK, Heads, Commands
<1>2. /\ queue' = Tail(queue) /\ queue' \in Seq(Heads)
      /\ Len(queue') = Len(queue) - 1
      /\ \A i \in 1 .. Len(queue') : queue'[i] = queue[i + 1]
  BY <1>1, HeadTailProperties DEF Left
<1>3. PICK n \in Nat \ {0} : n = Len(queue)
  BY <1>1, EmptySeq
<1>4. \A i \in 1 .. n : /\ queue[i] \in Entries /\ queue[i] \in Heads
                        /\ Then(queue[i]) = IF i = n THEN "none" ELSE queue[i + 1]
  BY <1>1, <1>3, ElementOfSeq DEF OrderInv
<1>5. Entries' = Entries
  BY DEF Entries, Dials, Moves, conf
<1>6. \A i \in 1 .. n : \A e : e = queue[i] => Then(e)' = Then(e)
  BY <1>3, ThenStays
<1>7. Len(queue') = n - 1 /\ n - 1 \in Nat
  BY <1>2, <1>3
<1>8. \A i \in 1 .. n - 1 : /\ queue'[i] \in Entries'
                            /\ Then(queue[i])' = IF i = n - 1 THEN "none" ELSE queue'[i + 1]
  <2> TAKE i \in 1 .. n - 1
  <2>1. i \in 1 .. n /\ i + 1 \in 1 .. n /\ (i = n - 1 <=> i + 1 = n)
    BY <1>3
  <2>2. queue'[i] = queue[i + 1] /\ queue[i + 1] \in Entries
    BY <1>2, <1>4, <1>7, <2>1
  <2>3. Then(queue[i])' = Then(queue[i + 1])
    BY <1>6, <2>1, <2>2
  <2>4. CASE i = n - 1
    BY <1>4, <1>5, <2>1, <2>2, <2>3, <2>4
  <2>5. CASE i # n - 1
    <3>1. i + 1 \in 1 .. n - 1 /\ (i + 1) + 1 = i + 2
      BY <1>3, <2>5
    <3>2. queue'[i + 1] = queue[(i + 1) + 1]
      BY <1>2, <1>7, <3>1
    <3> QED BY <1>4, <1>5, <2>1, <2>2, <2>3, <2>5, <3>2
  <2> QED BY <2>4, <2>5
<1>9. OrderInv'
  BY <1>7, <1>8 DEF OrderInv
<1>10. Entry' = Then(Entry) /\ (queue' = <<>> <=> Then(Entry) = "none")
  <2>1. 1 \in 1 .. n /\ Entry = queue[1]
    BY <1>1, <1>3, EntryMeans
  <2>2. CASE n = 1
    <3>1. queue' = <<>>
      BY <1>2, <1>7, <2>2, EmptySeq
    <3> QED BY <1>4, <2>1, <2>2, <3>1 DEF Entry
  <2>3. CASE n # 1
    <3>1. 1 \in 1 .. n - 1 /\ 2 \in 1 .. n
      BY <2>3
    <3>2. queue' # <<>> /\ Head(queue') = queue'[1] /\ queue'[1] = queue[2]
      BY <1>2, <1>7, <3>1
    <3>3. Then(Entry) = queue[2] /\ queue[2] # "none"
      BY <1>1, <1>4, <2>1, <2>3, <3>1
    <3> QED BY <3>2, <3>3 DEF Entry
  <2> QED BY <2>2, <2>3
<1>11. status' = IF queue' = <<>> THEN "FINISHED" ELSE "WORKING"
  BY <1>1, <1>2 DEF Left
<1> QED BY <1>9, <1>10, <1>11

---------------------------------------------------------------------------
\* The conversation and the data, step by step.

Core == StepInv /\ PeerInv /\ RestInv /\ ReadInv /\ WriteInv /\ EffectInv /\ TrueIsDone

LEMMA NotCalm == ASSUME ~Calm' PROVE OrderInv' /\ Core'
<1>1. trouble' # {}
  BY NoTrouble
<1> QED BY <1>1 DEF OrderInv, Core, StepInv, PeerInv, RestInv, ReadInv, WriteInv, EffectInv, TrueIsDone

\* What is handed on, and what has come.
LEMMA SameCame ==
  ASSUME dest' = dest, ascii' = ascii
  PROVE  Beginning' = Beginning /\ Delivered' = Delivered /\ \A i : Handed(i)' = Handed(i)
<1>1. \A i : Handed(i)' = Handed(i)
  BY DEF Handed
<1>2. Beginning' = Beginning
  BY <1>1 DEF Beginning
<1> QED BY <1>1, <1>2 DEF Delivered

LEMMA SameGot ==
  ASSUME Entry' = Entry, dest' = dest, packet' = packet
  PROVE  Got' = Got
BY DEF Got

\* Between two calls.
LEMMA NoneCore ==
  ASSUME Base, Calm, ReadInv, trouble' = {} => trouble = {},
         Entry' = "none", dest' = dest, call' = call, ascii' = ascii, xfer' = NoXfer,
         ~lost' => Silent' /\ (connected' \/ status' = "FINISHED" => ~half'),
         TrueIsDone'
  PROVE  Core'
<1>0. "none" \notin Commands /\ "none" \notin Codes
  BY DEF Commands, Codes
<1>1. StepInv'
  BY <1>0 DEF StepInv, Quiet
<1>2. PeerInv'
  BY <1>0 DEF PeerInv
<1>3. RestInv'
  BY <1>0 DEF RestInv
<1>4. ReadInv'
  BY <1>0, SameCame DEF ReadInv
<1>5. WriteInv'
  BY <1>0 DEF WriteInv
<1>6. EffectInv'
  BY <1>0 DEF EffectInv
<1> QED BY <1>1, <1>2, <1>3, <1>4, <1>5, <1>6 DEF Core

\* An entry that throws, when the connection is in step.
LEMMA FailsCore ==
  ASSUME Base, Calm, OrderInv, Core, queue # <<>>, Throws, trouble \subseteq trouble',
         UNCHANGED <<conf, dest>>, xfer' = NoXfer,
         ~lost' => up' = <<>> /\ down' = <<>> /\ (connected' => ~half')
  PROVE  OrderInv' /\ Core'
<1>1. ~aborted
  BY DEF Base, AbortInv, Calm
<1>2. queue' = <<>> /\ Entry' = "none" /\ status' = "FAILED" /\ events' = Idle
  BY <1>1, Fails DEF Base
<1>3. OrderInv'
  BY <1>2 DEF OrderInv
<1>4. TrueIsDone'
  BY <1>2 DEF TrueIsDone, Succeeds
<1>5. ~lost' => Silent' /\ (connected' \/ status' = "FINISHED" => ~half')
  BY <1>2 DEF Silent
<1>6. call' = call /\ ascii' = ascii /\ (trouble' = {} => trouble = {}) /\ ReadInv
  BY Calmer DEF conf, Core
<1> QED BY <1>2, <1>3, <1>4, <1>5, <1>6, NoneCore

LEMMA InitCore == Init => OrderInv /\ Core
<1> SUFFICES ASSUME Init PROVE OrderInv /\ Core
  OBVIOUS
<1>1. /\ queue = <<>> /\ Entry = "none" /\ up = <<>> /\ down = <<>> /\ events = Idle /\ xfer = NoXfer
      /\ ~half /\ call = "none" /\ dest = <<>> /\ status = "IDLE"
  BY DEF Init, Entry
<1>2. "none" \notin Commands /\ "none" \notin Codes /\ "none" \notin DOMAIN Transfers
  BY DEF Commands, Codes, Transfers
<1>3. StepInv
  BY <1>1, <1>2 DEF StepInv, Quiet, Silent
<1>4. PeerInv
  BY <1>1, <1>2 DEF PeerInv
<1> QED BY <1>1, <1>2, <1>3, <1>4 DEF Core, OrderInv, RestInv, ReadInv, WriteInv, EffectInv, TrueIsDone, Succeeds

\* Run.
LEMMA CoreRun ==
  ASSUME Base, OrderInv, Core, Base', NEW op \in Ops \cup {"Connect"}, NEW again \in BOOLEAN, Run(op, again)
  PROVE  OrderInv' /\ Core'
<1>0. DOMAIN Transfers = {"Get", "Put", "Append", "ListDir"} /\ op \in Ops \cup {"Connect"}
  BY DEF Transfers
<1>1. /\ queue' # <<>> /\ Entry' = First(op)
      /\ \A i \in 1 .. Len(queue') : /\ queue'[i] \in Entries'
                                    /\ Then(queue[i])' = IF i = Len(queue') THEN "none" ELSE queue'[i + 1]
  BY Starts
<1>2. OrderInv'
  BY <1>1 DEF OrderInv
<1>3. SUFFICES ASSUME Calm' PROVE Core'
  BY <1>2, NotCalm
<1>4. Calm /\ (trouble' = {} => trouble = {})
  BY <1>3, Calmer DEF Run
<1>5. Entry = "none" /\ opcode = "NONE" /\ status' = "WORKING" /\ call' = op
  <2>1. Entry = "none" /\ "none" \notin Commands
    BY EntryIsHead DEF Run, Base, Commands
  <2> QED BY <2>1, NoneAt DEF Run
<1>6. /\ Entry' \in {"TYPE", "CONNECT", "LOGIN", "DELE", "RNFR", "QUIT"}
      /\ Entry' = "CONNECT" <=> op = "Connect"
      /\ Entry' = "LOGIN" <=> op = "Login"
      /\ Entry' = "TYPE" <=> op \in DOMAIN Transfers
  BY <1>0, <1>1 DEF First, Ops
<1>7. Entry' \notin Codes /\ Entry' \notin {"DATA", "LISTEN", "ACCEPT", "READ", "WRITE", "REPLY", "none"}
  BY <1>6 DEF Codes
<1>8. Silent \/ lost
  BY <1>4, <1>5 DEF Core, StepInv
<1>9. op # "Connect" => ~lost /\ connected /\ Quiet
  BY <1>4, <1>5 DEF Core, StepInv, Run
<1>10. /\ UNCHANGED <<opcode, events, half, connected, up, down, lost, xfer, rest, peer, data, wire, stored, mode>>
  BY DEF Run, socks
<1>11. Silent => Silent'
  BY <1>10 DEF Silent
<1>12. Quiet => Quiet'
  BY <1>10 DEF Quiet, Silent
<1>13. StepInv'
  <2>1. CASE op = "Connect"
    <3>1. Entry' = "CONNECT" /\ opcode' = "NONE" /\ (~lost' => Silent') /\ "CONNECT" \notin Commands
      BY <1>5, <1>6, <1>8, <1>10, <1>11, <2>1 DEF Commands
    <3> QED BY <3>1 DEF StepInv
  <2>2. CASE op # "Connect"
    <3>1. Entry' \in {"TYPE", "LOGIN", "DELE", "RNFR", "QUIT"} /\ Quiet'
      BY <1>6, <1>9, <1>12, <2>2
    <3> QED BY <3>1 DEF StepInv
  <2> QED BY <2>1, <2>2
<1>14. xfer' = NoXfer
  BY <1>8, <1>10 DEF Silent, Base, LostInv
<1>15. PeerInv'
  BY <1>7, <1>14 DEF PeerInv
<1>16. RestInv'
  <2> SUFFICES ASSUME trouble' = {}, op \in DOMAIN Transfers
               PROVE  RestInv'
    BY <1>5 DEF RestInv
  <2>1. again => call = "Get" /\ op = "Get" /\ dest # <<>> /\ position = Len(dest) /\ dest' = dest
    BY DEF Run
  <2>2. ~again => dest' = <<>>
    BY DEF Run
  <2>3. position' = position /\ Entry' = "TYPE"
    BY <1>6 DEF Run
  <2> QED BY <1>5, <1>7, <2>1, <2>2, <2>3 DEF RestInv
<1>17. ReadInv'
  <2> SUFFICES ASSUME trouble' = {} PROVE Beginning'
    BY <1>7 DEF ReadInv
  <2>1. CASE again
    <3>1. call = "Get" /\ dest' = dest /\ ascii' = ascii
      BY <2>1 DEF Run
    <3>2. Beginning
      BY <1>4, <3>1 DEF ReadInv, Core
    <3> QED BY <3>1, <3>2, SameCame
  <2>2. CASE ~again
    <3>1. dest' = <<>>
      BY <2>2 DEF Run
    <3> QED BY <3>1 DEF Beginning
  <2> QED BY <2>1, <2>2
<1>18. WriteInv'
  BY <1>7 DEF WriteInv
<1>19. EffectInv'
  <2> SUFFICES ASSUME trouble' = {}, Entry' \in {"LOGIN", "DELE", "RNFR", "QUIT"}
               PROVE  EffectInv'
    BY <1>6 DEF EffectInv
  <2>1. down' = <<>>
    BY <1>6, <1>9, <1>10 DEF Quiet, Silent
  <2>2. Entry' = "LOGIN" => prevcode' \notin LoggedIn
    BY <1>6 DEF Run, LoggedIn
  <2> QED BY <2>1, <2>2 DEF EffectInv
<1>20. TrueIsDone'
  BY <1>5 DEF TrueIsDone, Succeeds
<1> QED BY <1>13, <1>15, <1>16, <1>17, <1>18, <1>19, <1>20 DEF Core

\* Begins.
LEMMA CoreBegins == ASSUME Base, OrderInv, Core, Begins PROVE OrderInv' /\ Core'
<1>1. PICK c \in Commands : At(c) /\ opcode = "NONE" /\ opcode' = c
  BY DEF Begins
<1>2. Entry = c /\ UNCHANGED conf /\ UNCHANGED flags /\ UNCHANGED server
  <2>1. c \in Heads
    BY DEF Heads
  <2> QED BY <1>1, <2>1, EntryIsHead DEF Begins, Base
<1>3. /\ UNCHANGED <<mode, call, ascii, status, queue, events, reply, prevcode, half, connected, data_error,
                      position, done, packet, data, peer, wire, up, down, lost, xfer, rest, stored, effect,
                      dest, trouble>>
  BY DEF Begins, conf, flags, offsets, socks, server
<1>4. Entry' = Entry /\ Calm' = Calm
  BY <1>3 DEF Entry, Calm
<1>5. OrderInv'
  BY <1>2, <1>3, <1>4, StaysInOrder DEF OrderInv
<1>6. StepInv'
  <2> SUFFICES ASSUME Calm, ~lost PROVE StepInv'
    BY <1>3, <1>4 DEF StepInv
  <2>1. Quiet
    BY <1>1, <1>2 DEF Core, StepInv, Codes
  <2>2. Quiet'
    BY <1>3, <2>1 DEF Quiet, Silent
  <2>3. Entry' \in Commands /\ Entry' \notin {"none", "CONNECT", "LOGIN", "DATA", "LISTEN", "ACCEPT", "READ", "WRITE", "REPLY"}
    BY <1>2, <1>4 DEF Commands
  <2> QED BY <2>2, <2>3 DEF StepInv
<1>7. PeerInv'
  BY <1>3, <1>4 DEF PeerInv, Core
<1>8. RestInv'
  BY <1>3, <1>4 DEF RestInv, Core
<1>9. ReadInv'
  BY <1>3, <1>4, SameCame, SameGot DEF ReadInv, Core, Ended
<1>10. WriteInv'
  <2>1. \A n : Row(n)' = Row(n)
    BY <1>3 DEF Row
  <2>2. \A code : Ended(code)' = Ended(code)
    BY <1>3 DEF Ended
  <2> QED BY <1>3, <1>4, <2>1, <2>2 DEF WriteInv, Core
<1>11. EffectInv'
  BY <1>3, <1>4 DEF EffectInv, Core
<1>12. TrueIsDone'
  BY <1>3, SameCame DEF TrueIsDone, Core, Succeeds
<1> QED BY <1>5, <1>6, <1>7, <1>8, <1>9, <1>10, <1>11, <1>12 DEF Core

\* What a step keeps that leaves the variables of an invariant alone.
LEMMA Kept ==
  ASSUME Entry' = Entry, trouble' = trouble, call' = call, mode' = mode, lost' = lost, status' = status,
         ascii' = ascii, dest' = dest
  PROVE  /\ PeerInv /\ UNCHANGED <<xfer, peer, data, down>> => PeerInv'
         /\ RestInv /\ UNCHANGED <<position, down, rest, xfer, wire>> => RestInv'
         /\ ReadInv /\ UNCHANGED <<events, packet, wire, xfer, down, data_error>> => ReadInv'
         /\ EffectInv /\ UNCHANGED <<down, effect, prevcode>> => EffectInv'
         /\ TrueIsDone /\ UNCHANGED <<data_error, stored, effect>> => TrueIsDone'
         /\ WriteInv /\ UNCHANGED <<events, done, xfer, stored, wire, data_error, down>> => WriteInv'
<1>0. Calm' = Calm
  BY DEF Calm
<1>1. PeerInv /\ UNCHANGED <<xfer, peer, data, down>> => PeerInv'
  BY <1>0 DEF PeerInv
<1>2. RestInv /\ UNCHANGED <<position, down, rest, xfer, wire>> => RestInv'
  BY DEF RestInv
<1>3. ReadInv /\ UNCHANGED <<events, packet, wire, xfer, down, data_error>> => ReadInv'
  BY SameCame, SameGot DEF ReadInv, Ended
<1>4. EffectInv /\ UNCHANGED <<down, effect, prevcode>> => EffectInv'
  BY DEF EffectInv
<1>5. TrueIsDone /\ UNCHANGED <<data_error, stored, effect>> => TrueIsDone'
  BY SameCame DEF TrueIsDone, Succeeds
<1>6. WriteInv /\ UNCHANGED <<events, done, xfer, stored, wire, data_error, down>> => WriteInv'
  <2> SUFFICES ASSUME WriteInv, UNCHANGED <<events, done, xfer, stored, wire, data_error, down>> PROVE WriteInv'
    OBVIOUS
  <2>1. /\ events' = events /\ done' = done /\ xfer' = xfer /\ stored' = stored /\ wire' = wire
        /\ data_error' = data_error /\ down' = down
    OBVIOUS
  <2>2. \A n : Row(n)' = Row(n)
    BY <2>1 DEF Row
  <2>3. \A c : Ended(c)' = Ended(c)
    BY <2>1 DEF Ended
  <2> QED BY <2>1, <2>2, <2>3 DEF WriteInv
<1> QED BY <1>1, <1>2, <1>3, <1>4, <1>5, <1>6

\* PutGet.
LEMMA CorePutGetSends == ASSUME Base, OrderInv, Core, PutGetSends PROVE OrderInv' /\ Core'
<1>1. /\ InPutGet /\ events = Idle /\ ~lost /\ events' = Read /\ half' = FALSE /\ done' = 0
      /\ up' = IF Puts = Null THEN up ELSE Append(up, Puts)
      /\ packet' = <<>>
      /\ UNCHANGED conf /\ UNCHANGED flags /\ UNCHANGED server /\ UNCHANGED socks
      /\ UNCHANGED <<status, queue, opcode, prevcode, position, down, lost, dest, trouble>>
  BY DEF PutGetSends
<1>2. /\ UNCHANGED <<mode, call, ascii, connected, data_error, data, peer, wire, xfer, rest, stored, effect>>
  BY <1>1 DEF conf, flags, socks, server
<1>3. Entry' = Entry /\ Calm' = Calm
  BY <1>1 DEF Entry, Calm
<1>4. OrderInv'
  BY <1>1, <1>3, StaysInOrder DEF OrderInv
<1>5. SUFFICES ASSUME Calm PROVE Core'
  BY <1>3, <1>4, NotCalm
<1>6. StepInv
  BY DEF Core
<1>7. /\ Entry = "LOGIN" => Puts \in {"USER", "PASS", "ACCT"} /\ prevcode \in {200, 220, 331, 332}
      /\ Entry = "CONNECT" => Puts = Null /\ opcode = "HELO"
      /\ Entry \in Commands => Puts = opcode /\ opcode # "NONE"
      /\ Entry = "REPLY" => Puts = Null
      /\ Entry \in Commands \cup {"LOGIN", "CONNECT", "REPLY"}
  <2>1. Entry \notin {"ABORREPLY", "LASTREPLY"}
    <3>1. Entry # "none"
      BY <1>1, EntryIsHead DEF InPutGet, Base
    <3>2. "ABORREPLY" \notin Commands /\ "LASTREPLY" \notin Commands
      BY DEF Commands
    <3> QED BY <1>1, <1>5, <3>1, <3>2, EntryMeans
  <2> QED BY <1>1, <2>1, PutsIs
<1>8. /\ "LOGIN" \notin Commands /\ "CONNECT" \notin Commands /\ "REPLY" \notin Commands
      /\ \A e \in {"DATA", "LISTEN", "ACCEPT", "READ", "WRITE", "none"} : e \notin Commands
      /\ Null \notin {"USER", "PASS", "ACCT"} /\ Null \notin Opcodes
      /\ Codes \subseteq Commands /\ Idle # Read
  BY DEF Commands, Null, Opcodes, Codes, Idle, Read
<1>9. /\ Entry = "LOGIN" => Quiet
      /\ Entry = "CONNECT" => up = <<>> /\ down = <<220>> /\ xfer = NoXfer
      /\ Entry \in Commands => Quiet
      /\ Entry = "REPLY" => Owed
  <2>1. Entry = "LOGIN" => Quiet
    BY <1>1, <1>5, <1>6, <1>8 DEF StepInv, Talking
  <2>2. Entry = "CONNECT" => up = <<>> /\ down = <<220>> /\ xfer = NoXfer
    BY <1>1, <1>5, <1>6, <1>7 DEF StepInv
  <2>3. Entry \in Commands => Quiet
    BY <1>1, <1>5, <1>6, <1>8 DEF StepInv, Talking, Opened
  <2>4. Entry = "REPLY" => Owed
    BY <1>1, <1>5, <1>6 DEF StepInv
  <2> QED BY <2>1, <2>2, <2>3, <2>4
<1>10. HalfRead'
  BY <1>1 DEF HalfRead
<1>11. StepInv'
  <2>1. CASE Entry = "LOGIN"
    <3>1. PICK c \in {"USER", "PASS", "ACCT"} : c = Puts
      BY <1>7, <2>1
    <3>2. up' = <<c>> /\ down' = <<>> /\ xfer' = NoXfer
      BY <1>1, <1>2, <1>8, <1>9, <2>1, <3>1 DEF Quiet, Silent
    <3>3. Talking(c)'
      BY <1>1, <1>10, <3>2 DEF Talking, Asked
    <3>4. prevcode' \in {200, 220, 331, 332} /\ ~half'
      BY <1>1, <1>7, <2>1
    <3> QED BY <1>3, <1>8, <2>1, <3>3, <3>4 DEF StepInv
  <2>2. CASE Entry = "CONNECT"
    BY <1>1, <1>2, <1>3, <1>7, <1>8, <1>9, <2>2 DEF StepInv
  <2>3. CASE Entry \in Commands
    <3>1. Puts # Null
      BY <1>7, <1>8, <2>3 DEF Base, TypeOK, LineOK
    <3>2. up' = <<opcode>> /\ down' = <<>> /\ xfer' = NoXfer
      BY <1>1, <1>2, <1>7, <1>9, <2>3, <3>1 DEF Quiet, Silent
    <3>3. Talking(opcode)'
      BY <1>1, <1>10, <3>2 DEF Talking, Asked
    <3>4. Entry \notin {"none", "CONNECT", "LOGIN", "DATA", "LISTEN", "ACCEPT", "READ", "WRITE", "REPLY"}
      BY <1>8, <2>3
    <3> QED BY <1>1, <1>3, <1>7, <2>3, <3>3, <3>4 DEF StepInv
  <2>4. CASE Entry = "REPLY"
    <3>1. Owed'
      BY <1>1, <1>2, <1>7, <1>9, <1>10, <2>4 DEF Owed
    <3> QED BY <1>3, <1>8, <2>4, <3>1 DEF StepInv
  <2> QED BY <1>7, <2>1, <2>2, <2>3, <2>4
<1>12. PeerInv' /\ RestInv' /\ EffectInv' /\ TrueIsDone'
  BY <1>1, <1>2, <1>3, Kept DEF Core
<1>13. WriteInv'
  <2> SUFFICES ASSUME trouble' = {}, call' \in {"Put", "Append"} PROVE WriteInv'
    BY DEF WriteInv
  <2>1. WriteInv /\ trouble = {} /\ call \in {"Put", "Append"}
    BY <1>1, <1>2 DEF Core
  <2>2. Entry \in Codes \cup {"ACCEPT", "WRITE"} => xfer' = NoXfer
    BY <1>2, <1>7, <1>8, <1>9 DEF Quiet, Silent
  <2>3. Row(Size)' = Row(Size)
    BY <1>2 DEF Row
  <2>4. \A c : Ended(c)' = Ended(c)
    BY <1>1 DEF Ended
  <2> QED BY <1>1, <1>2, <1>3, <2>1, <2>2, <2>3, <2>4 DEF WriteInv
<1>14. ReadInv'
  <2> SUFFICES ASSUME trouble' = {}, call' \in {"Get", "ListDir"} PROVE ReadInv'
    BY DEF ReadInv
  <2>1. ReadInv /\ trouble = {} /\ call \in {"Get", "ListDir"}
    BY <1>1, <1>2 DEF Core
  <2>2. Beginning' = Beginning /\ Delivered' = Delivered
    BY <1>1, <1>2, SameCame
  <2>3. \A c : Ended(c)' = Ended(c)
    BY <1>1 DEF Ended
  <2>4. Entry' \notin {"ACCEPT", "READ"}
    BY <1>3, <1>7, <1>8
  <2>5. Got' = Got
    BY <1>1, <1>3, <2>4 DEF Got
  <2> QED BY <1>1, <1>2, <1>3, <2>1, <2>2, <2>3, <2>4, <2>5 DEF ReadInv
<1> QED BY <1>11, <1>12, <1>13, <1>14 DEF Core

LEMMA CorePutGetReadsCode == ASSUME Base, OrderInv, Core, PutGetReadsCode PROVE OrderInv' /\ Core'
<1>1. /\ InPutGet /\ events = Read /\ ~half /\ down # <<>>
      /\ half' = TRUE /\ reply' = Head(down) /\ prevcode' = Head(down)
      /\ UNCHANGED conf /\ UNCHANGED flags /\ UNCHANGED server /\ UNCHANGED socks /\ UNCHANGED offsets
      /\ UNCHANGED <<status, queue, opcode, events, up, down, lost, dest, trouble>>
  BY DEF PutGetReadsCode
<1>2. /\ UNCHANGED <<mode, call, ascii, connected, data_error, data, peer, wire, position, done, packet, xfer, rest, stored, effect>>
  BY <1>1 DEF conf, flags, socks, server, offsets
<1>3. Entry' = Entry /\ Calm' = Calm
  BY <1>1 DEF Entry, Calm
<1>4. OrderInv'
  BY <1>1, <1>3, StaysInOrder DEF OrderInv
<1>5. HalfRead'
  BY <1>1 DEF HalfRead
<1>6. PeerInv' /\ RestInv' /\ ReadInv' /\ TrueIsDone' /\ WriteInv'
  BY <1>1, <1>2, <1>3, Kept DEF Core
<1>7. ~lost
  BY <1>1 DEF Base, LostInv
<1>8. Idle # Read
  BY DEF Idle, Read
<1>9. StepInv'
  <2> SUFFICES ASSUME Calm PROVE StepInv'
    BY <1>3 DEF StepInv
  <2>1. StepInv
    BY DEF Core
  <2>2. \A c : Talking(c) => Talking(c)'
    BY <1>1, <1>2, <1>5 DEF Talking, Asked, Answered
  <2>3. (Opened => Opened') /\ (Owed => Owed') /\ ~Quiet /\ ~Silent
    BY <1>1, <1>2, <1>5, <1>8 DEF Opened, Owed, Quiet, Silent
  <2>4. down = <<220>> => Head(down) = 220
    OBVIOUS
  <2> HIDE DEF Talking, Opened, Owed, Quiet, Silent
  <2>5. (Entry = "none" \/ (Entry = "CONNECT" /\ opcode # "HELO") => Silent)'
    BY <1>1, <1>3, <1>7, <2>1, <2>3 DEF StepInv
  <2>6. (Entry = "none" /\ (connected \/ status = "FINISHED") => Quiet)'
    BY <1>1, <1>2, <1>3, <1>7, <2>1, <2>3 DEF StepInv
  <2>7. (Entry = "CONNECT" /\ opcode = "HELO" =>
            /\ up = <<>> /\ down = <<220>> /\ xfer = NoXfer
            /\ events = Read /\ half => reply = 220 /\ prevcode = 220)'
    BY <1>1, <1>2, <1>3, <1>7, <2>1, <2>4 DEF StepInv
  <2>8. (Entry = "LOGIN" =>
            \/ Quiet
            \/ /\ \E c \in {"USER", "PASS", "ACCT"} : Talking(c)
               /\ IF half THEN prevcode = reply ELSE prevcode \in {200, 220, 331, 332})'
    BY <1>1, <1>3, <1>7, <2>1, <2>2, <2>3 DEF StepInv
  <2>9. (Entry \in Commands => Quiet \/ (opcode # "NONE" /\ Talking(opcode)) \/ (opcode \in Codes /\ Opened))'
    BY <1>1, <1>3, <1>7, <2>1, <2>2, <2>3 DEF StepInv
  <2>10. (Entry \in {"DATA", "LISTEN"} => Quiet)'
    BY <1>3, <1>7, <2>1, <2>3 DEF StepInv
  <2>11. (Entry \in {"ACCEPT", "READ", "WRITE"} => Owed /\ events = Idle)'
    BY <1>1, <1>3, <1>7, <1>8, <2>1, <2>3 DEF StepInv
  <2>12. (Entry = "REPLY" => Owed)'
    BY <1>3, <1>7, <2>1, <2>3 DEF StepInv
  <2> QED BY <2>5, <2>6, <2>7, <2>8, <2>9, <2>10, <2>11, <2>12 DEF StepInv
<1>10. EffectInv'
  <2> SUFFICES ASSUME trouble' = {} PROVE EffectInv'
    BY DEF EffectInv
  <2>1. EffectInv /\ trouble = {}
    BY <1>1 DEF Core
  <2>2. Head(down) = down[1] /\ 1 \in 1 .. Len(down)
    BY <1>1, EmptySeq DEF Base, TypeOK, LineOK
  <2>3. Entry = "LOGIN" /\ prevcode' \in LoggedIn => effect
    BY <1>1, <2>1, <2>2 DEF EffectInv, LoggedIn
  <2> QED BY <1>1, <1>2, <1>3, <2>1, <2>3 DEF EffectInv
<1> QED BY <1>4, <1>6, <1>9, <1>10 DEF Core

\* After these the client no longer knows, or the connection is lost.
LEMMA CoreAbort == ASSUME Abort PROVE OrderInv' /\ Core'
<1>1. ~Calm'
  BY DEF Abort, Calm
<1> QED BY <1>1, NotCalm

LEMMA CorePutGetFails == ASSUME Base, OrderInv, Core, PutGetFails PROVE OrderInv' /\ Core'
<1>1. /\ queue # <<>> /\ Throws /\ trouble \subseteq trouble' /\ UNCHANGED <<conf, dest>>
      /\ lost' = lost /\ xfer' = xfer
  BY DEF PutGetFails, InPutGet, server
<1>2. CASE lost
  <2>1. xfer' = NoXfer
    BY <1>1, <1>2 DEF Base, LostInv
  <2>2. Calm' => Calm
    BY <1>1, Calmer
  <2> QED BY <1>1, <1>2, <2>1, <2>2, FailsCore, NotCalm
<1>3. CASE ~lost
  <2>1. ~Calm'
    BY <1>3 DEF PutGetFails, Calm
  <2> QED BY <2>1, NotCalm
<1> QED BY <1>2, <1>3

LEMMA CoreAcceptFails == ASSUME AcceptFails PROVE OrderInv' /\ Core'
<1>1. ~Calm'
  BY DEF AcceptFails, Calm
<1> QED BY <1>1, NotCalm

\* StartLogin.
LEMMA CoreLoginEnds == ASSUME Base, OrderInv, Core, LoginEnds PROVE OrderInv' /\ Core'
<1>1. Entry = "LOGIN" /\ queue # <<>>
  BY AtEntry DEF LoginEnds, Heads
<1>2. /\ prevcode \in LoggedIn /\ Left(Tail(queue)) /\ trouble' = IF half THEN trouble \cup {"split"} ELSE trouble
      /\ UNCHANGED <<conf, events, half, up, down, lost, server, dest>> /\ UNCHANGED flags
  BY DEF LoginEnds
<1>3. UNCHANGED <<call, ascii, connected, data_error, xfer, stored, effect>>
  BY <1>2 DEF conf, flags, server
<1>4. SUFFICES ASSUME Calm' PROVE OrderInv' /\ Core'
  BY NotCalm
<1>5. Calm /\ ~half /\ trouble' = trouble
  BY <1>2, <1>4 DEF Calm
<1>6. OrderInv' /\ Entry' = "none" /\ status' = "FINISHED"
  BY <1>1, <1>2, <1>5, PopsInOrder, ThenIs
<1>7. ~lost => Quiet
  <2>1. \A p \in LoggedIn : p \notin {200, 220, 331, 332}
    BY DEF LoggedIn
  <2> QED BY <1>1, <1>2, <1>5, <2>1 DEF Core, StepInv
<1>8. ~lost' => Silent' /\ ~half'
  BY <1>2, <1>3, <1>7 DEF Quiet, Silent
<1>9. xfer' = NoXfer
  BY <1>3, <1>7 DEF Quiet, Silent, Base, LostInv
<1>10. TrueIsDone'
  <2> SUFFICES ASSUME trouble' = {} PROVE TrueIsDone'
    BY DEF TrueIsDone
  <2>1. effect'
    BY <1>1, <1>2, <1>3, <1>5 DEF EffectInv, Core
  <2>2. call' \in {"Connect", "Login"}
    BY <1>1, <1>3, <1>5, EntryMeans
  <2> QED BY <2>1, <2>2 DEF TrueIsDone
<1> QED BY <1>2, <1>3, <1>5, <1>6, <1>8, <1>9, <1>10, NoneCore DEF Core

LEMMA CoreLoginThrows == ASSUME Base, OrderInv, Core, LoginThrows PROVE OrderInv' /\ Core'
<1>1. Entry = "LOGIN" /\ queue # <<>>
  BY AtEntry DEF LoginThrows, Heads
<1>2. /\ prevcode \notin {200, 220, 331, 332} /\ Throws /\ half' = FALSE /\ trouble \subseteq trouble'
      /\ UNCHANGED <<conf, dest>> /\ lost' = lost /\ up' = up /\ xfer' = xfer
      /\ ~(half /\ down # <<>>) => down' = down
      /\ half /\ down # <<>> => "split" \in trouble'
  BY DEF LoginThrows, server
<1>3. SUFFICES ASSUME Calm' PROVE OrderInv' /\ Core'
  BY NotCalm
<1>4. Calm /\ ~(half /\ down # <<>>)
  BY <1>2, <1>3 DEF Calm
<1>5. ~lost => Quiet
  BY <1>1, <1>2, <1>4 DEF Core, StepInv, Talking, HalfRead
<1>6. xfer' = NoXfer
  BY <1>2, <1>5 DEF Quiet, Silent, Base, LostInv
<1>7. ~lost' => up' = <<>> /\ down' = <<>> /\ (connected' => ~half')
  BY <1>2, <1>4, <1>5 DEF Quiet, Silent
<1> QED BY <1>1, <1>2, <1>4, <1>6, <1>7, FailsCore

\* StartConnect.
LEMMA CoreConnectBegins == ASSUME Base, ConnectBegins, ConnectInv' PROVE OrderInv' /\ Core'
<1>1. Entry = "CONNECT" /\ status = "WORKING"
  BY AtEntry DEF ConnectBegins, Heads
<1>2. call = "Connect" /\ queue = <<"CONNECT", "LOGIN">>
  BY <1>1 DEF Base, ConnectInv
<1>3. /\ opcode' = "DNS" /\ events' = Idle /\ up' = <<>> /\ down' = <<>> /\ xfer' = NoXfer
      /\ queue' = <<"CONNECT", "LOGIN">> /\ call' = "Connect" /\ status' = "WORKING" /\ Entry' = Entry
  BY <1>1, <1>2 DEF ConnectBegins, conf, Entry
<1>4. OrderInv'
  <2>1. Entries' = {"CONNECT", "LOGIN"}
    BY <1>3 DEF Entries
  <2>3. \A i \in 1 .. Len(queue') : i = 1 \/ i = 2
    BY <1>3
  <2>4. queue'[1] = "CONNECT" /\ queue'[2] = "LOGIN" /\ Len(queue') = 2
    BY <1>3
  <2>5. \A i \in 1 .. Len(queue') : /\ queue'[i] \in Entries'
                                   /\ Then(queue[i])' = IF i = Len(queue') THEN "none" ELSE queue'[i + 1]
    <3> TAKE i \in 1 .. Len(queue')
    <3>1. CASE i = 1
      <4>1. Then(queue[i])' = "LOGIN"
        BY <2>4, <3>1 DEF Then, Codes
      <4> QED BY <2>1, <2>4, <3>1, <4>1
    <3>2. CASE i = 2
      <4>1. Then(queue[i])' = "none"
        BY <2>4, <3>2 DEF Then, Codes
      <4> QED BY <2>1, <2>4, <3>2, <4>1
    <3> QED BY <2>3, <3>1, <3>2
  <2> QED BY <2>5 DEF OrderInv
<1>5. Silent'
  BY <1>3 DEF Silent
<1>6. "CONNECT" \notin Commands /\ "CONNECT" \notin Codes /\ "Connect" \notin DOMAIN Transfers
  BY DEF Commands, Codes, Transfers
<1>7. StepInv'
  BY <1>1, <1>3, <1>5, <1>6 DEF StepInv
<1>8. PeerInv'
  BY <1>1, <1>3, <1>6 DEF PeerInv
<1> QED BY <1>1, <1>3, <1>4, <1>6, <1>7, <1>8
        DEF Core, RestInv, ReadInv, WriteInv, EffectInv, TrueIsDone, Succeeds

LEMMA CoreConnectEnds == ASSUME Base, OrderInv, Core, ConnectEnds PROVE OrderInv' /\ Core'
<1>1. Entry = "CONNECT" /\ queue # <<>> /\ ~connected /\ ~lost
  BY AtEntry DEF ConnectEnds, Heads, Base, OpcodeInv
<1>2. /\ opcode = "DNS" /\ UNCHANGED conf /\ UNCHANGED server
      /\ UNCHANGED <<connected, reply, prevcode, half, data_error, peer, wire, up, lost, dest, trouble>>
  BY DEF ConnectEnds
<1>3. SUFFICES ASSUME Calm' PROVE OrderInv' /\ Core'
  BY NotCalm
<1>4. Calm
  BY <1>2, <1>3 DEF Calm
<1>5. Silent
  BY <1>1, <1>2, <1>4 DEF Core, StepInv
<1>6. xfer' = NoXfer /\ call' = call /\ effect' = effect /\ mode' = mode
  BY <1>2, <1>5 DEF Silent, server, conf
<1>7. CASE Throws /\ UNCHANGED down
  BY <1>1, <1>2, <1>4, <1>5, <1>6, <1>7, FailsCore DEF Silent
<1>8. CASE opcode' = "HELO" /\ down' = <<220>> /\ UNCHANGED <<status, queue, events, aborted, data>>
  <2>1. Entry' = "CONNECT" /\ status' = "WORKING" /\ call = "Connect" /\ events' = Idle
    BY <1>1, <1>4, <1>5, <1>8, EntryMeans, EntryIsHead DEF Entry, Base, Silent
  <2>2. OrderInv'
    BY <1>2, <1>4, <1>8, StaysInOrder
  <2>3. "CONNECT" \notin Commands /\ "CONNECT" \notin Codes /\ "Connect" \notin DOMAIN Transfers /\ Idle # Read
    BY DEF Commands, Codes, Transfers, Idle, Read
  <2>4. StepInv'
    BY <1>2, <1>5, <1>6, <1>8, <2>1, <2>3 DEF StepInv, Silent
  <2>5. PeerInv'
    BY <1>6, <2>1, <2>3 DEF PeerInv
  <2>6. EffectInv'
    BY <2>1 DEF EffectInv
  <2> QED BY <1>6, <2>1, <2>2, <2>3, <2>4, <2>5, <2>6
          DEF Core, RestInv, ReadInv, WriteInv, TrueIsDone, Succeeds
<1> QED BY <1>7, <1>8 DEF ConnectEnds

LEMMA CoreDataBegins == ASSUME Base, OrderInv, Core, DataBegins PROVE OrderInv' /\ Core'
<1>1. Entry = "DATA" /\ "DATA" \notin Commands /\ "DATA" \notin Codes
  BY AtEntry DEF DataBegins, Heads, Base, Commands, Codes
<1>2. /\ events' = Idle /\ UNCHANGED conf /\ UNCHANGED server
      /\ UNCHANGED <<queue, status, half, connected, prevcode, data_error, position, packet, peer, wire, up, down, lost, dest, trouble>>
  BY DEF DataBegins
<1>3. UNCHANGED <<mode, call, ascii, xfer, rest, stored, effect>>
  BY <1>2 DEF conf, server
<1>4. Entry' = Entry /\ Calm' = Calm
  BY <1>2 DEF Entry, Calm
<1>5. OrderInv'
  BY <1>2, <1>4, StaysInOrder DEF OrderInv
<1>6. StepInv'
  <2> SUFFICES ASSUME Calm, ~lost PROVE StepInv'
    BY <1>2, <1>4 DEF StepInv
  <2>1. Quiet
    BY <1>1 DEF Core, StepInv
  <2>2. Quiet'
    BY <1>2, <1>3, <2>1 DEF Quiet, Silent
  <2> QED BY <1>1, <1>4, <2>2 DEF StepInv
<1>7. PeerInv'
  BY <1>1, <1>2, <1>3, <1>4 DEF PeerInv, Core
<1>8. RestInv' /\ EffectInv' /\ TrueIsDone'
  BY <1>2, <1>3, <1>4, Kept DEF Core
<1>9. WriteInv'
  BY <1>1, <1>4 DEF WriteInv
<1>10. ReadInv'
  <2>1. \A i : Handed(i)' = Handed(i) /\ Beginning' = Beginning
    BY <1>2, <1>3, SameCame
  <2> QED BY <1>1, <1>2, <1>3, <1>4, <2>1 DEF ReadInv, Core
<1> QED BY <1>5, <1>6, <1>7, <1>8, <1>9, <1>10 DEF Core

LEMMA CoreDataConnects == ASSUME Base, OrderInv, Core, Base', DataConnects PROVE OrderInv' /\ Core'
<1>1. Entry = "DATA" /\ queue # <<>>
  BY AtEntry DEF DataConnects, Heads
<1>2. /\ UNCHANGED conf /\ UNCHANGED server
      /\ UNCHANGED <<half, connected, prevcode, data_error, position, done, up, down, lost, dest, trouble>>
  BY DEF DataConnects, offsets
<1>3. UNCHANGED <<mode, call, ascii, xfer, rest, stored, effect>>
  BY <1>2 DEF conf, server
<1>4. SUFFICES ASSUME Calm' PROVE OrderInv' /\ Core'
  BY NotCalm
<1>5. Calm
  BY <1>2, <1>4 DEF Calm
<1>6. ~lost => Quiet
  BY <1>1, <1>5 DEF Core, StepInv
<1>7. xfer' = NoXfer /\ down = <<>>
  BY <1>3, <1>6 DEF Quiet, Silent, Base, LostInv
<1>8. CASE Throws /\ UNCHANGED <<peer, wire>>
  BY <1>1, <1>2, <1>5, <1>6, <1>7, <1>8, FailsCore DEF Quiet, Silent
<1>9. CASE /\ data' = "open" /\ peer' = "open" /\ wire' = <<>>
           /\ opcode' = "NONE" /\ Left(Tail(queue)) /\ UNCHANGED <<events, aborted>>
  <2>1. OrderInv' /\ Entry' = Transfers[call] /\ Entry' \in Codes /\ status' = "WORKING"
    <3>1. OrderInv' /\ Entry' = Then(Entry) /\ status' = IF Then(Entry) = "none" THEN "FINISHED" ELSE "WORKING"
      BY <1>1, <1>2, <1>5, <1>9, PopsInOrder
    <3>2. Then(Entry) = Transfers[call] /\ Then(Entry) \in Codes /\ "none" \notin Codes
      BY <1>1, <1>5, ThenIs DEF Codes
    <3> QED BY <3>1, <3>2
  <2>2. /\ Entry' \notin {"none", "CONNECT", "LOGIN", "DATA", "LISTEN", "ACCEPT", "READ", "WRITE", "REPLY",
                         "TYPE", "SIZE", "EPSV", "EPRT", "REST", "DELE", "RNFR", "QUIT"}
        /\ Entry' \in Commands /\ Idle # Read
    BY <2>1 DEF Codes, Commands, Idle, Read
  <2>3. ~lost => Quiet'
    BY <1>2, <1>3, <1>6, <1>9 DEF Quiet, Silent
  <2>4. StepInv'
    BY <1>2, <2>2, <2>3 DEF StepInv
  <2>5. PeerInv'
    BY <1>7, <1>9, <2>2, <1>2 DEF PeerInv
  <2>6. down' = <<>> /\ Len(wire') = 0 /\ \A c : ~Ended(c)'
    BY <1>2, <1>7, <1>9 DEF Ended
  <2>7. RestInv'
    <3> SUFFICES ASSUME trouble' = {}, call' \in DOMAIN Transfers PROVE RestInv'
      BY DEF RestInv
    <3>1. /\ call \in {"Put", "Append", "ListDir"} => dest = <<>>
          /\ rest = Len(dest)
      BY <1>1, <1>2, <1>3 DEF RestInv, Core
    <3> QED BY <1>2, <1>3, <1>9, <2>2, <3>1 DEF RestInv
  <2>8. ReadInv'
    <3> SUFFICES ASSUME trouble' = {}, call' \in {"Get", "ListDir"} PROVE ReadInv'
      BY DEF ReadInv
    <3>1. Beginning'
      BY <1>2, <1>3, SameCame DEF ReadInv, Core
    <3>2. ~lost => events' = Idle
      BY <1>6, <1>9 DEF Quiet, Silent
    <3> QED BY <1>2, <1>7, <2>2, <2>6, <3>1, <3>2 DEF ReadInv
  <2>9. WriteInv'
    <3>1. ~lost => events' = Idle
      BY <1>6, <1>9 DEF Quiet, Silent
    <3> QED BY <1>2, <1>7, <2>2, <2>6, <3>1 DEF WriteInv
  <2>10. EffectInv' /\ TrueIsDone'
    BY <2>1, <2>2 DEF EffectInv, TrueIsDone, Succeeds
  <2> QED BY <2>1, <2>4, <2>5, <2>7, <2>8, <2>9, <2>10 DEF Core
<1> QED BY <1>8, <1>9 DEF DataConnects

LEMMA CoreListens == ASSUME Base, OrderInv, Core, Base', Listens PROVE OrderInv' /\ Core'
<1>1. Entry = "LISTEN" /\ queue # <<>>
  BY AtEntry DEF Listens, Heads
<1>2. /\ UNCHANGED conf /\ UNCHANGED server
      /\ UNCHANGED <<half, connected, prevcode, data_error, position, done, up, down, lost, dest, trouble>>
  BY DEF Listens, offsets
<1>3. UNCHANGED <<mode, call, ascii, xfer, rest, stored, effect>>
  BY <1>2 DEF conf, server
<1>4. SUFFICES ASSUME Calm' PROVE OrderInv' /\ Core'
  BY NotCalm
<1>5. Calm
  BY <1>2, <1>4 DEF Calm
<1>6. ~lost => Quiet
  BY <1>1, <1>5 DEF Core, StepInv
<1>7. xfer' = NoXfer /\ down = <<>>
  BY <1>3, <1>6 DEF Quiet, Silent, Base, LostInv
<1>8. CASE Throws /\ UNCHANGED <<peer, wire>>
  BY <1>1, <1>2, <1>5, <1>6, <1>7, <1>8, FailsCore DEF Quiet, Silent
<1>9. CASE /\ Left(Tail(queue)) /\ peer' = "closed" /\ wire' = <<>>
           /\ UNCHANGED <<opcode, events, aborted, data>>
  <2>1. OrderInv' /\ Entry' = Transfers[call] /\ Entry' \in Codes /\ status' = "WORKING"
    <3>1. OrderInv' /\ Entry' = Then(Entry) /\ status' = IF Then(Entry) = "none" THEN "FINISHED" ELSE "WORKING"
      BY <1>1, <1>2, <1>5, <1>9, PopsInOrder
    <3>2. Then(Entry) = Transfers[call] /\ Then(Entry) \in Codes /\ "none" \notin Codes
      BY <1>1, <1>5, ThenIs DEF Codes
    <3> QED BY <3>1, <3>2
  <2>2. /\ Entry' \notin {"none", "CONNECT", "LOGIN", "DATA", "LISTEN", "ACCEPT", "READ", "WRITE", "REPLY",
                         "TYPE", "SIZE", "EPSV", "EPRT", "REST", "DELE", "RNFR", "QUIT"}
        /\ Entry' \in Commands /\ Idle # Read
    BY <2>1 DEF Codes, Commands, Idle, Read
  <2>3. ~lost => Quiet'
    BY <1>2, <1>3, <1>6, <1>9 DEF Quiet, Silent
  <2>4. StepInv'
    BY <1>2, <2>2, <2>3 DEF StepInv
  <2>5. PeerInv'
    <3>1. mode' = "ACTIVE"
      BY <1>1, <1>3, <1>5, EntryMeans
    <3> QED BY <1>7, <1>9, <2>2, <1>2, <3>1 DEF PeerInv
  <2>6. down' = <<>> /\ Len(wire') = 0 /\ \A c : ~Ended(c)'
    BY <1>2, <1>7, <1>9 DEF Ended
  <2>7. RestInv'
    <3> SUFFICES ASSUME trouble' = {}, call' \in DOMAIN Transfers PROVE RestInv'
      BY DEF RestInv
    <3>1. /\ call \in {"Put", "Append", "ListDir"} => dest = <<>>
          /\ rest = Len(dest)
      BY <1>1, <1>2, <1>3 DEF RestInv, Core
    <3> QED BY <1>2, <1>3, <1>9, <2>2, <3>1 DEF RestInv
  <2>8. ReadInv'
    <3> SUFFICES ASSUME trouble' = {}, call' \in {"Get", "ListDir"} PROVE ReadInv'
      BY DEF ReadInv
    <3>1. Beginning'
      BY <1>2, <1>3, SameCame DEF ReadInv, Core
    <3>2. ~lost => events' = Idle
      BY <1>6, <1>9 DEF Quiet, Silent
    <3> QED BY <1>2, <1>7, <2>2, <2>6, <3>1, <3>2 DEF ReadInv
  <2>9. WriteInv'
    <3>1. ~lost => events' = Idle
      BY <1>6, <1>9 DEF Quiet, Silent
    <3> QED BY <1>2, <1>7, <2>2, <2>6, <3>1 DEF WriteInv
  <2>10. EffectInv' /\ TrueIsDone'
    BY <2>1, <2>2 DEF EffectInv, TrueIsDone, Succeeds
  <2> QED BY <2>1, <2>4, <2>5, <2>7, <2>8, <2>9, <2>10 DEF Core
<1> QED BY <1>8, <1>9 DEF Listens

\* The data connection.
LEMMA CoreAccepts == ASSUME Base, OrderInv, Core, Accepts PROVE OrderInv' /\ Core'
<1>1. Entry = "ACCEPT" /\ queue # <<>>
  BY AtEntry DEF Accepts, Heads
<1>2. /\ peer = "open" /\ data' = "open" /\ Left(Tail(queue))
      /\ UNCHANGED conf /\ UNCHANGED server /\ UNCHANGED flags /\ UNCHANGED offsets
      /\ UNCHANGED <<events, reply, prevcode, half, peer, wire, up, down, lost, dest, trouble>>
  BY DEF Accepts
<1>3. UNCHANGED <<mode, call, ascii, xfer, rest, stored, effect, data_error, connected, position, done, packet>>
  BY <1>2 DEF conf, server, flags, offsets
<1>4. SUFFICES ASSUME Calm' PROVE OrderInv' /\ Core'
  BY NotCalm
<1>5. Calm
  BY <1>2, <1>4 DEF Calm
<1>6. xfer # NoXfer /\ ~lost
  BY <1>1, <1>2, <1>5 DEF Core, PeerInv, Base, LostInv
<1>7. Owed /\ events = Idle /\ down = <<>>
  BY <1>1, <1>5, <1>6 DEF Core, StepInv, Owed
<1>8. OrderInv' /\ Entry' = Moves /\ Entry' \in {"READ", "WRITE"} /\ status' = "WORKING"
  BY <1>1, <1>2, <1>5, PopsInOrder, ThenIs
<1>9. Entry' \notin Commands /\ Entry' \notin Codes
  BY <1>8 DEF Commands, Codes
<1>10. StepInv'
  <2>1. Owed' /\ events' = Idle
    BY <1>2, <1>3, <1>7 DEF Owed, HalfRead
  <2> QED BY <1>8, <1>9, <2>1 DEF StepInv
<1>11. PeerInv'
  BY <1>2, <1>3, <1>6, <1>8, <1>9 DEF PeerInv, Core
<1>12. \A c : ~Ended(c)'
  BY <1>2, <1>7 DEF Ended
<1>13. Row(done)' = Row(done) /\ (Entry' = "READ" <=> call \in {"Get", "ListDir"})
  BY <1>2, <1>3, <1>8 DEF Row, Moves
<1>14. RestInv'
  BY <1>1, <1>2, <1>3, <1>8, <1>9 DEF RestInv, Core
<1>15. ReadInv'
  <2> SUFFICES ASSUME trouble' = {}, call' \in {"Get", "ListDir"} PROVE ReadInv'
    BY DEF ReadInv
  <2>1. /\ Beginning /\ packet = <<>>
        /\ \A i \in 1 .. Len(wire) : wire[i] = Got + i
        /\ xfer.cmd = Transfers[call] /\ xfer.at = Got + Len(wire)
    BY <1>1, <1>2, <1>3, <1>6 DEF ReadInv, Core
  <2>2. Beginning'
    BY <1>2, <1>3, <2>1, SameCame
  <2>3. Entry' = "READ"
    BY <1>3, <1>13
  <2>4. Got' = Got
    <3>1. Len(dest) \in Nat
      BY LenProperties DEF Base, TypeOK, DataOK
    <3> QED BY <1>1, <1>2, <1>3, <2>1, <2>3, <3>1 DEF Got
  <2> QED BY <1>2, <1>3, <1>12, <2>1, <2>2, <2>3, <2>4 DEF ReadInv, Codes
<1>16. WriteInv'
  BY <1>1, <1>2, <1>3, <1>8, <1>9, <1>12, <1>13 DEF WriteInv, Core
<1>17. EffectInv' /\ TrueIsDone'
  BY <1>8 DEF EffectInv, TrueIsDone, Succeeds
<1> QED BY <1>8, <1>10, <1>11, <1>14, <1>15, <1>16, <1>17 DEF Core

\* The bytes of s are the ones after the first k of the file.
Counts(s, k) == \A i \in 1 .. Len(s) : s[i] = k + i

\* Of s, which follows what has come, k bytes are handed on, and the others not.
Onto(d, s, k) == d \o [i \in 1 .. k |-> Handed(s[i])]
Behind(s, k)  == SubSeq(s, k + 1, Len(s))

LEMMA Getting ==
  ASSUME NEW s \in Seq(Nat), NEW d \in Seq(Nat), NEW k \in 0 .. Len(s),
         \A i \in 1 .. Len(d) : d[i] = Handed(i), ascii => Len(d) \in Lf \cup {0},
         Counts(s, Len(d)), HandsOn(s, k)
  PROVE  /\ \A i \in 1 .. Len(Onto(d, s, k)) : Onto(d, s, k)[i] = Handed(i)
         /\ ascii => Len(Onto(d, s, k)) \in Lf \cup {0}
         /\ Len(Onto(d, s, k)) \in Nat /\ Len(Behind(s, k)) \in Nat
         /\ Len(Onto(d, s, k)) + Len(Behind(s, k)) = Len(d) + Len(s)
         /\ Counts(Behind(s, k), Len(Onto(d, s, k)))
         /\ ascii =>
               \A i \in Len(Onto(d, s, k)) + 1 .. Len(Onto(d, s, k)) + Len(Behind(s, k)) : i \notin Lf
         /\ ~ascii => Len(Behind(s, k)) = 0
<1> DEFINE e == Onto(d, s, k) left == Behind(s, k)
<1>1. PICK a \in Nat, b \in Nat : a = Len(d) /\ b = Len(s)
  BY LenProperties
<1>2. /\ Len(e) = a + k /\ \A i \in 1 .. a : e[i] = d[i]
      /\ \A i \in 1 .. k : e[a + i] = Handed(s[i])
      /\ Len(left) = b - k /\ \A i \in 1 .. b - k : left[i] = s[k + i]
  BY <1>1, Parts DEF Onto, Behind
<1> HIDE DEF e, left
<1>3. /\ \A i \in 1 .. b : s[i] = a + i
      /\ k \in Nat /\ k <= b
  BY <1>1 DEF Counts
<1>4. \A i \in 1 .. Len(e) : e[i] = Handed(i)
  <2> SUFFICES ASSUME NEW i \in 1 .. a + k PROVE e[i] = Handed(i)
    BY <1>2
  <2>1. CASE i <= a
    <3>1. i \in 1 .. a
      BY <1>1, <2>1
    <3> QED BY <1>1, <1>2, <3>1
  <2>2. CASE ~(i <= a)
    <3> DEFINE j == i - a
    <3>1. j \in 1 .. k /\ j \in 1 .. b /\ a + j = i
      BY <1>1, <1>3, <2>2
    <3> HIDE DEF j
    <3>2. e[a + j] = Handed(s[j]) /\ s[j] = a + j
      BY <1>2, <1>3, <3>1
    <3> QED BY <3>1, <3>2
  <2> QED BY <2>1, <2>2
<1>5. ascii => Len(e) \in Lf \cup {0}
  <2> SUFFICES ASSUME ascii PROVE a + k \in Lf \cup {0}
    BY <1>2
  <2>1. CASE k > 0
    <3>1. s[k] \in Lf /\ k \in 1 .. b
      BY <1>3, <2>1 DEF HandsOn
    <3> QED BY <1>3, <3>1
  <2>2. CASE ~(k > 0)
    <3>1. a + k = a
      BY <1>1, <1>3, <2>2
    <3> QED BY <1>1, <3>1
  <2> QED BY <2>1, <2>2
<1>6. Len(e) \in Nat /\ Len(left) \in Nat /\ Len(e) + Len(left) = a + b
  <2>1. a + k \in Nat /\ b - k \in Nat /\ (a + k) + (b - k) = a + b
    BY <1>3
  <2> QED BY <1>2, <2>1
<1>7. Counts(left, Len(e))
  <2> SUFFICES ASSUME NEW i \in 1 .. b - k PROVE left[i] = a + k + i
    BY <1>2 DEF Counts
  <2>1. k + i \in 1 .. b /\ a + (k + i) = a + k + i
    BY <1>1, <1>3
  <2> QED BY <1>2, <1>3, <2>1
<1>8. ascii => \A i \in Len(e) + 1 .. Len(e) + Len(left) : i \notin Lf
  <2> SUFFICES ASSUME ascii, NEW i \in a + k + 1 .. a + b PROVE i \notin Lf
    BY <1>2, <1>6
  <2> DEFINE j == i - a
  <2>1. j \in k + 1 .. b /\ j \in 1 .. b /\ a + j = i
    BY <1>1, <1>3
  <2> HIDE DEF j
  <2>2. s[j] \notin Lf
    BY <1>1, <2>1 DEF HandsOn
  <2> QED BY <1>3, <2>1, <2>2
<1>9. ~ascii => Len(left) = 0
  BY <1>1, <1>2, <1>3 DEF HandsOn
<1> QED BY <1>1, <1>4, <1>5, <1>6, <1>7, <1>8, <1>9 DEF e, left

\* n bytes of what is on the way, after what there was of a line.
LEMMA Following ==
  ASSUME Base, NEW n \in 0 .. Size, n <= Len(wire), NEW a \in Nat,
         Counts(packet, a), Counts(wire, a + Len(packet))
  PROVE  /\ Counts(packet \o SubSeq(wire, 1, n), a)
         /\ Counts(SubSeq(wire, n + 1, Len(wire)), a + Len(packet) + n)
<1> DEFINE got == packet \o SubSeq(wire, 1, n) left == SubSeq(wire, n + 1, Len(wire))
<1>1. /\ n \in Nat /\ Len(wire) \in Nat /\ Len(packet) \in Nat
      /\ Len(left) = Len(wire) - n
      /\ \A i \in 1 .. Len(wire) - n : left[i] = wire[n + i]
      /\ Len(got) = Len(packet) + n
      /\ \A i \in 1 .. Len(packet) : got[i] = packet[i]
      /\ \A i \in 1 .. n : got[Len(packet) + i] = wire[i]
  BY Gets
<1> HIDE DEF got, left
<1>2. /\ \A i \in 1 .. Len(packet) : packet[i] = a + i
      /\ \A i \in 1 .. Len(wire) : wire[i] = a + Len(packet) + i
  BY DEF Counts
<1>3. Counts(got, a)
  <2> SUFFICES ASSUME NEW i \in 1 .. Len(packet) + n PROVE got[i] = a + i
    BY <1>1 DEF Counts
  <2>1. CASE i <= Len(packet)
    <3>1. i \in 1 .. Len(packet)
      BY <1>1, <2>1
    <3> QED BY <1>1, <1>2, <3>1
  <2>2. CASE ~(i <= Len(packet))
    <3> DEFINE j == i - Len(packet)
    <3>1. j \in 1 .. n /\ j \in 1 .. Len(wire) /\ Len(packet) + j = i /\ a + Len(packet) + j = a + i
      BY <1>1, <2>2
    <3> HIDE DEF j
    <3> QED BY <1>1, <1>2, <3>1
  <2> QED BY <2>1, <2>2
<1>4. Counts(left, a + Len(packet) + n)
  <2> SUFFICES ASSUME NEW i \in 1 .. Len(wire) - n PROVE left[i] = a + Len(packet) + n + i
    BY <1>1 DEF Counts
  <2>1. n + i \in 1 .. Len(wire) /\ a + Len(packet) + (n + i) = a + Len(packet) + n + i
    BY <1>1
  <2> QED BY <1>1, <1>2, <2>1
<1> QED BY <1>3, <1>4 DEF got, left

\* Every step of the data connection: only the data remains to be looked at.
LEMMA CoreIsDataEof ==
  ASSUME Base, OrderInv, Core, NEW n, NEW eof \in BOOLEAN, NEW bad,
         IsDataEof(n, eof, bad), DataUnchanged, At("READ") \/ At("WRITE"),
         dest' = dest \/ Entry = "READ", peer' = peer, Calm'
  PROVE  /\ OrderInv' /\ StepInv' /\ PeerInv' /\ RestInv' /\ EffectInv' /\ TrueIsDone'
         /\ Calm /\ data_error' = bad
         /\ Entry' = IF eof THEN "REPLY" ELSE Entry
         /\ UNCHANGED <<mode, call, ascii, xfer, rest, stored, effect, up, down, lost, trouble>>
<1>1. Entry \in {"READ", "WRITE"} /\ queue # <<>> /\ status = "WORKING"
  <2>1. "READ" \in Heads /\ "WRITE" \in Heads
    BY DEF Heads
  <2> QED BY <2>1, AtEntry
<1>2. /\ UNCHANGED conf /\ UNCHANGED server
      /\ UNCHANGED <<reply, prevcode, half, connected, up, down, lost, trouble>>
  BY DEF DataUnchanged
<1>3. UNCHANGED <<mode, call, ascii, xfer, rest, stored, effect>>
  BY <1>2 DEF conf, server
<1>4. Calm /\ ~aborted
  BY <1>2 DEF Calm, Base, AbortInv
<1>5. data_error' = bad
  BY <1>4 DEF IsDataEof
<1>6. /\ OrderInv' /\ Entry' = (IF eof THEN "REPLY" ELSE Entry) /\ status' = "WORKING"
      /\ events' \in {Idle, events} /\ (~eof => data' = data)
  <2>1. CASE eof
    <3>1. Left(Tail(queue)) /\ events' = Idle
      BY <1>4, <2>1 DEF IsDataEof
    <3> QED BY <1>1, <1>2, <1>4, <2>1, <3>1, PopsInOrder, ThenIs
  <2>2. CASE ~eof
    <3>1. UNCHANGED <<data, events, queue, status>>
      BY <1>4, <2>2 DEF IsDataEof
    <3> QED BY <1>1, <1>2, <1>4, <2>2, <3>1, StaysInOrder DEF Entry
  <2> QED BY <2>1, <2>2
<1>7. Entry' \in {"READ", "WRITE", "REPLY"} /\ Entry' \notin Commands /\ Entry' \notin Codes
  BY <1>1, <1>6 DEF Commands, Codes
<1>8. StepInv'
  <2> SUFFICES ASSUME ~lost PROVE StepInv'
    BY <1>2 DEF StepInv
  <2>1. Owed /\ events = Idle
    BY <1>1, <1>4 DEF Core, StepInv
  <2>2. Owed' /\ events' = Idle
    BY <1>2, <1>3, <1>6, <2>1 DEF Owed, HalfRead
  <2> QED BY <1>7, <2>2 DEF StepInv
<1>9. PeerInv'
  BY <1>1, <1>2, <1>3, <1>4, <1>6, <1>7 DEF PeerInv, Core
<1>10. RestInv'
  BY <1>1, <1>2, <1>3, <1>6, <1>7 DEF RestInv, Core
<1>11. EffectInv' /\ TrueIsDone'
  BY <1>6, <1>7 DEF EffectInv, TrueIsDone, Succeeds
<1> QED BY <1>2, <1>3, <1>4, <1>5, <1>6, <1>8, <1>9, <1>10, <1>11

LEMMA CoreReads == ASSUME Base, OrderInv, Core, NEW n \in 0 .. Size, Reads(n) PROVE OrderInv' /\ Core'
<1> DEFINE left == SubSeq(wire, n + 1, Len(wire)) eof == left = <<>> /\ peer = "closed"
           got == packet \o SubSeq(wire, 1, n)
<1>1. /\ At("READ") /\ n <= Len(wire) /\ wire' = left
      /\ IsDataEof(done + n, eof, FALSE) /\ peer' = peer /\ DataUnchanged
  BY DEF Reads
<1>2. Entry = "READ"
  BY <1>1, AtEntry DEF Heads
<1>3. SUFFICES ASSUME Calm' PROVE OrderInv' /\ Core'
  BY NotCalm
<1>4. eof \in BOOLEAN
  OBVIOUS
<1>5. /\ OrderInv' /\ StepInv' /\ PeerInv' /\ RestInv' /\ EffectInv' /\ TrueIsDone'
      /\ Calm /\ data_error' = FALSE /\ Entry' = (IF eof THEN "REPLY" ELSE "READ")
      /\ UNCHANGED <<mode, call, ascii, xfer, rest, stored, effect, up, down, lost, trouble>>
  <2> HIDE DEF eof
  <2> QED BY <1>1, <1>2, <1>3, <1>4, CoreIsDataEof
<1>6. call \in {"Get", "ListDir"} /\ call \notin {"Put", "Append"}
  BY <1>2, <1>5, EntryMeans
<1>7. WriteInv'
  BY <1>5, <1>6 DEF WriteInv
<1>8. ReadInv'
  <2> SUFFICES ASSUME trouble' = {} PROVE ReadInv'
    BY DEF ReadInv
  <2>1. PICK k \in 0 .. Len(got) : /\ HandsOn(got, k)
                                   /\ dest' = dest \o [i \in 1 .. k |-> Handed(got[i])]
                                   /\ packet' = SubSeq(got, k + 1, Len(got))
    BY DEF Reads
  <2>2. /\ \A i \in 1 .. Len(dest) : dest[i] = Handed(i)
        /\ ascii => Len(dest) \in Lf \cup {0}
        /\ Counts(packet, Len(dest)) /\ Counts(wire, Len(dest) + Len(packet))
        /\ xfer # NoXfer => xfer.cmd = Transfers[call] /\ xfer.at = Len(dest) + Len(packet) + Len(wire)
        /\ Ended(226) => Len(dest) + Len(packet) + Len(wire) = Size
    BY <1>2, <1>5, <1>6 DEF ReadInv, Core, Beginning, Counts, Got
  <2>3. dest \in Seq(Nat) /\ Len(dest) \in Nat
    BY LenProperties DEF Base, TypeOK, DataOK
  <2>4. /\ n \in Nat /\ Len(wire) \in Nat /\ Len(packet) \in Nat
        /\ left \in Seq(Nat) /\ Len(left) = Len(wire) - n
        /\ got \in Seq(Nat) /\ Len(got) = Len(packet) + n
    BY <1>1, Gets
  <2>5. Counts(got, Len(dest)) /\ Counts(left, Len(dest) + Len(packet) + n)
    BY <1>1, <2>2, <2>3, Following
  <2> HIDE DEF left, got
  <2>6. /\ \A i \in 1 .. Len(dest') : dest'[i] = Handed(i)
        /\ ascii => Len(dest') \in Lf \cup {0}
        /\ Len(dest') \in Nat /\ Len(packet') \in Nat
        /\ Len(dest') + Len(packet') = Len(dest) + Len(packet) + n
        /\ Counts(packet', Len(dest'))
        /\ ascii => \A i \in Len(dest') + 1 .. Len(dest') + Len(packet') : i \notin Lf
        /\ ~ascii => Len(packet') = 0
    <3>1. /\ \A i \in 1 .. Len(dest') : dest'[i] = Handed(i)
          /\ ascii => Len(dest') \in Lf \cup {0}
          /\ Len(dest') \in Nat /\ Len(packet') \in Nat /\ Len(dest') + Len(packet') = Len(dest) + Len(got)
          /\ Counts(packet', Len(dest'))
          /\ ascii => \A i \in Len(dest') + 1 .. Len(dest') + Len(packet') : i \notin Lf
          /\ ~ascii => Len(packet') = 0
      <4>1. /\ got \in Seq(Nat) /\ dest \in Seq(Nat) /\ k \in 0 .. Len(got)
            /\ \A i \in 1 .. Len(dest) : dest[i] = Handed(i)
            /\ ascii => Len(dest) \in Lf \cup {0}
            /\ Counts(got, Len(dest)) /\ HandsOn(got, k)
        BY <2>1, <2>2, <2>3, <2>4, <2>5
      <4>2. dest' = Onto(dest, got, k) /\ packet' = Behind(got, k)
        BY <2>1 DEF Onto, Behind
      <4> QED BY <4>1, <4>2, Getting
    <3> QED BY <2>3, <2>4, <3>1
  <2>7. Beginning'
    <3>1. \A i : Handed(i)' = Handed(i)
      BY <1>5 DEF Handed
    <3> QED BY <1>5, <2>6, <3>1 DEF Beginning
  <2>8. Len(dest') + Len(packet') + Len(wire') = Len(dest) + Len(packet) + Len(wire)
    <3>1. Len(wire') = Len(wire) - n
      BY <1>1, <2>4
    <3>2. (Len(dest) + Len(packet) + n) + (Len(wire) - n) = Len(dest) + Len(packet) + Len(wire)
      BY <2>3, <2>4
    <3> QED BY <2>6, <3>1, <3>2
  <2>9. Ended(226)' = Ended(226)
    BY <1>5 DEF Ended
  <2>10. "READ" \notin Codes /\ "REPLY" \notin Codes
    BY DEF Codes
  <2>11. CASE eof
    <3>1. xfer' = NoXfer
      BY <1>5, <2>11 DEF PeerInv, Core
    <3>2. Ended(226)' => Delivered'
      <4> SUFFICES ASSUME Ended(226)' PROVE Delivered'
        OBVIOUS
      <4>1. Len(wire') = 0
        BY <1>1, <2>11, EmptySeq
      <4>2. Len(dest') + Len(packet') = Size
        BY <2>2, <2>6, <2>8, <2>9, <4>1
      <4>3. Len(dest') <= Size /\ (~ascii => Len(dest') = Size)
        BY <2>6, <4>2
      <4>4. ascii => \A i \in Len(dest') + 1 .. Size : i \notin Lf
        BY <2>6, <4>2
      <4> QED BY <1>5, <2>7, <4>3, <4>4 DEF Delivered
    <3> QED BY <1>5, <2>7, <2>10, <2>11, <3>1, <3>2 DEF ReadInv
  <2>12. CASE ~eof
    <3>1. Entry' = "READ"
      BY <1>5, <2>12
    <3>2. \A i \in 1 .. Len(wire') : wire'[i] = Len(dest') + Len(packet') + i
      BY <1>1, <2>5, <2>6 DEF Counts
    <3>3. /\ xfer' # NoXfer => xfer'.cmd = Transfers[call'] /\ xfer'.at = Len(dest') + Len(packet') + Len(wire')
          /\ Ended(226)' => Len(dest') + Len(packet') + Len(wire') = Size
      BY <1>5, <2>2, <2>8, <2>9
    <3>4. \A i \in 1 .. Len(packet') : packet'[i] = Len(dest') + i
      BY <2>6 DEF Counts
    <3> QED BY <2>7, <2>10, <3>1, <3>2, <3>3, <3>4 DEF ReadInv, Got
  <2> QED BY <2>11, <2>12
<1> QED BY <1>5, <1>7, <1>8 DEF Core

\* all ends with the first m bytes of the file.
Closes(all, m) == m <= Len(all) /\ \A i \in 1 .. m : all[Len(all) - m + i] = i

LEMMA Associates ==
  ASSUME NEW s \in Seq(Nat), NEW w \in Seq(Nat), NEW u \in Seq(Nat)
  PROVE  (s \o w) \o u = s \o (w \o u)
BY SMTT(60)

\* n bytes are put on the way: the server and the way end with the first m + n bytes.
LEMMA Putting ==
  ASSUME NEW s \in Seq(Nat), NEW w \in Seq(Nat), NEW m \in Nat, NEW n \in Nat, Closes(s \o w, m)
  PROVE  /\ Closes(s \o (w \o [i \in 1 .. n |-> m + i]), m + n)
         /\ Len(s \o w) = m => Len(s \o (w \o [i \in 1 .. n |-> m + i])) = m + n
<1> DEFINE put  == [i \in 1 .. n |-> m + i]
           all  == s \o w
           more == s \o (w \o [i \in 1 .. n |-> m + i])
<1>1. /\ put \in Seq(Nat) /\ Len(put) = n /\ \A i \in 1 .. n : put[i] = m + i
  OBVIOUS
<1> HIDE DEF put, all, more
<1>2. all \in Seq(Nat) /\ more = all \o put
  <2>1. more = s \o (w \o put) /\ all = s \o w
    BY DEF put, all, more
  <2>2. (s \o w) \o put = s \o (w \o put)
    BY <1>1, Associates
  <2>3. s \o w \in Seq(Nat)
    BY ConcatProperties
  <2> QED BY <2>1, <2>2, <2>3
<1>3. PICK k \in Nat : k = Len(all)
  BY <1>2, LenProperties
<1>4. Len(more) = k + n /\ \A i \in 1 .. k + n : more[i] = IF i <= k THEN all[i] ELSE put[i - k]
  <2> DEFINE u == all \o put
  <2>1. /\ Len(u) = Len(all) + Len(put)
        /\ \A i \in 1 .. Len(all) + Len(put) : u[i] = IF i <= Len(all) THEN all[i] ELSE put[i - Len(all)]
    BY <1>1, <1>2, ConcatProperties
  <2>2. more = u
    BY <1>2
  <2> HIDE DEF u
  <2> QED BY <1>1, <1>3, <2>1, <2>2
<1>5. m <= k /\ \A i \in 1 .. m : all[k - m + i] = i
  BY <1>3 DEF Closes, all
<1>6. m + n <= k + n
  BY <1>5
<1>7. \A i \in 1 .. m + n : more[k + n - (m + n) + i] = i
  <2> TAKE i \in 1 .. m + n
  <2>1. k + n - (m + n) + i = k - m + i /\ k - m + i \in 1 .. k + n
    BY <1>5
  <2>2. CASE i <= m
    <3>1. i \in 1 .. m /\ k - m + i <= k
      BY <1>5, <2>2
    <3>2. more[k - m + i] = all[k - m + i]
      <4> DEFINE j == k - m + i
      <4>1. j \in 1 .. k + n /\ j <= k
        BY <2>1, <3>1
      <4> HIDE DEF j
      <4>2. more[j] = all[j]
        BY <1>4, <4>1
      <4> QED BY <4>2 DEF j
    <3> QED BY <1>5, <2>1, <3>1, <3>2
  <2>3. CASE ~(i <= m)
    <3>1. ~(k - m + i <= k) /\ k - m + i - k = i - m /\ i - m \in 1 .. n /\ m + (i - m) = i
      BY <1>5, <2>3
    <3>2. more[k - m + i] = put[i - m]
      BY <1>4, <2>1, <3>1
    <3> QED BY <1>1, <2>1, <3>1, <3>2
  <2> QED BY <2>2, <2>3
<1>8. Len(more) = k + n /\ m + n <= Len(more) /\ (Len(all) = m => Len(more) = m + n)
  BY <1>3, <1>4, <1>6
<1>10. Closes(more, m + n)
  <2>1. Len(more) - (m + n) = k + n - (m + n)
    BY <1>8
  <2> QED BY <1>7, <1>8, <2>1 DEF Closes
<1> QED BY <1>8, <1>10 DEF all, more

LEMMA CoreWrites == ASSUME Base, OrderInv, Core, NEW n \in 0 .. Size, Writes(n) PROVE OrderInv' /\ Core'
<1> DEFINE eof == done + n = Size
<1>1. /\ At("WRITE") /\ wire' = wire \o [i \in 1 .. n |-> done + i] /\ done' = done + n
      /\ IsDataEof(done + n, eof, FALSE) /\ peer' = peer /\ dest' = dest /\ DataUnchanged
  BY DEF Writes
<1>2. Entry = "WRITE"
  BY <1>1, AtEntry DEF Heads
<1>3. SUFFICES ASSUME Calm' PROVE OrderInv' /\ Core'
  BY NotCalm
<1>4. eof \in BOOLEAN
  OBVIOUS
<1>5. /\ OrderInv' /\ StepInv' /\ PeerInv' /\ RestInv' /\ EffectInv' /\ TrueIsDone'
      /\ Calm /\ data_error' = FALSE /\ Entry' = (IF eof THEN "REPLY" ELSE "WRITE")
      /\ UNCHANGED <<mode, call, xfer, rest, stored, effect, up, down, lost, trouble>>
  <2> HIDE DEF eof
  <2> QED BY <1>1, <1>2, <1>3, <1>4, CoreIsDataEof
<1>6. call \in {"Put", "Append"} /\ call \notin {"Get", "ListDir"}
  BY <1>2, <1>5, EntryMeans
<1>7. ReadInv'
  BY <1>5, <1>6 DEF ReadInv
<1>8. WriteInv'
  <2> SUFFICES ASSUME trouble' = {} PROVE WriteInv'
    BY DEF WriteInv
  <2>1. (xfer # NoXfer => xfer.cmd = Transfers[call] /\ Row(done)) /\ ~Ended(226)
    BY <1>2, <1>5, <1>6 DEF WriteInv, Core
  <2>2. ~Ended(226)'
    BY <1>5, <2>1 DEF Ended
  <2>3. "WRITE" \notin Codes /\ "REPLY" \notin Codes
    BY DEF Codes
  <2>4. xfer' # NoXfer => xfer'.cmd = Transfers[call'] /\ Row(done)'
    <3> SUFFICES ASSUME xfer' # NoXfer PROVE xfer'.cmd = Transfers[call'] /\ Row(done)'
      OBVIOUS
    <3>1. wire \in Seq(Nat) /\ stored \in Seq(Nat) /\ done \in Nat /\ n \in Nat
      BY FtpAssumption DEF Base, TypeOK, DataOK
    <3>2. Closes(stored \o wire, done) /\ (call = "Put" => Len(stored \o wire) = done)
      BY <1>5, <2>1 DEF Row, Closes
    <3>3. /\ Closes(stored \o (wire \o [i \in 1 .. n |-> done + i]), done + n)
          /\ Len(stored \o wire) = done
                => Len(stored \o (wire \o [i \in 1 .. n |-> done + i])) = done + n
      BY <3>1, <3>2, Putting
    <3>4. /\ Closes(stored' \o wire', done')
          /\ call' = "Put" => Len(stored' \o wire') = done'
      BY <1>1, <1>5, <3>2, <3>3
    <3>6. Row(done)'
      BY <3>4 DEF Row, Closes
    <3> QED BY <1>5, <2>1, <3>6
  <2>5. CASE eof
    <3>1. done' = Size
      BY <1>1, <2>5
    <3>2. xfer' # NoXfer => Row(Size)'
      BY <2>4, <3>1 DEF Row
    <3> QED BY <1>5, <2>2, <2>3, <2>4, <2>5, <3>2 DEF WriteInv
  <2>6. CASE ~eof
    <3>1. Entry' = "WRITE"
      BY <1>5, <2>6
    <3> QED BY <2>2, <2>3, <2>4, <3>1 DEF WriteInv
  <2> QED BY <2>5, <2>6
<1> QED BY <1>5, <1>7, <1>8 DEF Core

LEMMA CoreDataFails == ASSUME Base, OrderInv, Core, DataFails PROVE OrderInv' /\ Core'
<1>1. /\ At("READ") \/ At("WRITE")
      /\ IsDataEof(done, TRUE, TRUE) /\ peer' = peer /\ dest' = dest /\ DataUnchanged
  BY DEF DataFails
<1>2. SUFFICES ASSUME Calm' PROVE OrderInv' /\ Core'
  BY NotCalm
<1>3. /\ OrderInv' /\ StepInv' /\ PeerInv' /\ RestInv' /\ EffectInv' /\ TrueIsDone'
      /\ data_error' = TRUE /\ Entry' = "REPLY"
      /\ UNCHANGED <<call, ascii, trouble>>
  BY <1>1, <1>2, CoreIsDataEof
<1>4. "REPLY" \notin Codes
  BY DEF Codes
<1>5. ReadInv'
  BY <1>1, <1>3, <1>4, SameCame DEF ReadInv, Core
<1>6. WriteInv'
  BY <1>3, <1>4 DEF WriteInv
<1> QED BY <1>3, <1>5, <1>6 DEF Core

LEMMA CoreAbortPuts == ASSUME Base, OrderInv, AbortPuts PROVE OrderInv' /\ Core'
<1>1. Entry \in {"IP", "OOB", "ABOR"} /\ trouble' = trouble
  BY EntryIsHead DEF Base, AbortPuts, Heads
<1>2. ~Calm
  BY <1>1, EntryMeans DEF Commands
<1> QED BY <1>1, <1>2, NotCalm DEF Calm

\* Which replies an entry accepts.
LEMMA Classes ==
  ASSUME Base, InPutGet
  PROVE  /\ Entry = "LOGIN" => Accepted \subseteq {2, 3}
         /\ Entry \in {"CONNECT", "REPLY"} => Accepted = {2}
         /\ opcode \in Codes => Accepted = {1}
         /\ opcode \in {"REST", "RNFR"} => Accepted = {3}
         /\ opcode \in {"DELE", "RNTO", "QUIT"} => Accepted = {2}
<1>1. /\ At("LOGIN") <=> Entry = "LOGIN"
      /\ At("ABORREPLY") <=> Entry = "ABORREPLY"
  BY EntryIsHead DEF Heads, Base
<1>2. opcode \in {"RETR", "STOR", "APPE", "LIST", "REST", "RNFR", "SIZE", "EPSV", "EPRT", "DELE", "RNTO", "QUIT"}
         => Entry \notin {"LOGIN", "ABORREPLY", "CONNECT", "REPLY"}
  BY OpcodeOfEntry DEF Commands
<1>3. CASE Entry = "LOGIN"
  BY <1>1, <1>2, <1>3 DEF Accepted, Codes
<1>4. CASE Entry # "LOGIN"
  BY <1>1, <1>2, <1>4 DEF Accepted, Codes
<1> QED BY <1>3, <1>4

\* PutGet has a reply that is in step: the entry accepts it or throws.
LEMMA Ending ==
  ASSUME Base, OrderInv, Calm, PutGetEnds, half => reply = Head(down), Head(down) # Garbage
  PROVE  /\ InPutGet /\ queue # <<>> /\ Entry # "none" /\ events = Read /\ ~lost
         /\ down # <<>> /\ down' = Tail(down) /\ half' = FALSE
         /\ prevcode' = IF half THEN prevcode ELSE Head(down)
         /\ UNCHANGED <<conf, call, mode, ascii, data_error, position, done, packet, peer, wire, up, lost, xfer,
                        rest, stored, effect, dest, trouble>>
         /\ \/ /\ Head(down) \div 100 \in Accepted
               /\ events' = Idle /\ Left(After(Head(down)).queue) /\ opcode' = After(Head(down)).opcode
               /\ connected' = IF opcode = "HELO" THEN TRUE ELSE IF opcode = "QUIT" THEN FALSE ELSE connected
               /\ opcode # "QUIT" => data' = data
            \/ Head(down) \div 100 \notin Accepted /\ Throws /\ UNCHANGED connected
<1>1. InPutGet /\ queue # <<>> /\ events = Read /\ down # <<>> /\ down' = Tail(down) /\ half' = FALSE
  BY DEF PutGetEnds, InPutGet
<1>2. Entry # "none" /\ ~lost
  BY <1>1, EntryIsHead DEF Base, LostInv
<1>3. ~At("LASTREPLY")
  <2>1. "LASTREPLY" \notin {"CONNECT", "LOGIN", "DATA", "LISTEN", "ACCEPT", "READ", "WRITE", "REPLY"} \cup Commands
    BY DEF Commands
  <2>2. Entry # "LASTREPLY"
    BY <1>2, <2>1, EntryMeans
  <2> QED BY <2>2, AtEntry DEF Heads
<1>4. (IF half THEN reply ELSE Head(down)) = Head(down) /\ Head(down) # Garbage
  OBVIOUS
<1>5. /\ UNCHANGED <<conf, data_error, position, done, packet, peer, wire, up, lost, dest, trouble>>
      /\ UNCHANGED server
  BY DEF PutGetEnds, offsets
<1>6. prevcode' = IF half THEN prevcode ELSE Head(down)
  BY <1>4 DEF PutGetEnds
<1>7. \/ /\ Head(down) \div 100 \in Accepted
         /\ events' = Idle /\ Left(After(Head(down)).queue) /\ opcode' = After(Head(down)).opcode
         /\ connected' = IF opcode = "HELO" THEN TRUE ELSE IF opcode = "QUIT" THEN FALSE ELSE connected
         /\ opcode # "QUIT" => data' = data
      \/ Head(down) \div 100 \notin Accepted /\ Throws /\ UNCHANGED connected
  <2> HIDE DEF Left, After, Accepted, Throws
  <2> QED BY <1>3, <1>4 DEF PutGetEnds
<1>8. UNCHANGED <<call, mode, ascii, xfer, rest, stored, effect>>
  BY <1>5 DEF conf, server
<1> QED BY <1>1, <1>2, <1>5, <1>6, <1>7, <1>8

\* A reply to a command of a transfer, or to no command: nothing is under way.
LEMMA QuietCore ==
  ASSUME Quiet', Entry' \in {"LOGIN", "DATA", "LISTEN"} \cup Commands, xfer' = NoXfer, down' = <<>>
  PROVE  /\ StepInv' /\ (Entry' \notin Codes => PeerInv')
<1>1. /\ Entry' \notin {"none", "CONNECT", "ACCEPT", "READ", "WRITE", "REPLY"}
      /\ "LOGIN" \notin Commands /\ "DATA" \notin Commands /\ "LISTEN" \notin Commands
  BY DEF Commands
<1> QED BY <1>1 DEF StepInv, PeerInv

LEMMA LoginReply ==
  ASSUME Base, OrderInv, Core, Calm, PutGetEnds, Entry = "LOGIN"
  PROVE  OrderInv' /\ Core'
<1>1. InPutGet /\ events = Read /\ down # <<>> /\ ~lost /\ Read # Idle
  BY DEF PutGetEnds, Base, LostInv, Read, Idle
<1>2. PICK c \in {"USER", "PASS", "ACCT"} : Talking(c) /\ (half => prevcode = reply)
  BY <1>1 DEF Core, StepInv, Quiet, Silent
<1>3. PICK code \in {331, 230, 332, 530} : down = <<code>>
  BY <1>1, <1>2 DEF Talking, Asked, Answered, Answers
<1>4. HalfRead /\ up = <<>> /\ xfer = NoXfer /\ Head(down) = code /\ Tail(down) = <<>> /\ code # Garbage
  BY <1>1, <1>2, <1>3 DEF Talking, Asked, Answered, Garbage
<1>5. /\ InPutGet /\ queue # <<>> /\ down' = <<>> /\ half' = FALSE /\ prevcode' = code
      /\ UNCHANGED <<conf, call, data_error, wire, up, lost, xfer, stored, effect, dest, trouble>>
      /\ \/ events' = Idle /\ Left(After(code).queue)
         \/ Throws
  <2>1. half => reply = Head(down)
    BY <1>4 DEF HalfRead
  <2>2. Head(down) # Garbage
    BY <1>4
  <2>3. /\ InPutGet /\ queue # <<>> /\ down' = Tail(down) /\ half' = FALSE
        /\ prevcode' = IF half THEN prevcode ELSE Head(down)
        /\ UNCHANGED <<conf, call, data_error, wire, up, lost, xfer, stored, effect, dest, trouble>>
        /\ \/ events' = Idle /\ Left(After(Head(down)).queue)
           \/ Throws
    BY <2>1, <2>2, Ending
  <2>4. prevcode' = code
    BY <1>2, <1>4, <2>1, <2>3
  <2> QED BY <1>4, <2>3, <2>4
<1>6. CASE Throws
  BY <1>4, <1>5, <1>6, FailsCore
<1>7. CASE events' = Idle /\ Left(After(code).queue)
  <2>1. queue' = queue /\ status' = status /\ status = "WORKING"
    BY <1>5, <1>7, Afters DEF Left, InPutGet
  <2>2. Entry' = "LOGIN" /\ OrderInv' /\ call' \in {"Connect", "Login"}
    BY <1>5, <2>1, EntryMeans, StaysInOrder DEF Entry
  <2>3. Quiet'
    BY <1>4, <1>5, <1>7 DEF Quiet, Silent
  <2>4. StepInv' /\ PeerInv'
    BY <1>4, <1>5, <2>2, <2>3, QuietCore DEF Codes
  <2>5. RestInv' /\ ReadInv' /\ WriteInv' /\ TrueIsDone'
    BY <2>1, <2>2 DEF RestInv, ReadInv, WriteInv, TrueIsDone, Succeeds, Transfers
  <2>6. EffectInv'
    <3>1. trouble = {} /\ code = 230 => effect
      <4>1. down[1] = code /\ Len(down) = 1
        BY <1>3
      <4> QED BY <4>1 DEF EffectInv, Core
    <3>2. code \in LoggedIn => code = 230
      BY DEF LoggedIn
    <3> QED BY <1>5, <3>1, <3>2 DEF EffectInv
  <2> QED BY <2>2, <2>4, <2>5, <2>6 DEF Core
<1> QED BY <1>5, <1>6, <1>7

LEMMA ConnectReply ==
  ASSUME Base, OrderInv, Core, Calm, PutGetEnds, Entry = "CONNECT"
  PROVE  OrderInv' /\ Core'
<1>1. InPutGet /\ events = Read /\ down # <<>> /\ ~lost
  BY DEF PutGetEnds, Base, LostInv
<1>2. opcode = "HELO"
  BY <1>1, PutsIs
<1>3. /\ up = <<>> /\ down = <<220>> /\ xfer = NoXfer /\ (half => reply = 220 /\ prevcode = 220)
  BY <1>1, <1>2 DEF Core, StepInv
<1>4. Head(down) = 220 /\ Tail(down) = <<>> /\ 220 # Garbage /\ (half => reply = Head(down))
  BY <1>3 DEF Garbage
<1>5. Accepted = {2} /\ 220 \div 100 = 2
  BY <1>1, Classes
<1>6. /\ queue # <<>> /\ down' = <<>> /\ half' = FALSE /\ prevcode' = 220
      /\ UNCHANGED <<conf, call, up, lost, xfer, dest, trouble>>
      /\ events' = Idle /\ Left(After(220).queue)
  <2>1. (half => reply = Head(down)) /\ Head(down) # Garbage
    BY <1>4
  <2>2. /\ queue # <<>> /\ down' = Tail(down) /\ half' = FALSE
        /\ prevcode' = IF half THEN prevcode ELSE Head(down)
        /\ UNCHANGED <<conf, call, up, lost, xfer, dest, trouble>>
        /\ Head(down) \div 100 \in Accepted => events' = Idle /\ Left(After(Head(down)).queue)
    BY <2>1, Ending
  <2>3. Head(down) \div 100 \in Accepted
    BY <1>4, <1>5
  <2>4. prevcode' = 220
    BY <1>3, <1>4, <2>2
  <2> QED BY <1>4, <2>2, <2>3, <2>4
<1>7. After(220).queue = Tail(queue)
  BY <1>2, Afters
<1>8. OrderInv' /\ Entry' = "LOGIN" /\ status' = "WORKING" /\ call' = "Connect"
  BY <1>6, <1>7, PopsInOrder, ThenIs, EntryMeans
<1>9. StepInv' /\ PeerInv'
  BY <1>3, <1>6, <1>8, QuietCore DEF Quiet, Silent, Codes
<1>10. RestInv' /\ ReadInv' /\ WriteInv' /\ TrueIsDone'
  BY <1>8 DEF RestInv, ReadInv, WriteInv, TrueIsDone, Succeeds, Transfers
<1>11. EffectInv'
  BY <1>6 DEF EffectInv, LoggedIn
<1> QED BY <1>8, <1>9, <1>10, <1>11 DEF Core

\* A file that is all there.
LEMMA WholeFile ==
  ASSUME NEW s \in Seq(Nat), Counts(s, 0), Len(s) = Size
  PROVE  s = Whole
<1>1. Size \in Nat
  BY FtpAssumption
<1>2. Whole \in Seq(Nat) /\ Len(Whole) = Size /\ \A i \in 1 .. Size : Whole[i] = i
  BY <1>1 DEF Whole
<1>3. \A i \in 1 .. Len(s) : s[i] = Whole[i]
  BY <1>1, <1>2 DEF Counts
<1> QED BY <1>2, <1>3, SeqEqual

LEMMA WholeEnd ==
  ASSUME NEW s \in Seq(Nat), Closes(s, Size)
  PROVE  /\ Len(s) >= Size /\ SubSeq(s, Len(s) - Size + 1, Len(s)) = Whole
         /\ Len(s) = Size => s = Whole
<1>1. PICK z \in Nat \ {0} : z = Size
  BY FtpAssumption
<1>2. PICK n \in Nat : n = Len(s)
  BY LenProperties
<1>3. z <= n /\ \A i \in 1 .. z : s[n - z + i] = i
  BY <1>1, <1>2 DEF Closes
<1>4. \A i \in 1 .. n : s[i] \in Nat
  BY <1>2, ElementOfSeq
<1> DEFINE e == SubSeq(s, n - z + 1, n)
<1>5. /\ e \in Seq(Nat) /\ Len(e) = z /\ \A i \in 1 .. z : e[i] = i
  <2>1. n - z + 1 \in Nat /\ n - z + 1 <= n /\ n - (n - z + 1) + 1 = z
    BY <1>3
  <2>2. PICK m \in Nat : m = n - z + 1
    BY <2>1
  <2>3. \A i \in m .. n : s[i] \in Nat
    <3>1. \A i \in m .. n : i \in 1 .. n
      BY <1>3, <2>2
    <3> QED BY <1>4, <3>1
  <2>4. /\ e \in Seq(Nat) /\ Len(e) = (IF m <= n THEN n - m + 1 ELSE 0)
        /\ \A i \in 1 .. n - m + 1 : e[i] = s[m + i - 1]
    <3> DEFINE f == SubSeq(s, m, n)
    <3>1. /\ f \in Seq(Nat) /\ Len(f) = (IF m <= n THEN n - m + 1 ELSE 0)
          /\ \A i \in 1 .. n - m + 1 : f[i] = s[m + i - 1]
      BY <2>3, SubSeqProperties
    <3>2. e = f
      BY <2>2
    <3> HIDE DEF e, f
    <3> QED BY <3>1, <3>2
  <2> HIDE DEF e
  <2>5. m <= n /\ n - m + 1 = z
    BY <2>1, <2>2
  <2>6. \A i \in 1 .. z : m + i - 1 = n - z + i
    BY <2>2
  <2>7. e \in Seq(Nat) /\ Len(e) = z /\ \A i \in 1 .. z : e[i] = s[m + i - 1]
    BY <2>4, <2>5
  <2>8. \A i \in 1 .. z : e[i] = s[n - z + i]
    BY <2>6, <2>7
  <2> QED BY <1>3, <2>7, <2>8
<1> HIDE DEF e
<1>6. e = Whole
  BY <1>1, <1>5, WholeFile DEF Counts
<1>7. n = z => \A i \in 1 .. z : s[i] = i
  <2> HAVE n = z
  <2>1. \A i \in 1 .. z : n - z + i = i
    OBVIOUS
  <2> QED BY <1>3, <2>1
<1>8. n = z => s = Whole
  <2> HAVE n = z
  <2>1. Counts(s, 0) /\ Len(s) = Size
    BY <1>1, <1>2, <1>7 DEF Counts
  <2> QED BY <2>1, WholeFile
<1>9. SubSeq(s, Len(s) - Size + 1, Len(s)) = Whole
  BY <1>1, <1>2, <1>6 DEF e
<1> QED BY <1>1, <1>2, <1>3, <1>8, <1>9

\* The reply at the end of a transfer.
LEMMA TransferReply ==
  ASSUME Base, OrderInv, Core, Calm, PutGetEnds, Entry = "REPLY"
  PROVE  OrderInv' /\ Core'
<1>1. InPutGet /\ down # <<>> /\ ~lost
  BY DEF PutGetEnds, Base, LostInv
<1>2. HalfRead /\ up = <<>> /\ xfer = NoXfer /\ down \in {<<226>>, <<426>>}
  BY <1>1 DEF Core, StepInv, Owed
<1>3. PICK code \in {226, 426} : down = <<code>>
  BY <1>2
<1>4. Head(down) = code /\ Tail(down) = <<>> /\ Head(down) # Garbage /\ (half => reply = Head(down))
  BY <1>2, <1>3 DEF Garbage, HalfRead
<1>5. Accepted = {2} /\ 226 \div 100 = 2 /\ 426 \div 100 = 4
  BY <1>1, Classes
<1>6. opcode = "NONE" /\ "REPLY" \notin Commands
  BY DEF Base, OpcodeInv, Commands
<1>7. /\ queue # <<>> /\ down' = <<>> /\ half' = FALSE
      /\ UNCHANGED <<conf, call, ascii, data_error, wire, up, lost, xfer, stored, effect, dest, trouble>>
      /\ \/ code = 226 /\ events' = Idle /\ Left(After(code).queue)
         \/ Throws
  <2>1. /\ queue # <<>> /\ down' = Tail(down) /\ half' = FALSE
        /\ UNCHANGED <<conf, call, ascii, data_error, wire, up, lost, xfer, stored, effect, dest, trouble>>
        /\ \/ /\ Head(down) \div 100 \in Accepted
              /\ events' = Idle /\ Left(After(Head(down)).queue)
           \/ Throws
    BY <1>4, Ending
  <2>2. CASE code = 226
    BY <1>4, <2>1, <2>2
  <2>3. CASE code = 426
    <3>1. Head(down) \div 100 \notin Accepted
      BY <1>4, <1>5, <2>3
    <3> QED BY <1>4, <2>1, <3>1
  <2> QED BY <2>2, <2>3
<1>8. CASE Throws
  BY <1>2, <1>7, <1>8, FailsCore
<1>9. CASE code = 226 /\ events' = Idle /\ Left(After(code).queue)
  <2>1. After(code).queue = Tail(queue)
    BY <1>6, Afters
  <2>2. OrderInv' /\ Entry' = "none" /\ status' = "FINISHED"
    <3>1. Then(Entry) = "none"
      BY ThenIs
    <3>2. Left(Tail(queue)) /\ UNCHANGED conf /\ dest' = dest /\ queue # <<>>
      BY <1>7, <1>9, <2>1
    <3> QED BY <3>1, <3>2, PopsInOrder
  <2>3. call \in {"Get", "ListDir", "Put", "Append"}
    BY EntryMeans
  <2>4. Ended(226)
    BY <1>3, <1>9 DEF Ended
  <2>5. stored \in Seq(Nat) /\ dest \in Seq(Nat)
    BY DEF Base, TypeOK, DataOK
  <2>6. trouble = {} /\ ~data_error /\ call \in {"Get", "ListDir"} => Delivered'
    <3>1. trouble = {} /\ ~data_error /\ call \in {"Get", "ListDir"} => Delivered
      BY <2>4 DEF Core, ReadInv
    <3> QED BY <1>7, <3>1, SameCame
  <2>7. trouble = {} /\ ~data_error /\ call \in {"Put", "Append"} =>
            /\ Len(stored) >= Size /\ SubSeq(stored, Len(stored) - Size + 1, Len(stored)) = Whole
            /\ call = "Put" => stored = Whole
    <3> SUFFICES ASSUME trouble = {}, ~data_error, call \in {"Put", "Append"}
                 PROVE  /\ Len(stored) >= Size /\ SubSeq(stored, Len(stored) - Size + 1, Len(stored)) = Whole
                        /\ call = "Put" => stored = Whole
      OBVIOUS
    <3>1. wire = <<>> /\ Row(Size)
      BY <2>4 DEF Core, WriteInv
    <3>2. stored \o wire = stored
      BY <2>5, <3>1
    <3>3. Closes(stored, Size) /\ (call = "Put" => Len(stored) = Size)
      BY <3>1, <3>2 DEF Row, Closes
    <3> QED BY <2>5, <3>3, WholeEnd
  <2>8. TrueIsDone'
    BY <1>7, <2>3, <2>6, <2>7 DEF TrueIsDone, Succeeds
  <2>9. Silent' /\ ~half' /\ ReadInv
    BY <1>2, <1>7, <1>9 DEF Silent, Core
  <2> QED BY <1>2, <1>7, <2>2, <2>8, <2>9, NoneCore
<1> QED BY <1>7, <1>8, <1>9

\* A transfer begins.
LEMMA OpenedReply ==
  ASSUME Base, OrderInv, Core, Calm, PutGetEnds, Entry \in Commands, opcode \in Codes, Opened
  PROVE  OrderInv' /\ Core'
<1>1. InPutGet /\ down # <<>> /\ ~lost
  BY DEF PutGetEnds, Base, LostInv
<1>2. Entry \in Codes /\ Entry = opcode
  BY OpcodeOfEntry DEF Codes, Commands
<1>3. /\ HalfRead /\ up = <<>>
      /\ \/ down = <<150>> /\ xfer # NoXfer
         \/ down = <<150, 226>> /\ xfer = NoXfer
         \/ down = <<150, 426>> /\ xfer = NoXfer
  BY DEF Opened
<1>4. Head(down) = 150 /\ Tail(down) \in {<<>>, <<226>>, <<426>>} /\ (half => reply = Head(down))
      /\ (xfer # NoXfer <=> Tail(down) = <<>>)
  <2>1. /\ Head(<<150>>) = 150 /\ Tail(<<150>>) = <<>>
        /\ Head(<<150, 226>>) = 150 /\ Tail(<<150, 226>>) = <<226>>
        /\ Head(<<150, 426>>) = 150 /\ Tail(<<150, 426>>) = <<426>>
        /\ <<226>> # <<>> /\ <<426>> # <<>>
    OBVIOUS
  <2>2. CASE down = <<150>> /\ xfer # NoXfer
    BY <1>3, <2>1, <2>2 DEF HalfRead
  <2>3. CASE down = <<150, 226>> /\ xfer = NoXfer
    BY <1>3, <2>1, <2>3 DEF HalfRead
  <2>4. CASE down = <<150, 426>> /\ xfer = NoXfer
    BY <1>3, <2>1, <2>4 DEF HalfRead
  <2> QED BY <1>3, <2>2, <2>3, <2>4
<1>5. Accepted = {1} /\ 150 \div 100 = 1 /\ 150 # Garbage
  BY <1>1, <1>2, Classes DEF Garbage
<1>6. /\ queue # <<>> /\ down' = Tail(down) /\ half' = FALSE /\ events' = Idle /\ Left(After(150).queue)
      /\ UNCHANGED <<conf, call, mode, ascii, data_error, done, packet, peer, wire, up, lost, xfer,
                     stored, effect, dest, trouble>>
      /\ (opcode # "QUIT" => data' = data)
  BY <1>4, <1>5, Ending
<1>7. After(150).queue = Tail(queue) /\ data' = data
  <2>1. Entry \notin {"LOGIN", "ABORREPLY"} /\ opcode \notin {"RNFR", "EPSV", "EPRT", "QUIT"}
    BY <1>2 DEF Codes
  <2> QED BY <1>6, <2>1, Afters
<1>8. /\ OrderInv' /\ Entry' = (IF mode = "PASSIVE" THEN Moves ELSE "ACCEPT")
      /\ Entry' \in {"ACCEPT", "READ", "WRITE"} /\ status' = "WORKING"
      /\ (Entry' = "WRITE" => mode = "PASSIVE")
  BY <1>2, <1>6, <1>7, PopsInOrder, ThenIs
<1>9. Entry' \notin Codes /\ Entry' \notin Commands /\ Entry \notin {"none", "READ", "REPLY"}
  BY <1>2, <1>8 DEF Codes, Commands
<1>10. StepInv'
  <2>1. Owed' /\ events' = Idle
    BY <1>3, <1>4, <1>6 DEF Owed, HalfRead
  <2> QED BY <1>8, <1>9, <2>1 DEF StepInv
<1>11. PeerInv'
  <2>1. /\ (xfer # NoXfer => peer = "open") /\ (mode = "PASSIVE" => data = "open")
        /\ (peer = "open" => xfer # NoXfer)
    BY <1>1, <1>2 DEF PeerInv, Core
  <2> QED BY <1>6, <1>7, <1>8, <1>9, <2>1 DEF PeerInv
<1>12. RestInv'
  BY <1>6, <1>8, <1>9 DEF RestInv, Core
<1>13. Ended(226)' => Ended(226)
  <2>1. CASE down = <<150>>
    BY <1>6, <2>1 DEF Ended
  <2>2. CASE down = <<150, 226>>
    BY <2>2 DEF Ended
  <2>3. CASE down = <<150, 426>>
    BY <1>6, <2>3 DEF Ended
  <2> QED BY <1>3, <2>1, <2>2, <2>3
<1>14. ReadInv'
  <2> SUFFICES ASSUME trouble' = {}, call' \in {"Get", "ListDir"} PROVE ReadInv'
    BY DEF ReadInv
  <2>1. ReadInv /\ trouble = {} /\ call \in {"Get", "ListDir"} /\ events = Read
    BY <1>6, Ending DEF Core, PutGetEnds
  <2>2. packet = <<>> /\ packet' = <<>>
    BY <1>1, <1>2, <1>6, <2>1 DEF ReadInv
  <2>3. Beginning'
    BY <1>6, <2>1, SameCame DEF ReadInv
  <2>4. Got' = Got
    <3>1. Len(dest) \in Nat
      BY LenProperties DEF Base, TypeOK, DataOK
    <3> QED BY <1>6, <1>9, <2>2, <3>1 DEF Got
  <2> QED BY <1>2, <1>6, <1>8, <1>9, <1>13, <2>1, <2>2, <2>3, <2>4 DEF ReadInv
<1>15. WriteInv'
  <2>1. Row(done)' = Row(done)
    BY <1>6 DEF Row
  <2> QED BY <1>2, <1>6, <1>8, <1>9, <1>13, <2>1 DEF WriteInv, Core
<1>16. EffectInv' /\ TrueIsDone'
  BY <1>8 DEF EffectInv, TrueIsDone, Succeeds
<1> QED BY <1>8, <1>10, <1>11, <1>12, <1>14, <1>15, <1>16 DEF Core

\* What the replies to a command are.
LEMMA AnswersAre ==
  /\ \A c \in Codes : Answers(c) = {150, 550}
  /\ \A c \in {"DELE", "RNTO"} : Answers(c) = {250, 550}
  /\ Answers("QUIT") = {221} /\ Answers("RNFR") = {350, 550} /\ Answers("REST") = {350, 500}
  /\ \A c \in Commands \cup {"PASV", "PORT", "RNTO"} : Garbage \notin Answers(c)
<1>1. \A c \in Codes : Answers(c) = {150, 550}
  BY DEF Codes, Answers
<1>2. \A c \in {"DELE", "RNTO"} : Answers(c) = {250, 550}
  BY DEF Answers
<1>3. Answers("QUIT") = {221} /\ Answers("RNFR") = {350, 550} /\ Answers("REST") = {350, 500}
  BY DEF Answers
<1>4. \A c \in Commands \cup {"PASV", "PORT", "RNTO"} : Garbage \notin Answers(c)
  <2> TAKE c \in Commands \cup {"PASV", "PORT", "RNTO"}
  <2>1. CASE c \in Codes \cup {"DELE", "RNTO", "QUIT", "RNFR", "REST"}
    BY <1>1, <1>2, <1>3, <2>1 DEF Garbage
  <2>2. CASE c \in {"TYPE", "SIZE", "EPSV", "EPRT", "PASV", "PORT"}
    BY <2>2 DEF Answers, Garbage
  <2> QED BY <2>1, <2>2 DEF Commands, Codes
<1> QED BY <1>1, <1>2, <1>3, <1>4

\* The reply to a command, where nothing else is under way.
LEMMA CommandReply ==
  ASSUME Base, OrderInv, Core, Calm, PutGetEnds, Entry \in Commands, opcode # "NONE", Talking(opcode)
  PROVE  OrderInv' /\ Core'
<1>1. InPutGet /\ down # <<>> /\ ~lost
  BY DEF PutGetEnds, Base, LostInv
<1>2. opcode \in Commands \cup {"PASV", "PORT", "RNTO"}
  BY DEF Base, OpcodeInv
<1>3. HalfRead /\ up = <<>> /\ xfer = NoXfer /\ \E code \in Answers(opcode) \ {150} : down = <<code>>
  BY <1>1 DEF Talking, Asked, Answered
<1>4. PICK code \in Answers(opcode) \ {150} : down = <<code>>
  BY <1>3
<1>5. Head(down) = code /\ Tail(down) = <<>> /\ (half => reply = Head(down))
  BY <1>3, <1>4 DEF HalfRead
<1>6. Head(down) # Garbage
  BY <1>2, <1>4, <1>5, AnswersAre
<1>7. /\ queue # <<>> /\ down' = <<>> /\ half' = FALSE
      /\ UNCHANGED <<conf, call, mode, ascii, data_error, position, wire, up, lost, xfer, rest, stored, effect, dest, trouble>>
      /\ \/ code \div 100 \in Accepted /\ events' = Idle /\ Left(After(code).queue)
         \/ Throws
  BY <1>5, <1>6, Ending
<1>8. CASE Throws
  BY <1>3, <1>7, <1>8, FailsCore
<1>9. CASE code \div 100 \in Accepted /\ events' = Idle /\ Left(After(code).queue)
  <2>1. Quiet'
    BY <1>3, <1>7, <1>9 DEF Quiet, Silent
  <2>2. xfer' = NoXfer
    BY <1>3, <1>7
  <2>3. CASE opcode \in Codes
    <3>1. Accepted = {1} /\ code = 550 /\ 550 \div 100 = 5
      BY <1>1, <1>4, <2>3, Classes, AnswersAre
    <3> QED BY <1>9, <3>1
  <2>4. CASE opcode \in {"DELE", "RNTO", "QUIT"}
    <3>1. Entry \in {"DELE", "RNFR", "QUIT"} /\ Entry \notin {"LOGIN", "ABORREPLY"}
      BY <2>4, OpcodeOfEntry DEF Commands
    <3>2. After(code).queue = Tail(queue)
      BY <2>4, <3>1, Afters
    <3>3. OrderInv' /\ Entry' = "none" /\ status' = "FINISHED" /\ call \in {"Delete", "Rename", "Disconnect"}
      BY <1>7, <1>9, <3>1, <3>2, PopsInOrder, ThenIs, EntryMeans
    <3>4. Accepted = {2} /\ 550 \div 100 = 5
      BY <1>1, <2>4, Classes
    <3>5. code \in {250, 221, 550}
      BY <1>4, <2>4, AnswersAre
    <3>6. code \in 200 .. 299
      BY <1>9, <3>4, <3>5
    <3>7. trouble = {} => effect
      <4>1. down[1] = code /\ Len(down) = 1
        BY <1>4
      <4> QED BY <3>1, <3>6, <4>1 DEF Core, EffectInv
    <3>8. TrueIsDone'
      BY <1>7, <3>3, <3>7 DEF TrueIsDone
    <3>9. Silent' /\ ~half' /\ ReadInv
      BY <1>7, <2>1 DEF Quiet, Core
    <3> QED BY <1>7, <2>2, <3>3, <3>8, <3>9, NoneCore
  <2>5. CASE After(code).queue = queue /\ opcode \notin Codes
    <3>1. queue' = queue /\ status' = status /\ status = "WORKING"
      BY <1>7, <1>9, <2>5 DEF Left, InPutGet, Base, TypeOK, QueueOK
    <3>2. Entry' = Entry /\ OrderInv'
      BY <1>7, <3>1, StaysInOrder DEF Entry
    <3>3. Entry \notin Codes
      BY <1>2, <2>5, OpcodeOfEntry DEF Base, OpcodeInv, Codes
    <3>4. StepInv' /\ PeerInv'
      BY <1>7, <2>1, <2>2, <3>2, <3>3, QuietCore
    <3>5. RestInv'
      BY <1>7, <3>2, <3>3 DEF Core, RestInv, Commands
    <3>6. ReadInv' /\ WriteInv' /\ EffectInv' /\ TrueIsDone'
      <4>1. Entry \notin {"ACCEPT", "READ", "WRITE", "REPLY", "LOGIN"}
        BY DEF Commands
      <4>2. ReadInv'
        BY <1>7, <3>2, <3>3, <4>1, SameCame DEF Core, ReadInv
      <4>3. WriteInv'
        BY <3>2, <3>3, <4>1 DEF WriteInv
      <4>4. EffectInv'
        BY <1>7, <3>2, <4>1 DEF EffectInv
      <4>5. TrueIsDone'
        BY <3>1 DEF TrueIsDone, Succeeds
      <4> QED BY <4>2, <4>3, <4>4, <4>5
    <3> QED BY <3>2, <3>4, <3>5, <3>6 DEF Core
  <2>6. CASE After(code).queue # queue /\ opcode \notin Codes \cup {"DELE", "RNTO", "QUIT"}
    <3>1. Entry \in {"TYPE", "SIZE", "EPSV", "EPRT", "REST"} /\ After(code).queue = Tail(queue)
      <4>1. opcode \in {"TYPE", "SIZE", "REST", "EPSV", "EPRT", "PASV", "PORT"}
        <5>1. opcode # "RNFR"
          BY <2>6, Afters
        <5> QED BY <1>2, <2>6, <5>1 DEF Commands, Codes
      <4>2. Entry \in {"TYPE", "SIZE", "EPSV", "EPRT", "REST"}
        BY <4>1, OpcodeOfEntry DEF Commands
      <4>3. opcode \in {"EPSV", "EPRT"} => code \in 200 .. 299
        BY <2>6, Afters
      <4>4. Entry \notin {"LOGIN", "ABORREPLY"} /\ opcode # "RNFR"
        BY <4>1, <4>2
      <4> QED BY <4>2, <4>3, <4>4, Afters
    <3>2. /\ OrderInv' /\ Entry' = Then(Entry) /\ (Then(Entry) # "none" => status' = "WORKING")
      BY <1>7, <1>9, <3>1, PopsInOrder
    <3>3. /\ Entry' \in {"SIZE", "EPSV", "EPRT", "REST", "DATA", "LISTEN"} /\ status' = "WORKING"
          /\ Entry' \in {"SIZE", "EPSV", "EPRT"} => Entry \in {"TYPE", "SIZE"}
          /\ Entry' = "REST" => Entry \in {"EPSV", "EPRT"} /\ dest # <<>>
          /\ Entry' \in {"DATA", "LISTEN"} => (Entry \in {"EPSV", "EPRT"} /\ dest = <<>>) \/ Entry = "REST"
      <4> DEFINE next == Then(Entry)
      <4>0. /\ Entry = "TYPE" => next \in {"SIZE", "EPSV", "EPRT"}
            /\ Entry = "SIZE" => next \in {"EPSV", "EPRT"}
            /\ Entry \in {"EPSV", "EPRT"} => next = IF dest = <<>> THEN Dials ELSE "REST"
            /\ Entry = "REST" => next = Dials
            /\ Dials \in {"DATA", "LISTEN"}
        BY ThenIs
      <4>1. Entry' = next /\ (next # "none" => status' = "WORKING")
        BY <3>2
      <4> HIDE DEF next
      <4>2. CASE Entry \in {"TYPE", "SIZE"}
        BY <4>0, <4>1, <4>2
      <4>3. CASE Entry \in {"EPSV", "EPRT"} /\ dest = <<>>
        BY <4>0, <4>1, <4>3
      <4>4. CASE Entry \in {"EPSV", "EPRT"} /\ dest # <<>>
        BY <4>0, <4>1, <4>4
      <4>5. CASE Entry = "REST"
        BY <4>0, <4>1, <4>5
      <4> QED BY <3>1, <4>2, <4>3, <4>4, <4>5
    <3>4. Entry' \notin Codes /\ Entry' \in Commands \cup {"DATA", "LISTEN"}
      BY <3>3 DEF Codes, Commands
    <3>5. StepInv' /\ PeerInv'
      BY <1>7, <2>1, <2>2, <3>4, QuietCore
    <3>6. RestInv'
      <4> SUFFICES ASSUME trouble' = {}, call' \in DOMAIN Transfers PROVE RestInv'
        BY DEF RestInv
      <4>1. RestInv /\ trouble = {} /\ call \in DOMAIN Transfers
        BY <1>7 DEF Core
      <4>2. call \in {"Put", "Append", "ListDir"} => dest' = <<>>
        BY <1>7, <3>1, <4>1 DEF RestInv
      <4>3. Entry' \in {"SIZE", "EPSV", "EPRT"} /\ dest' # <<>> => position' = Len(dest')
        BY <1>7, <3>3, <4>1 DEF RestInv
      <4>4. Entry' = "REST" => position' = Len(dest')
        BY <1>7, <3>3, <4>1 DEF RestInv
      <4>5. Entry' \in {"DATA", "LISTEN"} => rest' = Len(dest')
        <5>2. Entry \in {"EPSV", "EPRT"} /\ dest = <<>> => rest = Len(dest)
          BY <1>1, <4>1 DEF RestInv
        <5>3. Entry = "REST" => rest = Len(dest)
          <6> SUFFICES ASSUME Entry = "REST" PROVE rest = Len(dest)
            OBVIOUS
          <6>1. opcode = "REST"
            BY DEF Base, OpcodeInv, Commands
          <6>2. Accepted = {3} /\ code \in {350, 500} /\ 500 \div 100 = 5
            BY <1>1, <1>4, <6>1, Classes, AnswersAre
          <6>3. down = <<350>>
            BY <1>4, <1>9, <6>2
          <6> QED BY <4>1, <6>3 DEF RestInv
        <5> QED BY <1>7, <3>3, <5>2, <5>3
      <4> QED BY <1>7, <3>3, <3>4, <4>2, <4>3, <4>4, <4>5 DEF RestInv
    <3>7. ReadInv' /\ WriteInv' /\ EffectInv' /\ TrueIsDone'
      <4>1. ReadInv'
        BY <1>7, <3>3, <3>4, SameCame DEF Core, ReadInv, Commands
      <4>2. WriteInv'
        BY <3>3, <3>4 DEF WriteInv
      <4>3. EffectInv' /\ TrueIsDone'
        BY <3>3 DEF EffectInv, TrueIsDone, Succeeds
      <4> QED BY <4>1, <4>2, <4>3
    <3> QED BY <3>2, <3>5, <3>6, <3>7 DEF Core
  <2> QED BY <2>3, <2>4, <2>5, <2>6
<1> QED BY <1>7, <1>8, <1>9

LEMMA CorePutGetEnds == ASSUME Base, OrderInv, Core, PutGetEnds PROVE OrderInv' /\ Core'
<1>1. SUFFICES ASSUME Calm' PROVE OrderInv' /\ Core'
  BY NotCalm
<1>2. Calm
  BY <1>1 DEF PutGetEnds, Calm
<1>3. InPutGet /\ down # <<>> /\ ~lost /\ Entry # "none"
  BY EntryIsHead DEF PutGetEnds, InPutGet, Base, LostInv
<1>4. Entry \in Commands \cup {"LOGIN", "CONNECT", "REPLY"}
  <2>1. "ABORREPLY" \notin Commands /\ "LASTREPLY" \notin Commands
    BY DEF Commands
  <2> QED BY <1>2, <1>3, <2>1, PutsIs, EntryMeans
<1>5. CASE Entry \in Commands
  <2>1. Quiet \/ (opcode # "NONE" /\ Talking(opcode)) \/ (opcode \in Codes /\ Opened)
    BY <1>2, <1>3, <1>5 DEF Core, StepInv
  <2>2. ~Quiet
    BY <1>3 DEF Quiet, Silent
  <2> QED BY <1>2, <1>5, <2>1, <2>2, CommandReply, OpenedReply
<1> QED BY <1>2, <1>4, <1>5, LoginReply, ConnectReply, TransferReply

---------------------------------------------------------------------------
\* The server, step by step.

\* Where the conversation is when the server has a command to answer.
LEMMA AskedWhen ==
  ASSUME Base, OrderInv, Core, Calm, ~lost, up # <<>>
  PROVE  /\ Entry \in {"LOGIN"} \cup Commands /\ status = "WORKING"
         /\ events = Read /\ HalfRead /\ down = <<>> /\ xfer = NoXfer /\ ~half
         /\ Entry = "LOGIN" => /\ \E c \in {"USER", "PASS", "ACCT"} : up = <<c>>
                               /\ prevcode \in {200, 220, 331, 332}
         /\ Entry \in Commands => opcode # "NONE" /\ up = <<opcode>>
<1>1. StepInv
  BY DEF Core
<1>2. ~Silent /\ ~Quiet /\ ~Opened /\ ~Owed
  BY DEF Silent, Quiet, Opened, Owed
<1>3. \A c : Talking(c) => up = <<c>> /\ down = <<>> /\ xfer = NoXfer /\ events = Read /\ HalfRead /\ ~half
  BY DEF Talking, Asked, Answered, HalfRead
<1>4. Entry \notin {"none", "CONNECT", "DATA", "LISTEN", "ACCEPT", "READ", "WRITE", "REPLY"}
  BY <1>1, <1>2 DEF StepInv
<1>5. Entry \in {"LOGIN"} \cup Commands /\ status = "WORKING"
  <2>1. queue # <<>>
    BY <1>4 DEF Entry
  <2> QED BY <1>4, <2>1, EntryMeans DEF Base, TypeOK, QueueOK
<1>6. CASE Entry = "LOGIN"
  <2>1. "LOGIN" \notin Commands
    BY DEF Commands
  <2>2. PICK c \in {"USER", "PASS", "ACCT"} :
          Talking(c) /\ (IF half THEN prevcode = reply ELSE prevcode \in {200, 220, 331, 332})
    BY <1>1, <1>2, <1>6 DEF StepInv
  <2> QED BY <1>3, <1>5, <1>6, <2>1, <2>2
<1>7. CASE Entry \in Commands
  <2>1. opcode # "NONE" /\ Talking(opcode)
    BY <1>1, <1>2, <1>7 DEF StepInv
  <2>2. Entry # "LOGIN"
    BY <1>7 DEF Commands
  <2> QED BY <1>3, <1>5, <1>7, <2>1, <2>2
<1> QED BY <1>5, <1>6, <1>7

\* What an answer does.
LEMMA Answer ==
  ASSUME Base, OrderInv, Core, Calm, ServerAnswers
  PROVE  \E c \in Sent \ {"ABOR"} : \E code \in Answers(c) :
           /\ up = <<c>> /\ down' = <<code>> /\ up' = <<>>
           /\ effect' = (effect \/ (c \in Final /\ code \in 200 .. 299))
           /\ rest' = IF code = 350 /\ c = "REST" THEN position ELSE 0
           /\ code = 150 => /\ xfer' = [cmd |-> c, at |-> rest]
                            /\ peer' = IF mode = "ACTIVE" THEN "open" ELSE peer
                            /\ stored' = IF c = "STOR" THEN Cut(stored, rest) ELSE stored
           /\ code # 150 => /\ peer' = IF code = 550 THEN "closed" ELSE peer
                            /\ UNCHANGED <<xfer, stored>>
           /\ wire' = wire
<1>1. up # <<>> /\ ~lost /\ Head(up) # "ABOR"
  BY DEF ServerAnswers
<1>2. down = <<>> /\ \E c : up = <<c>>
  BY <1>1, AskedWhen
<1>3. PICK c : up = <<c>>
  BY <1>2
<1>4. Head(up) = c /\ Tail(up) = <<>> /\ c \in Sent \ {"ABOR"}
  <2>1. up \in Seq(Sent)
    BY DEF Base, TypeOK, LineOK
  <2> QED BY <1>1, <1>3, <2>1, HeadTailProperties
<1>5. PICK code \in Answers(Head(up)) :
          /\ code = 150 /\ mode = "ACTIVE" => data # "open" /\ wire = <<>>
          /\ down' = Append(down, code)
          /\ effect' = (effect \/ (Head(up) \in Final /\ code \in 200 .. 299))
          /\ rest' = IF code = 350 /\ Head(up) = "REST" THEN position ELSE 0
          /\ IF code = 150
             THEN /\ xfer' = [cmd |-> Head(up), at |-> rest]
                  /\ peer' = IF mode = "ACTIVE" THEN "open" ELSE peer
                  /\ stored' = IF Head(up) = "STOR" THEN Cut(stored, rest) ELSE stored
                  /\ UNCHANGED wire
             ELSE /\ peer' = IF code = 550 THEN "closed" ELSE peer
                  /\ UNCHANGED <<xfer, stored, wire>>
  BY DEF ServerAnswers
<1>6. down' = <<code>> /\ up' = <<>>
  BY <1>2, <1>4, <1>5 DEF ServerAnswers
<1> HIDE DEF Answers, Cut
<1>7. code \in Answers(c)
  BY <1>4, <1>5
<1>8. /\ effect' = (effect \/ (c \in Final /\ code \in 200 .. 299))
      /\ rest' = IF code = 350 /\ c = "REST" THEN position ELSE 0
      /\ code = 150 => /\ xfer' = [cmd |-> c, at |-> rest]
                       /\ peer' = IF mode = "ACTIVE" THEN "open" ELSE peer
                       /\ stored' = IF c = "STOR" THEN Cut(stored, rest) ELSE stored
      /\ code # 150 => /\ peer' = IF code = 550 THEN "closed" ELSE peer
                       /\ UNCHANGED <<xfer, stored>>
      /\ wire' = wire
  BY <1>4, <1>5
<1> QED BY <1>3, <1>4, <1>6, <1>7, <1>8

\* A file that is overwritten from its start is empty.
LEMMA CutToNothing == ASSUME NEW s \in Seq(Nat) PROVE Cut(s, 0) = <<>>
<1>1. PICK n \in Nat : n = Len(s)
  BY LenProperties
<1>2. (IF 0 < n THEN 0 ELSE n) = 0
  OBVIOUS
<1>3. Cut(s, 0) = SubSeq(s, 1, 0)
  BY <1>1, <1>2 DEF Cut
<1> DEFINE e == SubSeq(s, 1, 0)
<1>4. e \in Seq(Nat) /\ Len(e) = 0
  <2>1. \A i \in 1 .. 0 : s[i] \in Nat
    OBVIOUS
  <2>2. 0 \in Int /\ 1 \in Int
    OBVIOUS
  <2> QED BY <2>1, <2>2, SubSeqProperties
<1> HIDE DEF e
<1>5. e = <<>>
  BY <1>4, EmptySeq
<1> QED BY <1>3, <1>5 DEF e

LEMMA LoginAnswered ==
  ASSUME Base, OrderInv, Core, Calm, ServerAnswers, Entry = "LOGIN"
  PROVE  OrderInv' /\ Core'
<1>1. /\ up # <<>> /\ ~lost /\ UNCHANGED <<conf, dest, lost, trouble>> /\ UNCHANGED client /\ UNCHANGED flags
  BY DEF ServerAnswers
<1>2. /\ UNCHANGED <<mode, call, queue, status, events, half, prevcode, opcode, data_error>>
  BY <1>1 DEF conf, client, flags
<1>3. PICK c \in Sent \ {"ABOR"} : \E code \in Answers(c) :
           /\ up = <<c>> /\ down' = <<code>> /\ up' = <<>>
           /\ effect' = (effect \/ (c \in Final /\ code \in 200 .. 299))
           /\ code # 150 => UNCHANGED <<xfer, stored>>
  BY Answer
<1>4. PICK code \in Answers(c) :
           /\ up = <<c>> /\ down' = <<code>> /\ up' = <<>>
           /\ effect' = (effect \/ (c \in Final /\ code \in 200 .. 299))
           /\ code # 150 => UNCHANGED <<xfer, stored>>
  BY <1>3
<1>5. /\ events = Read /\ xfer = NoXfer /\ ~half /\ prevcode \in {200, 220, 331, 332}
      /\ \E d \in {"USER", "PASS", "ACCT"} : up = <<d>>
  BY <1>1, AskedWhen
<1>6. c \in {"USER", "PASS", "ACCT"}
  <2>1. PICK d \in {"USER", "PASS", "ACCT"} : up = <<d>>
    BY <1>5
  <2>2. <<c>> = <<d>>
    BY <1>4, <2>1
  <2>3. c = d
    BY <2>2
  <2> QED BY <2>3
<1>7. code # 150
  BY <1>6, Answering DEF Codes
<1>8. OrderInv' /\ Entry' = "LOGIN" /\ call' \in {"Connect", "Login"} /\ status' = "WORKING"
  <2>1. status = "WORKING"
    BY <1>1, AskedWhen
  <2> QED BY <1>1, <1>2, <2>1, StaysInOrder, EntryMeans DEF Entry
<1>9. Talking(c)'
  <2>1. Answered(c)'
    BY <1>4, <1>5, <1>7 DEF Answered
  <2> QED BY <1>2, <1>5, <2>1 DEF Talking, HalfRead
<1>10. "LOGIN" \notin Commands /\ "LOGIN" \notin Codes
  BY DEF Commands, Codes
<1>11. StepInv'
  BY <1>2, <1>5, <1>6, <1>8, <1>9, <1>10 DEF StepInv
<1>12. PeerInv'
  BY <1>4, <1>5, <1>7, <1>8, <1>10 DEF PeerInv
<1>13. RestInv' /\ ReadInv' /\ WriteInv' /\ TrueIsDone'
  BY <1>8 DEF RestInv, ReadInv, WriteInv, TrueIsDone, Succeeds, Transfers
<1>14. EffectInv'
  <2>1. prevcode' \notin LoggedIn
    BY <1>2, <1>5 DEF LoggedIn
  <2>2. code \in 200 .. 299 => effect'
    BY <1>4, <1>6 DEF Final
  <2>3. \A i \in 1 .. Len(down') : down'[i] = code
    BY <1>4
  <2> QED BY <2>1, <2>2, <2>3 DEF EffectInv
<1> QED BY <1>8, <1>11, <1>12, <1>13, <1>14 DEF Core

\* The server does what a command says, or refuses.
LEMMA CommandAnswered ==
  ASSUME Base, OrderInv, Core, Calm, ServerAnswers, Entry \in Commands
  PROVE  OrderInv' /\ Core'
<1>1. /\ up # <<>> /\ ~lost /\ UNCHANGED <<conf, dest, lost, trouble>>
      /\ UNCHANGED client /\ UNCHANGED flags /\ UNCHANGED offsets /\ data' = data
  BY DEF ServerAnswers
<1>2. UNCHANGED <<mode, call, ascii, queue, status, events, half, prevcode, opcode, data_error, position, done,
                  packet, lost, dest>>
  BY <1>1 DEF conf, client, flags, offsets
<1>3. /\ events = Read /\ down = <<>> /\ xfer = NoXfer /\ ~half /\ status = "WORKING"
      /\ opcode # "NONE" /\ up = <<opcode>>
  BY <1>1, AskedWhen
<1>0. PICK c \in Sent \ {"ABOR"} : \E code \in Answers(c) :
           /\ up = <<c>> /\ down' = <<code>> /\ up' = <<>>
           /\ effect' = (effect \/ (c \in Final /\ code \in 200 .. 299))
           /\ rest' = IF code = 350 /\ c = "REST" THEN position ELSE 0
           /\ code = 150 => /\ xfer' = [cmd |-> c, at |-> rest]
                            /\ peer' = IF mode = "ACTIVE" THEN "open" ELSE peer
                            /\ stored' = IF c = "STOR" THEN Cut(stored, rest) ELSE stored
           /\ code # 150 => /\ peer' = IF code = 550 THEN "closed" ELSE peer
                            /\ UNCHANGED <<xfer, stored>>
           /\ wire' = wire
  BY Answer
<1>4. PICK code \in Answers(c) :
           /\ up = <<c>> /\ down' = <<code>> /\ up' = <<>>
           /\ effect' = (effect \/ (c \in Final /\ code \in 200 .. 299))
           /\ rest' = IF code = 350 /\ c = "REST" THEN position ELSE 0
           /\ code = 150 => /\ xfer' = [cmd |-> c, at |-> rest]
                            /\ peer' = IF mode = "ACTIVE" THEN "open" ELSE peer
                            /\ stored' = IF c = "STOR" THEN Cut(stored, rest) ELSE stored
           /\ code # 150 => /\ peer' = IF code = 550 THEN "closed" ELSE peer
                            /\ UNCHANGED <<xfer, stored>>
           /\ wire' = wire
  BY <1>0
<1>5. opcode = c
  <2>1. <<opcode>> = <<c>>
    BY <1>3, <1>4
  <2> QED BY <2>1
<1>6. OrderInv' /\ Entry' = Entry
  BY <1>1, <1>2, StaysInOrder DEF Entry
<1>7. /\ Entry \notin {"none", "CONNECT", "LOGIN", "DATA", "LISTEN", "ACCEPT", "READ", "WRITE", "REPLY"}
      /\ "DELE" \notin Codes /\ "RNFR" \notin Codes /\ "QUIT" \notin Codes /\ "REST" \notin Codes
      /\ "EPSV" \notin Codes /\ "EPRT" \notin Codes
  BY DEF Commands, Codes
<1>8. HalfRead' /\ events' = Read /\ up' = <<>>
  BY <1>2, <1>3, <1>4 DEF HalfRead
<1>9. TrueIsDone'
  BY <1>2, <1>3 DEF TrueIsDone, Succeeds
<1>10. c \in Codes => Entry = c
  BY <1>5, OpcodeOfEntry DEF Codes, Commands
<1>11. Entry \in Codes => c = Entry
  BY <1>3, <1>5 DEF Base, OpcodeInv, Codes
<1>12. CASE code = 150
  <2>1. c \in Codes /\ Entry = c
    BY <1>10, <1>12, Answering
  <2>2. xfer' = [cmd |-> c, at |-> rest] /\ xfer' # NoXfer /\ xfer'.cmd = c /\ xfer'.at = rest
    <3>1. xfer' = [cmd |-> c, at |-> rest]
      BY <1>4, <1>12
    <3>2. xfer'.cmd = c /\ xfer'.at = rest /\ c # "none"
      BY <2>1, <3>1 DEF Codes
    <3>3. NoXfer.cmd = "none"
      BY DEF NoXfer
    <3> QED BY <3>1, <3>2, <3>3
  <2>3. Opened'
    BY <1>4, <1>8, <1>12, <2>2 DEF Opened
  <2>4. StepInv'
    BY <1>2, <1>5, <1>6, <1>7, <2>1, <2>3 DEF StepInv
  <2>5. PeerInv'
    <3>1. /\ mode = "PASSIVE" => data = "open" /\ peer = "open"
          /\ mode \in {"ACTIVE", "PASSIVE"}
      BY <1>1, <1>3, <2>1 DEF PeerInv, Core, Base, TypeOK, CallOK
    <3>2. peer' = "open"
      BY <1>4, <1>12, <3>1
    <3> QED BY <1>1, <1>2, <1>6, <1>7, <2>2, <3>1, <3>2 DEF PeerInv
  <2>6. ~Ended(226)'
    BY <1>4, <1>12 DEF Ended
  <2>7. trouble = {} => rest = Len(dest) /\ wire = <<>>
    <3>1. call \in DOMAIN Transfers
      BY <1>7, <2>1, EntryMeans DEF Transfers, Codes
    <3> QED BY <1>1, <1>3, <2>1, <3>1 DEF RestInv, Core
  <2>8. RestInv'
    BY <1>1, <1>2, <1>6, <1>7, <2>1, <2>2 DEF RestInv, Core
  <2>9. Transfers[call] = c
    BY <1>7, <2>1, EntryMeans
  <2>10. ReadInv'
    <3> SUFFICES ASSUME trouble' = {}, call' \in {"Get", "ListDir"} PROVE ReadInv'
      BY DEF ReadInv
    <3>1. rest = Len(dest) /\ wire' = <<>> /\ Len(wire') = 0
      BY <1>1, <1>4, <2>7
    <3>2. xfer'.at = Len(dest') + Len(wire')
      <4>1. Len(dest) \in Nat
        BY LenProperties DEF Base, TypeOK, DataOK
      <4> QED BY <1>2, <2>2, <3>1, <4>1
    <3>3. Beginning' /\ packet' = <<>>
      <4>1. Beginning /\ packet = <<>>
        BY <1>1, <1>2, <1>3, <2>1 DEF ReadInv, Core
      <4> QED BY <1>2, <4>1, SameCame
    <3>4. Got' = Len(dest')
      BY <1>6, <1>7 DEF Got
    <3> QED BY <1>2, <1>6, <1>7, <2>2, <2>6, <2>9, <3>1, <3>2, <3>3, <3>4 DEF ReadInv
  <2>11. WriteInv'
    <3> SUFFICES ASSUME trouble' = {}, call' \in {"Put", "Append"} PROVE WriteInv'
      BY DEF WriteInv
    <3>1. done' = 0
      BY <1>1, <1>2, <1>3, <2>1 DEF WriteInv, Core
    <3>2. call = "Put" => stored' = <<>>
      <4> SUFFICES ASSUME call = "Put" PROVE stored' = <<>>
        OBVIOUS
      <4>1. c = "STOR"
        BY <2>9 DEF Transfers
      <4>2. dest = <<>>
        BY <1>1, <1>7 DEF RestInv, Core, Transfers
      <4>3. rest = 0
        BY <1>1, <2>7, <4>2
      <4>4. stored \in Seq(Nat)
        BY DEF Base, TypeOK, DataOK
      <4> QED BY <1>4, <1>12, <4>1, <4>3, <4>4, CutToNothing
    <3>3. wire' = <<>> /\ stored' \in Seq(Nat)
      BY <1>1, <1>4, <2>7, BaseServerAnswers DEF Base, TypeOK, DataOK
    <3>4. Row(0)'
      <4>1. stored' \o wire' = stored'
        BY <3>3
      <4>2. Len(stored') \in Nat /\ (call' = "Put" => Len(stored') = 0)
        BY <1>2, <3>2, <3>3, LenProperties
      <4> QED BY <4>1, <4>2 DEF Row
    <3> QED BY <1>6, <1>7, <2>2, <2>6, <2>9, <1>2, <3>1, <3>4 DEF WriteInv
  <2>12. EffectInv'
    BY <1>6, <1>7, <2>1 DEF EffectInv
  <2> QED BY <1>6, <1>9, <2>4, <2>5, <2>8, <2>10, <2>11, <2>12 DEF Core
<1>13. CASE code # 150
  <2>1. xfer' = NoXfer /\ stored' = stored
    BY <1>3, <1>4, <1>13
  <2>2. Talking(opcode)'
    <3>1. Answered(opcode)'
      BY <1>2, <1>4, <1>5, <1>13, <2>1 DEF Answered
    <3> QED BY <1>8, <3>1 DEF Talking
  <2>3. StepInv'
    BY <1>2, <1>3, <1>6, <1>7, <2>2 DEF StepInv
  <2>4. Entry \in Codes => code = 550 /\ peer' = "closed"
    BY <1>4, <1>11, <1>13, Answering
  <2>5. PeerInv'
    <3>1. Entry \in Codes /\ mode = "PASSIVE" => data = "open"
      BY DEF PeerInv, Core
    <3>2. down' # <<>>
      BY <1>4
    <3> QED BY <1>1, <1>2, <1>6, <1>7, <2>1, <2>4, <3>1, <3>2 DEF PeerInv
  <2>6. Entry \in Codes => ~Ended(226)'
    BY <1>4, <2>4 DEF Ended
  <2>7. RestInv'
    <3> SUFFICES ASSUME trouble' = {}, call' \in DOMAIN Transfers PROVE RestInv'
      BY DEF RestInv
    <3>1. RestInv /\ trouble = {} /\ call \in DOMAIN Transfers
      BY <1>1, <1>2 DEF Core
    <3>2. Entry \in {"EPSV", "EPRT"} => rest' = 0
      <4>1. Entry \in {"EPSV", "EPRT"} => c # "REST"
        BY <1>5, OpcodeOfEntry DEF Commands
      <4> QED BY <1>4, <4>1
    <3>3. Entry = "REST" /\ down' = <<350>> => rest' = Len(dest')
      <4> SUFFICES ASSUME Entry = "REST", down' = << 350 >> PROVE rest' = Len(dest')
        OBVIOUS
      <4>1. c = "REST"
        BY <1>3, <1>5 DEF Base, OpcodeInv, Commands
      <4>2. code = 350
        BY <1>4
      <4>3. position = Len(dest)
        BY <3>1 DEF RestInv
      <4> QED BY <1>2, <1>4, <4>1, <4>2, <4>3
    <3>4. down' # <<>>
      BY <1>4
    <3> QED BY <1>2, <1>6, <1>7, <3>1, <3>2, <3>3, <3>4 DEF RestInv
  <2>8. ReadInv'
    <3> SUFFICES ASSUME trouble' = {}, call' \in {"Get", "ListDir"} PROVE ReadInv'
      BY DEF ReadInv
    <3>1. ReadInv /\ trouble = {} /\ call \in {"Get", "ListDir"}
      BY <1>1, <1>2 DEF Core
    <3>2. Beginning' /\ Got' = Got
      BY <1>2, <1>6, <3>1, SameCame, SameGot DEF ReadInv
    <3>3. /\ Entry \in Codes => \A i \in 1 .. Len(wire') : wire'[i] = Got' + i
          /\ Entry \in Codes => packet' = <<>>
      BY <1>1, <1>2, <1>3, <1>4, <3>1, <3>2 DEF ReadInv
    <3> QED BY <1>6, <1>7, <2>1, <2>6, <3>2, <3>3 DEF ReadInv
  <2>9. WriteInv'
    BY <1>1, <1>2, <1>6, <1>7, <2>1, <2>6 DEF WriteInv, Core
  <2>10. EffectInv'
    <3> SUFFICES ASSUME trouble' = {}, Entry \in {"DELE", "RNFR", "QUIT"} PROVE EffectInv'
      BY <1>6, <1>7 DEF EffectInv
    <3>1. c \in {"DELE", "RNFR", "RNTO", "QUIT"}
      BY <1>3, <1>5 DEF Base, OpcodeInv, Commands
    <3>2. code \in 200 .. 299 => effect'
      <4>1. CASE c = "RNFR"
        <5>1. code \in {350, 550}
          BY <1>4, <4>1, AnswersAre
        <5> QED BY <5>1
      <4>2. CASE c # "RNFR"
        BY <1>4, <3>1, <4>2 DEF Final
      <4> QED BY <4>1, <4>2
    <3>3. \A i \in 1 .. Len(down') : down'[i] = code
      BY <1>4
    <3> QED BY <1>6, <1>7, <3>2, <3>3 DEF EffectInv
  <2> QED BY <1>6, <1>9, <2>3, <2>5, <2>7, <2>8, <2>9, <2>10 DEF Core
<1> QED BY <1>12, <1>13

LEMMA CoreServerAnswers == ASSUME Base, OrderInv, Core, ServerAnswers PROVE OrderInv' /\ Core'
<1>1. SUFFICES ASSUME Calm' PROVE OrderInv' /\ Core'
  BY NotCalm
<1>2. Calm /\ ~lost /\ up # <<>>
  BY <1>1 DEF ServerAnswers, Calm
<1>3. Entry \in {"LOGIN"} \cup Commands
  BY <1>2, AskedWhen
<1> QED BY <1>2, <1>3, LoginAnswered, CommandAnswered

\* Where the conversation is when the server has a transfer.
LEMMA RunningWhen ==
  ASSUME Base, OrderInv, Core, Calm, ~lost, xfer # NoXfer
  PROVE  /\ Entry \in Codes \cup {"ACCEPT", "READ", "WRITE", "REPLY"} /\ status = "WORKING"
         /\ up = <<>> /\ HalfRead
         /\ Entry \in Codes => opcode \in Codes /\ events = Read /\ down = <<150>>
         /\ Entry \notin Codes => down = <<>>
         /\ Entry \in {"ACCEPT", "READ", "WRITE"} => events = Idle
<1>1. StepInv
  BY DEF Core
<1>2. ~Silent /\ ~Quiet /\ \A c : ~Talking(c)
  BY DEF Silent, Quiet, Talking, Asked, Answered
<1>3. Entry \notin {"none", "CONNECT", "LOGIN", "DATA", "LISTEN"}
  BY <1>1, <1>2 DEF StepInv
<1>4. Entry \in {"ACCEPT", "READ", "WRITE", "REPLY"} \cup Commands /\ status = "WORKING"
  <2>1. queue # <<>>
    BY <1>3 DEF Entry
  <2> QED BY <1>3, <2>1, EntryMeans DEF Base, TypeOK, QueueOK
<1>5. CASE Entry \in {"ACCEPT", "READ", "WRITE", "REPLY"}
  <2>1. Owed /\ (Entry # "REPLY" => events = Idle)
    BY <1>1, <1>5 DEF StepInv
  <2>2. Entry \notin Codes
    BY <1>5 DEF Codes
  <2> QED BY <1>4, <1>5, <2>1, <2>2 DEF Owed
<1>6. CASE Entry \in Commands
  <2>1. opcode \in Codes /\ Opened
    BY <1>1, <1>2, <1>6 DEF StepInv
  <2>2. Entry = opcode
    BY <2>1, OpcodeOfEntry DEF Codes, Commands
  <2>3. Entry \notin {"ACCEPT", "READ", "WRITE"}
    BY <1>6 DEF Commands
  <2> QED BY <1>4, <2>1, <2>2, <2>3 DEF Opened
<1> QED BY <1>4, <1>5, <1>6

\* A byte that comes to the server's end: nothing is lost on the way.
LEMMA Arriving ==
  ASSUME NEW s \in Seq(Nat), NEW w \in Seq(Nat), w # <<>>
  PROVE  Append(s, Head(w)) \o Tail(w) = s \o w
<1> DEFINE h == Head(w) t == Tail(w) u == <<h>> \o t
<1>1. h \in Nat /\ t \in Seq(Nat) /\ Len(t) = Len(w) - 1 /\ \A i \in 1 .. Len(t) : t[i] = w[i + 1]
  BY HeadTailProperties
<1>2. <<h>> \in Seq(Nat) /\ Len(<<h>>) = 1 /\ <<h>>[1] = h
  BY <1>1
<1>3. h = w[1]
  OBVIOUS
<1>4. PICK n \in Nat \ {0} : n = Len(w)
  BY EmptySeq
<1> HIDE DEF h, t
<1>5. PICK o \in Seq(Nat) : o = <<h>>
  BY <1>2
<1>6. o \o t \in Seq(Nat) /\ Len(o \o t) = n
      /\ \A i \in 1 .. n : (o \o t)[i] = IF i <= 1 THEN o[i] ELSE t[i - 1]
  <2>1. o \o t \in Seq(Nat) /\ Len(o \o t) = Len(o) + Len(t)
        /\ \A i \in 1 .. Len(o) + Len(t) : (o \o t)[i] = IF i <= Len(o) THEN o[i] ELSE t[i - Len(o)]
    BY <1>1, ConcatProperties
  <2>2. Len(o) = 1 /\ Len(t) = n - 1 /\ 1 + (n - 1) = n
    BY <1>1, <1>2, <1>4, <1>5
  <2> QED BY <2>1, <2>2
<1>7. \A i \in 1 .. n : (o \o t)[i] = w[i]
  <2> TAKE i \in 1 .. n
  <2>1. CASE i = 1
    BY <1>2, <1>3, <1>5, <1>6, <2>1
  <2>2. CASE i # 1
    <3>1. i - 1 \in 1 .. Len(t) /\ (i - 1) + 1 = i /\ ~(i <= 1)
      BY <1>1, <1>4, <2>2
    <3> QED BY <1>1, <1>6, <3>1
  <2> QED BY <2>1, <2>2
<1>8. o \o t = w
  BY <1>4, <1>6, <1>7, SeqEqual
<1>9. Append(s, h) = s \o o
  BY <1>1, <1>5, AppendIsConcat
<1>10. (s \o o) \o t = s \o (o \o t)
  <2>1. t \in Seq(Nat)
    BY <1>1
  <2> QED BY <2>1, SMTT(60)
<1> QED BY <1>8, <1>9, <1>10 DEF h, t

\* A byte that leaves the server's end.
LEMMA Leaving ==
  ASSUME NEW w \in Seq(Nat), NEW k \in Nat, Counts(w, k)
  PROVE  /\ Counts(Append(w, k + Len(w) + 1), k)
         /\ Len(Append(w, k + Len(w) + 1)) = Len(w) + 1
<1>1. PICK n \in Nat : n = Len(w)
  BY LenProperties
<1>2. k + n + 1 \in Nat
  BY <1>1
<1> DEFINE v == Append(w, k + n + 1)
<1>3. Len(v) = n + 1 /\ (\A i \in 1 .. n : v[i] = w[i]) /\ v[n + 1] = k + n + 1
  BY <1>1, <1>2, AppendProperties
<1> HIDE DEF v
<1>4. \A i \in 1 .. n : w[i] = k + i
  BY <1>1 DEF Counts
<1>5. \A i \in 1 .. n + 1 : v[i] = k + i
  <2> TAKE i \in 1 .. n + 1
  <2>1. CASE i = n + 1
    BY <1>1, <1>3, <2>1
  <2>2. CASE i # n + 1
    <3>1. i \in 1 .. n
      BY <1>1, <2>2
    <3> QED BY <1>3, <1>4, <3>1
  <2> QED BY <2>1, <2>2
<1>6. Counts(v, k) /\ Len(v) = n + 1
  BY <1>3, <1>5 DEF Counts
<1> QED BY <1>1, <1>6 DEF v

LEMMA CoreServerMoves == ASSUME Base, OrderInv, Core, ServerMoves PROVE OrderInv' /\ Core'
<1>1. SUFFICES ASSUME Calm' PROVE OrderInv' /\ Core'
  BY NotCalm
<1>2. /\ peer = "open" /\ ~lost /\ UNCHANGED <<conf, data, peer, up, down, lost, rest, effect, dest, trouble>>
      /\ UNCHANGED client /\ UNCHANGED flags /\ UNCHANGED offsets
  BY DEF ServerMoves
<1>3. UNCHANGED <<mode, call, ascii, queue, status, events, half, reply, prevcode, opcode, data_error, position, done,
                  packet>>
  BY <1>2 DEF conf, client, flags, offsets
<1>4. /\ \/ Sending /\ wire' = Append(wire, xfer.at + 1) /\ stored' = stored
         \/ Receiving /\ wire # <<>> /\ stored' = Append(stored, Head(wire)) /\ wire' = Tail(wire)
      /\ xfer' = [xfer EXCEPT !.at = @ + 1]
  BY DEF ServerMoves
<1>5. /\ xfer \in [cmd : Codes, at : Nat] /\ xfer # NoXfer
      /\ xfer'.cmd = xfer.cmd /\ xfer'.at = xfer.at + 1 /\ xfer' # NoXfer
  <2>1. xfer \in [cmd : Codes, at : Nat] /\ xfer # NoXfer
    BY <1>4, Xfers
  <2>2. xfer'.cmd = xfer.cmd /\ xfer'.at = xfer.at + 1 /\ xfer.cmd \in Codes
    BY <1>4, <2>1
  <2>3. NoXfer.cmd = "none" /\ "none" \notin Codes
    BY DEF NoXfer, Codes
  <2> QED BY <2>1, <2>2, <2>3
<1>6. Calm /\ Entry' = Entry
  BY <1>1, <1>2, <1>3 DEF Calm, Entry
<1>7. OrderInv'
  BY <1>2, <1>3, <1>6, StaysInOrder
<1>8. /\ Entry \in Codes \cup {"ACCEPT", "READ", "WRITE", "REPLY"} /\ status = "WORKING"
      /\ up = <<>> /\ HalfRead
      /\ Entry \in Codes => opcode \in Codes /\ events = Read /\ down = <<150>>
      /\ Entry \notin Codes => down = <<>>
      /\ Entry \in {"ACCEPT", "READ", "WRITE"} => events = Idle
  BY <1>2, <1>5, <1>6, RunningWhen
<1>9. /\ Codes \subseteq Commands
      /\ \A e \in Codes : e \notin {"none", "CONNECT", "LOGIN", "DATA", "LISTEN", "ACCEPT", "READ", "WRITE",
                                   "REPLY", "DELE", "RNFR", "QUIT", "REST", "EPSV", "EPRT", "TYPE", "SIZE"}
      /\ \A e \in {"ACCEPT", "READ", "WRITE", "REPLY"} : e \notin Commands
  BY DEF Codes, Commands
<1>10. HalfRead'
  BY <1>2, <1>3, <1>8 DEF HalfRead
<1>11. StepInv'
  <2>1. CASE Entry \in Codes
    <3>1. Opened'
      BY <1>2, <1>3, <1>5, <1>8, <1>10, <2>1 DEF Opened
    <3> QED BY <1>3, <1>6, <1>8, <1>9, <2>1, <3>1 DEF StepInv
  <2>2. CASE Entry \in {"ACCEPT", "READ", "WRITE", "REPLY"}
    <3>1. Owed'
      BY <1>2, <1>5, <1>8, <1>9, <1>10, <2>2 DEF Owed
    <3> QED BY <1>3, <1>6, <1>8, <1>9, <2>2, <3>1 DEF StepInv
  <2> QED BY <1>8, <2>1, <2>2
<1>12. PeerInv'
  BY <1>2, <1>3, <1>5, <1>6 DEF PeerInv, Core
<1>13. RestInv'
  BY <1>2, <1>3, <1>5, <1>6, <1>8, <1>9 DEF RestInv, Core
<1>14. ~Ended(226) /\ ~Ended(226)'
  BY <1>2, <1>8 DEF Ended
<1>15. wire \in Seq(Nat) /\ dest \in Seq(Nat) /\ stored \in Seq(Nat) /\ done \in Nat
  BY DEF Base, TypeOK, DataOK
<1>16. Got' = Got /\ Beginning' = Beginning
  BY <1>2, <1>3, <1>6, SameGot, SameCame
<1>17. ReadInv'
  <2> SUFFICES ASSUME trouble' = {}, call' \in {"Get", "ListDir"} PROVE ReadInv'
    BY DEF ReadInv
  <2>1. ReadInv /\ trouble = {} /\ call \in {"Get", "ListDir"}
    BY <1>2, <1>3 DEF Core
  <2>2. CASE Entry = "REPLY"
    BY <1>2, <1>3, <1>5, <1>6, <1>9, <1>16, <2>1, <2>2 DEF ReadInv
  <2>3. CASE Entry # "REPLY"
    <3>1. /\ \A i \in 1 .. Len(wire) : wire[i] = Got + i
          /\ xfer.cmd = Transfers[call] /\ xfer.at = Got + Len(wire)
      <4>1. Entry \in Codes \cup {"ACCEPT", "READ"}
        <5>1. Entry # "WRITE"
          BY <1>6, <2>1, EntryMeans
        <5> QED BY <1>8, <2>3, <5>1
      <4> QED BY <1>5, <2>1, <4>1 DEF ReadInv
    <3>2. wire' = Append(wire, xfer.at + 1)
      <4>1. Transfers[call] \notin {"STOR", "APPE"}
        BY <2>1 DEF Transfers
      <4> QED BY <1>4, <3>1, <4>1 DEF Receiving
    <3>3. PICK k \in Nat : k = Got
      <4>1. Len(dest) \in Nat /\ Len(packet) \in Nat
        BY LenProperties DEF Base, TypeOK, DataOK
      <4> QED BY <4>1 DEF Got
    <3>4. Counts(wire, k) /\ xfer.at = k + Len(wire)
      BY <3>1, <3>3 DEF Counts
    <3>5. Counts(wire', k) /\ Len(wire') = Len(wire) + 1
      BY <1>15, <3>2, <3>4, Leaving
    <3>6. xfer'.at = Got' + Len(wire')
      <4>1. Len(wire) \in Nat
        BY <1>15, LenProperties
      <4> QED BY <1>5, <1>16, <3>3, <3>4, <3>5, <4>1
    <3>7. \A i \in 1 .. Len(wire') : wire'[i] = Got' + i
      BY <1>16, <3>3, <3>5 DEF Counts
    <3> QED BY <1>2, <1>3, <1>5, <1>6, <1>14, <1>16, <2>1, <2>3, <3>1, <3>6, <3>7 DEF ReadInv
  <2> QED BY <2>2, <2>3
<1>18. WriteInv'
  <2> SUFFICES ASSUME trouble' = {}, call' \in {"Put", "Append"} PROVE WriteInv'
    BY DEF WriteInv
  <2>1. WriteInv /\ trouble = {} /\ call \in {"Put", "Append"}
    BY <1>2, <1>3 DEF Core
  <2>2. (Entry = "REPLY" => data_error) \/ xfer.cmd = Transfers[call]
    BY <1>5, <2>1 DEF WriteInv
  <2>3. Entry # "READ"
    BY <1>6, <2>1, EntryMeans
  <2>4. xfer.cmd = Transfers[call] => stored' \o wire' = stored \o wire
    <3> SUFFICES ASSUME xfer.cmd = Transfers[call] PROVE stored' \o wire' = stored \o wire
      OBVIOUS
    <3>1. ~Sending
      BY <2>1 DEF Sending, Transfers
    <3> QED BY <1>4, <1>15, <3>1, Arriving
  <2>5. \A n : xfer.cmd = Transfers[call] /\ Row(n) => Row(n)'
    BY <1>3, <2>4 DEF Row
  <2>6. CASE Entry = "REPLY"
    <3>1. ~data_error => xfer.cmd = Transfers[call] /\ Row(Size)
      BY <1>5, <2>1, <2>6 DEF WriteInv
    <3>2. Row(Size) /\ xfer.cmd = Transfers[call] => Row(Size)'
      BY <2>5
    <3> QED BY <1>3, <1>5, <1>6, <1>9, <1>14, <2>6, <3>1, <3>2 DEF WriteInv
  <2>7. CASE Entry # "REPLY"
    <3>1. Entry \in Codes \cup {"ACCEPT", "WRITE"}
      BY <1>8, <2>3, <2>7
    <3>2. xfer.cmd = Transfers[call] /\ Row(done) /\ (Entry \in Codes /\ events = Read => done = 0)
      BY <1>2, <1>5, <2>1, <3>1 DEF WriteInv
    <3>3. Row(done)'
      <4>1. PICK d \in Nat : d = done
        BY <1>15
      <4>2. Row(d)'
        BY <2>5, <3>2, <4>1
      <4> QED BY <1>3, <4>1, <4>2 DEF Row
    <3> QED BY <1>2, <1>3, <1>5, <1>6, <1>14, <2>7, <3>2, <3>3 DEF WriteInv
  <2> QED BY <2>6, <2>7
<1>19. EffectInv' /\ TrueIsDone'
  BY <1>3, <1>6, <1>8, <1>9 DEF EffectInv, TrueIsDone, Succeeds
<1> QED BY <1>7, <1>11, <1>12, <1>13, <1>17, <1>18, <1>19 DEF Core

LEMMA CoreServerEnds ==
  ASSUME Base, OrderInv, Core, NEW code \in {226, 426}, ServerEnds(code)
  PROVE  OrderInv' /\ Core'
<1>1. SUFFICES ASSUME Calm' PROVE OrderInv' /\ Core'
  BY NotCalm
<1>2. /\ xfer # NoXfer /\ ~lost /\ peer' = "closed" /\ xfer' = NoXfer /\ down' = Append(down, code)
      /\ code = 226 => \/ Sending /\ xfer.at = Size
                       \/ Receiving /\ wire = <<>> /\ data = "closed"
      /\ UNCHANGED <<conf, data, wire, up, lost, rest, stored, effect, dest, trouble>>
      /\ UNCHANGED client /\ UNCHANGED flags /\ UNCHANGED offsets
  BY DEF ServerEnds
<1>3. UNCHANGED <<mode, call, ascii, queue, status, events, half, reply, prevcode, opcode, data_error, position, done,
                  packet>>
  BY <1>2 DEF conf, client, flags, offsets
<1>4. Calm /\ Entry' = Entry
  BY <1>1, <1>2, <1>3 DEF Calm, Entry
<1>5. OrderInv'
  BY <1>2, <1>3, <1>4, StaysInOrder
<1>6. /\ Entry \in Codes \cup {"ACCEPT", "READ", "WRITE", "REPLY"} /\ status = "WORKING"
      /\ up = <<>> /\ HalfRead
      /\ Entry \in Codes => opcode \in Codes /\ events = Read /\ down = <<150>>
      /\ Entry \notin Codes => down = <<>>
      /\ Entry \in {"ACCEPT", "READ", "WRITE"} => events = Idle
  BY <1>2, <1>4, RunningWhen
<1>7. /\ Codes \subseteq Commands
      /\ \A e \in Codes : e \notin {"none", "CONNECT", "LOGIN", "DATA", "LISTEN", "ACCEPT", "READ", "WRITE",
                                   "REPLY", "DELE", "RNFR", "QUIT", "REST", "EPSV", "EPRT", "TYPE", "SIZE"}
      /\ \A e \in {"ACCEPT", "READ", "WRITE", "REPLY"} : e \notin Commands /\ e \notin Codes
  BY DEF Codes, Commands
<1>8. /\ Entry \in Codes => down' = <<150, code>> /\ Head(down) = 150
      /\ Entry \notin Codes => down' = <<code>>
  <2>1. Append(<<150>>, code) = <<150, code>>
    BY AppendToOne
  <2>2. Head(<<150>>) = 150 /\ Append(<<>>, code) = <<code>>
    OBVIOUS
  <2>3. CASE Entry \in Codes
    BY <1>2, <1>6, <2>1, <2>2, <2>3
  <2>4. CASE Entry \notin Codes
    BY <1>2, <1>6, <2>2, <2>4
  <2> QED BY <2>3, <2>4
<1>9. down' # <<>> /\ (Ended(226)' => code = 226)
  <2>1. CASE Entry \in Codes
    <3>1. <<150, code>> # <<>> /\ Len(<<150, code>>) = 2 /\ <<150, code>>[2] = code
      OBVIOUS
    <3>2. down' = <<150, code>>
      BY <1>8, <2>1
    <3>3. down' # <<>> /\ down'[Len(down')] = code
      BY <3>1, <3>2
    <3> QED BY <3>3 DEF Ended
  <2>2. CASE Entry \notin Codes
    <3>1. <<code>> # <<>> /\ Len(<<code>>) = 1 /\ <<code>>[1] = code
      OBVIOUS
    <3>2. down' = <<code>>
      BY <1>8, <2>2
    <3>3. down' # <<>> /\ down'[Len(down')] = code
      BY <3>1, <3>2
    <3> QED BY <3>3 DEF Ended
  <2> QED BY <2>1, <2>2
<1>10. HalfRead'
  <2>1. Entry \in Codes => Head(down') = 150
    BY <1>8
  <2> QED BY <1>3, <1>6, <1>8, <1>9, <2>1 DEF HalfRead
<1>11. StepInv'
  <2>1. CASE Entry \in Codes
    <3>1. Opened'
      BY <1>2, <1>3, <1>6, <1>8, <1>10, <2>1 DEF Opened
    <3> QED BY <1>3, <1>4, <1>6, <1>7, <2>1, <3>1 DEF StepInv
  <2>2. CASE Entry \in {"ACCEPT", "READ", "WRITE", "REPLY"}
    <3>1. Owed'
      BY <1>2, <1>6, <1>7, <1>8, <1>10, <2>2 DEF Owed
    <3> QED BY <1>3, <1>4, <1>6, <1>7, <2>2, <3>1 DEF StepInv
  <2> QED BY <1>6, <2>1, <2>2
<1>12. /\ Entry \in Codes /\ mode = "PASSIVE" => data = "open"
       /\ Entry = "WRITE" => data = "open"
  BY <1>4 DEF PeerInv, Core
<1>13. PeerInv'
  BY <1>2, <1>3, <1>4, <1>9, <1>12 DEF PeerInv
<1>14. RestInv'
  BY <1>2, <1>3, <1>4, <1>6, <1>7, <1>9 DEF RestInv, Core
<1>15. Got' = Got /\ Beginning' = Beginning
  BY <1>2, <1>3, <1>4, SameGot, SameCame
<1>16. ReadInv'
  <2> SUFFICES ASSUME trouble' = {}, call' \in {"Get", "ListDir"} PROVE ReadInv'
    BY DEF ReadInv
  <2>1. ReadInv /\ trouble = {} /\ call \in {"Get", "ListDir"}
    BY <1>2, <1>3 DEF Core
  <2>2. CASE Entry = "REPLY"
    BY <1>2, <1>3, <1>4, <1>7, <1>15, <2>1, <2>2 DEF ReadInv
  <2>3. CASE Entry # "REPLY"
    <3>1. Entry \in Codes \cup {"ACCEPT", "READ"}
      <4>1. Entry # "WRITE"
        BY <1>4, <2>1, EntryMeans
      <4> QED BY <1>6, <2>3, <4>1
    <3>2. xfer.cmd = Transfers[call] /\ xfer.at = Got + Len(wire)
      BY <1>2, <2>1, <3>1 DEF ReadInv
    <3>3. ~Receiving
      BY <2>1, <3>2 DEF Receiving, Transfers
    <3>4. Ended(226)' => Got' + Len(wire') = Size
      BY <1>2, <1>9, <1>15, <3>2, <3>3
    <3> QED BY <1>2, <1>3, <1>4, <1>15, <2>1, <2>3, <3>1, <3>4 DEF ReadInv
  <2> QED BY <2>2, <2>3
<1>17. WriteInv'
  <2> SUFFICES ASSUME trouble' = {}, call' \in {"Put", "Append"} PROVE WriteInv'
    BY DEF WriteInv
  <2>1. WriteInv /\ trouble = {} /\ call \in {"Put", "Append"}
    BY <1>2, <1>3 DEF Core
  <2>2. xfer.cmd = Transfers[call] /\ code = 226 => wire = <<>> /\ data = "closed"
    BY <1>2, <2>1 DEF Sending, Transfers
  <2>3. Row(Size)' = Row(Size)
    BY <1>2, <1>3 DEF Row
  <2>4. CASE Entry = "REPLY"
    <3>1. ~data_error => xfer.cmd = Transfers[call] /\ Row(Size)
      BY <1>2, <2>1, <2>4 DEF WriteInv
    <3> QED BY <1>2, <1>3, <1>4, <1>7, <1>9, <2>2, <2>3, <2>4, <3>1 DEF WriteInv
  <2>5. CASE Entry # "REPLY"
    <3>1. Entry \in Codes \cup {"ACCEPT", "WRITE"}
      <4>1. Entry # "READ"
        BY <1>4, <2>1, EntryMeans
      <4> QED BY <1>6, <2>5, <4>1
    <3>2. xfer.cmd = Transfers[call] /\ (Entry \in Codes /\ events = Read => done = 0)
      BY <1>2, <2>1, <3>1 DEF WriteInv
    <3>3. Entry = "WRITE" \/ (Entry \in Codes /\ mode = "PASSIVE") => ~Ended(226)'
      BY <1>9, <1>12, <2>2, <3>2
    <3> QED BY <1>2, <1>3, <1>4, <2>5, <3>2, <3>3 DEF WriteInv
  <2> QED BY <2>4, <2>5
<1>18. EffectInv' /\ TrueIsDone'
  BY <1>3, <1>4, <1>6, <1>7 DEF EffectInv, TrueIsDone, Succeeds
<1> QED BY <1>5, <1>11, <1>13, <1>14, <1>16, <1>17, <1>18 DEF Core

\* ABOR is only on its way after an Abort.
LEMMA CoreServerAborts == ASSUME Base, OrderInv, Core, ServerAborts PROVE OrderInv' /\ Core'
<1>1. SUFFICES ASSUME Calm' PROVE OrderInv' /\ Core'
  BY NotCalm
<1>2. Calm /\ ~lost /\ up # <<>> /\ Head(up) = "ABOR"
  BY <1>1 DEF ServerAborts, Calm
<1>3. \E c \in {"USER", "PASS", "ACCT"} \cup Opcodes : up = <<c>>
  BY <1>2, AskedWhen DEF Base, TypeOK, LineOK
<1>4. PICK c \in {"USER", "PASS", "ACCT"} \cup Opcodes : up = <<c>>
  BY <1>3
<1>5. c = "ABOR"
  BY <1>2, <1>4
<1> QED BY <1>4, <1>5 DEF Opcodes, Commands

LEMMA CoreBreaks == ASSUME Base, OrderInv, Core, Breaks PROVE OrderInv' /\ Core'
<1>1. /\ lost' = TRUE /\ up' = <<>> /\ down' = <<>> /\ peer' = "closed" /\ xfer' = NoXfer
      /\ UNCHANGED <<conf, data, wire, rest, stored, effect, dest, trouble>>
      /\ UNCHANGED client /\ UNCHANGED flags /\ UNCHANGED offsets /\ status = "WORKING"
  BY DEF Breaks
<1>2. UNCHANGED <<mode, call, ascii, queue, status, events, half, reply, prevcode, opcode, data_error, position, done,
                  packet>>
  BY <1>1 DEF conf, client, flags, offsets
<1>3. SUFFICES ASSUME Calm' PROVE OrderInv' /\ Core'
  BY NotCalm
<1>4. Calm /\ Entry' = Entry
  BY <1>1, <1>2, <1>3 DEF Calm, Entry
<1>5. OrderInv'
  BY <1>1, <1>2, <1>4, StaysInOrder
<1>6. StepInv'
  BY <1>1 DEF StepInv
<1>7. PeerInv'
  BY <1>1, <1>2, <1>4 DEF PeerInv, Core
<1>8. RestInv'
  BY <1>1, <1>2, <1>4 DEF RestInv, Core
<1>9. ~Ended(226)'
  BY <1>1 DEF Ended
<1>10. ReadInv'
  <2>1. Got' = Got /\ Beginning' = Beginning
    BY <1>1, <1>2, <1>4, SameGot, SameCame
  <2> QED BY <1>1, <1>2, <1>4, <1>9, <2>1 DEF ReadInv, Core
<1>11. WriteInv'
  BY <1>1, <1>9 DEF WriteInv
<1>12. EffectInv'
  BY <1>1, <1>2, <1>4 DEF EffectInv, Core
<1>13. TrueIsDone'
  BY <1>1, <1>2 DEF TrueIsDone, Succeeds
<1> QED BY <1>5, <1>6, <1>7, <1>8, <1>10, <1>11, <1>12, <1>13 DEF Core

---------------------------------------------------------------------------
\* The theorems.

LEMMA FtpInvParts == FtpInv <=> Base /\ OrderInv /\ Core
BY DEF FtpInv, Base, Core

LEMMA BaseNext == ASSUME Base, [Next]_vars PROVE Base'
<1>1. CASE UNCHANGED vars
  <2>1. UNCHANGED conf /\ UNCHANGED client /\ UNCHANGED flags /\ UNCHANGED offsets /\ UNCHANGED socks
        /\ UNCHANGED server /\ UNCHANGED <<up, down, lost, dest, trouble>>
    BY <1>1 DEF vars
  <2>2. CallOK' /\ QueueOK' /\ ConnectInv' /\ Entry' = Entry
    BY <2>1, QueueKept DEF client
  <2>3. LineOK'
    BY <2>1 DEF Base, TypeOK, LineOK, client, flags
  <2>4. DataOK'
    BY <2>1 DEF Base, TypeOK, DataOK, socks, flags, offsets, server
  <2>5. OpcodeInv' /\ LostInv' /\ AbortInv'
    BY <2>1, <2>2 DEF Base, OpcodeInv, LostInv, AbortInv, client, flags, server
  <2> QED BY <2>2, <2>3, <2>4, <2>5 DEF Base, TypeOK
<1>2. CASE \E op \in Ops \cup {"Connect"}, again \in BOOLEAN : Run(op, again)
  BY <1>2, BaseRun
<1>3. CASE Abort
  BY <1>3, BaseAbort
<1>4. CASE ClientStep
  BY <1>4, BaseBegins, BasePutGetSends, BasePutGetReadsCode, BasePutGetEnds, BaseLogin, BaseConnectBegins,
     BaseConnectEnds, BaseDataBegins, BaseDataConnects, BaseListens, BaseAccepts, BaseAbortPuts, BaseReads,
     BaseWrites DEF ClientStep
<1>5. CASE PutGetFails \/ AcceptFails \/ DataFails
  BY <1>5, BasePutGetFails, BaseAccepts, BaseDataFails
<1>6. CASE Server \/ Breaks
  BY <1>6, BaseServerAnswers, BaseServerMoves, BaseServerEnds, BaseServerAborts, BaseBreaks DEF Server
<1> QED BY <1>1, <1>2, <1>3, <1>4, <1>5, <1>6 DEF Next, Turn

LEMMA CoreNext == ASSUME Base, OrderInv, Core, [Next]_vars PROVE OrderInv' /\ Core'
<1>0. Base'
  BY BaseNext
<1>1. CASE UNCHANGED vars
  <2>1. UNCHANGED conf /\ UNCHANGED client /\ UNCHANGED flags /\ UNCHANGED offsets /\ UNCHANGED socks
        /\ UNCHANGED server /\ UNCHANGED <<up, down, lost, dest, trouble>>
    BY <1>1 DEF vars
  <2>2. /\ UNCHANGED <<mode, call, ascii, packet, queue, status, events, half, reply, prevcode, opcode, connected, data_error>>
        /\ UNCHANGED <<position, done, data, peer, wire, xfer, rest, stored, effect>>
    BY <2>1 DEF conf, client, flags, offsets, socks, server
  <2>3. SUFFICES ASSUME Calm' PROVE OrderInv' /\ Core'
    BY NotCalm
  <2>4. Calm /\ Entry' = Entry
    BY <2>1, <2>2, <2>3 DEF Calm, Entry
  <2>5. OrderInv'
    BY <2>1, <2>2, <2>4, StaysInOrder
  <2>6. PeerInv' /\ RestInv' /\ ReadInv' /\ WriteInv' /\ EffectInv' /\ TrueIsDone'
    BY <2>1, <2>2, <2>4, Kept DEF Core
  <2>7. StepInv'
    <3>1. (Silent <=> Silent') /\ (Quiet <=> Quiet') /\ (Opened <=> Opened') /\ (Owed <=> Owed')
      BY <2>1, <2>2 DEF Silent, Quiet, Opened, Owed, HalfRead
    <3>2. \A c : Talking(c) <=> Talking(c)'
      BY <2>1, <2>2 DEF Talking, Asked, Answered, HalfRead
    <3>3. StepInv
      BY DEF Core
    <3> QED BY <2>1, <2>2, <2>4, <3>1, <3>2, <3>3 DEF StepInv
  <2> QED BY <2>5, <2>6, <2>7 DEF Core
<1>2. CASE \E op \in Ops \cup {"Connect"}, again \in BOOLEAN : Run(op, again)
  BY <1>0, <1>2, CoreRun
<1>3. CASE Abort
  BY <1>3, CoreAbort
<1>4. CASE ClientStep
  <2>1. CASE Begins \/ PutGetSends \/ PutGetReadsCode \/ PutGetEnds
    BY <2>1, CoreBegins, CorePutGetSends, CorePutGetReadsCode, CorePutGetEnds
  <2>2. CASE LoginEnds \/ LoginThrows
    BY <2>2, CoreLoginEnds, CoreLoginThrows
  <2>3. CASE ConnectBegins \/ ConnectEnds
    BY <1>0, <2>3, CoreConnectBegins, CoreConnectEnds DEF Base
  <2>4. CASE DataBegins \/ DataConnects \/ Listens \/ Accepts
    BY <1>0, <2>4, CoreDataBegins, CoreDataConnects, CoreListens, CoreAccepts
  <2>5. CASE AbortPuts
    BY <2>5, CoreAbortPuts
  <2>6. CASE \E n \in 0 .. Size : Reads(n) \/ Writes(n)
    BY <2>6, CoreReads, CoreWrites
  <2> QED BY <1>4, <2>1, <2>2, <2>3, <2>4, <2>5, <2>6 DEF ClientStep
<1>5. CASE PutGetFails \/ AcceptFails \/ DataFails
  BY <1>5, CorePutGetFails, CoreAcceptFails, CoreDataFails
<1>6. CASE Server \/ Breaks
  BY <1>6, CoreServerAnswers, CoreServerMoves, CoreServerEnds, CoreServerAborts, CoreBreaks DEF Server
<1> QED BY <1>1, <1>2, <1>3, <1>4, <1>5, <1>6 DEF Next, Turn

\* The client's queue, the control connection and the data connection always
\* agree: where Do0 is in the queue says what is on the way between client and
\* server, and how much of the file is where.
THEOREM FtpInvariant == Spec => []FtpInv
<1>1. Init => FtpInv
  BY InitBase, InitCore, FtpInvParts
<1>2. FtpInv /\ [Next]_vars => FtpInv'
  BY BaseNext, CoreNext, FtpInvParts DEF FtpInv, Base, Core
<1> QED BY <1>1, <1>2, PTL DEF Spec

\* Between two calls of the client no command waits for its reply, no reply is
\* unread and no transfer runs: the next PutGet reads the answer to its own
\* command, whatever the calls, their failures and the size of the file were.
THEOREM StaysInStep == Spec => []InStep
<1>1. FtpInv => InStep
  <2> SUFFICES ASSUME FtpInv, status # "WORKING", connected, ~lost, Calm
               PROVE  up = <<>> /\ down = <<>> /\ events = Idle /\ xfer = NoXfer
    BY DEF InStep, Calm
  <2>1. Entry = "none"
    BY DEF FtpInv, TypeOK, QueueOK, Entry
  <2>2. Silent
    BY <2>1 DEF FtpInv, StepInv
  <2> QED BY <2>2 DEF Silent
<1> QED BY <1>1, FtpInvariant, PTL

\* A call that returns true, without a data error, over a connection with no
\* trouble so far, has done what it was asked for: the whole file has gone or has
\* come (by lines: every line that ends, without its CRs), the command was carried out.
THEOREM TrueMeansDone == Spec => []TrueIsDone
<1>1. FtpInv => TrueIsDone
  BY DEF FtpInv
<1> QED BY <1>1, FtpInvariant, PTL
=============================================================================
