------------------------------ MODULE VTParser ------------------------------
(***************************************************************************)
(* CtrlLib/Terminal: VTInStream, the lexical parser of escape sequences.     *)
(*                                                                           *)
(* The bytes of a terminal come in chunks of any size.  Parse runs over one   *)
(* chunk; what it has not finished stays in the parser until the next one.   *)
(* Events are what the parser calls back with.  Splitting the collected      *)
(* parameters at the semicolons is left out: an event carries them as bytes. *)
(***************************************************************************)
EXTENDS Integers, Sequences, SequencesExt

CONSTANTS Bytes,          \* the bytes that are sent to a parser of bytes
          Utf8Bytes,      \* the bytes that are sent to a parser of UTF-8
          MaxBytes,       \* bound: bytes sent in all to a parser of bytes
          MaxUtf8Bytes    \* bound: bytes sent in all to a parser of UTF-8

ASSUME ParserAssumption == /\ Bytes \subseteq 0 .. 255 /\ Utf8Bytes \subseteq 0 .. 255
                           /\ MaxBytes \in Nat /\ MaxUtf8Bytes \in Nat

VARIABLES utf8,           \* the mode of every call of Parse
          sent,           \* history: all bytes sent so far
          bare,           \* history: a chunk ended within a code point and held no
                          \*   whole one
          input, ptr,     \* the chunk, and where the next byte is read
          buffer,         \* bytes kept for the next chunk
          state,
          sequence, collected,
          events,         \* history: the calls of the handlers
          waschr

vars == <<utf8, sent, bare, input, ptr, buffer, state, sequence, collected, events, waschr>>

---------------------------------------------------------------------------
\* The state maps.  A row says what a byte from lo to hi does, and what is next.

Row(lo, hi, action, next) == [lo |-> lo, hi |-> hi, action |-> action, next |-> next]

\* The rows of a state, and those of base for the other bytes.
Over(rows, base) ==
    rows \cup {b \in base : \A r \in rows : b.hi < r.lo \/ r.hi < b.lo}

\* C1 controls, the same in most states.
C1Rows == {Row(\H80, \H8f, "Control", "Ground"), Row(\H90, \H90, "Ignore", "DcsEntry"),
           Row(\H91, \H97, "Control", "Ground"), Row(\H98, \H98, "Ignore", "Ignore"),
           Row(\H99, \H9a, "Control", "Ground"), Row(\H9b, \H9b, "Ignore", "CsiEntry"),
           Row(\H9c, \H9c, "Ignore", "Repeat"),  Row(\H9d, \H9d, "Ignore", "OscString"),
           Row(\H9e, \H9e, "Ignore", "Ignore"),  Row(\H9f, \H9f, "Ignore", "ApcString")}

\* C0 controls: CAN and SUB end a sequence, ESC starts one, the others act as given.
C0Rows(action) == {Row(\H00, \H17, action, "Repeat"), Row(\H18, \H18, "Control", "Ground"),
                   Row(\H19, \H19, action, "Repeat"), Row(\H1a, \H1a, "Control", "Ground"),
                   Row(\H1b, \H1b, "Ignore", "EscEntry"), Row(\H1c, \H1f, action, "Repeat")}

Executing == C0Rows("Control") \cup C1Rows \cup {Row(\H7f, \H7f, "Control", "Repeat")}
Ignoring  == C0Rows("Ignore") \cup C1Rows

EscEntryRows ==
    Over({Row(\H1b, \H1b, "Ignore", "Repeat"),      Row(\H20, \H2f, "Collect", "EscIntermediate"),
          Row(\H30, \H4f, "DispatchEsc", "Ground"), Row(\H50, \H50, "Ignore", "DcsEntry"),
          Row(\H51, \H57, "DispatchEsc", "Ground"), Row(\H58, \H58, "Ignore", "Ignore"),
          Row(\H59, \H5a, "DispatchEsc", "Ground"), Row(\H5b, \H5b, "Ignore", "CsiEntry"),
          Row(\H5c, \H5c, "DispatchEsc", "Ground"), Row(\H5d, \H5d, "Ignore", "OscString"),
          Row(\H5e, \H5e, "Ignore", "Ignore"),      Row(\H5f, \H5f, "Ignore", "ApcString"),
          Row(\H60, \H7e, "DispatchEsc", "Ground")}, Executing)

EscIntermediateRows ==
    {Row(\H20, \H2f, "Collect", "Repeat"), Row(\H30, \H7e, "DispatchEsc", "Ground")} \cup Executing

CsiEntryRows ==
    Over({Row(\H20, \H2f, "Collect", "CsiIntermediate"), Row(\H30, \H3b, "Parameter", "CsiParameter"),
          Row(\H3c, \H3f, "Mode", "CsiParameter"),       Row(\H40, \H7e, "DispatchCsi", "Ground"),
          Row(\H9b, \H9b, "Ignore", "Repeat")}, Executing)

CsiParameterRows ==
    {Row(\H20, \H2f, "Collect", "CsiIntermediate"), Row(\H30, \H3b, "Parameter", "Repeat"),
     Row(\H3c, \H3f, "Ignore", "CsiIgnore"), Row(\H40, \H7e, "DispatchCsi", "Ground")} \cup Executing

CsiIntermediateRows ==
    {Row(\H20, \H2f, "Collect", "Repeat"), Row(\H30, \H3f, "Ignore", "CsiIgnore"),
     Row(\H40, \H7e, "DispatchCsi", "Ground")} \cup Executing

CsiIgnoreRows ==
    {Row(\H20, \H3f, "Ignore", "Repeat"), Row(\H40, \H7e, "Ignore", "Ground")} \cup Executing

DcsFinal == {Row(\H40, \H7e, "Final", "DcsPassthrough"), Row(\H7f, \H7f, "Control", "Repeat")}

DcsEntryRows ==
    Over({Row(\H20, \H2f, "Collect", "DcsIntermediate"), Row(\H30, \H3b, "Parameter", "DcsParameter"),
          Row(\H3c, \H3f, "Mode", "DcsParameter"), Row(\H90, \H90, "Ignore", "Repeat")} \cup DcsFinal,
         Ignoring)

DcsParameterRows ==
    {Row(\H20, \H2f, "Collect", "DcsIntermediate"), Row(\H30, \H3b, "Parameter", "Repeat"),
     Row(\H3c, \H3f, "Ignore", "DcsIgnore")} \cup DcsFinal \cup Ignoring

DcsIntermediateRows ==
    {Row(\H20, \H2f, "Collect", "Repeat"), Row(\H30, \H3f, "Ignore", "DcsIgnore")}
        \cup DcsFinal \cup Ignoring

DcsPassthroughRows ==
    Over({Row(\H1b, \H1b, "DispatchDcs", "EscEntry"), Row(\H20, \H7e, "Passthrough", "Repeat"),
          Row(\H7f, \H7f, "Control", "Repeat"),       Row(\H9c, \H9c, "DispatchDcs", "Ground")},
         C0Rows("Passthrough") \cup C1Rows)

DcsIgnoreRows ==
    Over({Row(\H20, \H7f, "Ignore", "Repeat"), Row(\H9c, \H9c, "Ignore", "Ground")}, Ignoring)

\* OSC and APC strings end with BEL, ST or ESC.
StringRows(dispatch) ==
    {Row(\H00, \H06, "Ignore", "Repeat"),  Row(\H07, \H07, dispatch, "Ground"),
     Row(\H08, \H17, "Ignore", "Repeat"),  Row(\H1b, \H1b, dispatch, "EscEntry"),
     Row(\H20, \H7f, "String", "Repeat"),  Row(\H9c, \H9c, dispatch, "Ground"),
     Row(\H9d, \H9d, "Ignore", "Repeat")}

OscStringRows ==
    Over(StringRows("DispatchOsc") \cup {Row(\Ha0, \Hff, "String", "Repeat")}, Ignoring)
ApcStringRows == Over(StringRows("DispatchApc"), Ignoring)

GroundRows ==
    Over({Row(\H18, \H18, "Control", "Repeat"), Row(\H1a, \H1a, "Control", "Repeat"),
          Row(\H20, \H7e, "Ground", "Repeat"),  Row(\H80, \H8f, "Control", "Repeat"),
          Row(\H91, \H97, "Control", "Repeat"), Row(\H99, \H9a, "Control", "Repeat"),
          Row(\Ha0, \Hff, "Ground", "Repeat")}, Executing)

\* SOS and PM are ignored.
IgnoreRows ==
    Over({Row(\H20, \H7f, "Ignore", "Repeat"), Row(\H98, \H98, "Ignore", "Repeat"),
          Row(\H9c, \H9c, "Ignore", "Ground"), Row(\H9e, \H9e, "Ignore", "Repeat")}, Ignoring)

\* Mutant: CAN and SUB do not end a device control string.
TableNoCancel ==
    [Ground |-> GroundRows, Ignore |-> IgnoreRows,
     EscEntry |-> EscEntryRows, EscIntermediate |-> EscIntermediateRows,
     CsiEntry |-> CsiEntryRows, CsiParameter |-> CsiParameterRows,
     CsiIntermediate |-> CsiIntermediateRows, CsiIgnore |-> CsiIgnoreRows,
     DcsEntry |-> DcsEntryRows, DcsParameter |-> DcsParameterRows,
     DcsIntermediate |-> DcsIntermediateRows, DcsIgnore |-> DcsIgnoreRows,
     DcsPassthrough |-> Over({Row(\H00, \H1a, "Passthrough", "Repeat")}, DcsPassthroughRows),
     OscString |-> OscStringRows, ApcString |-> ApcStringRows]

Table ==
    [Ground |-> GroundRows, Ignore |-> IgnoreRows,
     EscEntry |-> EscEntryRows, EscIntermediate |-> EscIntermediateRows,
     CsiEntry |-> CsiEntryRows, CsiParameter |-> CsiParameterRows,
     CsiIntermediate |-> CsiIntermediateRows, CsiIgnore |-> CsiIgnoreRows,
     DcsEntry |-> DcsEntryRows, DcsParameter |-> DcsParameterRows,
     DcsIntermediate |-> DcsIntermediateRows, DcsIgnore |-> DcsIgnoreRows,
     DcsPassthrough |-> DcsPassthroughRows,
     OscString |-> OscStringRows, ApcString |-> ApcStringRows]

Void == Row(0, 0, "Ignore", "Repeat")

\* Code points above the bytes belong to the rows that end with the last byte.
GetState(s, c) ==
    LET fit == {r \in Table[s] : r.lo <= c /\ (c <= r.hi \/ r.hi = \Hff)}
    IN  IF fit = {} THEN Void ELSE CHOOSE r \in fit : TRUE

---------------------------------------------------------------------------
\* Reading.

Idle == ptr > Len(input)

Replacement == \Hfffd
NoChar == -1

Continuation(b) == \H80 <= b /\ b < \Hc0

\* The bytes of a code point by its first one; none for a continuation.
Width(b) == IF b < \H80 THEN 1 ELSE IF b < \Hc0 THEN 0 ELSE IF b < \He0 THEN 2
            ELSE IF b < \Hf0 THEN 3 ELSE IF b < \Hf8 THEN 4 ELSE 0

\* The code point that begins at place i of s: six bits for each byte after the first.
CodePoint(s, i) ==
    LET w == Width(s[i])
    IN  FoldLeft(LAMBDA c, b : 64 * c + b - \H80,
                 s[i] - <<0, \Hc0, \He0, \Hf0>>[w], SubSeq(s, i + 1, i + w - 1))

\* Stream::GetUtf8 of the Core library.  It reads as many bytes as the first one
\* says, or up to the end of the chunk.
GetUtf8 ==
    LET b == input[ptr]
        end == ptr + Width(b)
    IN  IF Width(b) = 0 \/ b \in {\Hc0, \Hc1} THEN [c |-> NoChar, ptr |-> ptr + 1]
        ELSE IF end > Len(input) + 1 THEN [c |-> NoChar, ptr |-> Len(input) + 1]
        ELSE [c |-> CodePoint(input, ptr), ptr |-> end]

GetChr ==
    IF input[ptr] < \H80 \/ ~utf8 THEN [c |-> input[ptr], ptr |-> ptr + 1]
    ELSE IF GetUtf8.c = NoChar /\ GetUtf8.ptr <= Len(input)
    THEN [c |-> Replacement, ptr |-> ptr + 1]
    ELSE GetUtf8

\* How many bytes at the end of a chunk sCheckSplit takes for the part of a code
\* point: those after the last whole one it finds, none if it finds none.
SplitTail(s) ==
    LET After(i) == Len(s) - i + 1 - Width(s[i])
        whole == {i \in 1 .. Len(s) : Width(s[i]) > 0 /\ After(i) >= 0}
    IN  IF whole = {} THEN 0 ELSE After(CHOOSE i \in whole : \A j \in whole : j <= i)

\* The text s ends within a code point.
Breaks(s) == \E i \in 1 .. Len(s) : /\ i + Width(s[i]) > Len(s) + 1
                                   /\ \A k \in i + 1 .. Len(s) : Continuation(s[k])

\* The text breaks off within a code point at the end of this chunk, and
\* sCheckSplit finds no whole one in the chunk and takes all of it for whole.
Bare(chunk) == utf8 /\ Breaks(sent \o chunk) /\ SplitTail(chunk) = 0

\* The run of bytes in S from position i of the chunk on.
RunEnd(i, S) == CHOOSE j \in i .. Len(input) + 1 :
                   /\ \A k \in i .. j - 1 : input[k] \in S
                   /\ j <= Len(input) => input[j] \notin S

---------------------------------------------------------------------------
\* Handlers.

None == 0
NewSequence == [opcode |-> None, mode |-> None, intermediate |-> <<None, None, None, None>>,
                payload |-> <<>>]

Char(c)    == [type |-> "CHR", c |-> c]
Control(c) == [type |-> "CTL", c |-> c]

\* What a handler of sequences is given.
Dispatched(type, s, params) ==
    [type |-> type, opcode |-> s.opcode, mode |-> s.mode, intermediate |-> s.intermediate,
     payload |-> s.payload, parameters |-> params]

Restarting == {"EscEntry", "CsiEntry", "DcsEntry", "OscString", "ApcString", "Ignore"}

Init == /\ utf8 \in BOOLEAN /\ bare = FALSE
        /\ sent = <<>> /\ input = <<>> /\ ptr = 1 /\ buffer = <<>>
        /\ state = "Ground" /\ sequence = NewSequence /\ collected = <<>>
        /\ events = <<>> /\ waschr = FALSE

\* Mutant: a chunk starts with nothing collected.
ReceiveAnew(chunk) ==
    /\ Idle
    /\ LET n == IF utf8 THEN SplitTail(chunk) ELSE 0
           k == Len(chunk) - n
       IN  /\ input' = (IF utf8 THEN buffer ELSE <<>>) \o SubSeq(chunk, 1, k)
           /\ buffer' = SubSeq(chunk, k + 1, Len(chunk))
    /\ ptr' = 1
    /\ sent' = sent \o chunk
    /\ bare' = (bare \/ Bare(chunk))
    /\ collected' = <<>>
    /\ UNCHANGED <<utf8, state, sequence, events, waschr>>

\* Mutant: what was kept of the last chunk is not put before this one.
ReceiveDropsKept(chunk) ==
    /\ Idle
    /\ LET k == Len(chunk) - IF utf8 THEN SplitTail(chunk) ELSE 0
       IN  input' = SubSeq(chunk, 1, k) /\ buffer' = SubSeq(chunk, k + 1, Len(chunk))
    /\ ptr' = 1
    /\ sent' = sent \o chunk
    /\ bare' = (bare \/ Bare(chunk))
    /\ UNCHANGED <<utf8, state, sequence, collected, events, waschr>>

\* Parse begins: CheckLoadData.
Receive(chunk) ==
    /\ Idle
    /\ LET n == IF utf8 THEN SplitTail(chunk) ELSE 0
           k == Len(chunk) - n
       IN  /\ input' = (IF utf8 THEN buffer ELSE <<>>) \o SubSeq(chunk, 1, k)
           /\ buffer' = SubSeq(chunk, k + 1, Len(chunk))
    /\ ptr' = 1
    /\ sent' = sent \o chunk
    /\ bare' = (bare \/ Bare(chunk))
    /\ UNCHANGED <<utf8, state, sequence, collected, events, waschr>>

---------------------------------------------------------------------------
\* One turn of the loop of Parse: a character is read, its row found, the row's
\* action done, and the row's state entered.

Turn(action) == ~Idle /\ GetState(state, GetChr.c).action = action

\* NextState, given the sequence and the parameters as the action leaves them.
Enters(next, s, params) ==
    /\ state' = IF next = "Repeat" THEN state ELSE next
    /\ sequence' = IF next \in Restarting THEN NewSequence ELSE s
    /\ collected' = IF next \in Restarting THEN <<>> ELSE params
    /\ UNCHANGED <<utf8, sent, bare, input, buffer>>

Next0 == GetState(state, GetChr.c).next

Ignores ==
    /\ Turn("Ignore")
    /\ ptr' = GetChr.ptr
    /\ Enters(Next0, sequence, collected)
    /\ UNCHANGED <<events, waschr>>

SetsMode ==
    /\ Turn("Mode")
    /\ ptr' = GetChr.ptr
    /\ Enters(Next0, [sequence EXCEPT !.mode = GetChr.c], collected)
    /\ UNCHANGED <<events, waschr>>

SetsFinal ==
    /\ Turn("Final")
    /\ ptr' = GetChr.ptr
    /\ Enters(Next0, [sequence EXCEPT !.opcode = GetChr.c], collected)
    /\ UNCHANGED <<events, waschr>>

CallsControl ==
    /\ Turn("Control")
    /\ ptr' = GetChr.ptr
    /\ events' = Append(events, Control(GetChr.c))
    /\ Enters(Next0, sequence, collected)
    /\ UNCHANGED waschr

\* CollectChr calls for a run of characters; here it is one at a time.
CallsChr ==
    /\ Turn("Ground")
    /\ ptr' = GetChr.ptr
    /\ events' = Append(events, Char(GetChr.c))
    /\ waschr' = TRUE
    /\ Enters(Next0, sequence, collected)

CollectsParameter ==
    /\ Turn("Parameter")
    /\ LET end == RunEnd(GetChr.ptr, \H30 .. \H3b)
       IN  /\ ptr' = end
           /\ Enters(Next0, sequence, collected \o SubSeq(input, GetChr.ptr - 1, end - 1))
    /\ UNCHANGED <<events, waschr>>

\* The byte after an intermediate one is stored in its place; past the chunk
\* there is some byte.
CollectsIntermediate ==
    /\ Turn("Collect")
    /\ LET first == GetChr.ptr
           end == RunEnd(first, \H20 .. \H2f)
           n == IF end - first < 4 THEN end - first ELSE 4
           byte(i) == IF i <= Len(input) THEN {input[i]} ELSE Bytes \cup Utf8Bytes \cup {None}
       IN  /\ ptr' = first + n
           /\ \E b \in byte(first + n) :
                 LET stored(i) == IF i = 1 THEN GetChr.c
                                  ELSE IF i - 1 > n THEN sequence.intermediate[i]
                                  ELSE IF first + i - 1 <= Len(input) THEN input[first + i - 1]
                                  ELSE b
                 IN  Enters(Next0, [sequence EXCEPT !.intermediate = [i \in 1 .. 4 |-> stored(i)]],
                            collected)
    /\ UNCHANGED <<events, waschr>>

\* CollectPayload and CollectString: the run starts with the last byte that was read.
Collects(S) ==
    LET end == RunEnd(GetChr.ptr, S)
    IN  /\ ptr' = end
        /\ Enters(Next0, [sequence EXCEPT !.payload = @ \o SubSeq(input, GetChr.ptr - 1, end - 1)],
                  collected)
        /\ UNCHANGED <<events, waschr>>

CollectsPayload == Turn("Passthrough") /\ Collects((\H00 .. \H17) \cup {\H19} \cup (\H20 .. \H7e))
CollectsString  == Turn("String") /\ Collects((\H20 .. \H7f) \cup IF utf8 THEN \Ha0 .. \Hff ELSE {})

Dispatches(type, s) ==
    /\ ptr' = GetChr.ptr
    /\ events' = Append(events, Dispatched(type, s, collected))
    /\ waschr' = FALSE
    /\ Enters(Next0, s, collected)

DispatchesEsc == Turn("DispatchEsc") /\ Dispatches("ESC", [sequence EXCEPT !.opcode = GetChr.c])
DispatchesCsi == Turn("DispatchCsi") /\ Dispatches("CSI", [sequence EXCEPT !.opcode = GetChr.c])
DispatchesDcs == Turn("DispatchDcs") /\ Dispatches("DCS", sequence)
DispatchesOsc == Turn("DispatchOsc") /\ Dispatches("OSC", sequence)
DispatchesApc == Turn("DispatchApc") /\ Dispatches("APC", sequence)

\* The bytes that may be sent, and how many in all.
Sent  == IF utf8 THEN Utf8Bytes ELSE Bytes
Limit == IF utf8 THEN MaxUtf8Bytes ELSE MaxBytes

Next == \/ \E n \in 1 .. Limit - Len(sent) : \E chunk \in [1 .. n -> Sent] : Receive(chunk)
        \/ Ignores \/ SetsMode \/ SetsFinal \/ CallsControl \/ CallsChr
        \/ CollectsParameter \/ CollectsIntermediate \/ CollectsPayload \/ CollectsString
        \/ DispatchesEsc \/ DispatchesCsi \/ DispatchesDcs \/ DispatchesOsc \/ DispatchesApc

Spec == Init /\ [][Next]_vars

---------------------------------------------------------------------------
\* What the parser should call for the characters of a stream: the same machine,
\* one character after the other.  `beyond': the string at hand has characters
\* beyond ASCII; `broken': a string was ended by a C1 control as a code point.

Whole == [state |-> "Ground", opcode |-> None, mode |-> None, intermediate |-> <<>>,
          parameters |-> <<>>, payload |-> <<>>, events |-> <<>>,
          beyond |-> FALSE, broken |-> FALSE]

Called(r, type) == [type |-> type, opcode |-> r.opcode, mode |-> r.mode,
                    intermediate |-> r.intermediate, payload |-> r.payload,
                    parameters |-> r.parameters, beyond |-> r.beyond]

Acted(r, c, action) ==
    CASE action = "Ignore"      -> r
      [] action = "Mode"        -> [r EXCEPT !.mode = c]
      [] action = "Final"       -> [r EXCEPT !.opcode = c]
      [] action = "Control"     -> [r EXCEPT !.events = Append(@, Control(c))]
      [] action = "Ground"      -> [r EXCEPT !.events = Append(@, Char(c))]
      [] action = "Parameter"   -> [r EXCEPT !.parameters = Append(@, c)]
      [] action = "Collect"     -> [r EXCEPT !.intermediate = Append(@, c)]
      [] action \in {"Passthrough", "String"} -> [r EXCEPT !.payload = Append(@, c)]
      [] action = "DispatchEsc" -> [r EXCEPT !.events = Append(@, Called([r EXCEPT !.opcode = c], "ESC"))]
      [] action = "DispatchCsi" -> [r EXCEPT !.events = Append(@, Called([r EXCEPT !.opcode = c], "CSI"))]
      [] action = "DispatchDcs" -> [r EXCEPT !.events = Append(@, Called(r, "DCS"))]
      [] action = "DispatchOsc" -> [r EXCEPT !.events = Append(@, Called(r, "OSC"))]
      [] action = "DispatchApc" -> [r EXCEPT !.events = Append(@, Called(r, "APC"))]

InString(r, c) == utf8 /\ c >= \H80 /\ r.state \in {"OscString", "ApcString"}

Taken(r, c) ==
    LET row == GetState(r.state, c)
        m   == [r EXCEPT !.beyond = @ \/ InString(r, c),
                         !.broken = @ \/ (InString(r, c) /\ c < \Ha0)]
        a   == Acted(m, c, row.action)
    IN  IF row.next \in Restarting
        THEN [Whole EXCEPT !.state = row.next, !.events = a.events, !.broken = a.broken]
        ELSE IF row.next = "Repeat" THEN a ELSE [a EXCEPT !.state = row.next]

WholeText(chars) == FoldLeft(Taken, Whole, chars)

\* Several intermediate bytes are not compared (Parser.cpp:586 stores the byte after
\* the one it tests), nor the text of a string with characters beyond ASCII.
SameCall(e, f) ==
    /\ e.type = f.type
    /\ IF e.type \in {"CHR", "CTL"} THEN e.c = f.c
       ELSE /\ e.opcode = f.opcode /\ e.mode = f.mode
            /\ f.beyond \/ e.payload = f.payload
            /\ e.parameters = f.parameters
            /\ Len(f.intermediate) = 0 => e.intermediate[1] = None
            /\ Len(f.intermediate) = 1 => e.intermediate = <<f.intermediate[1], None, None, None>>

SameCalls(s, t) == Len(s) = Len(t) /\ \A i \in 1 .. Len(s) : SameCall(s[i], t[i])

\* A text of whole code points, and these.
Complete(s) ==
    \A i \in 1 .. Len(s) :
       IF Continuation(s[i])
       THEN \E k \in 1 .. i - 1 : /\ k + Width(s[k]) > i
                                 /\ \A l \in k + 1 .. i - 1 : Continuation(s[l])
       ELSE /\ Width(s[i]) > 0 /\ i + Width(s[i]) <= Len(s) + 1
            /\ \A l \in i + 1 .. i + Width(s[i]) - 1 : Continuation(s[l])
Decoded(s) ==
    FoldLeft(LAMBDA d, i : IF Continuation(s[i]) THEN d ELSE Append(d, CodePoint(s, i)),
             <<>>, [i \in 1 .. Len(s) |-> i])

---------------------------------------------------------------------------
\* Properties.

TypeOK == /\ utf8 \in BOOLEAN /\ bare \in BOOLEAN
          /\ sent \in Seq(Sent) /\ input \in Seq(Sent) /\ buffer \in Seq(Sent)
          /\ ptr \in 1 .. Len(input) + 1
          /\ state \in DOMAIN Table /\ waschr \in BOOLEAN

\* The bytes that were read so far.
Read == SubSeq(sent, 1, Len(sent) - Len(buffer) - (Len(input) - ptr + 1))

\* However a stream of bytes is cut into chunks, the parser is at each turn where it
\* would be had they come one at a time: in that state, with what was collected of
\* the sequence at hand and nothing of an earlier one, the same calls made.
SameAsWhole ==
    ~utf8 => LET whole == FoldLeft(Taken, Whole, Read)
             IN  /\ SameCalls(events, whole.events)
                 /\ state = whole.state
                 /\ collected = whole.parameters /\ sequence.payload = whole.payload
                 /\ sequence.mode = whole.mode

\* The calls made for a text in UTF-8 are the same however it is cut, with the same
\* characters, and no code point is lost between two chunks.  Three things are left
\* out, in which the code does depend on the cuts: a chunk that ends within a code
\* point and holds no whole one (sCheckSplit, 388); the text of an OSC or APC string
\* with characters beyond ASCII, of which the one that starts a run is cut to its last
\* byte (CollectString, 634), although Parser.h:13 allows them; and a string ended by
\* a C1 control that comes as a code point, whose first byte a run takes (633).
Utf8SameAsWhole ==
    Idle /\ utf8 /\ Complete(sent) /\ ~bare =>
       LET whole == WholeText(Decoded(sent))
       IN  ~whole.broken => SameCalls(events, whole.events)

\* CAN and SUB end any sequence, and ESC starts a new one with nothing in it, in
\* any text that is not malformed.
Cancelled ==
    Idle /\ sent # <<>> /\ buffer = <<>> /\ (utf8 => Complete(sent)) =>
       /\ Last(sent) \in {\H18, \H1a} => state = "Ground"
       /\ Last(sent) = \H1b => /\ state = "EscEntry"
                               /\ sequence = NewSequence /\ collected = <<>>
=============================================================================
