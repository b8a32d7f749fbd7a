# Verification of upp-components

TLA+ models of the packages of this repository, TLC configurations that check
them on small instances, and theorems that TLAPS proves for every value of the
constants.  File and line numbers refer to the repository at the commit beside
this directory.

## 1. Inventory

The repository is a set of independent U++ packages.  Of its 147,000 lines of
implementation about 127,000 are third-party code that is vendored in it
(libssh2, libtidy, winpty): it is left aside, and where a package uses it its
calls appear as nondeterministic outcomes.  The packages' own code is about
20,000 lines, a large part of it tables, painting and examples.

| Component | State it keeps | Operations | How it interacts | What is hard | What makes it correct |
|---|---|---|---|---|---|
| Core/Job | status, cancel, stored function, exception, value; one thread, a mutex, two condition variables | Do, Get/Pick, Cancel, IsFinished, destructor; the worker's Loop | client threads and the worker share the object | lost wakeups, stale results, cancellation racing completion, destruction | the result handed out is the last accepted function's; every accepted function runs once; calls return |
| Core/SSH | per object: status, error, lazy-init flag, buffers; per session: socket, libssh2 handle, connected | Ssh::Run/Wait/Abort, session connect, channels, exec, shell, scp, sftp, tunnels | every object runs its commands through its session's one socket and the process-wide loop lock | EAGAIN loops, timeout, abort, an error of one step followed by a clean-up step | a failed transfer is reported as failed; a completed one moved every byte once, in order |
| Core/FTP | command queue, opcode, reply, transfer position, two sockets | Connect, Login, Get/Put/Append, directory commands, Abort, non-blocking Do | control and data connection, a reply per command | replies out of step with commands, abort, restart, partial lines | reply k answers command k; data is complete when a transfer is reported done |
| Core/NetProxy | proxy kind, gate queue, packet | HTTP CONNECT, SOCKS4/4a/5 connect and bind | one socket of the caller | partial reads of replies, two replies of BIND | the tunnel is reported open only after a complete positive reply, and no byte of the peer's stream is eaten |
| Core/PtyProcess | pid, master descriptor, exit code, write buffer | Start, Read, Write, Kill, IsRunning, GetExitCode, SetSize | the child process, signals, the kernel's pty buffer | partial writes, child states, kill and reap | a child is reaped exactly once and its exit code is reported |
| Core/OAuth | nonce, sign-in result | SignIn, Execute | a browser through a one-shot local server | timeout, foreign answers | only the answer with the nonce is accepted |
| Core/CoRoutines | promise, value, exception | Resume, Get, iteration | C++20 coroutine frames | suspension order, exceptions | a value is handed out once, an exception is rethrown |
| Core/HtmlTools | a libtidy document | parse, tidy, node iteration | wraps libtidy | - | - |
| Core/PtyAgent, Core/PtyProcess/lib | winpty | - | third-party | - | - |
| CtrlLib/StackCtrl | the list of controls, the visible one, animation | Add, Insert, Remove, Activate, Prev/Next, Goto | callbacks and events while an animation runs | removal of the active control, re-entrancy | exactly one control of the stack is visible, and it is one of the stack |
| CtrlLib/MessageCtrl | the boxes, `discarded` flags | Ask/Inform, Clear, Discard, callbacks | timers, link and action callbacks | callbacks that destroy their caller | an answered message is delivered once |
| CtrlLib/Terminal | page (cells, cursor, margins, tabs, history), parser, modes, input | Write, control sequences, Resize, mouse and key input | the pty's byte stream cut at arbitrary points; the host's replies | chunk boundaries, resizing with saved cursors, margins, wrap | the cursor stays inside the page; the result does not depend on how the stream is cut |
| Draw/EscPainter, Draw/SixelRaster | painter bindings for Esc scripts; a raster reader over the sixel parser | pure drawing | - | - | - |
| Examples | - | demonstration programs | - | - | - |

## 2. Modules

| Module | Models | Extends / used by |
|---|---|---|
| `JobSpec` | what a Job promises its owner: a slot for one function | refined by `JobWorker` (`ImplementsSlot`) |
| `JobWorker` | `Job`, `JobWorker` (src/Core/Job) | `MCJobWorker`, `JobWorkerProofs` |
| `SshScp` | `Ssh::Run`, `SshChannel`'s data calls and `Scp` (src/Core/SSH) | `MCSshScp`, `SshScpProofs` |
| `SshShared` | several `Scp` objects over one session and libssh2's `scp_send` | `MCSshShared` |
| `SshSession` | `SshSession`'s Connect and Disconnect over `Ssh::Run` (src/Core/SSH) | `MCSshSession`, `SshSessionProofs` |
| `Ftp` | `Ftp` (src/Core/FTP) and a server | `MCFtp`, `FtpProofs` |
| `NetProxy` | `NetProxy` (src/Core/NetProxy) and a proxy | `MCNetProxy`, `NetProxyProofs` |
| `PtyProcess` | the POSIX `PtyProcess` (src/Core/PtyProcess) and the kernel's children | `MCPtyProcess`, `PtyProcessProofs` |
| `StackCtrl` | `StackCtrl` (src/CtrlLib/StackCtrl) | `MCStackCtrl`, `StackCtrlProofs` |
| `VTPage` | `VTPage` (src/CtrlLib/Terminal/Page.cpp) | `MCVTPage`, `VTPageProofs` |
| `VTParser` | `VTInStream` (src/CtrlLib/Terminal/Parser.cpp) | `MCVTParser` |

A module names its actions after the functions they stand for, and its
variables after the members of the class.  Variables marked "history" record
what the properties need; no guard of a modelled function reads them, except
where a comment calls the guard a bound.  Operators introduced with
"A mutant" are altered forms of the definition that follows; no behaviour of
the specification uses them.  They record which mistake in the code each
property would show.

### JobWorker

One step is one access that another thread can observe: `status` and `cancel`
are atomics that the code reads and writes with and without the mutex.  `wpc`
and `pc` say where the worker is in `Loop` and each client in its call; `cb`,
`exc` and `ret` are the stored function, exception and value, each known by the
number of the `Do` that brought it.  The condition variables are the places
"sleep" and "waiting" of the two sides: a signal moves a waiter on and is lost
when nobody waits.  `Spurious` adds the wakeups POSIX allows.

The specification is for any set of clients; the docs describe one owner
thread, and the properties that depend on it say so.

### SshScp and SshShared

`SshScp` follows one `SaveFile` or `LoadFile`: a row of calls of `Ssh::Run`,
each with its stores to `status`, its steps (EAGAIN any number of times, part of
a chunk moved, success, failure) and its end.  `Abort` comes at any time.  The
server may close early.  The bytes of the file are numbers, so that `out`, the
row of bytes that arrived, shows what was lost, doubled or moved.  `trouble`
records what has gone wrong so far.

`SshShared` keeps of a transfer only the opening of the channel: the place in
`libssh2_scp_send64` a request has reached is kept by the *session*, and
objects that share the session take turns in steps.

### SshSession

`Connect` and `Exit` (of Disconnect, of Bailout and of the destructor) are rows
of calls of `Ssh::Run`; `pc` names the call, `run` says whether `Run` waits or is
in its step, `status` is what Abort and the calls themselves overwrite.  A handle
of libssh2 is the number of its making, so that a handle that is forgotten, or one
that a later connection takes for its own, is seen.  `connected` and `methods` outlive
a connection, as in the code.  `trouble` records the two things after which the
session does not promise what the properties say: a `Connect` on a session that is
connected or has kept its handle (`again` until a handle is freed, `forgotten` for good, as
the old handle is), and a clean-up that failed (`kept`, until one does not).

### NetProxy

The queue of gates is the code's; each disjunct of `Do` is a gate, and a reply is
parsed from within `Get` when its last byte is there, which is how the gates that
follow it come into the queue.  A byte knows the reply it belongs to and its place
in it, so that a reply of which a byte too many or too few is taken shows.  The
proxy is external: it may refuse, ask for credentials, stop within a reply, and
answer BIND once or twice; the connection may break at any byte.

### PtyProcess

`obj` are the objects and `kid` the children with what the kernel keeps for them:
running, stopped, ended, taken by `waitpid`, and the queues of their terminal.
`Kill` (alone, in the destructor and in `Start`) is a row of system calls between
which everything else goes on; the other calls are one step each, as no two of
their system calls can be told apart by a child.  A failed fork leaves -1 in `pid`,
for which `Free` then waits: `AnyPid`.

### Ftp

Each call fills `queue` with the names of the small programs its lambdas stand
for, and `Do0` runs the head: `At(e)` is the guard that it is `e`.  `PutGet` is
left and entered again while the queue entry is repeated: `PutGetSends`,
`PutGetReadsCode` (the first digits of a reply are there, its end is not;
non-blocking mode only), `PutGetEnds` and `PutGetFails` (`Check` throws on a
timeout or a lost connection).  `After` is what the entry does with the reply.
`Throws` is the `catch` of `Do0`, with `StartAbort`.  The transfer reads or
writes any number of bytes at a time, and `IsDataEof` decides after each of
them.  A byte is its place in the file, and `Content` says which are CRs and LFs.
`ReadBinary` hands on what it gets; `ReadAscii` (`ascii`: a listing always, a `Get` if
asked) collects a line in `packet` and hands it on at its LF without its CRs (a 0 in
`dest` stands for one), so that a last line without LF is never handed on.  On Windows it
puts a CR before each LF, which is not modelled.  `timed` says that the application gave
the sockets a timeout: neither the constructor nor `NonBlocking` sets one.

The server is external: `Answers` gives the replies it may give to a command,
and it may be slow, break off a transfer, or lose either connection.  In active
mode it opens a data connection when the client waits for one.

`trouble` has the things after which the client does not promise to know where
the conversation stands: "abort", "late" (a reply after the timeout), "split" (a
login that ended on half a reply), "relogin" (a second `Login`, which goes by
the last reply) and "rewound" (a resumption at another place than the end of
what was received).  Connecting again clears it.

### StackCtrl

`list`, `activectrl` and `shown` (the ctrls whose Show flag is set) change in
`Insert`, `Remove`, `Activate` and the calls built on them.  `calls` is the
stack of calls that are under way and have handed control to the application:
an animation that runs the event loop, `WhenAction`, and the `Remove` around
them.  Any operation can begin there.  `activectrl` is a pointer: it may
outlive the ctrl's place in the stack.  `list` is an `Index`: `Insert` of a ctrl that is
stacked already gives it a second place, `Find` finds the first one and `RemoveKey`
takes out all of them.

### VTPage

The page's geometry: size, margins, cursor, the cursor `Backup` stored, autowrap,
the lines (each with the number of its making and its count of cells) and the
history.  Every public operation is an action, with everything it calls
(`NewLine` with its scroll and its wrap, `SetSize` with the lines it takes from
the history and gives to it).  Cell contents and attributes, tab stops, images
and reverse wrap are left out.

### VTParser

`Parse` over a chunk, turn by turn.  The state tables of Parser.cpp are the sets
of rows of the operator `Table`.  What a turn cannot finish stays in `buffer`.
`Whole` and `Taken` are the reference: the automaton fed one byte at a time,
with no chunks; `WholeText` is the reference for UTF-8 text, fed its code points.  Whether the stream
is UTF-8 is the variable `utf8`, chosen at the start.

## 3. Runs

"Passes" means TLC has searched the whole state space of the instance.

| Run | Instance | Shows |
|---|---|---|
| `job_owner` | one owner, three functions, spurious wakeups | `ResultOfLastJob`, `NoRetRace`, `CancelStands`, `DestroyDrains`, the inductive invariant, the refinement of `JobSpec`; every call returns and every accepted function runs unless a signal fell in the gap below |
| `job_gap` | one owner, two functions | violates `WaitReturns`: a `Do` whose store and signal fall between the worker's test and its wait is not picked up, and `Get` never returns |
| `stack` | three ctrls, three places of the stack, a ctrl at several of them, animation on and off, four places of calls | at most the active ctrl and one that an animation brings in are visible, whatever handlers call; removing the active ctrl leaves another one active, unless it was inserted twice and has the first two places |
| `scp` | five bytes in chunks of two, every failure, `Abort` | what arrives is the beginning of the file unless a step is cut short, a stopped transfer is a failure, one that nothing went wrong with is whole, with a timeout set the transfer returns |
| `scp_masked` | the same | violates `FailureReported`: the clean-up's `Run` overwrites the failure |
| `shared_mixed` | three objects, four calls | violates `SavedAtPath`: two openings that overlap exchange their paths |
| `session` | three Connects with one object, two methods, directly and over a proxy, any failure, `Abort` | a `Connect` reports as connected only what it verified and authenticated, and no handle is lost, unless it was called over a session still connected or not freed; an abort that comes while it waits is heeded, with a timeout every call returns |
| `page` | two by two and three by three cells, four lines, all margins | the page's invariant, no line at two places, the cursor keeps its line in a resize, margins protect the lines outside, scrolling goes one way, the history is in order |
| `parser` | fourteen bytes that reach every state, four of them in all, every cut; or text in UTF-8 of five bytes, with code points of one to four bytes and OSC strings | the result does not depend on the cuts, in UTF-8 with the exceptions of section 5; CAN, SUB and ESC leave nothing behind, in the ignored SOS and PM strings too |
| `ftp` | three bytes (CR, LF, one more), both modes, binary and by lines, blocking with a timeout or without and not; Connect, any call, then a Get or a Delete | client and server stay in step, a call that returns true did its work (by lines: but for CRs and a last line without end), with a timeout a blocking call returns |
| `pty` | two objects, two children, one of them free to stop and to ignore SIGHUP | no child is left behind unless it was seen stopped, no output is cut off, input arrives in order and goes out, Kill returns unless the child will not go |
| `proxy` | two calls, the three kinds of proxy, CONNECT and BIND; SSL, remote lookup and a missing host with one kind each | an open tunnel is open and clean, requests go in order, the socket is given back, Run ends |

### Bounds, and why they are enough

- Job: with three functions a result can be overwritten, cleared and read
  late; the proofs below are for every number.
- StackCtrl: three ctrls give an active one, its neighbour and another; four
  places of calls are an animation in a handler in an animation in a `Remove`.
  Three places (`MaxStack`) hold every ctrl once, or one of them twice with another
  before, between or behind its places.  Ctrls are interchangeable, hence the symmetry.
  Both properties are proved for any ctrls, any size of the stack and any depth of calls.
- SshScp: five bytes in chunks of two have a full chunk, a partial one and a
  short last one; the safety properties are proved for every size.
- SshShared: three objects let a third call find what two have left.
- VTPage: the safety and action properties are proved for every size; in the run the
  small page has no row or column that is not at an edge, the large
  one has exactly one; four lines are enough to scroll out one line and take it
  back.  `BackupAt` fixes the cursors that are stored to the far corner, the one
  that is off the page after every shrink.
- VTParser: the four bytes reach entry, parameter, intermediate and final of
  every kind of sequence from both its 7-bit and its 8-bit beginning, and cuts
  fall between any two.  Five bytes of UTF-8 are an OSC string with a character of two
  bytes in it, from ESC to BEL, or a character of four bytes and what follows it.
- SshSession: three Connects are an earlier one, the one at hand and a later one;
  two methods make the step that is repeated.  The safety properties are proved for
  every number.
- NetProxy: two calls are an operation and the one that finds what it left.  SSL comes
  with HTTP, remote lookup and a host that is not set with SOCKS4: what they change is
  the same for every kind.  Names are two bytes long, so that a length that is off by
  one is not a whole reply.  Replies with a domain name are not among the `Addresses`
  of the run: for them `TunnelIsClean` fails (section 5).  The safety properties are
  proved for every call, name and number of calls.
- PtyProcess: two children are an old and a new one of one object, or one each of
  two objects; only one object's children stop and ignore signals, are written to
  and write, the other is there to wait for a child that is not its own.  A
  terminal with room for one byte and writes of two make every write partial.
  Pids are not used again.
- Ftp: three bytes are a line with its CR and LF and the beginning of one that does not
  end; a transfer can stop before, between and after them.  One
  Abort for a connection, as `Run`'s third call still meets what it left.  The
  properties about what an older call leaves behind need one call after it.  The safety
  properties are proved for every size, mode and number of calls.

### Deadlock and fairness

Runs that say `CHECK_DEADLOCK FALSE` stop at a bound on the calls (Ftp, VTPage,
VTParser, SshSession, NetProxy, PtyProcess), or in the state their property is about (`job_gap`).

- `JobWorker`: weak fairness of the worker's and the owner's own steps, which
  threads of an operating system have; strong fairness of a client's step,
  since the mutex it needs is free again and again.
- `SshScp`: weak fairness of the transfer's own steps and of the end of a step, which
  libssh2 never blocks.  Strong fairness of `TimesOut`, which only a session with a
  timeout has (`timed`): `start_time` is stored for each `Run` and for each byte that
  moves, of which there are finitely many, so a `Run` that goes round and round finds its
  time over.  Nothing is asked of the server.  A session has no timeout by default
  (Core.cpp:139); a silent server then keeps the transfer for ever, and
  `TransferReturns` does not speak of it.
- `Ftp`: weak fairness of the turn of a client whose sockets have a timeout (`timed`),
  and nothing of the server.  A blocking call spins in `while(Do0())`, and each wait of
  such a client ends with what it waits for or with the timeout.  The application has to
  set it: the constructor sets none (Ftp.cpp:1225-1248), `NonBlocking(false)` sets Null
  (Ftp.h:66), and then a silent server keeps the call for ever, so that `CallEnds` does
  not speak of it.  `CallEnds` also leaves out a control connection that was
  lost: there the interrupt of `StartAbort` is repeated for ever, as no `Check`
  follows it.
- `SshSession`: weak fairness of the thread that runs the call.  Strong fairness of
  the timeout: `start_time` is stored once for each `Run`, so one that waits again
  and again finds its time over.  Without a timeout, which is the default, a host
  that refuses keeps `Connect` for ever, and `ConnectReturns` does not speak of it.
- `NetProxy`: `Run` calls `Do` in a loop, and time passes.
- `PtyProcess`: a call that has begun goes on, the program reads each of its objects
  again and again (`InputFlushed` needs it: the flush is in `Read`), and the kernel
  delivers signals and lets a child that runs read.

## 4. Proofs

| Theorem | From | Says |
|---|---|---|
| `TypeCorrect`, `LockHeld`, `CallbackIsStable` | `JobAssumption`, any clients | types; the mutex is the worker's exactly in its critical sections; no `Start` replaces a function that runs |
| `OwnerInvariant` | `Clients = {Owner}` | the inductive invariant `IInv` |
| `ResultIsLast`, `RetIsRaceFree`, `CancelIsSeen`, `DestroyIsClean` | `OwnerInvariant` | the safety properties of run `job_owner` |
| `Implements` | `OwnerInvariant` | `JobWorker` implements `JobSpec` |
| `ScpInvariant`, `PrefixIsKept`, `StopIsReported`, `CleanTransferIsWhole` | `ScpAssumption` | the inductive invariant, `PrefixKept`, `StopReported` and `CleanIsWhole` of run `scp`, for every size and chunk size |
| `StackInvariant`, `OneIsVisible`, `RemoveMoves` | `StackAssumption`, any ctrls, size of the stack and depth of calls | the safety properties of run `stack` |
| `ProxyInvariant`, `AskedIsInOrder`, `SocketIsGivenBack` | `ProxyAssumption`, any calls, addresses, names | the inductive invariant, `AskedInOrder` and `SocketGivenBack` of run `proxy` |
| `TunnelStaysClean` | the same, and no reply with a domain name | `TunnelIsClean` of run `proxy` |
| `SessionInvariant`, `ConnectedIsTrue`, `HandlesAreFreed`, `AbortIsHeeded` | `SessionAssumption` | the safety properties of run `session`, for any number of connections and methods |
| `PtyInvariant`, `ChildrenAccounted`, `OutputIsKept`, `InputIsInOrder` | `PtyAssumption` | the safety properties of run `pty`, for any objects, children, terminals and sizes |
| `PageInvariant` | `PageAssumption` (sizes of at least two by two) | the cursor is on the page and within its margins, every row has a line wide enough, for every order of the calls |
| `LinesStayOnce`, `FrameStays`, `FeedsForward`, `HistoryGrowsAtItsEnd`, `CursorFollowsItsLine` | `PageAssumption` | the other properties of run `page`, for every size and history size |
| `FtpInvariant`, `StaysInStep`, `TrueMeansDone` | `FtpAssumption`, any calls, sizes and modes | the inductive invariant, `InStep` and `TrueIsDone` of run `ftp` |

**Job.**  `ResultOfLastJob` is not inductive: nothing in it says what is stored
while the function runs.  `IInv` adds, besides types and the mutex (`LockInv`),
that functions are accepted in order and run once (`OrderInv`), which places the
owner and the worker can be in for each status (`PlaceInv`) and what `cb`, `exc`
and `ret` hold at each of them (`ResultInv`).  Each has a lemma with one step
per action.  The refinement maps the acceptance to the store of WORKING and the
completion to the store of IDLE; `IInv` gives that nothing is pending then.

**Scp.**  `PrefixKept` speaks of the bytes that arrived and of the count, but a
step moves a chunk whose place in the file is kept in a third variable.
`AlignInv` ties the three to each other in each place of the loop, `ChunkInv`
bounds the chunk.  `CleanIsWhole` needs `CleanInv`: as long as nothing has gone wrong
the loop is left only when every byte has moved, or with an error that `result` shows.

**Stack.**  `OneVisible` alone is inductive with the types; the work is in the operators:
that `Find` gives the first place of a ctrl (`FindGives`, from the least member of a
set of numbers), and that `RemoveKey` takes out this ctrl, at all its places, and no
other (`Detached`).  `RemoveOfActiveMoves` is not inductive: it speaks
of the end of a `Remove` that began earlier.  `QuietInv` says what the calls under way
look like as long as no handler has begun another operation: at most a call to a
stacked ctrl, and above it the `Remove` that made it, and that this is another ctrl
than the one to be removed, if that one was active and has not the first two places.

**Proxy.**  What an operation may rely on depends on the gate it is at, so the invariant
is a disjunction of stages (`StageInv`): before its first `Do` (`Waiting`), at the gates that lead
to a message (`AtLead`), with a message ready (`AtPut`), waiting for a reply (`AtGet`),
in the SSL gates (`AtSSL`), or ended (`Ended`).  At each it says what the
queue, the packet, the messages and the replies are.  While a reply is awaited the
bytes on their way are a stretch of one row, which starts with this reply, goes on with
BIND's second one and ends with the peer's bytes: `Nth` gives the byte at a place of
that row, `StreamInv` says that what is in the packet and in the socket are
consecutive stretches of it, and `LengthInv` that `Get` asks for no more than the reply
at hand.  It is this part, and with it `TunnelIsClean`, that a SOCKS5 reply with a domain
name breaks; the rest of the invariant holds with such replies as well.
`TunnelIsClean` speaks of an operation whose queue is empty: from an asynchronous
call to its first `Do` the status is still the one the operation before it ended with.

**Session.**  `ConnectedIsAuthenticated` speaks of the end of a `Connect` and
`NoHandleLost` of handles; neither says what each step of `Connect` may rely on.
`LifeInv` does: one after Setup, shaken from the list of the server's methods on, over the
connection this `Connect` made, whatever was done before; not connected until the end
unless it was `again`; no handle before Setup unless one was ever `forgotten`.  `StopInv` places a Connect that was told to abort: it waits, or has
failed.  One lemma for each kind of step: the application's, `Run`'s, a failure, a
step of `Connect`, a step of `Exit`.

**Pty.**  None of the three properties is inductive.  `PidInv` says whose child a pid
is, and ties `master` to it; `ExitInv` that an object with an exit code, or one that
is freeing its child, has waited for it or saw it stopped; `OutInv` that a master is
closed early only after all of the output; `InInv` that what a child has read, what
is in its terminal and what is in `wbuffer` end with the last byte written, each
byte being its number (`EndsWith`, with three lemmas about rows).  `StepKept` and
`OrderKept` say once what a step may do to objects and children; each action then
only has to be of that kind.  A fork and the flush of a buffer have their own
proofs (`StartForkStep`, `FlushKeeps`).

**Page.**  `PageInv` is inductive as it stands; the work is in the operators.
Movements are proved to place the cursor within the spans (`MoveHorzOK`,
`MoveVertOK`), line operations to keep the number and the width of the lines
(`LineInsertOK`, `LineRemoveOK`, `StepLineOK`), and resizing in three parts: the
history given back (`UnwindOK`), lines taken (`RewindOK`) and lines fitted to the
new size (`FittedOK`).

The other properties are about where a line goes.  The history and the page are one row
of lines, with 1 the top of the page and 0 the end of the history (`Place`, `Number`).
Every step does one of four things to it: nothing (`Same`), a roll within the
margins (`Down`, `Up`, `Scrolls`), a shift of the page against its history
(`Shifts`), or a cut at the start of the history (`Cut`).  `KindsOfSteps`,
`EditRolls` and `MoveRolls` say which call does which; each property is then proved of
the kinds.  In a resize the history that is given back and the lines that are taken are
two slides of the row (`Slides`), of which fitting loses only what is below the page or
beyond the history's size.  `HistoryAppends` was first stated for all the lines that leave
the page; the proof showed that to be wrong when more leave at once than the history
holds, which the run's bounds do not reach.  The property now says what the
code does: the history is a stretch of the page up to its end, from the first line that
left unless it is full.

**Ftp.**  `InStep` and `TrueIsDone` speak of a queue that has run out, and say nothing of
how it got there.  The inductive invariant `FtpInv` says for each entry under way
(`Entry`) where the conversation is.  `StepInv`: nothing is on its way (`Quiet`), a command
or its reply is (`Talking`), a transfer was opened (`Opened`), or its second reply is still
to come (`Owed`).  `OrderInv` says which entry follows which (`Then`), so that a step that
is done with an entry knows the next.  `PeerInv` ties the two ends of the data connection,
`RestInv` says where the next transfer starts, `ReadInv` and `WriteInv` which bytes of the
file have come, are stored or on the wire (`Got` counts those handed on and those in
`packet`; `Beginning` and `Delivered` say what is handed on, by bytes or by lines), and `EffectInv` that a reply that
accepts means the work was done.

What holds depends on what has gone wrong.  Types, `ConnectInv`, `LostInv`, `AbortInv` and
`OpcodeInv` hold always; `OrderInv`, `StepInv` and `PeerInv` until an Abort, a late
reply or one that came in two pieces (`Calm`), `StepInv` with a connection only;
the parts about the file's bytes only while there was no `trouble` at all, which is what
`TrueIsDone` asks for; `InStep` needs no more than `Calm`.  Each action therefore has two lemmas, one for the parts that
hold always (`Base`) and one for the rest (`Core`).  The end of `PutGet` and the server's
answers have one for each kind of entry.  `Getting` and `Arriving` say what a
chunk does to a file that comes, in bytes or in lines, and `Following` that the bytes on
the way still follow those that were got; `Putting` and `Leaving` say it of a file that goes,
`WholeFile` and `WholeEnd` when that is there.

**Model-checked only.**  Liveness (`GetReturns`, `DestroyReturns`, `AcceptedRuns`,
`TransferReturns`, `CallEnds`, `ConnectReturns`, `RunEnds`, `KillReturns`,
`InputFlushed`): fairness and ENABLED are out of the prover's
reach.  `VTParser`'s comparison with a fold over all bytes (`SameAsWhole`,
`Utf8SameAsWhole`), which needs induction over sequences, and its `Cancelled`, which
is the next of the plan.

## 5. Where the code and its documentation part

Each is the counterexample of a run, with the lines in PROJECT.json: the lost
wakeup of Job (`job_gap`), the masked failure of Scp (`scp_masked`), the shared
opening of channels (`shared_mixed`).

The properties of other runs leave out what the code does not keep, and say so:

- StackCtrl: `Remove` of a ctrl next to the active one can leave `activectrl` on the
  ctrl that was removed.  `Insert` does not look whether the ctrl is stacked already
  (StackCtrl.cpp:19-30); when the active ctrl has the first two places, `Remove` goes
  from the one to the other and then takes both out, and no stacked ctrl is active.
- Scp: a `Put` that was cut short is followed by a seek to a place counted from the
  start of the stream (Scp.cpp:84).  After one that moved nothing there is none: `Save`
  goes on with the next chunk, and once the stream is read to its end it goes round
  with empty chunks (78-84) until an error or an EOF stops it.
- VTPage: `SaveToHistory` cuts the history to `historysize` before it adds the line
  (Page.cpp:256-263), so the history holds one line more.  The docs of `SetHistorySize`
  say "Sets the allowed maximum number of lines stored in the history buffer to [sz]"
  (Upp_Terminal_en-us.tpp:418-419).  The model does what the code does: a history of one
  line holds two after two scrolls.  `PageInv` therefore says nothing of its length.
  Between `Restore` and the next placement the cursor can be off the page; `InPage` and
  `ScrollsForward` speak of a cursor that was placed.
- VTInStream: a chunk that ends within a code point and holds no whole one is taken for
  bytes of their own (Parser.cpp:388-397).  Parser.h:13-14 says "The OSC sequences allow
  UTF-8 payload if the UTF-8 mode is enabled", but what is collected of one with
  characters beyond ASCII depends on the cuts: a character that starts a run is cut to its
  last byte, one within a run comes whole (634-636).  A run also takes the first byte of
  a C1 control that comes as a code point (633), so that U+009C ends a string in one
  cut and not in another.
- Ftp: after a resumed transfer that failed, `GetPos` counts from the resumption and
  not from the start of the file, so a second resumption starts too early.  `ReadAscii`
  drops every CR and a last line without LF, and the call returns true all the same
  (Ftp.cpp:886-919); it counts the bytes it keeps in `packet` as done, so that after a
  failure a resumption at `GetPos` starts behind the part of a line that is lost.
  `TrueIsDone` asks a `Get` by lines and a listing for the lines that end, without CRs.
- SshSession: `Connect` on a session that is connected forgets its handle and skips the
  authentication (Session.cpp:115, 233); after a failed `Connect` `IsError` is false, as
  the clean-up's `Run` overwrites the status (Core.cpp:53, 77); an `Abort` that comes
  within a step that ends, or between two calls of `Run`, is lost; the methods asked
  for with `Methods` are used up by the first connection (189); `TryAgent` takes EAGAIN
  for a refusal (422).
- NetProxy: the length of a SOCKS5 reply with a domain name is one short
  (NetProxy.cpp:509); `Do` called after a failure turns FAILED into FINISHED; an `Init`
  that fails on a missing host gives back a timeout that was never saved; the socket's
  `GlobalTimeout`, which `Init` sets (98), is never taken back, and is not in the model.
- PtyProcess: a child that was seen stopped counts as ended (PosixPty.cpp:376) and is
  given up; a `fork` that fails waits for pid -1, any child of the program (109).

Noted while modelling Ftp and not listed among the hazards: an Abort before the
data connection is forgotten when that is opened (Ftp.cpp:295); a control write
that is cut short starts again from the packet's first byte (740); an empty
upload waits to write for ever (862); `Append` never sends REST (550-562), although the docs of SetPos
name it; a login in non-blocking mode can end on half a reply (335).  In the
terminal: the VT52 cursor sequence takes its operands from the chunk at hand
(Esc.cpp:30); in insert mode the pending wrap is cleared before it is looked at
(Page.cpp:412); `SetTabs(0)` does not return (1017).  In SSH: one object's error clears the error of the socket
others share (Core.cpp:120).

## 6. Not modelled yet, and the plan

In this order:

1. **Proof** of `Cancelled` of `VTParser`, in which the table's operators come first.
2. **SFtp, shell and tunnels** over `Ssh::Run`: `CopyData`'s offsets, the handles and
   their `Close`, the shell's loop of reads, writes and resizes.  `SFtpStream` is a
   `BlockStream` of U++, whose buffering is not in this repository and which flushes in
   its destructor, where the result of `SaveFile` no longer depends on it.
   `Execute` reads the whole standard output before the standard error
   (Exec.cpp:8) and waits for ever when the command fills the latter first.
3. **Terminal functions and modes** over `VTPage`: the alternate page, Backup and
   Restore, margins and origin mode, synchronised size, composed with the
   dispatch of `VTParser`; cell contents of `VTPage` (LineRemove under horizontal
   margins, Page.cpp:770), the intermediates of a sequence (Parser.cpp:586 stores the
   byte after the one it tested), tab stops.
4. **MessageCtrl** and **OAuth**: callbacks that clear their caller
   (MessageCtrl.cpp:112); a sign-in whose answer comes late or with another state
   (OAuth.cpp:128).
5. **Ftp**: the one-command calls, SSL's steps, the asynchronous transfers.

Left out for good: vendored code (libssh2, libtidy, winpty), wrappers without
control of their own (HtmlTools, CoRoutines, Hosts, EscPainter), painting and
tables (Renderer, Colors, Charsets, Keys, Sixel), the Windows half of PtyProcess,
examples and images.
