----------------------------- MODULE SshSession -----------------------------
(***************************************************************************)
(* Core/SSH: the life of an SshSession, Connect and Disconnect, over and     *)
(* over again with one object.                                               *)
(*                                                                           *)
(* Both are rows of calls of Ssh::Run.  Run stores WORKING, repeats its step *)
(* under the loop lock and ends with IDLE or FAILED.  Abort may come at any  *)
(* time, from a callback or from another thread.  A handle of libssh2 is the *)
(* number of its making.                                                     *)
(***************************************************************************)
EXTENDS Naturals

CONSTANTS MaxCalls,     \* bound: calls of Connect
          MaxMethods    \* transport methods the application may ask for

ASSUME SessionAssumption == MaxCalls \in Nat /\ MaxMethods \in Nat

VARIABLES limit,        \* Timeout has been set (the default is none)
          proxy,        \* WhenProxy is set
          pc,           \* the call of Run that Connect or Exit is in
          run,          \* out: not in Run; wait: in Run, no step; in: in a step
          status,
          handle,       \* ssh->session, 0 for nullptr
          bound,        \* ssh->socket is set
          connected,    \* session->connected
          methods,      \* session->iomethods, how many are left
          calls,        \* Connects so far
          dialled,      \* history: the Connect that made the TCP connection
          made,         \* history: handles made so far
          live,         \* history: handles made and not freed
          shaken,       \* history: handles whose handshake was verified, on
                        \*   the connection of their own Connect
          authed,       \* history: handles the server has let in
          result,       \* history: what the last call did
          stop,         \* history: this Connect was told to abort in a wait
          trouble       \* history: what has gone wrong so far

conn == <<dialled, made, live, shaken, authed>>
vars == <<limit, proxy, pc, run, status, handle, bound, connected, methods, calls, conn, result, stop, trouble>>

Steps == {"start", "resolve", "dial", "waitdial", "proxy", "setup", "method", "handshake", "list", "auth"}

\* again: Connect was called on a session that was connected, or that has kept its
\* handle, and no handle has been freed since; forgotten: that has ever been done;
\* kept: the Run that frees the handle failed, and none has freed it since.
Troubles == {"again", "forgotten", "kept"}

TypeOK == /\ limit \in BOOLEAN /\ proxy \in BOOLEAN
          /\ pc \in Steps \cup {"idle", "disconnect", "free"}
          /\ run \in {"out", "wait", "in"}
          /\ status \in {"IDLE", "WORKING", "FAILED", "ABORTED"}
          /\ handle \in 0 .. made /\ bound \in BOOLEAN /\ connected \in BOOLEAN
          /\ methods \in 0 .. MaxMethods /\ calls \in 0 .. MaxCalls
          /\ dialled \in Nat /\ made \in Nat
          /\ live \subseteq 1 .. made /\ shaken \subseteq 1 .. made /\ authed \subseteq 1 .. made
          /\ result \in {"none", "true", "false", "closed"}
          /\ stop \in BOOLEAN /\ trouble \subseteq Troubles

Init == /\ limit \in BOOLEAN /\ proxy \in BOOLEAN
        /\ pc = "idle" /\ run = "out" /\ status = "IDLE"
        /\ handle = 0 /\ bound = FALSE /\ connected = FALSE
        /\ methods = 0 /\ calls = 0
        /\ dialled = 0 /\ made = 0 /\ live = {} /\ shaken = {} /\ authed = {}
        /\ result = "none" /\ stop = FALSE /\ trouble = {}

---------------------------------------------------------------------------
\* The application, between the calls.

\* SshSession::Methods.
SetMethods ==
    /\ pc = "idle" /\ \E n \in 1 .. MaxMethods : methods' = n
    /\ UNCHANGED <<limit, proxy, pc, run, status, handle, bound, connected, calls, conn, result, stop, trouble>>

Connect ==
    /\ pc = "idle" /\ calls < MaxCalls
    /\ pc' = "start" /\ calls' = calls + 1 /\ stop' = FALSE
    /\ trouble' = IF result = "true" \/ "kept" \in trouble
                  THEN trouble \cup {"again", "forgotten"} ELSE trouble
    /\ UNCHANGED <<limit, proxy, run, status, handle, bound, connected, methods, conn, result>>

\* Connect with an URL of another scheme: SetError.
ConnectBadUrl ==
    /\ pc = "idle" /\ status' = "FAILED"
    /\ UNCHANGED <<limit, proxy, pc, run, handle, bound, connected, methods, calls, conn, result, stop, trouble>>

Disconnect ==
    /\ pc = "idle"
    /\ pc' = "disconnect" /\ result' = "closed" /\ stop' = FALSE
    /\ UNCHANGED <<limit, proxy, run, status, handle, bound, connected, methods, calls, conn, trouble>>

\* Ssh::Abort, while a call is under way.
Abort ==
    /\ pc # "idle" /\ status # "ABORTED"
    /\ status' = "ABORTED"
    /\ stop' = (stop \/ (pc \in Steps /\ run = "wait"))
    /\ UNCHANGED <<limit, proxy, pc, run, handle, bound, connected, methods, calls, conn, result, trouble>>

---------------------------------------------------------------------------
\* Ssh::Run.

abortable == pc # "free"

RunBegins ==
    /\ pc # "idle" /\ run = "out"
    /\ run' = "wait" /\ status' = "WORKING"
    /\ UNCHANGED <<limit, proxy, pc, handle, bound, connected, methods, calls, conn, result, stop, trouble>>

\* A mutant: the abort is not looked at before a step.
StepBegins_Deaf ==
    /\ run = "wait" /\ run' = "in"
    /\ UNCHANGED <<limit, proxy, pc, status, handle, bound, connected, methods, calls, conn, result, stop, trouble>>

StepBegins ==
    /\ run = "wait" /\ ~(abortable /\ status = "ABORTED")
    /\ run' = "in"
    /\ UNCHANGED <<limit, proxy, pc, status, handle, bound, connected, methods, calls, conn, result, stop, trouble>>

\* The step is not done yet: EAGAIN, a name not resolved, a connection refused
\* or not there, an authentication that is only part of what the server wants.
StepAgain ==
    /\ run = "in" /\ run' = "wait"
    /\ \/ pc \in Steps \ {"start", "proxy", "setup"}
       \/ pc \in {"disconnect", "free"} /\ handle # 0
    /\ UNCHANGED <<limit, proxy, pc, status, handle, bound, connected, methods, calls, conn, result, stop, trouble>>

\* The step is done, and Connect or Exit goes on with its next one.
Done(step, next) ==
    /\ pc = step /\ run = "in"
    /\ pc' = next /\ run' = "out" /\ status' = "IDLE"
    /\ UNCHANGED <<limit, proxy, calls, stop>>

\* A mutant: Connect returns where it should have gone to Bailout.
Fails_NoExit ==
    /\ run' = "out" /\ status' = "FAILED"
    /\ IF pc = "disconnect"
       THEN pc' = "free" /\ UNCHANGED result
       ELSE pc' = "idle" /\ result' = IF result = "closed" THEN result ELSE "false"
    /\ trouble' = IF pc = "free" /\ handle # 0 THEN trouble \cup {"kept"} ELSE trouble
    /\ UNCHANGED <<limit, proxy, handle, bound, connected, methods, calls, conn, stop>>

\* An exception: SetError, and Bailout, where Exit goes through both its calls.
Fails ==
    /\ run' = "out" /\ status' = "FAILED"
    /\ pc' = CASE pc \in Steps -> "disconnect" [] pc = "disconnect" -> "free" [] pc = "free" -> "idle"
    /\ result' = IF pc \in Steps THEN "false" ELSE result
    /\ trouble' = IF pc = "free" /\ handle # 0 THEN trouble \cup {"kept"} ELSE trouble
    /\ UNCHANGED <<limit, proxy, handle, bound, connected, methods, calls, conn, stop>>

\* A mutant: nothing is thrown when the time is over.
TimesOut_Never == FALSE /\ UNCHANGED vars

\* The time is over: found before any step, the first one included, which may
\* have waited for the loop lock that all objects share.
TimesOut == run = "wait" /\ limit /\ Fails

\* The abort is seen.
Aborted == run = "wait" /\ abortable /\ status = "ABORTED" /\ Fails

\* The TcpSocket has an error, and the session looks at it: only when Connect is
\* called again, since the first one binds the socket later.
SocketFails == run = "wait" /\ bound /\ pc \in {"dial", "waitdial"} /\ Fails

\* The step throws: no host, no such name, libssh2 answers an error, WhenProxy or
\* WhenVerify returns false.  A failed TCP connection throws nothing.
StepThrows ==
    /\ run = "in" /\ pc \in Steps \ {"dial", "waitdial"}
    /\ Fails

---------------------------------------------------------------------------
\* SshSession::Connect.

Start == /\ Done("start", IF proxy THEN "proxy" ELSE "resolve")
         /\ handle' = 0
         /\ UNCHANGED <<bound, connected, methods, conn, result, trouble>>

Resolve == /\ Done("resolve", "dial")
           /\ UNCHANGED <<handle, bound, connected, methods, conn, result, trouble>>

Dial == /\ Done("dial", "waitdial")
        /\ UNCHANGED <<handle, bound, connected, methods, conn, result, trouble>>

WaitDial == /\ Done("waitdial", "setup") \/ Done("proxy", "setup")
            /\ dialled' = calls
            /\ UNCHANGED <<handle, bound, connected, methods, made, live, shaken, authed, result, trouble>>

Setup ==
    /\ Done("setup", IF methods > 0 THEN "method" ELSE "handshake")
    /\ made' = made + 1 /\ handle' = made' /\ live' = live \cup {made'}
    /\ bound' = TRUE
    /\ UNCHANGED <<connected, methods, dialled, shaken, authed, result, trouble>>

Method ==
    /\ Done("method", IF methods > 1 THEN "method" ELSE "handshake")
    /\ methods' = methods - 1
    /\ UNCHANGED <<handle, bound, connected, conn, result, trouble>>

\* WhenVerify has accepted the host.
Handshake ==
    /\ Done("handshake", "list")
    /\ shaken' = IF dialled = calls THEN shaken \cup {handle} ELSE shaken
    /\ UNCHANGED <<handle, bound, connected, methods, dialled, made, live, authed, result, trouble>>

\* The server lists its methods; a session that is connected is not
\* authenticated (again).
ListAuth ==
    /\ Done("list", IF connected THEN "idle" ELSE "auth")
    /\ result' = IF connected THEN "true" ELSE result
    /\ UNCHANGED <<handle, bound, connected, methods, conn, trouble>>

\* The server lets everybody in, or the authentication succeeds.
Authenticate ==
    /\ Done("list", "idle") \/ Done("auth", "idle")
    /\ authed' = authed \cup {handle} /\ connected' = TRUE
    /\ result' = "true"
    /\ UNCHANGED <<handle, bound, methods, dialled, made, live, shaken, trouble>>

---------------------------------------------------------------------------
\* SshSession::Exit, of Disconnect, of Bailout and of the destructor.

Goodbye == /\ Done("disconnect", "free")
           /\ UNCHANGED <<handle, bound, connected, methods, conn, result, trouble>>

\* What a handle that is freed mends.
Mended == IF handle # 0 THEN trouble \ {"again", "kept"} ELSE trouble

\* A mutant: connected is not taken back.
Free_KeepsConnected ==
    /\ Done("free", "idle")
    /\ handle' = 0 /\ live' = live \ {handle}
    /\ bound' = (bound /\ handle = 0)
    /\ trouble' = Mended
    /\ UNCHANGED <<connected, methods, dialled, made, shaken, authed, result>>

Free ==
    /\ Done("free", "idle")
    /\ handle' = 0 /\ live' = live \ {handle}
    /\ bound' = (bound /\ handle = 0)
    /\ connected' = IF handle # 0 THEN FALSE ELSE connected
    /\ trouble' = Mended
    /\ UNCHANGED <<methods, dialled, made, shaken, authed, result>>

---------------------------------------------------------------------------
App == SetMethods \/ Connect \/ ConnectBadUrl \/ Disconnect \/ Abort

StepEnds == \/ StepAgain \/ StepThrows
            \/ Start \/ Resolve \/ Dial \/ WaitDial \/ Setup \/ Method
            \/ Handshake \/ ListAuth \/ Authenticate
            \/ Goodbye \/ Free

Next == App \/ RunBegins \/ StepBegins \/ TimesOut \/ Aborted \/ SocketFails \/ StepEnds

Spec == Init /\ [][Next]_vars

\* The thread of the call runs on.  start_time is stored once for each Run, and
\* so a Run that waits again and again finds its time over.
FairSpec == /\ Spec
            /\ WF_vars(RunBegins) /\ WF_vars(StepBegins) /\ WF_vars(Aborted)
            /\ WF_vars(StepEnds)
            /\ SF_vars(TimesOut)

---------------------------------------------------------------------------
\* Properties.

\* A session that Connect reported as connected is one: its handle shook hands
\* over the connection this Connect made, with a host that WhenVerify accepted,
\* and the server has let it in, whatever failed before and whoever aborted
\* earlier calls.  (Not so after a Connect without Disconnect: connected is then
\* the old one's, and authentication is skipped, Session.cpp:233, until a
\* Disconnect has freed a handle.)
ConnectedIsAuthenticated ==
    result = "true" /\ pc = "idle" /\ "again" \notin trouble =>
        /\ connected /\ handle \in live
        /\ handle \in shaken /\ handle \in authed

\* No handle is lost, unless Connect was ever called without a Disconnect
\* (Session.cpp:115): at any time there is at most the current one, and none is
\* left when Connect has returned false or Disconnect has returned, unless the
\* call that frees it timed out.
NoHandleLost ==
    "forgotten" \notin trouble =>
        /\ live \subseteq {handle}
        /\ pc = "idle" /\ result \in {"false", "closed"} /\ "kept" \notin trouble
             => live = {} /\ ~connected

\* A Connect that was told to abort while it waited does not succeed, in
\* whatever step it was.  (Told so within a step that ends, or between two calls
\* of Run, it does: the status is overwritten.)
AbortStops == pc = "idle" /\ stop => result # "true"

\* With a timeout Connect and Disconnect return, even from a host that refuses,
\* where no step throws.
ConnectReturns == limit => (pc # "idle" ~> pc = "idle")

---------------------------------------------------------------------------
\* The inductive invariant.

Unmade == {"start", "resolve", "dial", "waitdial", "proxy", "setup"}
Made   == {"method", "handshake", "list", "auth"}

\* What each step of Connect and Exit finds.  The session is connected only with
\* a handle, and not within a Connect; it has one from Setup to Free.
LifeInv ==
    /\ pc \in {"setup", "method", "handshake"} => dialled = calls
    /\ pc \in Made => handle \in live
    /\ pc \in {"list", "auth"} => handle \in shaken
    /\ pc \in {"disconnect", "free"} => result # "true"
    /\ "again" \notin trouble =>
         /\ connected => handle # 0
         /\ pc \in Steps => ~connected /\ result # "true"
         /\ pc = "idle" => IF result = "true"
                           THEN connected /\ handle \in live \cap shaken \cap authed
                           ELSE connected => "kept" \in trouble
    /\ "forgotten" \notin trouble =>
         /\ "again" \notin trouble
         /\ live = {handle} \ {0}
         /\ pc \in Unmade => handle = 0
         /\ pc = "idle" /\ handle # 0 => result = "true" \/ "kept" \in trouble

\* A Connect that was told to abort while it waited still waits, or has failed.
StopInv ==
    stop => IF pc \in Steps THEN run = "wait" /\ status = "ABORTED" ELSE result # "true"

\* Where the calls are, whatever has gone wrong.
CallInv == /\ pc = "method" => methods > 0
           /\ pc \in Made => handle # 0
           /\ pc = "idle" => run = "out"

SessionInv == TypeOK /\ CallInv /\ LifeInv /\ StopInv
=============================================================================
