-------------------------- MODULE SshSessionProofs --------------------------
(***************************************************************************)
(* Theorems about SshSession, for any number of connections and methods.     *)
(***************************************************************************)
EXTENDS SshSession, TLAPS

USE SessionAssumption DEF SessionAssumption

LEMMA InitHolds == Init => SessionInv
<1> SUFFICES ASSUME Init PROVE SessionInv
  OBVIOUS
<1>1. TypeOK
  <2>1. limit \in BOOLEAN /\ proxy \in BOOLEAN
    BY DEF Init
  <2>2. live \subseteq 1 .. made /\ shaken \subseteq 1 .. made /\ authed \subseteq 1 .. made
    BY DEF Init
  <2>3. handle \in 0 .. made /\ methods \in 0 .. MaxMethods /\ calls \in 0 .. MaxCalls
    BY DEF Init
  <2> QED BY <2>1, <2>2, <2>3 DEF Init, TypeOK
<1>2. CallInv BY DEF Init, CallInv, Made
<1>3. LifeInv BY DEF Init, LifeInv, Unmade, Made
<1>4. StopInv BY DEF Init, StopInv, Steps
<1> QED BY <1>1, <1>2, <1>3, <1>4 DEF SessionInv

\* The application's own steps, between the calls and into them.
LEMMA AppStep == ASSUME SessionInv, App PROVE SessionInv'
<1> USE DEF SessionInv, CallInv, TypeOK, LifeInv, StopInv, Steps, Unmade, Made, Troubles, conn
<1>1. CASE SetMethods    BY <1>1 DEF SetMethods
<1>2. CASE Connect
  <2>1. TypeOK'
    <3>1. trouble' \subseteq Troubles     BY <1>2 DEF Connect
    <3>2. calls' \in 0 .. MaxCalls        BY <1>2 DEF Connect
    <3>3. UNCHANGED <<limit, proxy, handle, bound, connected, methods, dialled, made, live, shaken, authed>>
      BY <1>2 DEF Connect
    <3>4. pc' = "start" /\ stop' = FALSE /\ UNCHANGED <<run, status, result>>
      BY <1>2 DEF Connect
    <3>5. pc' \in Steps \cup {"idle", "disconnect", "free"} /\ stop' \in BOOLEAN
      BY <3>4
    <3>6. live' \subseteq 1 .. made' /\ shaken' \subseteq 1 .. made' /\ authed' \subseteq 1 .. made'
      BY <3>3
    <3> QED BY <3>1, <3>2, <3>3, <3>4, <3>5, <3>6
  <2>2. CallInv' BY <1>2 DEF Connect
  <2>3. LifeInv' BY <1>2 DEF Connect
  <2>4. StopInv' BY <1>2 DEF Connect
  <2> QED BY <2>1, <2>2, <2>3, <2>4
<1>3. CASE ConnectBadUrl BY <1>3 DEF ConnectBadUrl
<1>4. CASE Disconnect    BY <1>4 DEF Disconnect
<1>5. CASE Abort         BY <1>5 DEF Abort
<1> QED BY <1>1, <1>2, <1>3, <1>4, <1>5 DEF App

\* Run begins, tries and waits, and touches nothing of the session.
LEMMA RunStep ==
  ASSUME SessionInv, RunBegins \/ StepBegins \/ StepAgain \/ UNCHANGED vars
  PROVE  SessionInv'
<1> USE DEF SessionInv, CallInv, TypeOK, LifeInv, StopInv, Steps, Unmade, Made, conn
<1>1. CASE RunBegins  BY <1>1 DEF RunBegins
<1>2. CASE StepBegins BY <1>2 DEF StepBegins, abortable
<1>3. CASE StepAgain  BY <1>3 DEF StepAgain
<1>4. CASE UNCHANGED vars BY <1>4 DEF vars
<1> QED BY <1>1, <1>2, <1>3, <1>4

\* An exception, from wherever it comes.
LEMMA FailStep ==
  ASSUME SessionInv, pc # "idle", Fails
  PROVE  SessionInv'
<1> USE DEF SessionInv, CallInv, TypeOK, LifeInv, StopInv, Steps, Unmade, Made, Troubles, conn, Fails
<1>1. CASE pc \in Steps        BY <1>1
<1>2. CASE pc = "disconnect"   BY <1>2
<1>3. CASE pc = "free"         BY <1>3
<1> QED BY <1>1, <1>2, <1>3

\* A step of Connect that has done its work.
LEMMA ConnectStep ==
  ASSUME SessionInv,
         Start \/ Resolve \/ Dial \/ WaitDial \/ Setup \/ Method
           \/ Handshake \/ ListAuth \/ Authenticate
  PROVE  SessionInv'
<1> USE DEF SessionInv, CallInv, TypeOK, LifeInv, StopInv, Steps, Unmade, Made, Mended, Troubles, conn, Done
<1>1. CASE Start        BY <1>1 DEF Start
<1>2. CASE Resolve      BY <1>2 DEF Resolve
<1>3. CASE Dial         BY <1>3 DEF Dial
<1>4. CASE WaitDial     BY <1>4 DEF WaitDial
<1>5. CASE Setup        BY <1>5 DEF Setup
<1>6. CASE Method       BY <1>6 DEF Method
<1>7. CASE Handshake    BY <1>7 DEF Handshake
<1>8. CASE ListAuth     BY <1>8 DEF ListAuth
<1>9. CASE Authenticate BY <1>9 DEF Authenticate
<1> QED BY <1>1, <1>2, <1>3, <1>4, <1>5, <1>6, <1>7, <1>8, <1>9

\* A step of Exit that has done its work.
LEMMA ExitStep == ASSUME SessionInv, Goodbye \/ Free PROVE SessionInv'
<1> USE DEF SessionInv, CallInv, TypeOK, LifeInv, StopInv, Steps, Unmade, Made, Mended, Troubles, conn, Done
<1>1. CASE Goodbye BY <1>1 DEF Goodbye
<1>2. CASE Free
  <2>1. TypeOK'
    <3>1. live' \subseteq 1 .. made'      BY <1>2 DEF Free
    <3>2. connected' \in BOOLEAN /\ bound' \in BOOLEAN
      BY <1>2 DEF Free
    <3>3. handle' \in 0 .. made'          BY <1>2 DEF Free
    <3>4. UNCHANGED <<limit, proxy, methods, calls, dialled, made, shaken, authed, result, stop>>
                /\ trouble' \subseteq Troubles
      BY <1>2 DEF Free
    <3>5. pc' = "idle" /\ run' = "out" /\ status' = "IDLE"
      BY <1>2 DEF Free
    <3> QED BY <3>1, <3>2, <3>3, <3>4, <3>5
  <2>2. CallInv' BY <1>2 DEF Free
  <2>3. LifeInv' BY <1>2 DEF Free
  <2>4. StopInv' BY <1>2 DEF Free
  <2> QED BY <2>1, <2>2, <2>3, <2>4
<1> QED BY <1>1, <1>2

LEMMA NextHolds == SessionInv /\ [Next]_vars => SessionInv'
<1> SUFFICES ASSUME SessionInv, [Next]_vars PROVE SessionInv'
  OBVIOUS
<1>1. pc \in Steps \cup {"disconnect", "free"} => pc # "idle"
  BY DEF Steps
<1>2. pc = "idle" => run = "out"
  BY DEF SessionInv, CallInv
<1> QED BY <1>1, <1>2, AppStep, RunStep, FailStep, ConnectStep, ExitStep
        DEF Next, StepEnds, TimesOut, Aborted, SocketFails, StepThrows

\* The inductive invariant of a session, for any number of connections.
THEOREM SessionInvariant == Spec => []SessionInv
<1> QED BY InitHolds, NextHolds, PTL DEF Spec

\* Whatever Connect reported as connected is verified and authenticated, unless it
\* was called on a session that had not been disconnected.
THEOREM ConnectedIsTrue == Spec => []ConnectedIsAuthenticated
<1>1. SessionInv => ConnectedIsAuthenticated
  BY DEF SessionInv, TypeOK, LifeInv, ConnectedIsAuthenticated
<1> QED BY SessionInvariant, <1>1, PTL

\* No handle of libssh2 is lost as long as every Connect that returned true is
\* followed by a Disconnect before the next one, and none is left by a Connect that
\* failed or by Disconnect unless freeing it timed out.
THEOREM HandlesAreFreed == Spec => []NoHandleLost
<1>1. SessionInv => NoHandleLost
  BY DEF SessionInv, TypeOK, LifeInv, NoHandleLost
<1> QED BY SessionInvariant, <1>1, PTL

\* A Connect that was told to abort while it waited does not succeed.
THEOREM AbortIsHeeded == Spec => []AbortStops
<1>1. SessionInv => AbortStops
  BY DEF SessionInv, TypeOK, StopInv, AbortStops, Steps
<1> QED BY SessionInvariant, <1>1, PTL
=============================================================================
