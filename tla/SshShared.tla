----------------------------- MODULE SshShared -----------------------------
(***************************************************************************)
(* Core/SSH: Scp objects that save their files over one session.             *)
(*                                                                           *)
(* The calls of all objects are cut into steps, one at a time under the      *)
(* process-wide loop lock.  Between two steps of Scp::OpenWrite the request  *)
(* lives in the libssh2 session, which has room for one: scp_send begins a   *)
(* request when the session has none, and goes on with the one it has        *)
(* otherwise.  An object, the path it saves to and the file it saves share   *)
(* a name.                                                                   *)
(***************************************************************************)
EXTENDS Naturals

CONSTANTS Objects,
          None,
          MaxCalls      \* bound: calls of SaveFile

\* The places where scp_send can answer EAGAIN: it opens the channel, sends the
\* command with the path, sends the header with the size, waits for the answer.
Phases == 0 .. 4
Idle   == 0
Header == 3

VARIABLES phase,        \* session->scpSend_state
          path,         \* session->scpSend_command
          header,       \* session->scpSend_response: the file it announces
          pc,           \* what each object does
          chan,         \* its channel: the path it writes to, the file announced
          calls,        \* calls of SaveFile so far
          saved         \* for each path, the file saved there last

session == <<phase, path, header>>
vars    == <<session, pc, chan, calls, saved>>

TypeOK == /\ phase \in Phases
          /\ path \in Objects \cup {None} /\ header \in Objects \cup {None}
          /\ pc \in [Objects -> {"idle", "open", "save"}]
          /\ chan \in [Objects -> [path : Objects \cup {None}, header : Objects \cup {None}]]
          /\ calls \in 0 .. MaxCalls
          /\ saved \in [Objects -> Objects \cup {None}]

NoChannel == [path |-> None, header |-> None]

Init == /\ phase = Idle /\ path = None /\ header = None
        /\ pc = [o \in Objects |-> "idle"]
        /\ chan = [o \in Objects |-> NoChannel]
        /\ calls = 0
        /\ saved = [o \in Objects |-> None]

---------------------------------------------------------------------------
SaveFile(o) ==
    /\ pc[o] = "idle" /\ calls < MaxCalls
    /\ calls' = calls + 1
    /\ pc' = [pc EXCEPT ![o] = "open"]
    /\ UNCHANGED <<session, chan, saved>>

\* scp_send called for o gets on to place p.
ScpSend(o, p) ==
    /\ p >= phase
    /\ path' = IF phase = Idle THEN o ELSE path
    /\ header' = IF phase < Header /\ p >= Header THEN o ELSE header

\* A step of OpenWrite that ends with EAGAIN in place p.
OpenAgain(o, p) ==
    /\ pc[o] = "open" /\ p # Idle
    /\ ScpSend(o, p)
    /\ phase' = p
    /\ UNCHANGED <<pc, chan, calls, saved>>

\* The step that gets the channel.
OpenEnds(o) ==
    /\ pc[o] = "open"
    /\ ScpSend(o, 4)
    /\ phase' = Idle
    /\ chan' = [chan EXCEPT ![o] = [path |-> path', header |-> header']]
    /\ pc' = [pc EXCEPT ![o] = "save"]
    /\ UNCHANGED <<calls, saved>>

\* A step that fails in scp_send, which forgets the request.
OpenFails(o) ==
    /\ pc[o] = "open"
    /\ phase' = Idle
    /\ pc' = [pc EXCEPT ![o] = "idle"]
    /\ UNCHANGED <<path, header, chan, calls, saved>>

\* Run throws before the step: the session keeps the request.
OpenTimeout(o) ==
    /\ pc[o] = "open"
    /\ pc' = [pc EXCEPT ![o] = "idle"]
    /\ UNCHANGED <<session, chan, calls, saved>>

\* Save and Shut succeed: SaveFile returns true.
SaveEnds(o) ==
    /\ pc[o] = "save"
    /\ saved' = [saved EXCEPT ![chan[o].path] = o]
    /\ chan' = [chan EXCEPT ![o] = NoChannel]
    /\ pc' = [pc EXCEPT ![o] = "idle"]
    /\ UNCHANGED <<session, calls>>

AllDone == /\ calls = MaxCalls /\ \A o \in Objects : pc[o] = "idle"
           /\ UNCHANGED vars

Next == \/ \E o \in Objects : \/ SaveFile(o) \/ OpenEnds(o) \/ OpenFails(o)
                              \/ OpenTimeout(o) \/ SaveEnds(o)
                              \/ \E p \in Phases : OpenAgain(o, p)
        \/ AllDone

Spec == Init /\ [][Next]_vars

---------------------------------------------------------------------------
\* Properties.

\* What SaveFile saved is at the path it was given (Upp_Ssh_Channels docs:
\* "Saves the content of in to remote path").
SavedAtPath == \A p \in Objects : saved[p] \in {None, p}
=============================================================================
