------------------------------ MODULE NetProxy ------------------------------
(***************************************************************************)
(* Core/NetProxy: a tunnel through an HTTP, SOCKS4 or SOCKS5 proxy.          *)
(*                                                                           *)
(* A call of Connect or Bind fills a queue of gates; Do runs the first one   *)
(* and drops it when it answers true.  Gates can add gates: the request adds *)
(* Put and Get, and the reply, parsed from within Get as soon as its last    *)
(* byte is there, adds what comes after it.  What the proxy sends is a       *)
(* sequence of bytes, each of which knows the reply it belongs to and its    *)
(* place there; bytes of the peer behind the proxy follow the replies.       *)
(***************************************************************************)
EXTENDS Integers, Sequences

CONSTANTS Calls,         \* bound: the calls made, among AnyCall
          Addresses,     \* the kinds of address in a SOCKS5 reply
          NameLen,       \* the length of a domain name there
          MaxCalls       \* bound: calls of Connect and Bind

AnyCall == [kind : {"HTTP", "SOCKS4", "SOCKS5"}, cmd : {"CONNECT", "BIND"}, ssl : BOOLEAN,
            lookup : BOOLEAN, complete : BOOLEAN]

ASSUME ProxyAssumption ==
    /\ Calls \subseteq AnyCall
    /\ Addresses \subseteq {"ipv4", "ipv6", "domain", "other"}
    /\ NameLen \in 1 .. 255 /\ MaxCalls \in Nat

VARIABLES cfg,     \* the call: kind, command, ssl, lookup, whether hosts are set
          px,      \* the NetProxy object, and the timeout of its socket
          op,      \* "idle", or who calls Do: Run ("blocking") or the user ("async")
          answer,  \* what the last blocking call returned
          failed,  \* whether this call has failed (for the properties only)
          late,    \* IsTimeout()
          broken,  \* IsError() or IsAbort() of the socket
          asked,   \* what the proxy was sent
          said,    \* what it replied
          inbox,   \* the bytes on their way to the object
          calls

proxy == <<asked, said, inbox>>
vars  == <<cfg, px, op, answer, failed, late, broken, proxy, calls>>

Init == /\ cfg = [kind |-> "HTTP", cmd |-> "CONNECT", ssl |-> FALSE, lookup |-> FALSE, complete |-> FALSE]
        /\ px = [status |-> "IDLE", queue |-> <<>>, attached |-> FALSE, timeout |-> "own",
                 backup |-> "zero", packet |-> <<>>, length |-> 0, type |-> "helo",
                 bound |-> FALSE]
        /\ op = "idle" /\ answer = TRUE /\ failed = FALSE
        /\ late = FALSE /\ broken = FALSE
        /\ asked = <<>> /\ said = <<>> /\ inbox = <<>>
        /\ calls = 0

---------------------------------------------------------------------------
(* The replies of the proxy.                                                *)

\* How long a reply is; a SOCKS5 reply has the length of a domain name in front
\* of it.
AddressLength(a) == CASE a = "ipv4" -> 4 [] a = "ipv6" -> 16 [] a = "domain" -> 1 + NameLen
                      [] OTHER -> 4

ReplyLength(r) == CASE r.to = "helo" \/ r.to = "auth" -> 2
                    [] r.to = "request" /\ cfg.kind = "HTTP"   -> 5
                    [] r.to = "request" /\ cfg.kind = "SOCKS4" -> 8
                    [] r.to = "request" /\ cfg.kind = "SOCKS5" -> 4 + AddressLength(r.address) + 2

\* A reply says yes or no, and may stop short.
RepliesTo(m) == [to : {m}, ok : BOOLEAN, whole : BOOLEAN,
                 method  : IF m = "helo" THEN {"none", "password"} ELSE {"none"},
                 address : IF cfg.kind = "SOCKS5" /\ m = "request" THEN Addresses ELSE {"ipv4"}]

\* The first n bytes of reply k; those of the peer have no number.
Bytes(k, n) == [i \in 1 .. n |-> [of |-> k, at |-> i]]
Peer        == 0

Last(s)    == s[Len(s)]
Positive   == \A i \in 1 .. Len(said) : said[i].ok /\ said[i].whole
Requested  == asked # <<>> /\ Last(asked) = "request"
Replies(n) == Len(said) = Len(asked) + n

\* Every reply is there and positive: BIND has two.
Granted == Requested /\ Positive /\ Replies(IF cfg.cmd = "BIND" THEN 1 ELSE 0)

Say(r, n) == /\ inbox' = inbox \o Bytes(Len(said) + 1, n) /\ said' = Append(said, r)
             /\ UNCHANGED <<cfg, px, op, answer, failed, late, broken, asked, calls>>

\* The proxy replies to what it was asked, and to BIND once more when the peer
\* has connected.
ProxyReplies ==
    /\ asked # <<>> /\ Positive /\ ~broken
    /\ Replies(-1) \/ (Requested /\ cfg.cmd = "BIND" /\ Replies(0))
    /\ \E r \in RepliesTo(Last(asked)) : Say(r, ReplyLength(r) - (IF r.whole THEN 0 ELSE 1))

HasPeer(b) == \E i \in 1 .. Len(b) : b[i].of = Peer

\* The peer's first byte
PeerSends == /\ Granted /\ ~cfg.ssl /\ ~HasPeer(inbox) /\ ~HasPeer(px.packet)
             /\ px.status = "WORKING"
             /\ inbox' = inbox \o Bytes(Peer, 1)
             /\ UNCHANGED <<cfg, px, op, answer, failed, late, broken, asked, said, calls>>

ConnectionBreaks == /\ op # "idle" /\ ~broken /\ broken' = TRUE
                    /\ UNCHANGED <<cfg, px, op, answer, failed, late, proxy, calls>>

\* start_time is set by Init
TimePasses == /\ px.status = "WORKING" /\ ~late /\ late' = TRUE
              /\ UNCHANGED <<cfg, px, op, answer, failed, broken, proxy, calls>>

---------------------------------------------------------------------------
(* The object p, from one gate to the next.                                 *)
Add(p, gates) == [p EXCEPT !.queue = @ \o gates]
Dropped(p)    == [p EXCEPT !.queue = Tail(@)]

\* Exit gives the socket back.
Exited(p) == IF p.attached THEN [p EXCEPT !.attached = FALSE, !.timeout = p.backup] ELSE p

Failed_KeepsSocket(p) == [p EXCEPT !.status = "FAILED", !.queue = <<>>]

\* Do's catch of an Error
Failed(p) == Exited([p EXCEPT !.status = "FAILED", !.queue = <<>>])

\* Do after its gate: the operation is finished when no gate is left.
AfterGate(p) == IF p.queue = <<>> THEN Exited([p EXCEPT !.status = "FINISHED"]) ELSE p

Cleared(p) == [p EXCEPT !.packet = <<>>, !.length = 0]

\* Init
Began(p) == [Cleared(p) EXCEPT !.backup = p.timeout, !.timeout = "zero", !.bound = FALSE,
                               !.status = "WORKING"]

\* HttpcRequest, Socks4Request and Socks5Request
Request(p) == Add(Cleared(p), <<"Put", "Get">>)

StartSSL(p) == Add(p, <<"StartSSL", "SSLHandshake">>)

Tunnelled(p) == IF cfg.ssl THEN StartSSL(p) ELSE Exited(p)

SocksCommand_OneReply(p) ==
    IF cfg.cmd = "CONNECT" THEN Tunnelled(p) ELSE Exited([p EXCEPT !.bound = TRUE])

\* SocksCommand: the first reply to BIND is followed by another.
SocksCommand(p) ==
    IF cfg.cmd = "CONNECT" THEN Tunnelled(p)
    ELSE IF p.bound THEN Exited(p)
    ELSE Add(Cleared([p EXCEPT !.bound = TRUE]), <<"Get">>)

Socks5ParseReply_NoAuth(p, r) ==
    IF p.type \in {"helo", "auth"} THEN Request([p EXCEPT !.type = "request"]) ELSE SocksCommand(p)

\* Socks5ParseReply; the greeting and the authentication lead to the next request.
Socks5ParseReply(p, r) ==
    CASE p.type = "helo" -> Request([p EXCEPT !.type = IF r.method = "none" THEN "request" ELSE "auth"])
      [] p.type = "auth" -> Request([p EXCEPT !.type = "request"])
      [] OTHER           -> SocksCommand(p)

\* HttpcParseReply, Socks4ParseReply and Socks5ParseReply: the object after the
\* reply r; a negative reply is an Error.
Parsed(p, r) == IF ~r.ok THEN Failed(p)
                ELSE AfterGate(Dropped(CASE cfg.kind = "HTTP"   -> Tunnelled(p)
                                         [] cfg.kind = "SOCKS4" -> SocksCommand(p)
                                         [] cfg.kind = "SOCKS5" -> Socks5ParseReply(p, r)))

\* The length Socks5IsEof works out from the first five bytes; for a kind of
\* address it does not know it only adds two.
Socks5Length(p) ==
    LET a == said[p.packet[4].of].address
    IN  CASE a = "ipv4"   -> 4 + 4 + 2
          [] a = "ipv6"   -> 4 + 16 + 2
          [] a = "domain" -> 4 + NameLen + 2
          [] OTHER        -> p.length + 2

\* Get appends a byte to the packet.
WithByte(p, b) ==
    LET q == [p EXCEPT !.packet = Append(@, b)]
    IN  IF cfg.kind = "SOCKS5" /\ p.type = "request" /\ Len(q.packet) = 5
        THEN [q EXCEPT !.length = Socks5Length(q)] ELSE q

\* IsEof: HttpcIsEof goes by the empty line, the others by the length.
IsEof(p) ==
    LET n == Len(p.packet) IN
    CASE cfg.kind = "HTTP"   -> n > 3 /\ Last(p.packet).at = ReplyLength(said[Last(p.packet).of])
      [] cfg.kind = "SOCKS4" -> n = 8
      [] cfg.kind = "SOCKS5" -> IF p.type = "request" THEN n = p.length ELSE n = 2

---------------------------------------------------------------------------
(* The steps of Do.                                                         *)

\* What is left to do for Run when the object is p.
Returns(p) == IF op = "blocking" /\ p.status # "WORKING"
              THEN op' = "idle" /\ answer' = (p.status # "FAILED")
              ELSE UNCHANGED <<op, answer>>

Becomes(p) == /\ px' = p /\ failed' = (failed \/ p.status = "FAILED")
              /\ Returns(p)
              /\ UNCHANGED <<cfg, calls>>

Calling == op # "idle"

Trouble_NoTimeout == px.status = "WORKING" /\ broken

\* What Check throws for
Trouble == px.status = "WORKING" /\ (late \/ broken)

Gate(g) == Calling /\ ~Trouble /\ px.queue # <<>> /\ Head(px.queue) = g

\* Check throws
DoFails == /\ Calling /\ Trouble /\ Becomes(Failed(px))
           /\ UNCHANGED <<late, broken, proxy>>

DoInit == /\ Gate("Init")
          /\ IF px.attached /\ cfg.complete THEN Becomes(Dropped(Began(px)))
                                            ELSE Becomes(Failed(px))
          /\ late' = FALSE /\ UNCHANGED <<broken, proxy>>

\* Dns: of the proxy first, of the target later.
DoDns == /\ Gate("Dns")
         /\ Becomes(Dropped(px)) \/ Becomes(Failed(px))
         /\ UNCHANGED <<late, broken, proxy>>

DoConnect == /\ Gate("Connect") /\ Becomes(Dropped(px))
             /\ UNCHANGED <<late, broken, proxy>>

DoSocksStart == /\ Gate("SocksStart") /\ Becomes(Dropped([px EXCEPT !.type = "helo"]))
                /\ UNCHANGED <<late, broken, proxy>>

\* SOCKS4 without remote lookup has no room for an IPv6 address.
DoRequest == /\ Gate("Request")
             /\ \/ Becomes(Dropped(Request(px)))
                \/ cfg.kind = "SOCKS4" /\ ~cfg.lookup /\ Becomes(Failed(px))
             /\ UNCHANGED <<late, broken, proxy>>

DoPut == /\ Gate("Put") /\ Becomes(Cleared(Dropped(px)))
         /\ asked' = Append(asked, IF cfg.kind = "SOCKS5" THEN px.type ELSE "request")
         /\ UNCHANGED <<late, broken, said, inbox>>

\* One byte of Get's loop.
DoGet == /\ Gate("Get") /\ inbox # <<>>
         /\ inbox' = Tail(inbox)
         /\ LET p == WithByte(px, Head(inbox))
            IN  Becomes(IF IsEof(p) THEN Parsed(p, said[p.packet[1].of]) ELSE p)
         /\ UNCHANGED <<late, broken, asked, said>>

DoSSL == /\ Gate("StartSSL") \/ Gate("SSLHandshake")
         /\ inbox = <<>>
         /\ Becomes(AfterGate(Dropped(px)))
         /\ UNCHANGED <<late, broken, proxy>>

\* Do with an empty queue
DoEmpty == /\ op = "async" /\ px.queue = <<>> /\ px.status # "FINISHED"
           /\ Becomes(AfterGate(px))
           /\ UNCHANGED <<late, broken, proxy>>

Do == DoFails \/ DoInit \/ DoDns \/ DoConnect \/ DoSocksStart \/ DoRequest \/ DoPut
      \/ DoGet \/ DoSSL \/ DoEmpty

\* HttpcConnect, Socks4Connect, Socks5Connect
Gates(c) ==
    IF c.kind = "HTTP" THEN <<"Init", "Dns", "Connect", "Request">>
    ELSE IF c.lookup THEN <<"Init", "Dns", "Connect", "SocksStart", "Request">>
    ELSE <<"Init", "Dns", "Connect", "SocksStart", "Dns", "Request">>

\* Connect and Bind, after Attach of a socket or without it; over HTTP there is
\* no Bind.
Call(c, o) ==
    /\ calls < MaxCalls /\ calls' = calls + 1
    /\ op = "idle" \/ (op = "async" /\ px.status # "WORKING")
    /\ cfg' = c /\ late' = FALSE /\ broken' = FALSE
    /\ asked' = <<>> /\ said' = <<>> /\ inbox' = <<>>
    /\ \E attach \in BOOLEAN :
         LET p == [px EXCEPT !.attached = attach, !.timeout = "own"] IN
         IF c.kind = "HTTP" /\ c.cmd = "BIND"
         THEN /\ px' = [p EXCEPT !.status = "FAILED"]
              /\ op' = "idle" /\ answer' = FALSE /\ failed' = TRUE
         ELSE /\ px' = [p EXCEPT !.queue = Gates(c)]
              /\ op' = o /\ failed' = FALSE /\ UNCHANGED answer

Next == \/ \E c \in Calls, o \in {"blocking", "async"} : Call(c, o)
        \/ Do
        \/ ProxyReplies \/ PeerSends \/ ConnectionBreaks \/ TimePasses

Spec == Init /\ [][Next]_vars

\* Run calls Do in a loop, and time passes.
FairSpec == Spec /\ WF_vars(Do) /\ WF_vars(TimePasses)

---------------------------------------------------------------------------
AllGates == {"Init", "Dns", "Connect", "SocksStart", "Request", "Put", "Get", "StartSSL",
             "SSLHandshake"}
Messages == {"helo", "auth", "request"}
Byte     == [of : Nat, at : Nat]
Reply    == [to : Messages, ok : BOOLEAN, whole : BOOLEAN, method : {"none", "password"},
             address : Addresses \cup {"ipv4"}]
Proxy    == [status : {"IDLE", "WORKING", "FINISHED", "FAILED"}, queue : Seq(AllGates),
             attached : BOOLEAN, timeout : {"own", "zero"}, backup : {"own", "zero"},
             packet : Seq(Byte), length : Nat, type : Messages, bound : BOOLEAN]

TypeOK ==
    /\ cfg \in AnyCall /\ px \in Proxy /\ op \in {"idle", "blocking", "async"}
    /\ {answer, failed, late, broken} \subseteq BOOLEAN
    /\ asked \in Seq(Messages) /\ said \in Seq(Reply) /\ inbox \in Seq(Byte)
    /\ calls \in 0 .. MaxCalls

AllPeer(b) == \A i \in 1 .. Len(b) : b[i].of = Peer

\* An operation that finishes without having failed has had every reply, whole
\* and positive (two for BIND), and has taken from the socket the replies and
\* nothing else: what is read from it next is the first byte of the peer.  A
\* SOCKS5 reply with a domain name breaks this (its length is taken one short).
\* Between an asynchronous Connect and the first Do, status and queue are those of
\* a call that has not begun.
TunnelIsClean ==
    px.status = "FINISHED" /\ px.queue = <<>> /\ ~failed => Granted /\ AllPeer(inbox)

\* What goes to a SOCKS5 proxy as its i-th message.
Expected(i) == CASE i = 1 -> "helo"
                 [] i = 2 /\ said[1].method = "password" -> "auth"
                 [] OTHER -> "request"

\* What the proxy is sent follows what it said: a request only after the
\* greeting was answered, with the credentials before it when it asked for them,
\* and nothing more after the request.
AskedInOrder ==
    /\ Len(asked) <= Len(said) + 1
    /\ cfg.kind = "SOCKS5" => \A i \in 1 .. Len(asked) : asked[i] = Expected(i)
    /\ \A i \in 1 .. Len(asked) - 1 : asked[i] # "request" /\ said[i].ok

\* The socket of a call whose hosts are set is put into non-blocking mode for
\* the operation only, and let go when it has finished.  (When they are not set
\* the timeout given back is one that was never saved.  The other timeout of the
\* socket, GlobalTimeout, is set by Init and stays; it is not modelled.)
SocketGivenBack ==
    /\ px.timeout = "zero" /\ cfg.complete => px.attached /\ px.status = "WORKING"
    /\ px.status = "FINISHED" /\ px.queue = <<>> => ~px.attached

\* Run ends: with a proxy that stops in the middle of a reply, closes the
\* connection without one, or sends what is never complete, by the timeout.
RunEnds == op = "blocking" ~> op = "idle"

---------------------------------------------------------------------------
(* The inductive invariant.                                                 *)

\* While the socket waits for none it is attached and an operation is under way,
\* whose backup is the socket's own timeout; a finished operation has let it go.
SocketInv ==
    /\ px.timeout = "zero" /\ cfg.complete =>
          px.attached /\ px.status = "WORKING"
    /\ px.status = "WORKING" /\ cfg.complete /\ px.attached => px.backup = "own"
    /\ px.status = "FINISHED" /\ px.queue = <<>> => ~px.attached

\* What was asked and what was said.
AskInv ==
    /\ AskedInOrder
    /\ Len(said) <= Len(asked) + 1
    /\ Len(said) = Len(asked) + 1 => Requested /\ cfg.cmd = "BIND"
    /\ \A i \in 1 .. Len(said) - 1 : said[i].ok /\ said[i].whole
    /\ \A i \in 1 .. Len(said) :
          said[i].to = IF i <= Len(asked) THEN asked[i] ELSE "request"
    /\ cfg.kind # "SOCKS5" => \A i \in 1 .. Len(asked) : asked[i] = "request"

\* The gates of a call up to its first request.
Leading(q) == /\ q # <<>> /\ q[Len(q)] = "Request"
              /\ \A i \in 1 .. Len(q) - 1 : q[i] \in {"Dns", "Connect", "SocksStart"}

Starts(q) == cfg.kind = "SOCKS5" => \E i \in 1 .. Len(q) : q[i] = "SocksStart"

Silence == asked = <<>> /\ said = <<>> /\ inbox = <<>>

\* A call before its first Do.
Waiting == /\ px.status # "WORKING" /\ Silence
           /\ px.queue # <<>> /\ Head(px.queue) = "Init"
           /\ Leading(Tail(px.queue)) /\ Starts(px.queue)

Ended == /\ px.status \in {"FINISHED", "FAILED"} /\ px.queue = <<>> /\ ~px.attached
         /\ px.status = "FAILED" => failed

AtLead == /\ Silence /\ Leading(px.queue) /\ ~px.bound
          /\ Starts(px.queue) \/ px.type = "helo"

\* The next message is ready; every reply so far was read, and was a good one.
AtPut == /\ px.queue = <<"Put", "Get">> /\ ~px.bound /\ inbox = <<>>
         /\ Len(said) = Len(asked) /\ Positive
         /\ \A i \in 1 .. Len(asked) : asked[i] # "request"
         /\ cfg.kind = "SOCKS5" => px.type = Expected(Len(asked) + 1)

\* The number of the reply that Get reads, and what it says of the bytes on
\* their way: those of this reply, those of the second one to BIND, the peer's.
Current  == Len(asked) + (IF px.bound THEN 1 ELSE 0)
Sent(k)  == ReplyLength(said[k]) - (IF said[k].whole THEN 0 ELSE 1)
Total    == IF Current > Len(said) THEN 0
            ELSE Sent(Current) + (IF Current < Len(said) THEN Sent(Current + 1) ELSE 0)
Nth(j)   == IF Current <= Len(said) /\ j <= Sent(Current) THEN [of |-> Current, at |-> j]
            ELSE IF Current < Len(said) /\ j <= Total
                 THEN [of |-> Current + 1, at |-> j - Sent(Current)]
            ELSE [of |-> Peer, at |-> 1]
Endless  == cfg.kind = "SOCKS5" /\ px.type = "request" /\ said[Current].address = "other"

StreamInv ==
    /\ \A j \in 1 .. Len(px.packet) : px.packet[j] = Nth(j)
    /\ \A j \in 1 .. Len(inbox) : inbox[j] = Nth(Len(px.packet) + j)
    /\ Len(px.packet) + Len(inbox) >= Total
    /\ Granted \/ Len(px.packet) + Len(inbox) = Total
    /\ Current <= Len(said) => Endless \/ Len(px.packet) < ReplyLength(said[Current])

LengthInv ==
    cfg.kind = "SOCKS5" /\ px.type = "request" =>
       px.length = IF Len(px.packet) < 5 THEN 0
                   ELSE CASE said[Current].address = "ipv4" -> 10
                          [] said[Current].address = "ipv6" -> 22
                          [] OTHER -> 2

\* No reply is longer than Get takes it to be.
Exact == "domain" \notin Addresses

AtGet == /\ px.queue = <<"Get">> /\ asked # <<>>
         /\ px.bound => /\ cfg.cmd = "BIND" /\ Requested
                        /\ Exact => /\ Len(said) >= Len(asked)
                                    /\ said[Len(asked)].ok /\ said[Len(asked)].whole
         /\ cfg.kind = "SOCKS5" => px.type = Last(asked)
         /\ Exact \/ ~Requested => StreamInv /\ LengthInv

AtSSL == /\ px.queue \in {<<"StartSSL", "SSLHandshake">>, <<"SSLHandshake">>}
         /\ Exact => Granted /\ AllPeer(inbox)

StageInv ==
    IF op = "idle" THEN px.status # "WORKING"
    ELSE /\ cfg.kind = "HTTP" => cfg.cmd = "CONNECT"
         /\ \/ Waiting \/ Ended
            \/ px.status = "WORKING" /\ (AtLead \/ AtPut \/ AtGet \/ AtSSL)

ProxyInv == TypeOK /\ SocketInv /\ AskInv /\ StageInv /\ (Exact => TunnelIsClean)
=============================================================================
