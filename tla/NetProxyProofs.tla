--------------------------- MODULE NetProxyProofs ---------------------------
(***************************************************************************)
(* Theorems about NetProxy, for every set of calls and of addresses, every   *)
(* length of a name and any number of calls with one object.                 *)
(***************************************************************************)
EXTENDS NetProxy, SequenceTheorems, TLAPS

USE ProxyAssumption DEF ProxyAssumption

---------------------------------------------------------------------------
(* The object: what each of its operators changes.                          *)

SocketOf(p)  == <<p.attached, p.timeout, p.backup>>
ReadingOf(p) == <<p.packet, p.length, p.type, p.bound>>

LEMMA Fields ==
  ASSUME NEW p \in Proxy
  PROVE  /\ p.status \in {"IDLE", "WORKING", "FINISHED", "FAILED"} /\ p.queue \in Seq(AllGates)
         /\ p.attached \in BOOLEAN /\ p.timeout \in {"own", "zero"} /\ p.backup \in {"own", "zero"}
         /\ p.packet \in Seq(Byte) /\ p.length \in Nat /\ p.type \in Messages /\ p.bound \in BOOLEAN
  BY DEF Proxy

LEMMA QueueSet ==
  ASSUME NEW p \in Proxy, NEW s \in Seq(AllGates)
  PROVE  LET q == [p EXCEPT !.queue = s]
         IN  /\ q \in Proxy /\ q.queue = s /\ q.status = p.status
             /\ SocketOf(q) = SocketOf(p) /\ ReadingOf(q) = ReadingOf(p)
  BY DEF Proxy, SocketOf, ReadingOf

LEMMA TypeSet ==
  ASSUME NEW p \in Proxy, NEW t \in Messages
  PROVE  LET q == [p EXCEPT !.type = t]
         IN  /\ q \in Proxy /\ q.type = t /\ q.status = p.status /\ q.queue = p.queue
             /\ SocketOf(q) = SocketOf(p)
             /\ q.packet = p.packet /\ q.length = p.length /\ q.bound = p.bound
  BY DEF Proxy, SocketOf

LEMMA BoundSet ==
  ASSUME NEW p \in Proxy
  PROVE  LET q == [p EXCEPT !.bound = TRUE]
         IN  /\ q \in Proxy /\ q.bound = TRUE /\ q.status = p.status /\ q.queue = p.queue
             /\ SocketOf(q) = SocketOf(p)
             /\ q.packet = p.packet /\ q.length = p.length /\ q.type = p.type
  BY DEF Proxy, SocketOf

LEMMA ClearedGives ==
  ASSUME NEW p \in Proxy
  PROVE  /\ Cleared(p) \in Proxy /\ Cleared(p).packet = <<>> /\ Cleared(p).length = 0
         /\ Cleared(p).status = p.status /\ Cleared(p).queue = p.queue
         /\ SocketOf(Cleared(p)) = SocketOf(p)
         /\ Cleared(p).type = p.type /\ Cleared(p).bound = p.bound
<1>1. <<>> \in Seq(Byte)
  BY EmptySeq
<1> QED BY <1>1 DEF Cleared, Proxy, SocketOf

LEMMA BeganGives ==
  ASSUME NEW p \in Proxy
  PROVE  /\ Began(p) \in Proxy /\ Began(p).packet = <<>> /\ Began(p).length = 0
         /\ Began(p).status = "WORKING" /\ Began(p).queue = p.queue
         /\ Began(p).attached = p.attached /\ Began(p).timeout = "zero"
         /\ Began(p).backup = p.timeout
         /\ Began(p).type = p.type /\ Began(p).bound = FALSE
<1> DEFINE c == Cleared(p)
<1>1. /\ c \in Proxy /\ c.packet = <<>> /\ c.length = 0 /\ c.queue = p.queue
      /\ c.attached = p.attached /\ c.type = p.type
  BY ClearedGives DEF SocketOf
<1>2. c.timeout = p.timeout /\ p.timeout \in {"own", "zero"}
  BY Fields, ClearedGives DEF SocketOf
<1> DEFINE u == [c EXCEPT !.backup = p.timeout, !.timeout = "zero"]
           v == [u EXCEPT !.bound = FALSE, !.status = "WORKING"]
<1>3. Began(p) = v
  BY DEF Began
<1> HIDE DEF c
<1>4. /\ u \in Proxy /\ u.backup = p.timeout /\ u.timeout = "zero"
      /\ u.packet = c.packet /\ u.length = c.length /\ u.queue = c.queue
      /\ u.attached = c.attached /\ u.type = c.type
  <2> DEFINE t == [c EXCEPT !.backup = p.timeout]
             w == [t EXCEPT !.timeout = "zero"]
  <2>1. u = w
    OBVIOUS
  <2>2. /\ t \in Proxy /\ t.backup = p.timeout /\ t.packet = c.packet /\ t.length = c.length
        /\ t.queue = c.queue /\ t.attached = c.attached /\ t.type = c.type
    BY <1>1, <1>2 DEF Proxy
  <2> HIDE DEF t, u
  <2>3. /\ w \in Proxy /\ w.timeout = "zero" /\ w.backup = t.backup /\ w.packet = t.packet
        /\ w.length = t.length /\ w.queue = t.queue /\ w.attached = t.attached /\ w.type = t.type
    BY <2>2 DEF Proxy
  <2> HIDE DEF w
  <2> QED BY <2>1, <2>2, <2>3
<1> HIDE DEF u
<1>5. /\ v \in Proxy /\ v.bound = FALSE /\ v.status = "WORKING"
      /\ v.packet = u.packet /\ v.length = u.length /\ v.queue = u.queue
      /\ v.attached = u.attached /\ v.type = u.type /\ v.backup = u.backup /\ v.timeout = u.timeout
  BY <1>4 DEF Proxy
<1> HIDE DEF v
<1> QED BY <1>1, <1>3, <1>4, <1>5

\* Nothing waits any longer for a socket that was let go.
Free(p) == ~p.attached /\ (p.timeout = "zero" => ~cfg.complete)

\* The socket of an operation under way.
Holding(p) == cfg.complete => IF p.attached THEN p.backup = "own" ELSE p.timeout = "own"

LEMMA ExitedGives ==
  ASSUME NEW p \in Proxy
  PROVE  /\ Exited(p) \in Proxy /\ Exited(p).status = p.status /\ Exited(p).queue = p.queue
         /\ ReadingOf(Exited(p)) = ReadingOf(p)
         /\ Holding(p) => Free(Exited(p))
<1>1. p.backup \in {"own", "zero"}
  BY Fields
<1>2. CASE p.attached
  <2> DEFINE q == [p EXCEPT !.attached = FALSE, !.timeout = p.backup]
  <2>1. Exited(p) = q
    BY <1>2 DEF Exited
  <2>2. /\ q \in Proxy /\ q.status = p.status /\ q.queue = p.queue /\ ReadingOf(q) = ReadingOf(p)
        /\ q.attached = FALSE /\ q.timeout = p.backup
    BY <1>1 DEF Proxy, ReadingOf
  <2>3. Holding(p) => Free(q)
    <3> HIDE DEF q
    <3> QED BY <1>1, <1>2, <2>2, Fields DEF Holding, Free
  <2> QED BY <2>1, <2>2, <2>3
<1>3. CASE ~p.attached
  BY <1>3 DEF Exited, Holding, Free
<1> QED BY <1>2, <1>3

LEMMA FailedGives ==
  ASSUME NEW p \in Proxy
  PROVE  /\ Failed(p) \in Proxy /\ Failed(p).status = "FAILED" /\ Failed(p).queue = <<>>
         /\ Holding(p) => Free(Failed(p))
<1> DEFINE q == [p EXCEPT !.status = "FAILED", !.queue = <<>>]
<1>1. <<>> \in Seq(AllGates)
  BY EmptySeq
<1>2. /\ q \in Proxy /\ q.status = "FAILED" /\ q.queue = <<>>
      /\ q.attached = p.attached /\ q.timeout = p.timeout /\ q.backup = p.backup
  BY <1>1 DEF Proxy
<1>3. Failed(p) = Exited(q)
  BY DEF Failed
<1> HIDE DEF q
<1>4. Holding(p) => Holding(q)
  BY <1>2 DEF Holding
<1> QED BY <1>2, <1>3, <1>4, ExitedGives

\* After its gate an operation with none left is finished, and has let the socket go.
LEMMA AfterGateGives ==
  ASSUME NEW p \in Proxy
  PROVE  /\ p.queue # <<>> => AfterGate(p) = p
         /\ p.queue = <<>> => /\ AfterGate(p) \in Proxy /\ AfterGate(p).queue = <<>>
                              /\ AfterGate(p).status = "FINISHED"
                              /\ Holding(p) => Free(AfterGate(p))
<1> DEFINE q == [p EXCEPT !.status = "FINISHED"]
<1>1. p.queue # <<>> => AfterGate(p) = p
  BY DEF AfterGate
<1>2. /\ q \in Proxy /\ q.status = "FINISHED" /\ q.queue = p.queue
      /\ q.attached = p.attached /\ q.timeout = p.timeout /\ q.backup = p.backup
  BY DEF Proxy
<1>3. p.queue = <<>> => AfterGate(p) = Exited(q)
  BY DEF AfterGate
<1> HIDE DEF q
<1>4. Holding(p) => Holding(q)
  BY <1>2 DEF Holding
<1> QED BY <1>1, <1>2, <1>3, <1>4, ExitedGives

---------------------------------------------------------------------------
(* Gates.                                                                   *)

LEMMA Tuples ==
  /\ <<"Put", "Get">> \in Seq(AllGates) /\ <<"Get">> \in Seq(AllGates)
  /\ <<"StartSSL", "SSLHandshake">> \in Seq(AllGates) /\ <<"SSLHandshake">> \in Seq(AllGates)
  /\ <<>> \in Seq(AllGates) /\ <<"Get">> # <<>> /\ <<"Put", "Get">> # <<>>
  /\ <<"StartSSL", "SSLHandshake">> # <<>> /\ <<"SSLHandshake">> # <<>>
  BY EmptySeq DEF AllGates

\* The gate at the head goes, those added behind it stay.
LEMMA TailOfAdded ==
  ASSUME NEW S, NEW g \in S, NEW s \in Seq(S)
  PROVE  Tail(<<g>> \o s) = s
<1> DEFINE u == <<g>> \o s
           t == Tail(u)
<1>1. <<g>> \in Seq(S) /\ Len(<<g>>) = 1
  OBVIOUS
<1>2. /\ u \in Seq(S) /\ Len(u) = Len(<<g>>) + Len(s)
      /\ \A i \in 1 .. Len(<<g>>) + Len(s) :
            u[i] = IF i <= Len(<<g>>) THEN <<g>>[i] ELSE s[i - Len(<<g>>)]
  BY <1>1, ConcatProperties
<1>3. Len(s) \in Nat
  OBVIOUS
<1> HIDE DEF u
<1>4. u # <<>>
  BY <1>1, <1>2, <1>3, EmptySeq
<1>5. t \in Seq(S) /\ Len(t) = Len(u) - 1 /\ \A i \in 1 .. Len(t) : t[i] = u[i + 1]
  BY <1>2, <1>4, HeadTailProperties
<1> HIDE DEF t
<1>6. Len(t) = Len(s)
  BY <1>1, <1>2, <1>3, <1>5
<1>7. ASSUME NEW i \in 1 .. Len(t) PROVE t[i] = s[i]
  <2>1. i + 1 \in 1 .. 1 + Len(s) /\ ~(i + 1 <= 1) /\ (i + 1) - 1 = i
    BY <1>3, <1>6
  <2> QED BY <1>1, <1>2, <1>5, <2>1
<1>8. t = s
  BY <1>5, <1>6, <1>7, SeqEqual
<1> QED BY <1>8 DEF t, u

LEMMA Tails ==
  /\ Tail(<<"Get">>) = <<>> /\ Tail(<<"Put", "Get">>) = <<"Get">>
  /\ Tail(<<"SSLHandshake">>) = <<>>
  /\ Tail(<<"StartSSL", "SSLHandshake">>) = <<"SSLHandshake">>
  OBVIOUS

LEMMA Heads ==
  /\ Head(<<"Get">>) = "Get" /\ Head(<<"Put", "Get">>) = "Put"
  /\ Head(<<"SSLHandshake">>) = "SSLHandshake"
  /\ Head(<<"StartSSL", "SSLHandshake">>) = "StartSSL"
  OBVIOUS

---------------------------------------------------------------------------
(* What a reply leads to.                                                   *)

LEMMA SameSocket ==
  ASSUME NEW p \in Proxy, NEW q \in Proxy, SocketOf(q) = SocketOf(p)
  PROVE  /\ q.attached = p.attached /\ q.timeout = p.timeout /\ q.backup = p.backup
         /\ Holding(p) => Holding(q)
  BY DEF SocketOf, Holding

LEMMA FreeHolds ==
  ASSUME NEW p \in Proxy, Free(p)
  PROVE  Holding(p)
  BY Fields DEF Free, Holding

\* Get is running, and is the only gate.
Reader(p) == p \in Proxy /\ p.status = "WORKING" /\ p.queue = <<"Get">> /\ Holding(p)

Asks(p, t) == /\ p \in Proxy /\ p.status = "WORKING" /\ p.queue = <<"Put", "Get">> /\ Holding(p)
              /\ p.type = t

ReadsOn(p, t) == Reader(p) /\ p.bound = TRUE /\ p.packet = <<>> /\ p.length = 0 /\ p.type = t

Secures(p) == /\ p \in Proxy /\ p.status = "WORKING" /\ Holding(p)
              /\ p.queue = <<"StartSSL", "SSLHandshake">>

Finishes(p) == p \in Proxy /\ p.status = "FINISHED" /\ p.queue = <<>> /\ Free(p)

LEMMA AddGives ==
  ASSUME NEW p, Reader(p), NEW g \in Seq(AllGates)
  PROVE  /\ Add(p, g) \in Proxy /\ Add(p, g).queue = <<"Get">> \o g
         /\ Add(p, g).status = "WORKING" /\ SocketOf(Add(p, g)) = SocketOf(p)
         /\ ReadingOf(Add(p, g)) = ReadingOf(p)
<1> DEFINE s == <<"Get">> \o g
<1>1. s \in Seq(AllGates)
  BY Tuples, ConcatProperties
<1> DEFINE q == [p EXCEPT !.queue = s]
<1>2. Add(p, g) = q
  BY DEF Add, Reader
<1> HIDE DEF s
<1>3. p \in Proxy /\ p.status = "WORKING"
  BY DEF Reader
<1>4. q \in Proxy /\ q.queue = s /\ q.status = p.status
      /\ SocketOf(q) = SocketOf(p) /\ ReadingOf(q) = ReadingOf(p)
  BY <1>1, <1>3, QueueSet
<1> HIDE DEF q
<1> QED BY <1>2, <1>3, <1>4 DEF s

\* Get is dropped, and what was added behind it is next.
LEMMA DroppedGives ==
  ASSUME NEW p \in Proxy, NEW g \in Seq(AllGates), p.queue = <<"Get">> \o g
  PROVE  /\ Dropped(p) \in Proxy /\ Dropped(p).queue = g /\ Dropped(p).status = p.status
         /\ SocketOf(Dropped(p)) = SocketOf(p) /\ ReadingOf(Dropped(p)) = ReadingOf(p)
<1>1. Tail(p.queue) = g
  BY TailOfAdded DEF AllGates
<1>2. Dropped(p) = [p EXCEPT !.queue = g]
  BY <1>1 DEF Dropped
<1> QED BY <1>2, QueueSet

LEMMA NothingAdded == <<"Get">> = <<"Get">> \o <<>>
  BY Tuples, ConcatEmptySeq

LEMMA RequestGives ==
  ASSUME NEW p, Reader(p)
  PROVE  LET q == AfterGate(Dropped(Request(p))) IN Asks(q, p.type) /\ q.bound = p.bound
<1> DEFINE c == Cleared(p)
           a == Add(c, <<"Put", "Get">>)
           w == Dropped(a)
<1>1. p \in Proxy /\ Holding(p) /\ p.status = "WORKING" /\ p.queue = <<"Get">>
  BY DEF Reader
<1>2. c \in Proxy /\ c.status = "WORKING" /\ c.queue = <<"Get">> /\ SocketOf(c) = SocketOf(p)
      /\ c.type = p.type /\ c.bound = p.bound
  BY <1>1, ClearedGives
<1>3. Request(p) = a
  BY DEF Request
<1> HIDE DEF c
<1>4. Reader(c)
  BY <1>1, <1>2, SameSocket DEF Reader
<1>5. a \in Proxy /\ a.queue = <<"Get">> \o <<"Put", "Get">> /\ a.status = "WORKING"
      /\ SocketOf(a) = SocketOf(c) /\ ReadingOf(a) = ReadingOf(c)
  BY <1>4, AddGives, Tuples
<1> HIDE DEF a
<1>6. w \in Proxy /\ w.queue = <<"Put", "Get">> /\ w.status = "WORKING"
      /\ SocketOf(w) = SocketOf(a) /\ ReadingOf(w) = ReadingOf(a)
  BY <1>5, DroppedGives, Tuples
<1> HIDE DEF w
<1>7. AfterGate(w) = w
  BY <1>6, AfterGateGives, Tuples
<1>8. Holding(w) /\ w.type = p.type /\ w.bound = p.bound
  BY <1>1, <1>2, <1>5, <1>6, SameSocket DEF ReadingOf
<1>9. AfterGate(Dropped(Request(p))) = w
  BY <1>3, <1>7 DEF w
<1> QED BY <1>6, <1>8, <1>9 DEF Asks

LEMMA ExitGives ==
  ASSUME NEW p, Reader(p)
  PROVE  Finishes(AfterGate(Dropped(Exited(p))))
<1> DEFINE e == Exited(p)
           w == Dropped(e)
<1>1. p \in Proxy /\ Holding(p) /\ p.status = "WORKING" /\ p.queue = <<"Get">>
  BY DEF Reader
<1>2. e \in Proxy /\ e.queue = <<"Get">> \o <<>> /\ Free(e)
  BY <1>1, ExitedGives, NothingAdded
<1> HIDE DEF e
<1>3. w \in Proxy /\ w.queue = <<>> /\ SocketOf(w) = SocketOf(e)
  BY <1>2, DroppedGives, Tuples
<1> HIDE DEF w
<1>4. Holding(w)
  BY <1>2, <1>3, FreeHolds, SameSocket
<1>5. Finishes(AfterGate(w))
  BY <1>3, <1>4, AfterGateGives DEF Finishes
<1> QED BY <1>5 DEF w, e

LEMMA StartSSLGives ==
  ASSUME NEW p, Reader(p)
  PROVE  Secures(AfterGate(Dropped(StartSSL(p))))
<1> DEFINE a == Add(p, <<"StartSSL", "SSLHandshake">>)
           w == Dropped(a)
<1>1. p \in Proxy /\ Holding(p)
  BY DEF Reader
<1>2. a \in Proxy /\ a.queue = <<"Get">> \o <<"StartSSL", "SSLHandshake">> /\ a.status = "WORKING"
      /\ SocketOf(a) = SocketOf(p)
  BY AddGives, Tuples
<1>3. StartSSL(p) = a
  BY DEF StartSSL
<1> HIDE DEF a
<1>4. w \in Proxy /\ w.queue = <<"StartSSL", "SSLHandshake">> /\ w.status = "WORKING"
      /\ SocketOf(w) = SocketOf(a)
  BY <1>2, DroppedGives, Tuples
<1> HIDE DEF w
<1>5. AfterGate(w) = w /\ Holding(w)
  BY <1>1, <1>2, <1>4, AfterGateGives, SameSocket, Tuples
<1>6. AfterGate(Dropped(StartSSL(p))) = w
  BY <1>3, <1>5 DEF w
<1> QED BY <1>4, <1>5, <1>6 DEF Secures

LEMMA TunnelledGives ==
  ASSUME NEW p, Reader(p)
  PROVE  LET q == AfterGate(Dropped(Tunnelled(p)))
         IN  IF cfg.ssl THEN Secures(q) ELSE Finishes(q)
  BY ExitGives, StartSSLGives DEF Tunnelled

\* To BIND the first reply is followed by another; the last one opens the tunnel.
LEMMA SocksCommandGives ==
  ASSUME NEW p, Reader(p)
  PROVE  LET q == AfterGate(Dropped(SocksCommand(p)))
         IN  IF cfg.cmd = "CONNECT" \/ p.bound
             THEN Finishes(q) \/ (cfg.cmd = "CONNECT" /\ Secures(q))
             ELSE ReadsOn(q, p.type)
<1>1. CASE cfg.cmd = "CONNECT"
  BY <1>1, TunnelledGives DEF SocksCommand
<1>2. CASE cfg.cmd # "CONNECT" /\ p.bound
  BY <1>2, ExitGives DEF SocksCommand
<1>3. CASE cfg.cmd # "CONNECT" /\ ~p.bound
  <2> DEFINE b == [p EXCEPT !.bound = TRUE]
             c == Cleared(b)
             a == Add(c, <<"Get">>)
             w == Dropped(a)
  <2>1. p \in Proxy /\ Holding(p) /\ p.status = "WORKING" /\ p.queue = <<"Get">>
    BY DEF Reader
  <2>2. b \in Proxy /\ b.bound = TRUE /\ b.status = "WORKING" /\ b.queue = <<"Get">>
        /\ SocketOf(b) = SocketOf(p) /\ b.type = p.type
    BY <2>1, BoundSet
  <2>3. SocksCommand(p) = a
    BY <1>3 DEF SocksCommand
  <2> HIDE DEF b
  <2>4. c \in Proxy /\ c.packet = <<>> /\ c.length = 0 /\ c.status = "WORKING"
        /\ c.queue = <<"Get">> /\ SocketOf(c) = SocketOf(b) /\ c.type = b.type /\ c.bound = TRUE
    BY <2>2, ClearedGives
  <2> HIDE DEF c
  <2>5. Reader(c)
    BY <2>1, <2>2, <2>4, SameSocket DEF Reader
  <2>6. a \in Proxy /\ a.queue = <<"Get">> \o <<"Get">> /\ a.status = "WORKING"
        /\ SocketOf(a) = SocketOf(c) /\ ReadingOf(a) = ReadingOf(c)
    BY <2>5, AddGives, Tuples
  <2> HIDE DEF a
  <2>7. w \in Proxy /\ w.queue = <<"Get">> /\ w.status = "WORKING"
        /\ SocketOf(w) = SocketOf(a) /\ ReadingOf(w) = ReadingOf(a)
    BY <2>6, DroppedGives, Tuples
  <2> HIDE DEF w
  <2>8. AfterGate(w) = w
    BY <2>7, AfterGateGives, Tuples
  <2>9. Holding(w) /\ w.packet = <<>> /\ w.length = 0 /\ w.type = p.type /\ w.bound = TRUE
    BY <2>2, <2>4, <2>5, <2>6, <2>7, SameSocket DEF ReadingOf, Reader
  <2>10. AfterGate(Dropped(SocksCommand(p))) = w
    BY <2>3, <2>8 DEF w
  <2> QED BY <1>3, <2>7, <2>9, <2>10 DEF ReadsOn, Reader
<1> QED BY <1>1, <1>2, <1>3

\* The steps a reply leads to, by the proxy's kind and what was asked.
LEMMA ParsedGives ==
  ASSUME NEW p, Reader(p), NEW r, cfg \in AnyCall
  PROVE  LET q == Parsed(p, r)
         IN  /\ ~r.ok => q \in Proxy /\ q.status = "FAILED" /\ q.queue = <<>> /\ Free(q)
             /\ r.ok /\ cfg.kind = "HTTP" => Finishes(q) \/ Secures(q)
             /\ r.ok /\ cfg.kind = "SOCKS5" /\ p.type = "helo" =>
                   /\ Asks(q, IF r.method = "none" THEN "request" ELSE "auth")
                   /\ q.bound = p.bound
             /\ r.ok /\ cfg.kind = "SOCKS5" /\ p.type = "auth" =>
                   Asks(q, "request") /\ q.bound = p.bound
             /\ r.ok /\ (cfg.kind = "SOCKS4" \/ (cfg.kind = "SOCKS5" /\ p.type = "request")) =>
                   IF cfg.cmd = "CONNECT" \/ p.bound
                   THEN Finishes(q) \/ (cfg.cmd = "CONNECT" /\ Secures(q))
                   ELSE ReadsOn(q, p.type)
<1>1. p \in Proxy /\ Holding(p) /\ p.status = "WORKING" /\ p.queue = <<"Get">>
  BY DEF Reader
<1>2. CASE ~r.ok
  BY <1>1, <1>2, FailedGives DEF Parsed
<1>3. CASE r.ok /\ cfg.kind = "HTTP"
  <2>1. Parsed(p, r) = AfterGate(Dropped(Tunnelled(p)))
    BY <1>3 DEF Parsed
  <2> QED BY <1>3, <2>1, TunnelledGives
<1>4. CASE r.ok /\ (cfg.kind = "SOCKS4" \/ (cfg.kind = "SOCKS5" /\ p.type = "request"))
  <2>1. Parsed(p, r) = AfterGate(Dropped(SocksCommand(p)))
    BY <1>4 DEF Parsed, Socks5ParseReply
  <2> QED BY <1>4, <2>1, SocksCommandGives
<1>5. ASSUME r.ok, cfg.kind = "SOCKS5", p.type \in {"helo", "auth"}
      PROVE  LET t == IF p.type = "helo" /\ r.method # "none" THEN "auth" ELSE "request"
             IN  Asks(Parsed(p, r), t) /\ Parsed(p, r).bound = p.bound
  <2> DEFINE t == IF p.type = "helo" /\ r.method # "none" THEN "auth" ELSE "request"
             b == [p EXCEPT !.type = t]
  <2>1. t \in Messages
    BY DEF Messages
  <2>2. Parsed(p, r) = AfterGate(Dropped(Request(b)))
    BY <1>5 DEF Parsed, Socks5ParseReply
  <2> HIDE DEF t
  <2>3. b \in Proxy /\ b.type = t /\ b.status = "WORKING" /\ b.queue = <<"Get">>
        /\ SocketOf(b) = SocketOf(p) /\ b.bound = p.bound
    BY <1>1, <2>1, TypeSet
  <2> HIDE DEF b
  <2>4. Reader(b)
    BY <1>1, <2>3, SameSocket DEF Reader
  <2>5. Asks(Parsed(p, r), t) /\ Parsed(p, r).bound = p.bound
    BY <2>2, <2>3, <2>4, RequestGives
  <2> QED BY <2>5 DEF t
<1>6. p.type \in {"helo", "auth", "request"}
  BY <1>1, Fields DEF Messages
<1> QED BY <1>2, <1>3, <1>4, <1>5, <1>6 DEF AnyCall

---------------------------------------------------------------------------
(* Steps that keep the invariant whatever the object becomes.               *)

\* Asked and said: what they were stays as it was.
LEMMA AskKept ==
  ASSUME AskInv, UNCHANGED <<cfg, asked, said>>
  PROVE  AskInv'
<1>1. AskedInOrder'
  BY DEF AskInv, AskedInOrder, Expected
<1>2. Requested' <=> Requested
  BY DEF Requested, Last
<1> QED BY <1>1, <1>2 DEF AskInv

LEMMA GrantedKept ==
  ASSUME UNCHANGED <<cfg, asked, said>>
  PROVE  /\ Granted' <=> Granted
         /\ Requested' <=> Requested
         /\ Positive' <=> Positive
<1>1. Requested' <=> Requested
  BY DEF Requested, Last
<1>2. Positive' <=> Positive
  BY DEF Positive
<1> QED BY <1>1, <1>2 DEF Granted, Replies

LEMMA BecomesTypes ==
  ASSUME TypeOK, NEW q \in Proxy, Becomes(q), late' \in BOOLEAN, broken' \in BOOLEAN,
         asked' \in Seq(Messages), said' \in Seq(Reply), inbox' \in Seq(Byte)
  PROVE  TypeOK'
<1>1. cfg' = cfg /\ calls' = calls /\ px' = q /\ failed' \in BOOLEAN
  BY DEF Becomes, TypeOK
<1>2. op' \in {"idle", "blocking", "async"} /\ answer' \in BOOLEAN
  BY DEF Becomes, Returns, TypeOK
<1> QED BY <1>1, <1>2 DEF TypeOK, Reply, Byte, Proxy

LEMMA BecomesSocket ==
  ASSUME NEW q \in Proxy, Becomes(q), (q.status = "WORKING" /\ Holding(q)) \/ Free(q)
  PROVE  SocketInv'
<1>1. px' = q /\ cfg' = cfg
  BY DEF Becomes
<1>2. q.timeout = "own" \/ q.timeout = "zero"
  BY Fields
<1> QED BY <1>1, <1>2 DEF SocketInv, Holding, Free

\* An operation that ends.
LEMMA EndsWith ==
  ASSUME ProxyInv, Calling, NEW q \in Proxy, Becomes(q),
         q.status \in {"FINISHED", "FAILED"}, q.queue = <<>>, Free(q),
         late' \in BOOLEAN, broken' \in BOOLEAN, UNCHANGED <<asked, said>>, inbox' \in Seq(Byte),
         q.status = "FINISHED" /\ Exact /\ ~failed => Granted /\ AllPeer(inbox')
  PROVE  ProxyInv'
<1>1. TypeOK'
  BY BecomesTypes DEF ProxyInv, TypeOK
<1>2. SocketInv'
  BY BecomesSocket
<1>3. cfg' = cfg /\ px' = q /\ failed' = (failed \/ q.status = "FAILED")
  BY DEF Becomes
<1>4. AskInv'
  BY <1>3, AskKept DEF ProxyInv
<1>5. op' = "idle" \/ op' = op
  BY DEF Becomes, Returns
<1>6. StageInv'
  <2>1. cfg.kind = "HTTP" => cfg.cmd = "CONNECT"
    BY DEF ProxyInv, StageInv, Calling
  <2>2. Ended'
    BY <1>3 DEF Ended, Free
  <2> QED BY <1>3, <2>1, <2>2 DEF StageInv
<1>7. (Exact => TunnelIsClean)'
  <2>1. Granted' <=> Granted
    BY <1>3, GrantedKept
  <2> QED BY <1>3, <2>1 DEF TunnelIsClean, Exact, AllPeer
<1> QED BY <1>1, <1>2, <1>4, <1>6, <1>7 DEF ProxyInv

\* An operation that goes on.
LEMMA WorksOn ==
  ASSUME ProxyInv, Calling, NEW q \in Proxy, Becomes(q), q.status = "WORKING", Holding(q),
         late' \in BOOLEAN, broken' \in BOOLEAN,
         asked' \in Seq(Messages), said' \in Seq(Reply), inbox' \in Seq(Byte),
         AskInv', (AtLead \/ AtPut \/ AtGet \/ AtSSL)'
  PROVE  ProxyInv'
<1>1. TypeOK'
  BY BecomesTypes DEF ProxyInv
<1>2. SocketInv'
  BY BecomesSocket
<1>3. cfg' = cfg /\ px' = q /\ op' = op
  BY DEF Becomes, Returns
<1>4. StageInv'
  <2>1. cfg.kind = "HTTP" => cfg.cmd = "CONNECT"
    BY DEF ProxyInv, StageInv, Calling
  <2> QED BY <1>3, <2>1 DEF StageInv, Calling
<1>5. (Exact => TunnelIsClean)'
  BY <1>3 DEF TunnelIsClean
<1> QED BY <1>1, <1>2, <1>4, <1>5 DEF ProxyInv

\* The socket of an operation under way, or of one not begun.
LEMMA WorkingHolds ==
  ASSUME ProxyInv, px.status = "WORKING"
  PROVE  px \in Proxy /\ Holding(px)
<1>1. px \in Proxy /\ SocketInv
  BY DEF ProxyInv, TypeOK
<1>2. px.timeout = "own" \/ px.timeout = "zero"
  BY <1>1, Fields
<1> QED BY <1>1, <1>2 DEF SocketInv, Holding

---------------------------------------------------------------------------
(* Which gates each stage has.                                              *)

LEMMA LeadingTail ==
  ASSUME NEW s \in Seq(AllGates), Leading(s), Head(s) # "Request"
  PROVE  Tail(s) \in Seq(AllGates) /\ Leading(Tail(s))
<1> DEFINE t == Tail(s)
<1>1. s # <<>> /\ s[Len(s)] = "Request" /\ Len(s) \in Nat
      /\ \A i \in 1 .. Len(s) - 1 : s[i] \in {"Dns", "Connect", "SocksStart"}
  BY DEF Leading
<1>2. /\ t \in Seq(AllGates) /\ Len(t) = Len(s) - 1 /\ s[1] = Head(s) /\ Len(s) # 0
      /\ \A i \in 1 .. Len(t) : t[i] = s[i + 1]
  BY <1>1, HeadTailProperties, EmptySeq
<1> HIDE DEF t
<1>3. Len(s) # 1
  BY <1>1, <1>2
<1>4. t # <<>> /\ Len(t) \in 1 .. Len(t)
  BY <1>1, <1>2, <1>3, EmptySeq
<1>5. t[Len(t)] = "Request"
  BY <1>1, <1>2, <1>4
<1>6. ASSUME NEW i \in 1 .. Len(t) - 1 PROVE t[i] \in {"Dns", "Connect", "SocksStart"}
  <2>1. i \in 1 .. Len(t) /\ i + 1 \in 1 .. Len(s) - 1
    BY <1>1, <1>2
  <2> QED BY <1>1, <1>2, <2>1
<1> QED BY <1>2, <1>4, <1>5, <1>6 DEF Leading, t

\* A gate that is not SocksStart leaves the one that is.
LEMMA StartsTail ==
  ASSUME NEW s \in Seq(AllGates), s # <<>>, Starts(s), Head(s) # "SocksStart"
  PROVE  Starts(Tail(s))
<1> DEFINE t == Tail(s)
<1>1. /\ t \in Seq(AllGates) /\ Len(t) = Len(s) - 1 /\ s[1] = Head(s) /\ Len(s) \in Nat
      /\ \A i \in 1 .. Len(t) : t[i] = s[i + 1]
  BY HeadTailProperties
<1> HIDE DEF t
<1>2. SUFFICES ASSUME cfg.kind = "SOCKS5" PROVE \E i \in 1 .. Len(t) : t[i] = "SocksStart"
  BY DEF Starts, t
<1>3. PICK i \in 1 .. Len(s) : s[i] = "SocksStart"
  BY <1>2 DEF Starts
<1>4. i # 1
  BY <1>1, <1>3
<1>5. i - 1 \in 1 .. Len(t) /\ (i - 1) + 1 = i
  BY <1>1, <1>4
<1>6. t[i - 1] = "SocksStart"
  BY <1>1, <1>3, <1>5
<1> QED BY <1>5, <1>6

\* A call's gates up to the request: the request is the last of them.
LEMMA LeadingHead ==
  ASSUME NEW s \in Seq(AllGates), Leading(s)
  PROVE  /\ s # <<>> /\ Head(s) \in {"Dns", "Connect", "SocksStart", "Request"}
         /\ Head(s) = "Request" => s = <<"Request">>
<1>1. s # <<>> /\ Len(s) \in Nat /\ Len(s) # 0 /\ Head(s) = s[1]
  BY EmptySeq, HeadTailProperties DEF Leading
<1>2. CASE Len(s) = 1
  <2>1. s[1] = "Request"
    BY <1>2 DEF Leading
  <2>2. s = <<"Request">>
    BY <1>2, <2>1
  <2> QED BY <1>1, <2>1, <2>2
<1>3. CASE Len(s) # 1
  <2>1. \A n \in Nat : n # 0 /\ n # 1 => 1 \in 1 .. n - 1
    OBVIOUS
  <2>2. 1 \in 1 .. Len(s) - 1
    BY <1>1, <1>3, <2>1, Zenon
  <2>3. s[1] \in {"Dns", "Connect", "SocksStart"}
    BY <2>2 DEF Leading
  <2> QED BY <1>1, <2>3
<1> QED BY <1>2, <1>3

\* The stage an operation is in when a gate is to be run.
LEMMA AtGate ==
  ASSUME ProxyInv, NEW g, Gate(g)
  PROVE  /\ g = "Init" <=> Waiting
         /\ g \in {"Dns", "Connect", "SocksStart", "Request"} <=>
               px.status = "WORKING" /\ AtLead
         /\ g = "Put" <=> px.status = "WORKING" /\ AtPut
         /\ g = "Get" <=> px.status = "WORKING" /\ AtGet
         /\ g \in {"StartSSL", "SSLHandshake"} <=> px.status = "WORKING" /\ AtSSL
<1>1. op # "idle" /\ px.queue # <<>> /\ Head(px.queue) = g /\ px.queue \in Seq(AllGates)
  BY Fields DEF Gate, Calling, ProxyInv, TypeOK
<1>2. Waiting \/ (px.status = "WORKING" /\ (AtLead \/ AtPut \/ AtGet \/ AtSSL))
  BY <1>1 DEF ProxyInv, StageInv, Ended
<1>3. Waiting => px.status # "WORKING" /\ g = "Init"
  BY <1>1 DEF Waiting
<1>4. AtLead => g \in {"Dns", "Connect", "SocksStart", "Request"}
  BY <1>1, LeadingHead DEF AtLead
<1>5. AtPut => g = "Put"
  BY <1>1, Heads DEF AtPut
<1>6. AtGet => g = "Get"
  BY <1>1, Heads DEF AtGet
<1>7. AtSSL => g \in {"StartSSL", "SSLHandshake"}
  BY <1>1, Heads DEF AtSSL
<1> QED BY <1>2, <1>3, <1>4, <1>5, <1>6, <1>7

---------------------------------------------------------------------------
(* Init, and the steps that move nothing but the clock and the connection.   *)

LEMMA InitHolds ==
  ASSUME Init
  PROVE  ProxyInv
<1>1. TypeOK
  <2>1. px \in Proxy
    BY EmptySeq DEF Init, Proxy, Messages
  <2>2. asked \in Seq(Messages) /\ said \in Seq(Reply) /\ inbox \in Seq(Byte)
    BY EmptySeq DEF Init
  <2>3. cfg \in AnyCall
    BY DEF Init, AnyCall
  <2>4. calls \in 0 .. MaxCalls /\ op \in {"idle", "blocking", "async"}
    BY DEF Init
  <2>5. {answer, failed, late, broken} \subseteq BOOLEAN
    BY DEF Init
  <2> QED BY <2>1, <2>2, <2>3, <2>4, <2>5 DEF TypeOK
<1>2. SocketInv
  BY DEF Init, SocketInv
<1>3. AskInv
  BY DEF Init, AskInv, AskedInOrder
<1>4. StageInv /\ TunnelIsClean
  BY DEF Init, StageInv, TunnelIsClean
<1> QED BY <1>1, <1>2, <1>3, <1>4 DEF ProxyInv

\* The place in the stream depends on what was asked and said, and on the reply
\* that Get reads.
LEMMA PlaceKept ==
  ASSUME UNCHANGED <<cfg, asked, said>>, px'.bound = px.bound, px'.type = px.type
  PROVE  /\ Granted' <=> Granted
         /\ Current' = Current /\ Total' = Total /\ (Endless' <=> Endless)
         /\ \A k : Sent(k)' = Sent(k) /\ ReplyLength(said[k])' = ReplyLength(said[k])
         /\ \A j : Nth(j)' = Nth(j)
<1>1. Granted' <=> Granted
  BY GrantedKept
<1>2. ASSUME NEW k PROVE Sent(k)' = Sent(k) /\ ReplyLength(said[k])' = ReplyLength(said[k])
  BY DEF Sent, ReplyLength
<1>3. Current' = Current /\ (Endless' <=> Endless)
  BY DEF Current, Endless
<1>4. Total' = Total
  BY <1>2, <1>3 DEF Total
<1>5. ASSUME NEW j PROVE Nth(j)' = Nth(j)
  BY <1>2, <1>3, <1>4 DEF Nth
<1> QED BY <1>1, <1>2, <1>3, <1>4, <1>5

LEMMA StreamKept ==
  ASSUME UNCHANGED <<cfg, px, asked, said, inbox>>
  PROVE  /\ StreamInv' <=> StreamInv
         /\ LengthInv' <=> LengthInv
<1>1. StreamInv' <=> StreamInv
  BY PlaceKept DEF StreamInv
<1>2. LengthInv' <=> LengthInv
  BY PlaceKept DEF LengthInv
<1> QED BY <1>1, <1>2

LEMMA QuietKeeps ==
  ASSUME ProxyInv, UNCHANGED <<cfg, px, op, answer, failed, proxy, calls>>,
         late' \in BOOLEAN, broken' \in BOOLEAN
  PROVE  ProxyInv'
<1>1. UNCHANGED <<cfg, px, asked, said, inbox>>
  BY DEF proxy
<1>2. TypeOK'
  BY <1>1 DEF ProxyInv, TypeOK, Reply, Proxy
<1>3. SocketInv'
  BY DEF ProxyInv, SocketInv
<1>4. AskInv'
  BY <1>1, AskKept DEF ProxyInv
<1>5. /\ Granted' <=> Granted
      /\ Requested' <=> Requested
      /\ Positive' <=> Positive
  BY <1>1, GrantedKept
<1>6. StageInv'
  <2>1. (Waiting' <=> Waiting) /\ (Ended' <=> Ended) /\ (AtLead' <=> AtLead)
    BY <1>1 DEF Waiting, Ended, AtLead, Silence, Leading, Starts
  <2>2. AtPut' <=> AtPut
    BY <1>1, <1>5 DEF AtPut, Expected
  <2>3. AtGet' <=> AtGet
    BY <1>1, <1>5, StreamKept DEF AtGet, Last, Exact
  <2>4. AtSSL' <=> AtSSL
    BY <1>1, <1>5 DEF AtSSL, AllPeer, Exact
  <2> QED BY <1>1, <2>1, <2>2, <2>3, <2>4 DEF ProxyInv, StageInv
<1>7. (Exact => TunnelIsClean)'
  BY <1>1, <1>5 DEF ProxyInv, TunnelIsClean, AllPeer, Exact
<1> QED BY <1>2, <1>3, <1>4, <1>6, <1>7 DEF ProxyInv

---------------------------------------------------------------------------
(* The steps of Do.                                                         *)

\* What every step of Do leaves of a type.
LEMMA Settled ==
  ASSUME TypeOK
  PROVE  /\ late \in BOOLEAN /\ broken \in BOOLEAN
         /\ asked \in Seq(Messages) /\ said \in Seq(Reply) /\ inbox \in Seq(Byte)
         /\ px \in Proxy /\ cfg \in AnyCall
  BY DEF TypeOK

\* A step that fails, and takes nothing from the socket, keeps the invariant.
LEMMA FailsWell ==
  ASSUME ProxyInv, Calling, px \in Proxy, Holding(px), Becomes(Failed(px)),
         late' \in BOOLEAN, UNCHANGED <<broken, proxy>>
  PROVE  ProxyInv'
<1> DEFINE q == Failed(px)
<1>1. q \in Proxy /\ q.status = "FAILED" /\ q.queue = <<>> /\ Free(q) /\ Becomes(q)
  BY FailedGives
<1>2. UNCHANGED <<asked, said>> /\ inbox' \in Seq(Byte) /\ broken' \in BOOLEAN
  BY Settled DEF ProxyInv, proxy
<1> HIDE DEF q
<1> QED BY <1>1, <1>2, EndsWith

LEMMA DoFailsKeeps ==
  ASSUME ProxyInv, DoFails
  PROVE  ProxyInv'
  BY WorkingHolds, FailsWell, Settled DEF DoFails, Trouble, ProxyInv

\* Dropping the gate at the head of any queue.
LEMMA HeadDropped ==
  ASSUME NEW p \in Proxy, p.queue # <<>>
  PROVE  /\ Dropped(p) \in Proxy /\ Dropped(p).queue = Tail(p.queue)
         /\ Dropped(p).status = p.status
         /\ SocketOf(Dropped(p)) = SocketOf(p) /\ ReadingOf(Dropped(p)) = ReadingOf(p)
<1>1. Tail(p.queue) \in Seq(AllGates)
  BY Fields, HeadTailProperties
<1> QED BY <1>1, QueueSet DEF Dropped

LEMMA DoInitKeeps ==
  ASSUME ProxyInv, DoInit
  PROVE  ProxyInv'
<1>1. Waiting /\ Calling /\ px \in Proxy
  BY AtGate, Settled DEF DoInit, Gate, ProxyInv
<1>2. px.status # "WORKING" /\ (px.timeout = "zero" => ~cfg.complete) /\ px.timeout \in {"own", "zero"}
  BY <1>1, Fields DEF Waiting, ProxyInv, SocketInv
<1>3. CASE px.attached /\ cfg.complete
  <2> DEFINE b == Began(px)
             q == Dropped(b)
  <2>1. /\ b \in Proxy /\ b.status = "WORKING" /\ b.queue = px.queue
        /\ b.backup = px.timeout /\ b.bound = FALSE /\ b.attached = px.attached
    BY <1>1, BeganGives
  <2>2. px.queue \in Seq(AllGates) /\ px.queue # <<>>
    BY <1>1, Fields DEF Waiting
  <2>4. Becomes(q)
    BY <1>3 DEF DoInit
  <2> HIDE DEF b
  <2>5. /\ q \in Proxy /\ q.status = "WORKING" /\ q.queue = Tail(px.queue)
        /\ SocketOf(q) = SocketOf(b) /\ ReadingOf(q) = ReadingOf(b)
    BY <2>1, <2>2, HeadDropped
  <2> HIDE DEF q
  <2>6. Holding(q)
    BY <1>2, <1>3, <2>1, <2>5 DEF Holding, SocketOf
  <2>7. AtLead'
    <3>1. px' = q /\ cfg' = cfg /\ Silence'
      BY <1>1, <2>4 DEF Becomes, DoInit, Waiting, Silence, proxy
    <3>2. q.bound = FALSE
      BY <2>1, <2>5 DEF ReadingOf
    <3>3. Starts(Tail(px.queue)) /\ Leading(Tail(px.queue))
      BY <1>1, <2>2, StartsTail DEF Waiting
    <3> QED BY <2>5, <3>1, <3>2, <3>3 DEF AtLead, Leading, Starts
  <2>8. UNCHANGED <<asked, said, inbox>> /\ cfg' = cfg /\ late' \in BOOLEAN /\ broken' \in BOOLEAN
    BY <2>4, Settled DEF DoInit, proxy, Becomes, ProxyInv
  <2>9. AskInv' /\ asked' \in Seq(Messages) /\ said' \in Seq(Reply) /\ inbox' \in Seq(Byte)
    BY <2>8, AskKept, Settled DEF ProxyInv
  <2> QED BY <1>1, <2>4, <2>5, <2>6, <2>7, <2>8, <2>9, WorksOn
<1>4. CASE ~(px.attached /\ cfg.complete)
  <2>1. Holding(px)
    BY <1>2, <1>4 DEF Holding
  <2>2. Becomes(Failed(px)) /\ late' \in BOOLEAN /\ UNCHANGED <<broken, proxy>>
    BY <1>4 DEF DoInit
  <2> QED BY <1>1, <2>1, <2>2, FailsWell
<1> QED BY <1>3, <1>4

\* The gates up to the request, one of them done.
LEMMA LeadKeeps ==
  ASSUME ProxyInv, NEW g \in {"Dns", "Connect", "SocksStart"}, Gate(g),
         NEW t \in Messages, t = px.type \/ t = "helo", g = "SocksStart" => t = "helo",
         NEW q \in Proxy, q.queue = Tail(px.queue), q.status = px.status, q.type = t,
         q.bound = px.bound, SocketOf(q) = SocketOf(px), Becomes(q),
         UNCHANGED <<late, broken, proxy>>
  PROVE  ProxyInv'
<1>1. AtLead /\ Calling /\ px \in Proxy /\ px.status = "WORKING" /\ Holding(px)
  BY AtGate, WorkingHolds DEF Gate
<1>2. px.queue \in Seq(AllGates) /\ px.queue # <<>> /\ Head(px.queue) = g
  BY <1>1, Fields DEF Gate
<1>3. Holding(q)
  BY <1>1, SameSocket
<1>4. UNCHANGED <<asked, said, inbox>> /\ cfg' = cfg /\ px' = q
  BY DEF proxy, Becomes
<1>5. AtLead'
  <2>1. Leading(Tail(px.queue))
    BY <1>1, <1>2, LeadingTail DEF AtLead
  <2>2. Starts(Tail(px.queue)) \/ t = "helo"
    BY <1>1, <1>2, StartsTail DEF AtLead
  <2> QED BY <1>1, <1>4, <2>1, <2>2 DEF AtLead, Silence, Leading, Starts
<1>6. /\ AskInv' /\ asked' \in Seq(Messages) /\ said' \in Seq(Reply) /\ inbox' \in Seq(Byte)
      /\ late' \in BOOLEAN /\ broken' \in BOOLEAN
  BY <1>4, AskKept, Settled DEF ProxyInv
<1> QED BY <1>1, <1>3, <1>5, <1>6, WorksOn

LEMMA DoDnsKeeps ==
  ASSUME ProxyInv, DoDns \/ DoConnect
  PROVE  ProxyInv'
<1>1. PICK g \in {"Dns", "Connect"} : Gate(g)
  BY DEF DoDns, DoConnect
<1>2. px \in Proxy /\ px.status = "WORKING" /\ Holding(px) /\ Calling
  BY <1>1, AtGate, WorkingHolds DEF Gate
<1>3. CASE Becomes(Failed(px))
  BY <1>2, <1>3, FailsWell, Settled DEF DoDns, DoConnect, ProxyInv
<1>4. CASE Becomes(Dropped(px))
  <2> DEFINE q == Dropped(px)
  <2>1. /\ q \in Proxy /\ q.queue = Tail(px.queue) /\ q.status = px.status
        /\ SocketOf(q) = SocketOf(px) /\ ReadingOf(q) = ReadingOf(px) /\ Becomes(q)
    BY <1>1, <1>2, <1>4, HeadDropped DEF Gate
  <2> HIDE DEF q
  <2>2. q.type = px.type /\ q.bound = px.bound /\ px.type \in Messages
    BY <1>2, <2>1, Fields DEF ReadingOf
  <2>3. UNCHANGED <<late, broken, proxy>>
    BY DEF DoDns, DoConnect
  <2> QED BY <1>1, <2>1, <2>2, <2>3, LeadKeeps
<1> QED BY <1>3, <1>4 DEF DoDns, DoConnect

LEMMA DoSocksStartKeeps ==
  ASSUME ProxyInv, DoSocksStart
  PROVE  ProxyInv'
<1> DEFINE p == [px EXCEPT !.type = "helo"]
           q == Dropped(p)
<1>1. Gate("SocksStart") /\ Becomes(q) /\ UNCHANGED <<late, broken, proxy>>
  BY DEF DoSocksStart
<1>2. px \in Proxy /\ px.queue # <<>>
  BY <1>1, Settled DEF Gate, ProxyInv
<1>3. /\ p \in Proxy /\ p.type = "helo" /\ p.status = px.status /\ p.queue = px.queue
      /\ SocketOf(p) = SocketOf(px) /\ p.bound = px.bound
  BY <1>2, TypeSet DEF Messages
<1> HIDE DEF p
<1>4. /\ q \in Proxy /\ q.queue = Tail(px.queue) /\ q.status = px.status
      /\ SocketOf(q) = SocketOf(px) /\ ReadingOf(q) = ReadingOf(p)
  BY <1>2, <1>3, HeadDropped
<1> HIDE DEF q
<1>5. q.type = "helo" /\ q.bound = px.bound /\ "helo" \in Messages
  BY <1>3, <1>4 DEF ReadingOf, Messages
<1> QED BY <1>1, <1>4, <1>5, LeadKeeps

\* The request is the only gate left; the first message is ready after it.
LEMMA DoRequestKeeps ==
  ASSUME ProxyInv, DoRequest
  PROVE  ProxyInv'
<1>1. Gate("Request") /\ Calling /\ AtLead /\ UNCHANGED <<late, broken, proxy>>
  BY AtGate DEF DoRequest, Gate
<1>2. px \in Proxy /\ px.status = "WORKING" /\ Holding(px)
  BY <1>1, AtGate, WorkingHolds
<1>3. px.queue = <<"Request">>
  BY <1>1, <1>2, LeadingHead, Fields DEF AtLead, Gate
<1>4. CASE Becomes(Failed(px))
  BY <1>1, <1>2, <1>4, FailsWell, Settled DEF ProxyInv
<1>5. CASE Becomes(Dropped(Request(px)))
  <2> DEFINE c == Cleared(px)
             s == <<"Request">> \o <<"Put", "Get">>
             a == [c EXCEPT !.queue = s]
             q == Dropped(a)
  <2>1. /\ c \in Proxy /\ c.queue = <<"Request">> /\ c.status = "WORKING"
        /\ SocketOf(c) = SocketOf(px) /\ c.type = px.type /\ c.bound = px.bound
    BY <1>2, <1>3, ClearedGives
  <2>2. Becomes(q)
    <3>1. Request(px) = a
      BY <2>1 DEF Request, Add
    <3> QED BY <1>5, <3>1
  <2> HIDE DEF c
  <2>3. s \in Seq(AllGates)
    <3>1. <<"Request">> \in Seq(AllGates)
      BY DEF AllGates
    <3> QED BY <3>1, Tuples, ConcatProperties
  <2>4. Tail(s) = <<"Put", "Get">> /\ s # <<>>
    <3>1. Tail(s) = <<"Put", "Get">>
      BY Tuples, TailOfAdded DEF AllGates
    <3>2. <<"Request">> \in Seq(AllGates) /\ <<"Request">> # <<>>
      BY DEF AllGates
    <3>3. s # <<>>
      BY <2>3, <3>2, Tuples, ConcatEmptySeq, ConcatProperties, EmptySeq
    <3> QED BY <3>1, <3>3
  <2> HIDE DEF s
  <2>5. a \in Proxy /\ a.queue = s /\ a.status = "WORKING" /\ SocketOf(a) = SocketOf(c)
        /\ ReadingOf(a) = ReadingOf(c)
    BY <2>1, <2>3, QueueSet
  <2> HIDE DEF a
  <2>6. q \in Proxy /\ q.queue = <<"Put", "Get">> /\ q.status = "WORKING"
        /\ SocketOf(q) = SocketOf(a) /\ ReadingOf(q) = ReadingOf(a)
    BY <2>4, <2>5, HeadDropped
  <2> HIDE DEF q
  <2>7. q.type = px.type /\ q.bound = px.bound
    BY <2>1, <2>5, <2>6 DEF ReadingOf
  <2>8. Holding(q)
    BY <1>2, <2>1, <2>5, <2>6, SameSocket
  <2>9. UNCHANGED <<asked, said, inbox>> /\ cfg' = cfg /\ px' = q
    BY <1>1, <2>2 DEF proxy, Becomes
  <2>10. cfg.kind = "SOCKS5" => px.type = "helo"
    BY <1>1, <1>3 DEF AtLead, Starts
  <2>11. AtPut'
    <3>1. ~q.bound
      BY <1>1, <2>7 DEF AtLead
    <3>2. asked' = <<>> /\ said' = <<>> /\ inbox' = <<>>
      BY <1>1, <2>9 DEF AtLead, Silence
    <3>3. Positive' /\ Len(asked') = 0 /\ Len(said') = 0
      BY <3>2 DEF Positive
    <3>4. Expected(Len(asked) + 1)' = "helo"
      BY <3>3 DEF Expected
    <3> QED BY <2>6, <2>7, <2>9, <2>10, <3>1, <3>2, <3>3, <3>4 DEF AtPut
  <2>12. /\ AskInv' /\ asked' \in Seq(Messages) /\ said' \in Seq(Reply) /\ inbox' \in Seq(Byte)
         /\ late' \in BOOLEAN /\ broken' \in BOOLEAN
    BY <1>1, <2>9, AskKept, Settled DEF ProxyInv
  <2> QED BY <1>1, <2>2, <2>6, <2>8, <2>11, <2>12, WorksOn
<1> QED BY <1>4, <1>5 DEF DoRequest

\* The next message, one that the replies so far call for.
LEMMA DoPutKeeps ==
  ASSUME ProxyInv, DoPut
  PROVE  ProxyInv'
<1> DEFINE d == Dropped(px)
           q == Cleared(d)
           m == IF cfg.kind = "SOCKS5" THEN px.type ELSE "request"
<1>1. /\ Gate("Put") /\ Calling /\ AtPut /\ Becomes(q) /\ asked' = Append(asked, m)
      /\ UNCHANGED <<late, broken, said, inbox>>
  BY AtGate DEF DoPut, Gate
<1>2. px \in Proxy /\ px.status = "WORKING" /\ Holding(px)
  BY <1>1, AtGate, WorkingHolds
<1>3. /\ d \in Proxy /\ d.queue = <<"Get">> /\ d.status = "WORKING"
      /\ SocketOf(d) = SocketOf(px) /\ ReadingOf(d) = ReadingOf(px)
  BY <1>1, <1>2, HeadDropped, Tails, Tuples DEF AtPut
<1> HIDE DEF d
<1>4. /\ q \in Proxy /\ q.packet = <<>> /\ q.length = 0 /\ q.status = "WORKING"
      /\ q.queue = <<"Get">> /\ SocketOf(q) = SocketOf(d) /\ q.type = d.type /\ q.bound = d.bound
  BY <1>3, ClearedGives
<1> HIDE DEF q
<1>5. q.type = px.type /\ ~q.bound /\ Holding(q)
  BY <1>1, <1>2, <1>3, <1>4, SameSocket DEF ReadingOf, AtPut
<1>6. m \in Messages
  BY <1>2, Fields DEF Messages
<1>7. cfg' = cfg /\ px' = q
  BY <1>1 DEF Becomes
<1>8. cfg.kind = "SOCKS5" => m = Expected(Len(asked) + 1)
  BY <1>1 DEF AtPut
<1>9. cfg.kind = "SOCKS5" => m = q.type
  BY <1>5
<1>10. cfg.kind # "SOCKS5" => m = "request"
  OBVIOUS
<1> HIDE DEF m
<1>11. asked \in Seq(Messages) /\ said \in Seq(Reply) /\ inbox \in Seq(Byte)
       /\ late \in BOOLEAN /\ broken \in BOOLEAN
  BY Settled DEF ProxyInv
<1>12. /\ asked' \in Seq(Messages) /\ Len(asked') = Len(asked) + 1 /\ asked' # <<>>
       /\ asked'[Len(asked) + 1] = m /\ \A i \in 1 .. Len(asked) : asked'[i] = asked[i]
  BY <1>1, <1>6, <1>11, AppendProperties
<1>13. /\ Len(said) = Len(asked) /\ Positive /\ AskInv /\ Len(asked) \in Nat
       /\ \A i \in 1 .. Len(asked) : asked[i] # "request"
  BY <1>1, <1>11 DEF AtPut, ProxyInv
<1>14. AskInv'
  <2>1. Len(asked') <= Len(said') + 1
    BY <1>1, <1>12, <1>13
  <2>2. (cfg.kind = "SOCKS5" => \A i \in 1 .. Len(asked) : asked[i] = Expected(i))'
    <3>1. SUFFICES ASSUME cfg.kind = "SOCKS5", NEW i \in 1 .. Len(asked')
                   PROVE  asked'[i] = Expected(i)'
      BY <1>7
    <3>2. Expected(i)' = Expected(i)
      BY <1>1 DEF Expected
    <3>3. CASE i = Len(asked) + 1
      BY <1>8, <1>12, <3>1, <3>2, <3>3
    <3>4. CASE i # Len(asked) + 1
      <4>1. i \in 1 .. Len(asked)
        BY <1>12, <1>13, <3>4
      <4> QED BY <1>12, <1>13, <3>1, <3>2, <4>1 DEF AskInv, AskedInOrder
    <3> QED BY <3>3, <3>4
  <2>3. (\A i \in 1 .. Len(asked) - 1 : asked[i] # "request" /\ said[i].ok)'
    BY <1>1, <1>12, <1>13 DEF Positive
  <2>4. (Len(said) <= Len(asked) + 1)'
        /\ (Len(said) = Len(asked) + 1 => Requested /\ cfg.cmd = "BIND")'
    BY <1>1, <1>12, <1>13
  <2>5. (\A i \in 1 .. Len(said) - 1 : said[i].ok /\ said[i].whole)'
    BY <1>1, <1>13 DEF AskInv
  <2>6. (\A i \in 1 .. Len(said) :
           said[i].to = IF i <= Len(asked) THEN asked[i] ELSE "request")'
    BY <1>1, <1>12, <1>13 DEF AskInv
  <2>7. (cfg.kind # "SOCKS5" => \A i \in 1 .. Len(asked) : asked[i] = "request")'
    <3>1. SUFFICES ASSUME cfg.kind # "SOCKS5", NEW i \in 1 .. Len(asked')
                   PROVE  asked'[i] = "request"
      BY <1>7
    <3>2. i = Len(asked) + 1 \/ i \in 1 .. Len(asked)
      BY <1>12, <1>13
    <3> QED BY <1>10, <1>12, <1>13, <3>1, <3>2 DEF AskInv
  <2> QED BY <2>1, <2>2, <2>3, <2>4, <2>5, <2>6, <2>7 DEF AskInv, AskedInOrder
<1>15. AtGet'
  <2>1. Last(asked)' = m
    BY <1>12 DEF Last
  <2>2. StreamInv'
    <3>1. Len(q.packet) = 0 /\ Len(inbox') = 0
      BY <1>1, <1>4 DEF AtPut
    <3>2. Current' = Len(asked) + 1 /\ Len(said') = Len(asked)
      BY <1>1, <1>5, <1>7, <1>12, <1>13 DEF Current
    <3>3. ~(Current' <= Len(said')) /\ Current' > Len(said')
      BY <1>13, <3>2
    <3>4. Total' = 0
      BY <3>3 DEF Total
    <3> QED BY <1>7, <3>1, <3>3, <3>4 DEF StreamInv
  <2>3. LengthInv'
    BY <1>4, <1>7 DEF LengthInv
  <2> QED BY <1>4, <1>5, <1>7, <1>9, <1>12, <2>1, <2>2, <2>3 DEF AtGet
<1> QED BY <1>1, <1>4, <1>5, <1>11, <1>12, <1>14, <1>15, WorksOn

LEMMA DoSSLKeeps ==
  ASSUME ProxyInv, DoSSL
  PROVE  ProxyInv'
<1> DEFINE d == Dropped(px)
           q == AfterGate(d)
<1>1. /\ AtSSL /\ Calling /\ Becomes(q) /\ UNCHANGED <<late, broken, proxy>>
      /\ px \in Proxy /\ px.status = "WORKING" /\ Holding(px)
  BY AtGate, WorkingHolds DEF DoSSL, Gate
<1>2. /\ UNCHANGED <<asked, said, inbox>> /\ cfg' = cfg /\ px' = q
      /\ late' \in BOOLEAN /\ broken' \in BOOLEAN
      /\ asked' \in Seq(Messages) /\ said' \in Seq(Reply) /\ inbox' \in Seq(Byte)
  BY <1>1, Settled DEF proxy, Becomes, ProxyInv
<1>3. /\ d \in Proxy /\ d.queue = Tail(px.queue) /\ d.status = "WORKING" /\ SocketOf(d) = SocketOf(px)
  BY <1>1, HeadDropped, Tuples DEF AtSSL
<1>4. Holding(d)
  BY <1>1, <1>3, SameSocket
<1> HIDE DEF d
<1>5. CASE px.queue = <<"SSLHandshake">>
  <2>1. q \in Proxy /\ q.status = "FINISHED" /\ q.queue = <<>> /\ Free(q)
    BY <1>3, <1>4, <1>5, AfterGateGives, Tails
  <2> HIDE DEF q
  <2>2. Exact => Granted /\ AllPeer(inbox')
    BY <1>1, <1>2 DEF AtSSL
  <2> QED BY <1>1, <1>2, <2>1, <2>2, EndsWith
<1>6. CASE px.queue = <<"StartSSL", "SSLHandshake">>
  <2>1. q = d /\ d.queue = <<"SSLHandshake">>
    BY <1>3, <1>6, AfterGateGives, Tails, Tuples
  <2> HIDE DEF q
  <2>2. AtSSL'
    <3>1. Granted' <=> Granted
      BY <1>2, GrantedKept
    <3> QED BY <1>1, <1>2, <2>1, <3>1 DEF AtSSL, AllPeer, Exact
  <2>3. AskInv'
    BY <1>2, AskKept DEF ProxyInv
  <2> QED BY <1>1, <1>2, <1>3, <1>4, <2>1, <2>2, <2>3, WorksOn
<1> QED BY <1>1, <1>5, <1>6 DEF AtSSL

\* Do after a failure makes the operation a finished one, but it has failed.
LEMMA DoEmptyKeeps ==
  ASSUME ProxyInv, DoEmpty
  PROVE  ProxyInv'
<1> DEFINE q == AfterGate(px)
<1>1. /\ op = "async" /\ px.queue = <<>> /\ px.status # "FINISHED" /\ Becomes(q)
      /\ UNCHANGED <<late, broken, proxy>> /\ px \in Proxy
  BY Settled DEF DoEmpty, ProxyInv
<1>2. Ended
  BY <1>1, Tuples DEF ProxyInv, StageInv, Waiting, AtLead, Leading, AtPut, AtGet, AtSSL
<1>3. failed /\ Holding(px)
  BY <1>1, <1>2, Fields DEF Ended, ProxyInv, SocketInv, Holding
<1>4. q \in Proxy /\ q.status = "FINISHED" /\ q.queue = <<>> /\ Free(q)
  BY <1>1, <1>3, AfterGateGives
<1> HIDE DEF q
<1>5. UNCHANGED <<asked, said>> /\ late' \in BOOLEAN /\ broken' \in BOOLEAN /\ inbox' \in Seq(Byte)
  BY <1>1, Settled DEF proxy, ProxyInv
<1> QED BY <1>1, <1>3, <1>4, <1>5, EndsWith DEF Calling

---------------------------------------------------------------------------
(* The bytes on their way.                                                  *)

LEMMA ReplyLengths ==
  ASSUME cfg \in AnyCall, NEW r \in Reply
  PROVE  /\ ReplyLength(r) \in Nat /\ ReplyLength(r) >= 2
         /\ r.to \in {"helo", "auth"} => ReplyLength(r) = 2
         /\ r.to = "request" /\ cfg.kind = "HTTP" => ReplyLength(r) = 5
         /\ r.to = "request" /\ cfg.kind = "SOCKS4" => ReplyLength(r) = 8
         /\ r.to = "request" /\ cfg.kind = "SOCKS5" /\ r.address = "ipv4" => ReplyLength(r) = 10
         /\ r.to = "request" /\ cfg.kind = "SOCKS5" /\ r.address = "ipv6" => ReplyLength(r) = 22
         /\ r.to = "request" /\ cfg.kind = "SOCKS5" /\ r.address = "other" => ReplyLength(r) = 10
<1>1. r.to \in Messages /\ r.address \in {"ipv4", "ipv6", "domain", "other"}
  BY DEF Reply
<1>2. cfg.kind \in {"HTTP", "SOCKS4", "SOCKS5"}
  BY DEF AnyCall
<1>3. AddressLength(r.address) \in Nat /\ AddressLength(r.address) >= 0
  BY <1>1 DEF AddressLength
<1>4. CASE r.to \in {"helo", "auth"}
  BY <1>4 DEF ReplyLength
<1>5. CASE r.to = "request" /\ cfg.kind = "HTTP"
  BY <1>5 DEF ReplyLength
<1>6. CASE r.to = "request" /\ cfg.kind = "SOCKS4"
  BY <1>6 DEF ReplyLength
<1>7. CASE r.to = "request" /\ cfg.kind = "SOCKS5"
  <2>1. ReplyLength(r) = 4 + AddressLength(r.address) + 2
    BY <1>7 DEF ReplyLength
  <2> QED BY <1>1, <1>3, <1>7, <2>1 DEF AddressLength
<1> QED BY <1>1, <1>2, <1>4, <1>5, <1>6, <1>7 DEF Messages

LEMMA SentBytes ==
  ASSUME TypeOK, NEW k \in 1 .. Len(said)
  PROVE  /\ said[k] \in Reply /\ ReplyLength(said[k]) \in Nat /\ Sent(k) \in Nat /\ Sent(k) >= 1
         /\ said[k].whole => Sent(k) = ReplyLength(said[k])
         /\ ~said[k].whole => Sent(k) = ReplyLength(said[k]) - 1
<1>1. said[k] \in Reply /\ cfg \in AnyCall
  BY DEF TypeOK
<1>2. ReplyLength(said[k]) \in Nat /\ ReplyLength(said[k]) >= 2
  BY <1>1, ReplyLengths
<1> QED BY <1>1, <1>2 DEF Sent

\* Where Get is in the stream.
LEMMA Streams ==
  ASSUME TypeOK, AskInv, asked # <<>>
  PROVE  /\ Len(asked) \in Nat /\ Len(asked) >= 1 /\ Len(said) \in Nat
         /\ px.bound \in BOOLEAN
         /\ Current = IF px.bound THEN Len(asked) + 1 ELSE Len(asked)
         /\ Current \in Nat /\ Current >= 1 /\ Len(said) <= Len(asked) + 1
         /\ Total \in Nat
         /\ Current > Len(said) => Total = 0
         /\ Current = Len(said) => Total = Sent(Current)
         /\ Current < Len(said) => Current + 1 = Len(said) /\ Total = Sent(Current) + Sent(Current + 1)
<1>1. Len(asked) \in Nat /\ Len(said) \in Nat /\ px.bound \in BOOLEAN
  BY Fields DEF TypeOK
<1>2. Len(asked) # 0
  BY EmptySeq DEF TypeOK
<1>3. Current = IF px.bound THEN Len(asked) + 1 ELSE Len(asked)
  BY <1>1 DEF Current
<1>4. Current \in Nat /\ Current >= 1 /\ Len(said) <= Len(asked) + 1
  BY <1>1, <1>2, <1>3 DEF AskInv
<1>5. CASE Current > Len(said)
  BY <1>1, <1>2, <1>3, <1>4, <1>5 DEF Total
<1>6. CASE Current = Len(said)
  <2>1. Sent(Current) \in Nat
    BY <1>4, <1>6, SentBytes
  <2> QED BY <1>1, <1>2, <1>3, <1>4, <1>6, <2>1 DEF Total
<1>7. CASE Current < Len(said)
  <2>1. Current + 1 = Len(said)
    BY <1>1, <1>3, <1>4, <1>7
  <2>2. Sent(Current) \in Nat /\ Sent(Current + 1) \in Nat
    BY <1>1, <1>4, <1>7, <2>1, SentBytes
  <2> QED BY <1>1, <1>2, <1>3, <1>4, <1>7, <2>1, <2>2 DEF Total
<1> QED BY <1>1, <1>4, <1>5, <1>6, <1>7

LEMMA BytesGives ==
  ASSUME NEW k \in Nat, NEW n \in Nat
  PROVE  /\ Bytes(k, n) \in Seq(Byte) /\ Len(Bytes(k, n)) = n
         /\ \A i \in 1 .. n : Bytes(k, n)[i] = [of |-> k, at |-> i]
<1>1. \A i \in 1 .. n : [of |-> k, at |-> i] \in Byte
  BY DEF Byte
<1> QED BY <1>1, SeqDef DEF Bytes

\* What does not read: the object and the call stay, the connection goes on.
LEMMA PeerSendsKeeps ==
  ASSUME ProxyInv, PeerSends
  PROVE  ProxyInv'
<1> DEFINE b == Bytes(Peer, 1)
<1>1. /\ UNCHANGED <<cfg, px, op, answer, failed, late, broken, asked, said, calls>>
      /\ inbox' = inbox \o b /\ Granted /\ px.status = "WORKING"
  BY DEF PeerSends
<1>2. b \in Seq(Byte) /\ Len(b) = 1 /\ b[1] = [of |-> Peer, at |-> 1]
  <2>1. Peer \in Nat /\ 1 \in Nat /\ 1 \in 1 .. 1
    BY DEF Peer
  <2> QED BY <2>1, BytesGives
<1> HIDE DEF b
<1>3. inbox \in Seq(Byte) /\ TypeOK /\ AskInv /\ px \in Proxy
  BY DEF ProxyInv, TypeOK
<1>4. /\ inbox' \in Seq(Byte) /\ Len(inbox') = Len(inbox) + 1 /\ Len(inbox) \in Nat
      /\ \A j \in 1 .. Len(inbox) : inbox'[j] = inbox[j]
      /\ inbox'[Len(inbox) + 1] = [of |-> Peer, at |-> 1]
  <2>1. /\ inbox \o b \in Seq(Byte) /\ Len(inbox \o b) = Len(inbox) + Len(b)
        /\ \A i \in 1 .. Len(inbox) + Len(b) :
              (inbox \o b)[i] = IF i <= Len(inbox) THEN inbox[i] ELSE b[i - Len(inbox)]
    BY <1>2, <1>3, ConcatProperties
  <2>2. Len(inbox) \in Nat /\ Len(inbox) + 1 \in 1 .. Len(inbox) + 1
        /\ (Len(inbox) + 1) - Len(inbox) = 1 /\ ~(Len(inbox) + 1 <= Len(inbox))
    BY <1>3
  <2> QED BY <1>1, <1>2, <2>1, <2>2
<1>5. TypeOK'
  BY <1>1, <1>3, <1>4 DEF TypeOK, Reply, Proxy
<1>6. SocketInv' /\ AskInv'
  BY <1>1, <1>3, AskKept DEF ProxyInv, SocketInv
<1>7. Granted' /\ Requested' /\ Requested
  BY <1>1, GrantedKept DEF Granted
<1>8. op # "idle" /\ (cfg.kind = "HTTP" => cfg.cmd = "CONNECT") /\ (AtGet \/ AtSSL)
  <2>1. op # "idle" /\ (cfg.kind = "HTTP" => cfg.cmd = "CONNECT")
        /\ (AtLead \/ AtPut \/ AtGet \/ AtSSL)
    BY <1>1 DEF ProxyInv, StageInv, Waiting, Ended
  <2>2. asked # <<>> /\ Last(asked) = "request"
    BY <1>7 DEF Requested
  <2>3. Len(asked) \in 1 .. Len(asked)
    BY <1>3, <2>2, Streams
  <2> QED BY <2>1, <2>2, <2>3 DEF AtLead, Silence, AtPut, Last
<1>9. CASE AtSSL
  <2>1. AtSSL'
    <3>1. AllPeer(inbox) => AllPeer(inbox')
      <4>1. SUFFICES ASSUME AllPeer(inbox), NEW j \in 1 .. Len(inbox') PROVE inbox'[j].of = Peer
        BY DEF AllPeer
      <4>2. j \in 1 .. Len(inbox) \/ j = Len(inbox) + 1
        BY <1>4
      <4> QED BY <1>4, <4>1, <4>2 DEF AllPeer
    <3> QED BY <1>1, <1>7, <1>9, <3>1 DEF AtSSL, AllPeer, Exact
  <2> QED BY <1>1, <1>5, <1>6, <1>8, <2>1 DEF ProxyInv, StageInv, TunnelIsClean
<1>10. CASE AtGet
  <2>1. AtGet'
    <3>5. ASSUME Exact PROVE StreamInv' /\ LengthInv'
      <4>1. StreamInv /\ LengthInv /\ asked # <<>>
        BY <1>10, <3>5 DEF AtGet
      <4> DEFINE n == Len(px.packet) + Len(inbox)
      <4>2. n >= Total /\ Total \in Nat /\ Len(px.packet) \in Nat /\ n \in Nat
        BY <1>3, <1>4, <4>1, Streams, Fields DEF StreamInv
      <4>3. Nth(n + 1) = [of |-> Peer, at |-> 1]
        <5>1. CASE Current > Len(said)
          BY <1>3, <4>1, <5>1, Streams DEF Nth
        <5>2. CASE Current = Len(said)
          <6>1. Current \in Nat /\ Total = Sent(Current) /\ ~(n + 1 <= Sent(Current)) /\ ~(Current < Len(said))
            BY <1>3, <4>1, <4>2, <5>2, Streams
          <6> QED BY <6>1 DEF Nth
        <5>3. CASE Current < Len(said)
          <6>1. /\ Current \in Nat /\ Len(said) \in Nat /\ Current >= 1
                /\ Current + 1 = Len(said) /\ Total = Sent(Current) + Sent(Current + 1)
            BY <1>3, <4>1, <5>3, Streams
          <6>2. Sent(Current) \in Nat /\ Sent(Current + 1) \in Nat
            BY <1>3, <5>3, <6>1, SentBytes
          <6>3. ~(n + 1 <= Sent(Current)) /\ ~(n + 1 <= Total)
            BY <4>2, <6>1, <6>2
          <6> QED BY <6>3 DEF Nth
        <5> QED BY <1>3, <4>1, <5>1, <5>2, <5>3, Streams
      <4>7. \A x, y \in Nat : x + (y + 1) = (x + y) + 1
        OBVIOUS
      <4>8. Len(px.packet) + (Len(inbox) + 1) = n + 1 /\ Len(inbox') = Len(inbox) + 1
        BY <1>4, <4>2, <4>7, Zenon
      <4>4. \A j \in 1 .. Len(inbox') : inbox'[j] = Nth(Len(px.packet) + j)
        <5>1. SUFFICES ASSUME NEW j \in 1 .. Len(inbox') PROVE inbox'[j] = Nth(Len(px.packet) + j)
          OBVIOUS
        <5>2. CASE j \in 1 .. Len(inbox)
          BY <1>4, <4>1, <5>2 DEF StreamInv
        <5>3. CASE j = Len(inbox) + 1
          <6>1. Len(px.packet) + j = n + 1
            BY <4>8, <5>3
          <6> QED BY <1>4, <4>3, <5>3, <6>1
        <5> QED BY <1>4, <5>1, <5>2, <5>3
      <4>5. Len(px.packet) + Len(inbox') >= Total
        <5>1. \A x, t \in Nat : x >= t => x + 1 >= t
          OBVIOUS
        <5> QED BY <4>2, <4>8, <5>1, Zenon
      <4>6. StreamInv'
        <5>1. /\ Current' = Current /\ Total' = Total /\ (Endless' <=> Endless)
              /\ \A k : ReplyLength(said[k])' = ReplyLength(said[k])
              /\ \A j : Nth(j)' = Nth(j)
          BY <1>1, PlaceKept
        <5> QED BY <1>1, <1>7, <4>1, <4>4, <4>5, <5>1 DEF StreamInv
      <4>9. LengthInv'
        BY <1>1, <4>1, PlaceKept DEF LengthInv
      <4> QED BY <4>6, <4>9
    <3> QED BY <1>1, <1>7, <1>10, <3>5 DEF AtGet, Last, Exact
  <2> QED BY <1>1, <1>5, <1>6, <1>8, <2>1 DEF ProxyInv, StageInv, TunnelIsClean
<1> QED BY <1>8, <1>9, <1>10

\* The next reply: to what was asked last, or the second one to BIND.
LEMMA ReplyIsNext ==
  ASSUME TypeOK, AskInv, ProxyReplies
  PROVE  \E r \in Reply : \E n \in Nat :
            /\ n = ReplyLength(r) - (IF r.whole THEN 0 ELSE 1) /\ Say(r, n)
            /\ r.to = Last(asked) /\ asked # <<>> /\ Positive
            /\ \/ Len(said) + 1 = Len(asked)
               \/ Len(said) = Len(asked) /\ Requested /\ cfg.cmd = "BIND"
<1>1. PICK r \in RepliesTo(Last(asked)) : Say(r, ReplyLength(r) - (IF r.whole THEN 0 ELSE 1))
  BY DEF ProxyReplies
<1>2. asked # <<>> /\ Positive /\ Len(asked) \in Nat /\ Len(said) \in Nat /\ Len(asked) >= 1
  BY Streams DEF ProxyReplies
<1>3. Last(asked) \in Messages
  BY <1>2 DEF Last, TypeOK
<1>4. r \in Reply /\ r.to = Last(asked)
  BY <1>3 DEF RepliesTo, Reply
<1>5. ReplyLength(r) - (IF r.whole THEN 0 ELSE 1) \in Nat
  BY <1>4, ReplyLengths DEF TypeOK
<1>6. Replies(-1) => Len(said) + 1 = Len(asked)
  BY <1>2 DEF Replies
<1>7. Replies(0) => Len(said) = Len(asked)
  BY <1>2 DEF Replies
<1> QED BY <1>1, <1>2, <1>4, <1>5, <1>6, <1>7 DEF ProxyReplies

LEMMA AskReplied ==
  ASSUME TypeOK, AskInv, NEW r \in Reply, r.to = Last(asked), asked # <<>>, Positive,
         \/ Len(said) + 1 = Len(asked)
         \/ Len(said) = Len(asked) /\ Requested /\ cfg.cmd = "BIND",
         said' = Append(said, r), asked' = asked, cfg' = cfg
  PROVE  AskInv'
<1> DEFINE k == Len(said)
<1>1. said \in Seq(Reply) /\ k \in Nat /\ Len(asked) \in Nat /\ Len(asked) >= 1
  BY Streams DEF TypeOK
<1>2. /\ said' \in Seq(Reply) /\ Len(said') = k + 1 /\ said'[k + 1] = r
      /\ \A i \in 1 .. k : said'[i] = said[i]
  BY <1>1, AppendProperties
<1> HIDE DEF k
<1>3. k + 1 = Len(asked) \/ (k = Len(asked) /\ Requested /\ cfg.cmd = "BIND")
  BY DEF k
<1>4. \A i \in 1 .. k : said[i].ok /\ said[i].whole
  BY DEF k, Positive
<1>5. Requested' <=> Requested
  BY DEF Requested, Last
<1>6. Len(asked') <= Len(said') + 1 /\ Len(said') <= Len(asked') + 1
  BY <1>1, <1>2, <1>3
<1>7. (cfg.kind = "SOCKS5" => \A i \in 1 .. Len(asked) : asked[i] = Expected(i))'
  <2>1. SUFFICES ASSUME cfg.kind = "SOCKS5", NEW i \in 1 .. Len(asked) PROVE asked[i] = Expected(i)'
    OBVIOUS
  <2>2. asked[i] = Expected(i)
    BY <2>1 DEF AskInv, AskedInOrder
  <2>3. CASE i = 1
    BY <2>2, <2>3 DEF Expected
  <2>4. CASE i # 1
    <3>1. 1 \in 1 .. k
      BY <1>1, <1>3, <2>4
    <3>2. said'[1] = said[1]
      BY <1>2, <3>1
    <3> QED BY <2>2, <3>2 DEF Expected
  <2> QED BY <2>3, <2>4
<1>8. (\A i \in 1 .. Len(asked) - 1 : asked[i] # "request" /\ said[i].ok)'
  <2>1. SUFFICES ASSUME NEW i \in 1 .. Len(asked) - 1 PROVE asked[i] # "request" /\ said'[i].ok
    OBVIOUS
  <2>2. i \in 1 .. k
    BY <1>1, <1>3
  <2> QED BY <1>2, <1>4, <2>2 DEF AskInv, AskedInOrder
<1>9. (Len(said) = Len(asked) + 1 => Requested /\ cfg.cmd = "BIND")'
  BY <1>1, <1>2, <1>3, <1>5
<1>10. (\A i \in 1 .. Len(said) - 1 : said[i].ok /\ said[i].whole)'
  <2>1. SUFFICES ASSUME NEW i \in 1 .. Len(said') - 1 PROVE said'[i].ok /\ said'[i].whole
    OBVIOUS
  <2>2. i \in 1 .. k
    BY <1>1, <1>2
  <2> QED BY <1>2, <1>4, <2>2
<1>11. (\A i \in 1 .. Len(said) :
           said[i].to = IF i <= Len(asked) THEN asked[i] ELSE "request")'
  <2>1. SUFFICES ASSUME NEW i \in 1 .. Len(said')
                 PROVE  said'[i].to = IF i <= Len(asked) THEN asked[i] ELSE "request"
    OBVIOUS
  <2>2. CASE i \in 1 .. k
    BY <1>2, <2>2 DEF AskInv, k
  <2>3. CASE i = k + 1
    <3>1. said'[i].to = Last(asked)
      BY <1>2, <2>3
    <3> QED BY <1>1, <1>3, <2>3, <3>1 DEF Last, Requested
  <2> QED BY <1>1, <1>2, <2>2, <2>3
<1>12. (cfg.kind # "SOCKS5" => \A i \in 1 .. Len(asked) : asked[i] = "request")'
  BY DEF AskInv
<1> QED BY <1>6, <1>7, <1>8, <1>9, <1>10, <1>11, <1>12 DEF AskInv, AskedInOrder

\* A reply's bytes follow those on their way.
LEMMA StreamReplied ==
  ASSUME TypeOK, AskInv, StreamInv, LengthInv, asked # <<>>, ~Granted,
         NEW r \in Reply, NEW n \in Nat, n = ReplyLength(r) - (IF r.whole THEN 0 ELSE 1),
         Current = Len(said) + 1 \/ Current = Len(said),
         Say(r, n)
  PROVE  StreamInv' /\ LengthInv'
<1>1. /\ said' = Append(said, r) /\ inbox' = inbox \o Bytes(Len(said) + 1, n)
      /\ UNCHANGED <<cfg, px, asked>>
  BY DEF Say
<1>2. said \in Seq(Reply) /\ inbox \in Seq(Byte) /\ px.packet \in Seq(Byte)
  BY Fields DEF TypeOK
<1>3. PICK k \in Nat, h \in Nat, m \in Nat : k = Len(said) /\ h = Len(px.packet) /\ m = Len(inbox)
  BY <1>2
<1>4. /\ said' \in Seq(Reply) /\ Len(said') = k + 1 /\ said'[k + 1] = r
      /\ \A i \in 1 .. k : said'[i] = said[i]
  BY <1>1, <1>2, <1>3, AppendProperties
<1>5. PICK b \in Seq(Byte) : /\ b = Bytes(k + 1, n) /\ Len(b) = n
                             /\ \A i \in 1 .. n : b[i] = [of |-> k + 1, at |-> i]
  <2> DEFINE b == Bytes(k + 1, n)
  <2>1. b \in Seq(Byte) /\ Len(b) = n /\ \A i \in 1 .. n : b[i] = [of |-> k + 1, at |-> i]
    <3>1. k + 1 \in Nat
      OBVIOUS
    <3> QED BY <3>1, BytesGives
  <2> HIDE DEF b
  <2>2. b = Bytes(k + 1, n)
    BY DEF b
  <2> QED BY <2>1, <2>2
<1>6. /\ inbox' \in Seq(Byte) /\ Len(inbox') = m + n
      /\ \A i \in 1 .. m + n : inbox'[i] = IF i <= m THEN inbox[i] ELSE b[i - m]
  <2>1. /\ inbox \o b \in Seq(Byte) /\ Len(inbox \o b) = Len(inbox) + Len(b)
        /\ \A i \in 1 .. Len(inbox) + Len(b) :
              (inbox \o b)[i] = IF i <= Len(inbox) THEN inbox[i] ELSE b[i - Len(inbox)]
    BY <1>2, ConcatProperties
  <2>2. inbox' = inbox \o b
    BY <1>1, <1>3, <1>5
  <2> QED BY <1>3, <1>5, <2>1, <2>2
<1>7. PICK c \in Nat : c = Current /\ c >= 1
  BY Streams
<1>8. h + m = Total /\ Current' = c /\ Total \in Nat
  BY <1>1, <1>3, <1>7, Streams DEF StreamInv, Current
<1>9. (c > k => Total = 0) /\ (c = k => Total = Sent(c))
  BY <1>3, <1>7, Streams
<1>10. Sent(k + 1)' = n /\ ReplyLength(said[k + 1])' = ReplyLength(r)
  <2>1. ReplyLength(said[k + 1])' = ReplyLength(r)
    BY <1>1, <1>4 DEF ReplyLength
  <2> QED BY <1>4, <2>1 DEF Sent
<1>11. \A i \in 1 .. k : Sent(i)' = Sent(i) /\ ReplyLength(said[i])' = ReplyLength(said[i])
  BY <1>1, <1>4 DEF Sent, ReplyLength
<1>12. ReplyLength(r) \in Nat /\ ReplyLength(r) >= 2
  BY ReplyLengths DEF TypeOK
<1>13. CASE c = k + 1
  <2>1. h = 0 /\ m = 0
    BY <1>8, <1>9, <1>13
  <2>2. Sent(c)' = n /\ ReplyLength(said[c])' = ReplyLength(r) /\ Len(said') = c
    BY <1>4, <1>10, <1>13
  <2>3. Total' = n
    BY <1>8, <2>2 DEF Total
  <2>4. ASSUME NEW j \in 1 .. n PROVE Nth(j)' = [of |-> c, at |-> j]
    BY <1>8, <2>2 DEF Nth
  <2>5. StreamInv'
    <3>1. \A j \in 1 .. Len(px'.packet) : px'.packet[j] = Nth(j)'
      BY <1>1, <1>3, <2>1
    <3>2. \A j \in 1 .. Len(inbox') : inbox'[j] = Nth(Len(px.packet) + j)'
      <4>1. SUFFICES ASSUME NEW j \in 1 .. n PROVE inbox'[j] = Nth(Len(px.packet) + j)'
        BY <1>6, <2>1
      <4>2. Len(px.packet)' + j = j
        BY <1>1, <1>3, <2>1
      <4>3. inbox'[j] = b[j]
        BY <1>6, <2>1
      <4> QED BY <1>5, <1>13, <2>4, <4>2, <4>3
    <3>3. Len(px'.packet) + Len(inbox') = n
      BY <1>1, <1>3, <1>6, <2>1
    <3>4. Len(px'.packet) < ReplyLength(said[Current])'
      BY <1>1, <1>3, <1>8, <1>12, <2>1, <2>2
    <3> QED BY <2>3, <3>1, <3>2, <3>3, <3>4 DEF StreamInv
  <2>6. LengthInv'
    BY <1>1, <1>3, <2>1 DEF LengthInv
  <2> QED BY <2>5, <2>6
<1>14. CASE c = k
  <2>1. k \in 1 .. k
    BY <1>7, <1>14
  <2>2. PICK s \in Nat : s = Sent(c) /\ h + m = s
    BY <1>3, <1>8, <1>9, <1>14, <2>1, SentBytes
  <2>3. /\ said'[c] = said[c] /\ Sent(c)' = s /\ Len(said') = c + 1 /\ Sent(c + 1)' = n
        /\ ReplyLength(said[c])' = ReplyLength(said[c])
    BY <1>4, <1>10, <1>11, <1>14, <2>1, <2>2
  <2>4. Total' = s + n
    <3>1. ~(c > c + 1) /\ c < c + 1
      OBVIOUS
    <3> QED BY <1>8, <2>3, <3>1 DEF Total
  <2>5. ASSUME NEW j \in 1 .. s PROVE Nth(j)' = Nth(j)
    BY <1>3, <1>7, <1>8, <1>14, <2>2, <2>3 DEF Nth
  <2>6. ASSUME NEW i \in 1 .. n PROVE Nth(s + i)' = [of |-> k + 1, at |-> i]
    <3>1. ~(s + i <= s) /\ s + i <= s + n /\ (s + i) - s = i /\ c < c + 1
      OBVIOUS
    <3> QED BY <1>8, <1>14, <2>3, <2>4, <3>1 DEF Nth
  <2>7. StreamInv'
    <3>1. \A j \in 1 .. Len(px'.packet) : px'.packet[j] = Nth(j)'
      <4>1. SUFFICES ASSUME NEW j \in 1 .. h PROVE px.packet[j] = Nth(j)'
        BY <1>1, <1>3
      <4>2. j \in 1 .. s
        BY <2>2
      <4> QED BY <1>3, <2>5, <4>2 DEF StreamInv
    <3>2. \A j \in 1 .. Len(inbox') : inbox'[j] = Nth(Len(px.packet) + j)'
      <4>1. SUFFICES ASSUME NEW j \in 1 .. m + n PROVE inbox'[j] = Nth(Len(px.packet) + j)'
        BY <1>6
      <4>2. PICK i \in Nat : i = h + j
        OBVIOUS
      <4>3. Nth(Len(px.packet) + j)' = Nth(i)'
        BY <1>1, <1>3, <4>2
      <4>4. CASE j <= m
        <5>1. i \in 1 .. s /\ j \in 1 .. m
          BY <2>2, <4>2, <4>4
        <5>2. inbox[j] = Nth(i)
          BY <1>3, <4>2, <5>1 DEF StreamInv
        <5>3. inbox'[j] = inbox[j]
          BY <1>6, <4>4
        <5> QED BY <2>5, <4>3, <5>1, <5>2, <5>3
      <4>5. CASE ~(j <= m)
        <5>1. j - m \in 1 .. n /\ i = s + (j - m)
          BY <2>2, <4>2, <4>5
        <5>2. inbox'[j] = b[j - m]
          BY <1>6, <4>5
        <5>3. b[j - m] = [of |-> k + 1, at |-> j - m]
          BY <1>5, <5>1
        <5>4. Nth(s + (j - m))' = [of |-> k + 1, at |-> j - m]
          BY <2>6, <5>1
        <5> QED BY <4>3, <5>1, <5>2, <5>3, <5>4
      <4> QED BY <4>4, <4>5
    <3>3. Len(px'.packet) + Len(inbox') = s + n
      <4>1. Len(px'.packet) = h /\ Len(inbox') = m + n
        BY <1>1, <1>3, <1>6
      <4>2. h + (m + n) = s + n
        BY <2>2
      <4> QED BY <4>1, <4>2
    <3>4. (Current <= Len(said) => Endless \/ Len(px.packet) < ReplyLength(said[Current]))'
      <4>1. Endless \/ Len(px.packet) < ReplyLength(said[c])
        BY <1>3, <1>7, <1>14 DEF StreamInv
      <4>2. Endless' <=> Endless
        BY <1>1, <1>7, <1>8, <2>3 DEF Endless
      <4> QED BY <1>1, <1>8, <2>3, <4>1, <4>2
    <3>5. (Len(px.packet) + Len(inbox) >= Total)'
          /\ (Granted \/ Len(px.packet) + Len(inbox) = Total)'
      BY <2>4, <3>3
    <3> QED BY <3>1, <3>2, <3>4, <3>5 DEF StreamInv
  <2>8. LengthInv'
    BY <1>1, <1>7, <1>8, <2>3 DEF LengthInv
  <2> QED BY <2>7, <2>8
<1> QED BY <1>3, <1>7, <1>13, <1>14

LEMMA ProxyRepliesKeeps ==
  ASSUME ProxyInv, ProxyReplies
  PROVE  ProxyInv'
<1>1. TypeOK /\ AskInv
  BY DEF ProxyInv
<1>2. PICK r \in Reply, n \in Nat :
        /\ n = ReplyLength(r) - (IF r.whole THEN 0 ELSE 1) /\ Say(r, n)
        /\ r.to = Last(asked) /\ asked # <<>> /\ Positive
        /\ \/ Len(said) + 1 = Len(asked)
           \/ Len(said) = Len(asked) /\ Requested /\ cfg.cmd = "BIND"
  BY <1>1, ReplyIsNext
<1>3. /\ said' = Append(said, r) /\ inbox' = inbox \o Bytes(Len(said) + 1, n)
      /\ UNCHANGED <<cfg, px, op, answer, failed, late, broken, asked, calls>>
  BY <1>2 DEF Say
<1>4. /\ Len(asked) \in Nat /\ Len(asked) >= 1 /\ Len(said) \in Nat
      /\ px.bound \in BOOLEAN
      /\ Current = IF px.bound THEN Len(asked) + 1 ELSE Len(asked)
  BY <1>1, <1>2, Streams
<1>5. TypeOK'
  <2>1. said' \in Seq(Reply)
    BY <1>1, <1>2, <1>3, AppendProperties DEF TypeOK
  <2>2. Bytes(Len(said) + 1, n) \in Seq(Byte)
    <3>1. Len(said) + 1 \in Nat
      BY <1>4
    <3> QED BY <1>2, <3>1, BytesGives, Zenon
  <2>3. inbox' \in Seq(Byte)
    BY <1>1, <1>3, <2>2, ConcatProperties DEF TypeOK
  <2> QED BY <1>1, <1>3, <2>1, <2>3 DEF TypeOK, Reply, Proxy
<1>6. SocketInv'
  BY <1>3 DEF ProxyInv, SocketInv
<1>7. AskInv'
  BY <1>1, <1>2, <1>3, AskReplied
<1>8. ~Granted
  BY <1>2, <1>4 DEF Granted, Replies
<1>9. (Exact => TunnelIsClean)'
  BY <1>3, <1>8 DEF ProxyInv, TunnelIsClean, Exact
<1>10. StageInv'
  <2>1. CASE op = "idle"
    BY <1>3, <2>1 DEF ProxyInv, StageInv
  <2>2. CASE op # "idle" /\ Ended
    BY <1>3, <2>2 DEF ProxyInv, StageInv, Ended
  <2>3. CASE op # "idle" /\ ~Ended
    <3>1. px.status = "WORKING" /\ (AtPut \/ AtGet \/ AtSSL) /\ (cfg.kind = "HTTP" => cfg.cmd = "CONNECT")
      BY <1>2, <2>3 DEF ProxyInv, StageInv, Waiting, AtLead, Silence
    <3>2. ~AtPut
      <4>1. Len(asked) \in 1 .. Len(asked)
        BY <1>4
      <4> QED BY <1>2, <1>4, <4>1 DEF AtPut, Requested, Last
    <3>3. CASE AtSSL
      <4>1. ~Exact
        BY <1>8, <3>3 DEF AtSSL
      <4>2. AtSSL'
        BY <1>3, <3>3, <4>1 DEF AtSSL, Exact
      <4> QED BY <1>3, <2>3, <3>1, <4>2 DEF StageInv
    <3>4. CASE AtGet
      <4>1. px.bound /\ Exact => Len(said) >= Len(asked)
        BY <3>4 DEF AtGet
      <4>2. Requested' <=> Requested
        BY <1>3 DEF Requested, Last
      <4>3. px.bound /\ Exact =>
              Len(said') >= Len(asked) /\ said'[Len(asked)].ok /\ said'[Len(asked)].whole
        <5>1. SUFFICES ASSUME px.bound, Exact
                       PROVE  Len(said') >= Len(asked) /\ said'[Len(asked)].ok /\ said'[Len(asked)].whole
          OBVIOUS
        <5>2. said[Len(asked)].ok /\ said[Len(asked)].whole /\ Len(asked) \in 1 .. Len(said)
          BY <1>4, <3>4, <4>1, <5>1 DEF AtGet
        <5>3. said'[Len(asked)] = said[Len(asked)] /\ Len(said') = Len(said) + 1
          BY <1>1, <1>2, <1>3, <5>2, AppendProperties DEF TypeOK
        <5> QED BY <1>4, <5>2, <5>3
      <4>4. ASSUME Exact \/ ~Requested PROVE StreamInv' /\ LengthInv'
        <5>1. StreamInv /\ LengthInv
          BY <3>4, <4>4 DEF AtGet
        <5>2. px.bound => Requested
          BY <3>4 DEF AtGet
        <5>3. Current = Len(said) + 1 \/ Current = Len(said)
          BY <1>2, <1>4, <4>1, <4>4, <5>2
        <5> QED BY <1>1, <1>2, <1>8, <5>1, <5>3, StreamReplied
      <4>5. AtGet'
        BY <1>3, <3>4, <4>2, <4>3, <4>4 DEF AtGet, Exact, Last
      <4> QED BY <1>3, <2>3, <3>1, <4>5 DEF StageInv
    <3> QED BY <3>1, <3>2, <3>3, <3>4
  <2> QED BY <2>1, <2>2, <2>3
<1> QED BY <1>5, <1>6, <1>7, <1>9, <1>10 DEF ProxyInv

---------------------------------------------------------------------------
(* One byte of Get.                                                         *)

\* The length a SOCKS5 reply is taken to have after its fifth byte.
LengthFrom(s, l) == LET a == said[s[4].of].address
                    IN  CASE a = "ipv4" -> 10 [] a = "ipv6" -> 22
                          [] a = "domain" -> 6 + NameLen [] OTHER -> l + 2

LEMMA WithByteGives ==
  ASSUME NEW p, Reader(p), NEW b \in Byte
  PROVE  LET w == WithByte(p, b)
             s == Append(p.packet, b)
         IN  /\ Reader(w) /\ w.packet = s /\ w.type = p.type /\ w.bound = p.bound
             /\ w.length = IF cfg.kind = "SOCKS5" /\ p.type = "request" /\ Len(s) = 5
                           THEN LengthFrom(s, p.length) ELSE p.length
<1> DEFINE s == Append(p.packet, b)
           q == [p EXCEPT !.packet = s]
           l == LengthFrom(s, p.length)
           w == [q EXCEPT !.length = Socks5Length(q)]
<1>1. p \in Proxy /\ p.packet \in Seq(Byte) /\ p.length \in Nat /\ Holding(p)
      /\ p.status = "WORKING" /\ p.queue = <<"Get">>
  BY Fields DEF Reader
<1>2. s \in Seq(Byte)
  BY <1>1, AppendProperties
<1>3. l \in Nat
  <2> DEFINE a == said[s[4].of].address
  <2>1. l = CASE a = "ipv4" -> 10 [] a = "ipv6" -> 22 [] a = "domain" -> 6 + NameLen
              [] OTHER -> p.length + 2
    BY DEF LengthFrom
  <2>2. 6 + NameLen \in Nat /\ p.length + 2 \in Nat
    BY <1>1
  <2> HIDE DEF s, l, a
  <2>3. l \in {10, 22, 6 + NameLen, p.length + 2}
    BY <2>1
  <2> QED BY <2>2, <2>3
<1>4. WithByte(p, b) = IF cfg.kind = "SOCKS5" /\ p.type = "request" /\ Len(q.packet) = 5 THEN w ELSE q
  BY DEF WithByte
<1> HIDE DEF s
<1>5. /\ q \in Proxy /\ q.packet = s /\ q.length = p.length /\ q.type = p.type /\ q.bound = p.bound
      /\ q.status = p.status /\ q.queue = p.queue /\ SocketOf(q) = SocketOf(p)
  BY <1>1, <1>2 DEF Proxy, SocketOf
<1> HIDE DEF q
<1>6. Socks5Length(q) = l
  BY <1>5 DEF Socks5Length, LengthFrom
<1>7. /\ w \in Proxy /\ w.packet = q.packet /\ w.length = l /\ w.type = q.type /\ w.bound = q.bound
      /\ w.status = q.status /\ w.queue = q.queue /\ SocketOf(w) = SocketOf(q)
  <2> HIDE DEF l
  <2> QED BY <1>3, <1>5, <1>6 DEF Proxy, SocketOf
<1> HIDE DEF w, l
<1>8. Holding(q) /\ Holding(w)
  BY <1>1, <1>5, <1>7, SameSocket
<1>9. CASE cfg.kind = "SOCKS5" /\ p.type = "request" /\ Len(s) = 5
  <2>1. WithByte(p, b) = w
    BY <1>4, <1>5, <1>9
  <2> QED BY <1>1, <1>5, <1>7, <1>8, <1>9, <2>1 DEF Reader, l, s
<1>10. CASE ~(cfg.kind = "SOCKS5" /\ p.type = "request" /\ Len(s) = 5)
  <2>1. WithByte(p, b) = q
    BY <1>4, <1>5, <1>10
  <2> QED BY <1>1, <1>5, <1>8, <1>10, <2>1 DEF Reader, s
<1> QED BY <1>9, <1>10

\* A byte that arrives is one of the reply that Get reads.
LEMMA NextByte ==
  ASSUME TypeOK, AskInv, AtGet, StreamInv, inbox # <<>>
  PROVE  /\ Current \in 1 .. Len(said) /\ Len(px.packet) \in Nat
         /\ Head(inbox) = Nth(Len(px.packet) + 1)
         /\ Endless \/ (Len(px.packet) + 1 <= Sent(Current)
                        /\ Len(px.packet) + 1 <= ReplyLength(said[Current]))
<1>1. asked # <<>> /\ (px.bound => cfg.cmd = "BIND") /\ cfg.cmd \in {"CONNECT", "BIND"}
  BY DEF AtGet, TypeOK, AnyCall
<1>2. PICK c \in Nat, h \in Nat, m \in Nat, k \in Nat, a \in Nat :
        /\ c = Current /\ c >= 1 /\ h = Len(px.packet) /\ m = Len(inbox) /\ k = Len(said)
        /\ a = Len(asked) /\ a >= 1
  <2>1. Len(px.packet) \in Nat /\ Len(inbox) \in Nat
    BY Fields DEF TypeOK
  <2> QED BY <1>1, <2>1, Streams
<1>3. m # 0
  BY <1>2, EmptySeq DEF TypeOK
<1>4. Head(inbox) = Nth(h + 1)
  <2>1. Head(inbox) = inbox[1] /\ 1 \in 1 .. m
    BY <1>2, <1>3, HeadTailProperties DEF TypeOK
  <2>2. inbox[1] = Nth(h + 1)
    BY <1>2, <2>1 DEF StreamInv
  <2> QED BY <2>1, <2>2
<1>5. c <= k
  <2>1. SUFFICES ASSUME c > k PROVE FALSE
    OBVIOUS
  <2>2. Total = 0
    BY <1>1, <1>2, <2>1, Streams
  <2>3. Granted
    BY <1>2, <1>3, <2>2 DEF StreamInv
  <2>4. k = a + (IF cfg.cmd = "BIND" THEN 1 ELSE 0)
    BY <1>2, <2>3 DEF Granted, Replies
  <2>5. c = IF px.bound THEN a + 1 ELSE a
    BY <1>1, <1>2, Streams
  <2> QED BY <1>1, <2>1, <2>4, <2>5
<1>6. c \in 1 .. Len(said)
  BY <1>2, <1>5
<1>7. /\ ReplyLength(said[c]) \in Nat /\ Sent(c) \in Nat
      /\ said[c].whole => Sent(c) = ReplyLength(said[c])
      /\ ~said[c].whole => Sent(c) = ReplyLength(said[c]) - 1
  BY <1>6, SentBytes
<1>8. ASSUME ~Endless PROVE h + 1 <= ReplyLength(said[c]) /\ h + 1 <= Sent(c)
  <2>1. h < ReplyLength(said[c])
    BY <1>2, <1>5, <1>8 DEF StreamInv
  <2>2. CASE said[c].whole
    BY <1>7, <2>1, <2>2
  <2>3. CASE ~said[c].whole
    <3>1. c = k
      <4>1. c \in 1 .. Len(said) - 1 => said[c].whole
        BY DEF AskInv
      <4> QED BY <1>2, <1>6, <2>3, <4>1
    <3>2. Total = Sent(c)
      BY <1>1, <1>2, <3>1, Streams
    <3>3. ~Granted
      BY <1>6, <2>3 DEF Granted, Positive
    <3>4. h + m = Sent(c)
      BY <1>2, <3>2, <3>3 DEF StreamInv
    <3> QED BY <1>3, <1>7, <2>1, <3>4
  <2> QED BY <2>2, <2>3
<1> QED BY <1>2, <1>4, <1>6, <1>8

\* To what the reply under Get replies.
LEMMA CurrentTo ==
  ASSUME TypeOK, AskInv, AtGet, Current \in 1 .. Len(said)
  PROVE  /\ said[Current] \in Reply
         /\ cfg.kind = "SOCKS5" => said[Current].to = px.type
         /\ cfg.kind # "SOCKS5" => said[Current].to = "request"
<1>1. asked # <<>> /\ (px.bound => Requested) /\ (cfg.kind = "SOCKS5" => px.type = Last(asked))
  BY DEF AtGet
<1>2. /\ Len(asked) \in Nat /\ Len(asked) >= 1 /\ px.bound \in BOOLEAN
      /\ Current = IF px.bound THEN Len(asked) + 1 ELSE Len(asked)
  BY <1>1, Streams
<1>3. said[Current].to = IF px.bound THEN "request" ELSE Last(asked)
  BY <1>2 DEF AskInv, Last
<1>4. px.bound => Last(asked) = "request"
  BY <1>1 DEF Requested
<1>5. cfg.kind # "SOCKS5" => Last(asked) = "request"
  BY <1>2 DEF AskInv, Last
<1>6. said[Current] \in Reply
  BY DEF TypeOK
<1> QED BY <1>1, <1>3, <1>4, <1>5, <1>6

\* Get ends with the reply's last byte, and with no other; that of a SOCKS5 reply
\* with an address it does not know never comes.
LEMMA EofIsExact ==
  ASSUME ProxyInv, AtGet, StreamInv, LengthInv, Exact \/ ~Requested, inbox # <<>>, px \in Proxy,
         NEW p, p.packet = Append(px.packet, Head(inbox)), p.type = px.type, p.bound = px.bound,
         p.length = IF cfg.kind = "SOCKS5" /\ px.type = "request" /\ Len(p.packet) = 5
                    THEN LengthFrom(p.packet, px.length) ELSE px.length
  PROVE  /\ Endless => ~IsEof(p)
         /\ ~Endless => (IsEof(p) <=> Len(px.packet) + 1 = ReplyLength(said[Current]))
         /\ cfg.kind = "SOCKS5" /\ px.type = "request" =>
               p.length = IF Len(px.packet) + 1 < 5 THEN 0
                          ELSE CASE said[Current].address = "ipv4" -> 10
                                 [] said[Current].address = "ipv6" -> 22
                                 [] OTHER -> 2
<1>1. TypeOK /\ AskInv /\ px.packet \in Seq(Byte) /\ inbox \in Seq(Byte) /\ cfg \in AnyCall
  BY Fields DEF ProxyInv, TypeOK
<1>2. PICK c \in Nat, h \in Nat :
        /\ c = Current /\ c \in 1 .. Len(said) /\ h = Len(px.packet) /\ Head(inbox) = Nth(h + 1)
        /\ Endless \/ (h + 1 <= Sent(c) /\ h + 1 <= ReplyLength(said[c]))
  BY <1>1, NextByte
<1>3. Head(inbox) \in Byte
  BY <1>1, HeadTailProperties
<1>4. /\ p.packet \in Seq(Byte) /\ Len(p.packet) = h + 1 /\ p.packet[h + 1] = Nth(h + 1)
      /\ \A j \in 1 .. h : p.packet[j] = px.packet[j]
  BY <1>1, <1>2, <1>3, AppendProperties
<1>5. \A j \in 1 .. h + 1 : p.packet[j] = Nth(j)
  <2>1. SUFFICES ASSUME NEW j \in 1 .. h + 1 PROVE p.packet[j] = Nth(j)
    OBVIOUS
  <2>2. CASE j = h + 1
    BY <1>4, <2>2
  <2>3. CASE j # h + 1
    <3>1. j \in 1 .. h
      BY <2>3
    <3> QED BY <1>2, <1>4, <3>1 DEF StreamInv
  <2> QED BY <2>2, <2>3
<1>6. \A j \in 1 .. h + 1 : j <= Sent(c) => p.packet[j] = [of |-> c, at |-> j]
  <2>1. SUFFICES ASSUME NEW j \in 1 .. h + 1, j <= Sent(c) PROVE p.packet[j] = [of |-> c, at |-> j]
    OBVIOUS
  <2>2. Current <= Len(said) /\ j <= Sent(Current)
    BY <1>1, <1>2, <2>1
  <2>3. Nth(j) = [of |-> c, at |-> j]
    BY <1>2, <2>2 DEF Nth
  <2> QED BY <1>5, <2>3
<1>7. /\ said[c] \in Reply /\ ReplyLength(said[c]) \in Nat /\ Sent(c) \in Nat
      /\ Sent(c) = ReplyLength(said[c]) \/ Sent(c) = ReplyLength(said[c]) - 1
  BY <1>1, <1>2, SentBytes
<1>8. /\ cfg.kind = "SOCKS5" => said[c].to = px.type
      /\ cfg.kind # "SOCKS5" => said[c].to = "request"
  BY <1>1, <1>2, CurrentTo
<1>9. Last(p.packet) = Nth(h + 1)
  BY <1>4 DEF Last
<1>10. CASE cfg.kind = "HTTP"
  <2>1. ~Endless /\ ReplyLength(said[c]) = 5 /\ h + 1 <= Sent(c)
    BY <1>1, <1>2, <1>7, <1>8, <1>10, ReplyLengths DEF Endless
  <2>2. h + 1 \in 1 .. h + 1
    OBVIOUS
  <2>3. Last(p.packet) = [of |-> c, at |-> h + 1]
    BY <1>4, <1>6, <2>1, <2>2 DEF Last
  <2>4. IsEof(p) <=> (h + 1 > 3 /\ h + 1 = 5)
    BY <1>4, <1>10, <2>1, <2>3 DEF IsEof
  <2> QED BY <1>2, <1>10, <2>1, <2>4
<1>11. CASE cfg.kind = "SOCKS4"
  <2>1. ~Endless /\ ReplyLength(said[c]) = 8
    BY <1>1, <1>7, <1>8, <1>11, ReplyLengths DEF Endless
  <2>2. IsEof(p) <=> h + 1 = 8
    BY <1>4, <1>11 DEF IsEof
  <2> QED BY <1>2, <1>11, <2>1, <2>2
<1>12. CASE cfg.kind = "SOCKS5" /\ px.type # "request"
  <2>1. ~Endless /\ ReplyLength(said[c]) = 2
    <3>1. px.type \in Messages
      BY Fields
    <3> QED BY <1>1, <1>7, <1>8, <1>12, <3>1, ReplyLengths DEF Endless, Messages
  <2>2. IsEof(p) <=> h + 1 = 2
    BY <1>4, <1>12 DEF IsEof
  <2> QED BY <1>2, <1>12, <2>1, <2>2
<1>13. CASE cfg.kind = "SOCKS5" /\ px.type = "request"
  <2> DEFINE a == said[c].address
  <2>1. a \in {"ipv4", "ipv6", "other"}
    <3>1. Exact
      BY <1>13 DEF AtGet, Requested
    <3> QED BY <1>7, <3>1 DEF Reply, Exact
  <2>2. Endless <=> a = "other"
    BY <1>2, <1>13 DEF Endless
  <2>3. /\ a = "ipv4" => ReplyLength(said[c]) = 10
        /\ a = "ipv6" => ReplyLength(said[c]) = 22
        /\ a = "other" => ReplyLength(said[c]) = 10
    BY <1>1, <1>7, <1>8, <1>13, ReplyLengths
  <2>4. px.length = IF h < 5 THEN 0 ELSE CASE a = "ipv4" -> 10 [] a = "ipv6" -> 22 [] OTHER -> 2
    BY <1>2, <1>13 DEF LengthInv
  <2>5. p.length = IF h + 1 < 5 THEN 0 ELSE CASE a = "ipv4" -> 10 [] a = "ipv6" -> 22 [] OTHER -> 2
    <3>1. CASE h + 1 < 5
      BY <1>4, <2>4, <3>1
    <3>2. CASE h + 1 = 5
      <4>1. 4 \in 1 .. h + 1 /\ 4 <= Sent(c)
        BY <1>7, <2>1, <2>3, <3>2
      <4>2. said[p.packet[4].of].address = a
        <5>1. p.packet[4] = [of |-> c, at |-> 4]
          BY <1>6, <4>1
        <5>2. [of |-> c, at |-> 4].of = c
          OBVIOUS
        <5>3. p.packet[4].of = c
          BY <5>1, <5>2, Zenon
        <5> QED BY <5>3
      <4>3. p.length = LengthFrom(p.packet, px.length) /\ px.length = 0
        BY <1>4, <1>13, <2>4, <3>2
      <4>4. p.length = CASE a = "ipv4" -> 10 [] a = "ipv6" -> 22 [] OTHER -> 2
        BY <2>1, <4>2, <4>3 DEF LengthFrom
      <4> QED BY <3>2, <4>4
    <3>3. CASE ~(h + 1 < 5) /\ h + 1 # 5
      BY <1>4, <2>4, <3>3
    <3> QED BY <3>1, <3>2, <3>3
  <2>6. IsEof(p) <=> h + 1 = p.length
    BY <1>4, <1>13 DEF IsEof
  <2>7. a = "other" => ~(h + 1 = p.length)
    BY <2>5
  <2>8. a # "other" => (h + 1 = p.length <=> h + 1 = ReplyLength(said[c]))
    BY <2>1, <2>3, <2>5
  <2> QED BY <1>2, <2>2, <2>5, <2>6, <2>7, <2>8
<1> QED BY <1>1, <1>10, <1>11, <1>12, <1>13 DEF AnyCall

\* The object with the byte that Get has taken.
Took(p) == /\ Reader(p) /\ p.packet = Append(px.packet, Head(inbox))
           /\ p.type = px.type /\ p.bound = px.bound
           /\ p.length = IF cfg.kind = "SOCKS5" /\ px.type = "request" /\ Len(p.packet) = 5
                         THEN LengthFrom(p.packet, px.length) ELSE px.length

\* Get in the middle of a reply.
LEMMA GetReads ==
  ASSUME ProxyInv, AtGet, inbox # <<>>, px \in Proxy, NEW p, Took(p), px' = p,
         inbox' = Tail(inbox), UNCHANGED <<cfg, asked, said>>,
         Exact \/ ~Requested => ~IsEof(p)
  PROVE  AtGet'
<1>1. TypeOK /\ AskInv /\ px.packet \in Seq(Byte) /\ inbox \in Seq(Byte)
  BY Fields DEF ProxyInv, TypeOK
<1>2. p \in Proxy /\ p.queue = <<"Get">> /\ p.type = px.type /\ p.bound = px.bound
  BY DEF Took, Reader
<1>3. Requested' <=> Requested
  BY GrantedKept
<1>4. ASSUME Exact \/ ~Requested PROVE StreamInv' /\ LengthInv'
  <2>1. StreamInv /\ LengthInv
    BY <1>4 DEF AtGet
  <2>2. PICK c \in Nat, h \in Nat, m \in Nat :
          /\ c = Current /\ c \in 1 .. Len(said) /\ h = Len(px.packet) /\ m = Len(inbox)
          /\ Head(inbox) = Nth(h + 1)
          /\ Endless \/ h + 1 <= ReplyLength(said[c])
    BY <1>1, <2>1, NextByte
  <2>3. Head(inbox) \in Byte
    BY <1>1, HeadTailProperties
  <2>4. /\ Len(p.packet) = h + 1 /\ p.packet[h + 1] = Nth(h + 1)
        /\ \A j \in 1 .. h : p.packet[j] = px.packet[j]
    BY <1>1, <2>2, <2>3, AppendProperties DEF Took
  <2>5. Len(inbox') = m - 1 /\ \A j \in 1 .. m - 1 : inbox'[j] = inbox[j + 1]
    BY <1>1, <2>2, HeadTailProperties
  <2>6. /\ Endless => ~IsEof(p)
        /\ ~Endless => (IsEof(p) <=> h + 1 = ReplyLength(said[c]))
        /\ cfg.kind = "SOCKS5" /\ px.type = "request" =>
              p.length = IF h + 1 < 5 THEN 0
                         ELSE CASE said[c].address = "ipv4" -> 10
                                [] said[c].address = "ipv6" -> 22
                                [] OTHER -> 2
    BY <1>4, <2>1, <2>2, EofIsExact DEF Took
  <2>7. StreamInv'
    <3>1. ASSUME NEW j \in 1 .. h + 1 PROVE p.packet[j] = Nth(j)
      <4>1. CASE j = h + 1
        BY <2>4, <4>1
      <4>2. CASE j # h + 1
        <5>1. j \in 1 .. h
          BY <4>2
        <5> QED BY <2>1, <2>2, <2>4, <5>1 DEF StreamInv
      <4> QED BY <4>1, <4>2
    <3>2. ASSUME NEW j \in 1 .. m - 1 PROVE inbox'[j] = Nth((h + 1) + j)
      <4>1. j + 1 \in 1 .. m /\ h + (j + 1) = (h + 1) + j
        OBVIOUS
      <4>2. inbox[j + 1] = Nth(h + (j + 1))
        BY <2>1, <2>2, <4>1 DEF StreamInv
      <4> QED BY <2>5, <4>1, <4>2
    <3>3. Len(p.packet) + Len(inbox') = Len(px.packet) + Len(inbox)
      <4>1. (h + 1) + (m - 1) = h + m
        OBVIOUS
      <4> QED BY <2>2, <2>4, <2>5, <4>1
    <3>4. Endless \/ h + 1 < ReplyLength(said[c])
      <4>1. ReplyLength(said[c]) \in Nat
        BY <1>1, <2>2, SentBytes
      <4> QED BY <1>4, <2>2, <2>6, <4>1
    <3>5. \A j \in 1 .. Len(inbox') : inbox'[j] = Nth(Len(p.packet) + j)
      BY <2>4, <2>5, <3>2
    <3> QED BY <1>2, <2>1, <2>2, <2>4, <3>1, <3>3, <3>4, <3>5, PlaceKept DEF StreamInv
  <2>8. LengthInv'
    BY <1>2, <2>2, <2>4, <2>6, PlaceKept DEF LengthInv
  <2> QED BY <2>7, <2>8
<1> QED BY <1>2, <1>3, <1>4 DEF AtGet, Exact, Last

\* Get at the end of a reply has had all of it, and nothing of the next.
LEMMA WholeReply ==
  ASSUME ProxyInv, AtGet, StreamInv, LengthInv, Exact \/ ~Requested, inbox # <<>>, px \in Proxy,
         NEW p, Took(p), IsEof(p)
  PROVE  /\ Current \in 1 .. Len(said) /\ p.packet[1].of = Current
         /\ said[Current].whole /\ Sent(Current) = Len(px.packet) + 1
<1>1. TypeOK /\ AskInv /\ px.packet \in Seq(Byte) /\ inbox \in Seq(Byte)
  BY Fields DEF ProxyInv, TypeOK
<1>2. PICK c \in Nat, h \in Nat :
        /\ c = Current /\ c \in 1 .. Len(said) /\ h = Len(px.packet) /\ Head(inbox) = Nth(h + 1)
        /\ Endless \/ h + 1 <= Sent(c)
  BY <1>1, NextByte
<1>3. ~Endless /\ h + 1 = ReplyLength(said[c]) /\ h + 1 <= Sent(c)
  BY <1>2, EofIsExact DEF Took
<1>4. /\ Sent(c) \in Nat
      /\ said[c].whole => Sent(c) = ReplyLength(said[c])
      /\ ~said[c].whole => Sent(c) = ReplyLength(said[c]) - 1
  BY <1>1, <1>2, SentBytes
<1>5. said[c].whole /\ Sent(c) = h + 1
  BY <1>3, <1>4
<1>6. p.packet[1] = Nth(1)
  <2>1. Head(inbox) \in Byte
    BY <1>1, HeadTailProperties
  <2>2. p.packet[h + 1] = Nth(h + 1) /\ \A j \in 1 .. h : p.packet[j] = px.packet[j]
    BY <1>1, <1>2, <2>1, AppendProperties DEF Took
  <2>3. CASE h = 0
    BY <2>2, <2>3
  <2>4. CASE h # 0
    <3>1. 1 \in 1 .. h
      BY <2>4
    <3> QED BY <1>2, <2>2, <3>1 DEF StreamInv
  <2> QED BY <2>3, <2>4
<1>7. Nth(1) = [of |-> c, at |-> 1]
  <2>1. Current <= Len(said) /\ 1 <= Sent(Current)
    BY <1>1, <1>2, <1>3, <1>5
  <2> QED BY <1>2, <2>1 DEF Nth
<1>8. [of |-> c, at |-> 1].of = c
  OBVIOUS
<1>9. p.packet[1].of = c
  BY <1>6, <1>7, <1>8, Zenon
<1> QED BY <1>2, <1>5, <1>9

\* The last reply of a call: every reply is there, and what follows is the peer's.
LEMMA LastReply ==
  ASSUME ProxyInv, AtGet, StreamInv, LengthInv, Exact, Requested, inbox # <<>>, px \in Proxy,
         NEW p, Took(p), IsEof(p), said[Current].ok, cfg.cmd = "CONNECT" \/ px.bound
  PROVE  Granted /\ AllPeer(Tail(inbox))
<1>1. TypeOK /\ AskInv /\ inbox \in Seq(Byte) /\ asked # <<>> /\ (px.bound => cfg.cmd = "BIND")
      /\ Len(px.packet) \in Nat
  BY Fields DEF ProxyInv, TypeOK, AtGet
<1>2. PICK c \in Nat, h \in Nat, m \in Nat, k \in Nat, a \in Nat :
        /\ c = Current /\ h = Len(px.packet) /\ m = Len(inbox) /\ k = Len(said) /\ a = Len(asked)
  BY <1>1, Streams
<1>3. c \in 1 .. k /\ said[c].whole /\ Sent(c) = h + 1
  BY <1>2, WholeReply
<1>4. c = k /\ k = a + (IF cfg.cmd = "BIND" THEN 1 ELSE 0)
  <2>1. c = IF px.bound THEN a + 1 ELSE a
    BY <1>1, <1>2, Streams
  <2>2. k <= a + 1 /\ (k = a + 1 => cfg.cmd = "BIND")
    BY <1>1, <1>2 DEF AskInv
  <2> QED BY <1>1, <1>3, <2>1, <2>2
<1>5. Granted
  <2>1. Positive
    <3>1. SUFFICES ASSUME NEW i \in 1 .. k PROVE said[i].ok /\ said[i].whole
      BY <1>2 DEF Positive
    <3>2. CASE i = c
      BY <1>2, <1>3, <3>2
    <3>3. CASE i # c
      <4>1. i \in 1 .. Len(said) - 1
        BY <1>2, <1>4, <3>3
      <4> QED BY <1>1, <4>1 DEF AskInv
    <3> QED BY <3>2, <3>3
  <2>2. Replies(IF cfg.cmd = "BIND" THEN 1 ELSE 0)
    BY <1>2, <1>4 DEF Replies
  <2> QED BY <2>1, <2>2 DEF Granted
<1>6. AllPeer(Tail(inbox))
  <2>1. Len(Tail(inbox)) = m - 1 /\ \A j \in 1 .. m - 1 : Tail(inbox)[j] = inbox[j + 1]
    BY <1>1, <1>2, HeadTailProperties
  <2>2. ASSUME NEW j \in 1 .. m - 1 PROVE inbox[j + 1].of = Peer
    <3>1. j + 1 \in 1 .. m /\ h + (j + 1) \in Nat /\ ~(h + (j + 1) <= h + 1)
      OBVIOUS
    <3>2. inbox[j + 1] = Nth(h + (j + 1))
      BY <1>2, <3>1 DEF StreamInv
    <3>3. ~(Current < Len(said)) /\ ~(h + (j + 1) <= Sent(Current))
      BY <1>2, <1>3, <1>4, <3>1
    <3>4. Nth(h + (j + 1)) = [of |-> Peer, at |-> 1]
      BY <3>3 DEF Nth
    <3>5. [of |-> Peer, at |-> 1].of = Peer
      OBVIOUS
    <3> QED BY <3>2, <3>4, <3>5, Zenon
  <2> QED BY <2>1, <2>2 DEF AllPeer
<1> QED BY <1>5, <1>6

\* The reply to a greeting or to credentials: nothing else is on its way, and the
\* next message is the one it calls for.
LEMMA MiddleReply ==
  ASSUME ProxyInv, AtGet, StreamInv, LengthInv, Exact \/ ~Requested, inbox # <<>>, px \in Proxy,
         NEW p, Took(p), IsEof(p), said[Current].ok,
         cfg.kind = "SOCKS5", px.type \in {"helo", "auth"}
  PROVE  /\ Tail(inbox) = <<>> /\ Len(said) = Len(asked) /\ Positive /\ ~px.bound
         /\ \A i \in 1 .. Len(asked) : asked[i] # "request"
         /\ Expected(Len(asked) + 1) = IF px.type = "helo" /\ said[Current].method # "none"
                                       THEN "auth" ELSE "request"
<1>1. TypeOK /\ AskInv /\ inbox \in Seq(Byte) /\ asked # <<>> /\ px.type = Last(asked)
      /\ (px.bound => Requested) /\ Len(px.packet) \in Nat
  BY Fields DEF ProxyInv, TypeOK, AtGet
<1>2. ~Requested /\ ~px.bound
  BY <1>1 DEF Requested
<1>3. PICK h \in Nat, m \in Nat, a \in Nat :
        /\ h = Len(px.packet) /\ m = Len(inbox) /\ a = Len(asked) /\ a >= 1 /\ a = Current
  BY <1>1, <1>2, Streams
<1>4. a \in 1 .. Len(said) /\ said[a].whole /\ Sent(a) = h + 1
  BY <1>3, WholeReply
<1>5. Len(said) = a
  <2>1. Len(said) <= a + 1 /\ Len(said) # a + 1 /\ Len(said) \in Nat
    BY <1>1, <1>2, <1>3 DEF AskInv, TypeOK
  <2> QED BY <1>4, <2>1
<1>6. Positive
  <2>1. SUFFICES ASSUME NEW i \in 1 .. Len(said) PROVE said[i].ok /\ said[i].whole
    BY DEF Positive
  <2>2. i = a \/ i \in 1 .. Len(said) - 1
    BY <1>5
  <2> QED BY <1>1, <1>3, <1>4, <2>2 DEF AskInv
<1>7. Tail(inbox) = <<>>
  <2>1. Total = Sent(a) /\ ~Granted
    BY <1>1, <1>2, <1>3, <1>5, Streams DEF Granted
  <2>2. h + m = h + 1
    BY <1>3, <1>4, <2>1 DEF StreamInv
  <2>3. m = 1
    BY <2>2
  <2>4. Tail(inbox) \in Seq(Byte) /\ Len(Tail(inbox)) = 0
    <3>1. Tail(inbox) \in Seq(Byte) /\ Len(Tail(inbox)) = m - 1
      BY <1>1, <1>3, HeadTailProperties
    <3> QED BY <2>3, <3>1
  <2> QED BY <2>4, EmptySeq
<1>8. ASSUME NEW i \in 1 .. Len(asked) PROVE asked[i] # "request"
  <2>1. i = a \/ i \in 1 .. Len(asked) - 1
    BY <1>3
  <2> QED BY <1>1, <1>3, <2>1 DEF AskInv, AskedInOrder, Last
<1>9. Expected(a + 1) = IF px.type = "helo" /\ said[a].method # "none" THEN "auth" ELSE "request"
  <2>1. Expected(a) = px.type
    BY <1>1, <1>3 DEF AskInv, AskedInOrder, Last
  <2>2. CASE px.type = "helo"
    <3>1. a = 1
      BY <2>1, <2>2 DEF Expected
    <3>2. said[1].method \in {"none", "password"}
      <4>1. said[1] \in Reply
        BY <1>1, <1>4, <3>1 DEF TypeOK
      <4> QED BY <4>1 DEF Reply
    <3> QED BY <2>2, <3>1, <3>2 DEF Expected
  <2>3. CASE px.type = "auth"
    <3>1. a = 2
      BY <2>1, <2>3 DEF Expected
    <3> QED BY <2>3, <3>1 DEF Expected
  <2> QED BY <2>2, <2>3
<1> QED BY <1>2, <1>3, <1>5, <1>6, <1>7, <1>8, <1>9

\* After the first reply to BIND Get reads the second one, from its first byte.
LEMMA SecondReply ==
  ASSUME ProxyInv, AtGet, Requested, inbox # <<>>, px \in Proxy, NEW p, Took(p),
         Exact => IsEof(p) /\ said[Current].ok, cfg.cmd = "BIND", ~px.bound,
         NEW q, ReadsOn(q, px.type), px' = q, inbox' = Tail(inbox), UNCHANGED <<cfg, asked, said>>
  PROVE  AtGet'
<1>1. TypeOK /\ AskInv /\ inbox \in Seq(Byte) /\ asked # <<>>
      /\ (cfg.kind = "SOCKS5" => px.type = Last(asked)) /\ Len(px.packet) \in Nat
  BY Fields DEF ProxyInv, TypeOK, AtGet
<1>2. /\ q.queue = <<"Get">> /\ q.bound = TRUE /\ q.packet = <<>> /\ q.length = 0 /\ q.type = px.type
      /\ q \in Proxy
  BY DEF ReadsOn, Reader
<1>3. (Requested' <=> Requested) /\ (Granted' <=> Granted)
  BY GrantedKept
<1>4. ASSUME Exact
      PROVE  /\ StreamInv' /\ LengthInv' /\ Len(said) >= Len(asked)
             /\ said[Len(asked)].ok /\ said[Len(asked)].whole
  <2>1. StreamInv /\ LengthInv
    BY <1>4 DEF AtGet
  <2>2. PICK h \in Nat, m \in Nat, a \in Nat, k \in Nat :
          /\ h = Len(px.packet) /\ m = Len(inbox) /\ a = Len(asked) /\ a >= 1 /\ a = Current
          /\ k = Len(said) /\ k <= a + 1
    BY <1>1, Streams
  <2>3. a \in 1 .. k /\ said[a].whole /\ Sent(a) = h + 1 /\ said[a].ok
    BY <1>4, <2>1, <2>2, WholeReply
  <2>4. Current' = a + 1
    BY <1>2, <2>2 DEF Current
  <2>5. \A i : Sent(i)' = Sent(i) /\ ReplyLength(said[i])' = ReplyLength(said[i])
    BY DEF Sent, ReplyLength
  <2>6. /\ Len(inbox') = m - 1 /\ m - 1 \in Nat
        /\ \A j \in 1 .. m - 1 : inbox'[j] = inbox[j + 1]
    <3>1. m # 0
      BY <1>1, <2>2, EmptySeq
    <3> QED BY <1>1, <2>2, <3>1, HeadTailProperties
  <2>7. PICK t \in Nat : /\ t = Total' /\ Total = (h + 1) + t
                         /\ k = a => t = 0
                         /\ k = a + 1 => t = Sent(a + 1) /\ a + 1 \in 1 .. k
    <3>1. CASE k = a
      <4>1. Total = Sent(a)
        BY <1>1, <2>2, <3>1, Streams
      <4>2. Total' = 0
        BY <2>2, <2>4, <3>1 DEF Total
      <4>3. (h + 1) + 0 = h + 1 /\ a # a + 1
        OBVIOUS
      <4> QED BY <2>3, <3>1, <4>1, <4>2, <4>3
    <3>2. CASE k = a + 1
      <4>1. Total = Sent(a) + Sent(a + 1) /\ a + 1 \in 1 .. k
        BY <1>1, <2>2, <3>2, Streams
      <4>2. Sent(a + 1) \in Nat
        BY <1>1, <2>2, <4>1, SentBytes
      <4>3. Sent(Current)' = Sent(a + 1)
        BY <2>4, <2>5
      <4>4. Total' = Sent(a + 1)
        BY <2>2, <2>4, <3>2, <4>2, <4>3 DEF Total
      <4>5. a # a + 1
        OBVIOUS
      <4> QED BY <2>3, <3>2, <4>1, <4>2, <4>4, <4>5
    <3> QED BY <2>2, <2>3, <3>1, <3>2
  <2>8. ASSUME NEW j \in 1 .. m - 1 PROVE Nth((h + 1) + j) = Nth(j)'
    <3>1. ~((h + 1) + j <= h + 1) /\ ((h + 1) + j) - (h + 1) = j
      OBVIOUS
    <3>2. ~((h + 1) + j <= Sent(Current))
      BY <2>2, <2>3, <3>1
    <3>3. CASE k = a
      <4>1. Nth((h + 1) + j) = [of |-> Peer, at |-> 1]
        BY <2>2, <3>2, <3>3 DEF Nth
      <4>2. Nth(j)' = [of |-> Peer, at |-> 1]
        BY <2>2, <2>4, <3>3 DEF Nth, Peer
      <4> QED BY <4>1, <4>2
    <3>4. CASE k = a + 1
      <4>1. (h + 1) + j <= Total <=> j <= t
        <5>1. ((h + 1) + j <= (h + 1) + t) <=> j <= t
          OBVIOUS
        <5> QED BY <2>7, <5>1, Zenon
      <4>2. Nth((h + 1) + j) = IF j <= t THEN [of |-> a + 1, at |-> j] ELSE [of |-> Peer, at |-> 1]
        BY <2>2, <2>3, <3>1, <3>2, <3>4, <4>1 DEF Nth
      <4>3. Sent(Current)' = t
        BY <2>4, <2>5, <2>7, <3>4
      <4>4. Nth(j)' = IF j <= t THEN [of |-> a + 1, at |-> j] ELSE [of |-> Peer, at |-> 1]
        BY <2>2, <2>4, <3>4, <4>3 DEF Nth, Peer
      <4> QED BY <4>2, <4>4
    <3> QED BY <2>2, <2>3, <3>3, <3>4
  <2>9. StreamInv'
    <3>1. Len(q.packet) = 0
      BY <1>2
    <3>2. ASSUME NEW j \in 1 .. Len(inbox') PROVE inbox'[j] = Nth(Len(px.packet) + j)'
      <4>1. j \in 1 .. m - 1 /\ j + 1 \in 1 .. m /\ (h + 1) + j = h + (j + 1)
        BY <2>6
      <4>2. inbox[j + 1] = Nth((h + 1) + j)
        BY <2>1, <2>2, <4>1 DEF StreamInv
      <4>3. Len(px.packet)' + j = j
        BY <3>1
      <4> QED BY <2>6, <2>8, <4>1, <4>2, <4>3
    <3>3. (Len(px.packet) + Len(inbox) >= Total)'
          /\ (Granted \/ Len(px.packet) + Len(inbox) = Total)'
      <4>1. h + m >= (h + 1) + t /\ (Granted \/ h + m = (h + 1) + t)
        BY <2>1, <2>2, <2>7 DEF StreamInv
      <4>2. 0 + (m - 1) >= t /\ (Granted \/ 0 + (m - 1) = t)
        BY <4>1
      <4> QED BY <1>3, <2>6, <2>7, <3>1, <4>2
    <3>4. (Current <= Len(said) => Len(px.packet) < ReplyLength(said[Current]))'
      <4>1. SUFFICES ASSUME a + 1 <= k PROVE 0 < ReplyLength(said[a + 1])
        BY <2>2, <2>4, <2>5, <3>1
      <4>2. a + 1 \in 1 .. Len(said)
        BY <2>2, <4>1
      <4>3. said[a + 1] \in Reply /\ cfg \in AnyCall
        BY <1>1, <4>2 DEF TypeOK
      <4> QED BY <4>3, ReplyLengths
    <3> QED BY <1>2, <3>1, <3>2, <3>3, <3>4 DEF StreamInv
  <2>10. LengthInv'
    BY <1>2 DEF LengthInv
  <2> QED BY <2>2, <2>3, <2>9, <2>10
<1> QED BY <1>1, <1>2, <1>3, <1>4 DEF AtGet, Exact, Last

LEMMA DoGetKeeps ==
  ASSUME ProxyInv, DoGet
  PROVE  ProxyInv'
<1> DEFINE b == Head(inbox)
           p == WithByte(px, b)
           r == said[p.packet[1].of]
           q == Parsed(p, r)
<1>1. /\ AtGet /\ Calling /\ inbox # <<>> /\ inbox' = Tail(inbox)
      /\ Becomes(IF IsEof(p) THEN q ELSE p)
      /\ UNCHANGED <<late, broken, asked, said>>
  BY AtGate DEF DoGet, Gate
<1>2. px \in Proxy /\ px.status = "WORKING" /\ Holding(px) /\ px.queue = <<"Get">>
  BY AtGate, WorkingHolds DEF DoGet, AtGet
<1>3. TypeOK /\ AskInv /\ cfg \in AnyCall /\ inbox \in Seq(Byte)
  BY DEF ProxyInv, TypeOK
<1>4. b \in Byte /\ inbox' \in Seq(Byte)
  BY <1>1, <1>3, HeadTailProperties
<1>5. Took(p)
  <2>1. Reader(px)
    BY <1>2 DEF Reader
  <2>2. /\ Reader(p) /\ p.packet = Append(px.packet, b) /\ p.type = px.type /\ p.bound = px.bound
        /\ p.length = IF cfg.kind = "SOCKS5" /\ px.type = "request" /\ Len(Append(px.packet, b)) = 5
                      THEN LengthFrom(Append(px.packet, b), px.length) ELSE px.length
    BY <1>4, <2>1, WithByteGives
  <2> HIDE DEF p
  <2> QED BY <2>2 DEF Took
<1>6. /\ asked' \in Seq(Messages) /\ said' \in Seq(Reply) /\ cfg' = cfg
      /\ late' \in BOOLEAN /\ broken' \in BOOLEAN /\ UNCHANGED <<asked, said>>
  BY <1>1, <1>3, Settled DEF Becomes
<1>7. AskInv'
  BY <1>3, <1>6, AskKept
<1>8. p \in Proxy /\ p.status = "WORKING" /\ Holding(p) /\ p.type = px.type /\ p.bound = px.bound
      /\ Reader(p)
  BY <1>5 DEF Took, Reader
<1> HIDE DEF p, q, b
<1>9. CASE ~IsEof(p)
  <2>1. Becomes(p) /\ px' = p
    BY <1>1, <1>9 DEF Becomes
  <2>2. AtGet'
    BY <1>1, <1>2, <1>5, <1>6, <1>9, <2>1, GetReads
  <2> QED BY <1>1, <1>4, <1>6, <1>7, <1>8, <2>1, <2>2, WorksOn
<1>10. CASE IsEof(p)
  <2>1. Becomes(q) /\ px' = q
    BY <1>1, <1>10 DEF Becomes
  <2>2. (Exact \/ ~Requested) => StreamInv /\ LengthInv
    BY <1>1 DEF AtGet
  <2>3. (Exact \/ ~Requested) => r = said[Current]
    BY <1>1, <1>2, <1>5, <1>10, <2>2, WholeReply
  <2> HIDE DEF r
  <2>4. /\ ~r.ok => q \in Proxy /\ q.status = "FAILED" /\ q.queue = <<>> /\ Free(q)
        /\ r.ok /\ cfg.kind = "HTTP" => Finishes(q) \/ Secures(q)
        /\ r.ok /\ cfg.kind = "SOCKS5" /\ px.type = "helo" =>
              Asks(q, IF r.method = "none" THEN "request" ELSE "auth") /\ q.bound = px.bound
        /\ r.ok /\ cfg.kind = "SOCKS5" /\ px.type = "auth" => Asks(q, "request") /\ q.bound = px.bound
        /\ r.ok /\ (cfg.kind = "SOCKS4" \/ (cfg.kind = "SOCKS5" /\ px.type = "request")) =>
              IF cfg.cmd = "CONNECT" \/ px.bound
              THEN Finishes(q) \/ (cfg.cmd = "CONNECT" /\ Secures(q))
              ELSE ReadsOn(q, px.type)
    BY <1>3, <1>8, ParsedGives DEF q
  <2>5. asked # <<>> /\ (cfg.kind = "SOCKS5" => px.type = Last(asked)) /\ (px.bound => cfg.cmd = "BIND")
    BY <1>1 DEF AtGet
  <2>6. cfg.kind # "SOCKS5" \/ px.type = "request" => Requested
    <3>1. cfg.kind # "SOCKS5" => Last(asked) = "request"
      BY <1>3, <2>5, Streams DEF AskInv, Last
    <3> QED BY <2>5, <3>1 DEF Requested
  <2>7. CASE ~r.ok
    <3>1. q \in Proxy /\ q.status = "FAILED" /\ q.queue = <<>> /\ Free(q)
      BY <2>4, <2>7
    <3> QED BY <1>1, <1>4, <1>6, <2>1, <3>1, EndsWith
  <2>8. CASE r.ok /\ cfg.kind = "SOCKS5" /\ px.type \in {"helo", "auth"}
    <3> DEFINE t == IF px.type = "helo" /\ r.method # "none" THEN "auth" ELSE "request"
    <3>1. Asks(q, t) /\ q.bound = px.bound
      BY <2>4, <2>8
    <3>2. ~Requested
      BY <2>5, <2>8 DEF Requested
    <3>3. /\ Tail(inbox) = <<>> /\ Len(said) = Len(asked) /\ Positive /\ ~px.bound
          /\ \A i \in 1 .. Len(asked) : asked[i] # "request"
          /\ Expected(Len(asked) + 1) = t
      BY <1>1, <1>2, <1>5, <1>10, <2>2, <2>3, <2>8, <3>2, MiddleReply
    <3> HIDE DEF t
    <3>4. q.queue = <<"Put", "Get">> /\ q.type = t /\ q \in Proxy /\ q.status = "WORKING" /\ Holding(q)
      BY <3>1 DEF Asks
    <3>5. AtPut'
      <4>1. Positive' <=> Positive
        BY <1>6, GrantedKept
      <4>2. Expected(Len(asked) + 1)' = Expected(Len(asked) + 1)
        BY <1>6 DEF Expected
      <4> QED BY <1>1, <1>6, <2>1, <3>1, <3>3, <3>4, <4>1, <4>2 DEF AtPut
    <3> QED BY <1>1, <1>4, <1>6, <1>7, <2>1, <3>4, <3>5, WorksOn
  <2>9. CASE r.ok /\ (cfg.kind # "SOCKS5" \/ px.type = "request")
    <3>1. Requested
      BY <2>6, <2>9
    <3>2. cfg.kind = "HTTP" => cfg.cmd = "CONNECT"
      BY <1>1 DEF ProxyInv, StageInv, Calling
    <3>3. CASE cfg.cmd = "CONNECT" \/ px.bound
      <4>1. Finishes(q) \/ Secures(q)
        BY <1>3, <2>4, <2>9, <3>3 DEF AnyCall
      <4>2. Exact => Granted /\ AllPeer(Tail(inbox))
        BY <1>1, <1>2, <1>5, <1>10, <2>2, <2>3, <2>9, <3>1, <3>3, LastReply
      <4>3. CASE Finishes(q)
        <5>1. q \in Proxy /\ q.status = "FINISHED" /\ q.queue = <<>> /\ Free(q)
          BY <4>3 DEF Finishes
        <5>2. Exact => Granted /\ AllPeer(inbox')
          BY <1>1, <4>2
        <5> QED BY <1>1, <1>4, <1>6, <2>1, <5>1, <5>2, EndsWith
      <4>4. CASE Secures(q)
        <5>1. q \in Proxy /\ q.status = "WORKING" /\ Holding(q) /\ q.queue = <<"StartSSL", "SSLHandshake">>
          BY <4>4 DEF Secures
        <5>2. AtSSL'
          <6>1. Granted' <=> Granted
            BY <1>6, GrantedKept
          <6> QED BY <1>1, <2>1, <4>2, <5>1, <6>1 DEF AtSSL, AllPeer, Exact
        <5> QED BY <1>1, <1>4, <1>6, <1>7, <2>1, <5>1, <5>2, WorksOn
      <4> QED BY <4>1, <4>3, <4>4
    <3>4. CASE ~(cfg.cmd = "CONNECT" \/ px.bound)
      <4>1. cfg.cmd = "BIND" /\ ~px.bound
        BY <1>3, <3>4 DEF AnyCall
      <4>2. ReadsOn(q, px.type)
        BY <1>3, <2>4, <2>9, <3>2, <3>4, <4>1 DEF AnyCall
      <4>3. q \in Proxy /\ q.status = "WORKING" /\ Holding(q)
        BY <4>2 DEF ReadsOn, Reader
      <4>4. AtGet'
        BY <1>1, <1>2, <1>5, <1>6, <1>10, <2>1, <2>3, <2>9, <3>1, <4>1, <4>2, SecondReply
      <4> QED BY <1>1, <1>4, <1>6, <1>7, <2>1, <4>3, <4>4, WorksOn
    <3> QED BY <3>3, <3>4
  <2>10. px.type \in {"helo", "auth", "request"}
    BY <1>2, Fields DEF Messages
  <2> QED BY <2>7, <2>8, <2>9, <2>10
<1> QED BY <1>9, <1>10

LEMMA DoKeeps ==
  ASSUME ProxyInv, Do
  PROVE  ProxyInv'
  BY DoFailsKeeps, DoInitKeeps, DoDnsKeeps, DoSocksStartKeeps, DoRequestKeeps, DoPutKeeps,
     DoGetKeeps, DoSSLKeeps, DoEmptyKeeps DEF Do

---------------------------------------------------------------------------
(* A call.                                                                  *)

LEMMA GatesGives ==
  ASSUME NEW c \in AnyCall
  PROVE  LET s == Gates(c)
         IN  /\ s \in Seq(AllGates) /\ s # <<>> /\ Head(s) = "Init" /\ Leading(Tail(s))
             /\ c.kind = "SOCKS5" => \E i \in 1 .. Len(s) : s[i] = "SocksStart"
<1>1. CASE c.kind = "HTTP"
  <2> DEFINE s == <<"Init", "Dns", "Connect", "Request">>
             t == <<"Dns", "Connect", "Request">>
  <2>1. s \in Seq(AllGates) /\ s # <<>> /\ Head(s) = "Init" /\ Tail(s) = t
    BY DEF AllGates
  <2>2. Leading(t)
    BY DEF Leading
  <2> QED BY <1>1, <2>1, <2>2 DEF Gates
<1>2. CASE c.kind # "HTTP" /\ c.lookup
  <2> DEFINE s == <<"Init", "Dns", "Connect", "SocksStart", "Request">>
             t == <<"Dns", "Connect", "SocksStart", "Request">>
  <2>1. s \in Seq(AllGates) /\ s # <<>> /\ Head(s) = "Init" /\ Tail(s) = t
    BY DEF AllGates
  <2>2. Leading(t)
    BY DEF Leading
  <2>3. 4 \in 1 .. Len(s) /\ s[4] = "SocksStart"
    OBVIOUS
  <2> QED BY <1>2, <2>1, <2>2, <2>3 DEF Gates
<1>3. CASE c.kind # "HTTP" /\ ~c.lookup
  <2> DEFINE s == <<"Init", "Dns", "Connect", "SocksStart", "Dns", "Request">>
             t == <<"Dns", "Connect", "SocksStart", "Dns", "Request">>
  <2>1. s \in Seq(AllGates) /\ s # <<>> /\ Head(s) = "Init" /\ Tail(s) = t
    BY DEF AllGates
  <2>2. Leading(t)
    BY DEF Leading
  <2>3. 4 \in 1 .. Len(s) /\ s[4] = "SocksStart"
    OBVIOUS
  <2> QED BY <1>3, <2>1, <2>2, <2>3 DEF Gates
<1> QED BY <1>1, <1>2, <1>3

LEMMA CallKeeps ==
  ASSUME ProxyInv, NEW c \in Calls, NEW o \in {"blocking", "async"}, Call(c, o)
  PROVE  ProxyInv'
<1>1. /\ calls < MaxCalls /\ calls' = calls + 1 /\ cfg' = c /\ late' = FALSE /\ broken' = FALSE
      /\ asked' = <<>> /\ said' = <<>> /\ inbox' = <<>>
      /\ op = "idle" \/ px.status # "WORKING"
  BY DEF Call
<1>2. c \in AnyCall /\ TypeOK /\ px \in Proxy
  BY DEF ProxyInv, TypeOK
<1>3. px.status # "WORKING"
  BY <1>1 DEF ProxyInv, StageInv
<1>4. PICK attach \in BOOLEAN :
        LET p == [px EXCEPT !.attached = attach, !.timeout = "own"] IN
        IF c.kind = "HTTP" /\ c.cmd = "BIND"
        THEN px' = [p EXCEPT !.status = "FAILED"] /\ op' = "idle" /\ answer' = FALSE /\ failed' = TRUE
        ELSE px' = [p EXCEPT !.queue = Gates(c)] /\ op' = o /\ failed' = FALSE /\ UNCHANGED answer
  BY DEF Call
<1> DEFINE p == [px EXCEPT !.attached = attach, !.timeout = "own"]
<1>5. p \in Proxy /\ p.timeout = "own" /\ p.status = px.status /\ p.queue = px.queue
  BY <1>2 DEF Proxy
<1>6. /\ asked' \in Seq(Messages) /\ said' \in Seq(Reply) /\ inbox' \in Seq(Byte)
      /\ calls' \in 0 .. MaxCalls
  BY <1>1, <1>2, EmptySeq DEF TypeOK
<1>7. AskInv'
  BY <1>1 DEF AskInv, AskedInOrder
<1>8. Silence'
  BY <1>1 DEF Silence
<1>9. CASE c.kind = "HTTP" /\ c.cmd = "BIND"
  <2> DEFINE q == [p EXCEPT !.status = "FAILED"]
  <2>1. px' = q /\ op' = "idle" /\ answer' = FALSE /\ failed' = TRUE
    BY <1>4, <1>9
  <2> HIDE DEF p
  <2>2. q \in Proxy /\ q.timeout = "own" /\ q.status = "FAILED"
    BY <1>5 DEF Proxy
  <2> HIDE DEF q
  <2>3. TypeOK'
    BY <1>1, <1>2, <1>6, <2>1, <2>2 DEF TypeOK, Reply, Proxy
  <2>4. SocketInv' /\ StageInv' /\ TunnelIsClean'
    BY <2>1, <2>2 DEF SocketInv, StageInv, TunnelIsClean
  <2> QED BY <1>7, <2>3, <2>4 DEF ProxyInv
<1>10. CASE ~(c.kind = "HTTP" /\ c.cmd = "BIND")
  <2> DEFINE q == [p EXCEPT !.queue = Gates(c)]
  <2>1. px' = q /\ op' = o /\ failed' = FALSE /\ answer' = answer
    BY <1>4, <1>10
  <2>2. /\ Gates(c) \in Seq(AllGates) /\ Gates(c) # <<>> /\ Head(Gates(c)) = "Init"
        /\ Leading(Tail(Gates(c)))
        /\ c.kind = "SOCKS5" => \E i \in 1 .. Len(Gates(c)) : Gates(c)[i] = "SocksStart"
    BY <1>2, GatesGives
  <2> HIDE DEF p
  <2>3. q \in Proxy /\ q.timeout = "own" /\ q.status = px.status /\ q.queue = Gates(c)
    BY <1>5, <2>2 DEF Proxy
  <2> HIDE DEF q
  <2>4. TypeOK'
    BY <1>1, <1>2, <1>6, <2>1, <2>3 DEF TypeOK, Reply, Proxy
  <2>5. SocketInv' /\ TunnelIsClean'
    BY <1>3, <2>1, <2>2, <2>3 DEF SocketInv, TunnelIsClean
  <2>6. Waiting'
    BY <1>1, <1>3, <1>8, <2>1, <2>2, <2>3 DEF Waiting, Leading, Starts
  <2>7. (cfg.kind = "HTTP" => cfg.cmd = "CONNECT")'
    BY <1>1, <1>2, <1>10 DEF AnyCall
  <2>8. StageInv'
    BY <2>1, <2>6, <2>7 DEF StageInv
  <2> QED BY <1>7, <2>4, <2>5, <2>8 DEF ProxyInv
<1> QED BY <1>9, <1>10

---------------------------------------------------------------------------
(* The theorems.                                                            *)

LEMMA NextKeeps ==
  ASSUME ProxyInv, [Next]_vars
  PROVE  ProxyInv'
<1>1. late \in BOOLEAN /\ broken \in BOOLEAN
  BY Settled DEF ProxyInv
<1>2. CASE ConnectionBreaks
  BY <1>1, <1>2, QuietKeeps DEF ConnectionBreaks
<1>3. CASE TimePasses
  BY <1>1, <1>3, QuietKeeps DEF TimePasses
<1>4. CASE UNCHANGED vars
  BY <1>1, <1>4, QuietKeeps DEF vars
<1> QED BY <1>2, <1>3, <1>4, CallKeeps, DoKeeps, ProxyRepliesKeeps, PeerSendsKeeps DEF Next

\* At every gate the object, the messages and the bytes between it and the proxy
\* are where the stage of the operation says, whoever calls Do.
THEOREM ProxyInvariant == Spec => []ProxyInv
<1>1. Init => ProxyInv
  BY InitHolds
<1>2. ProxyInv /\ [Next]_vars => ProxyInv'
  BY NextKeeps
<1> QED BY <1>1, <1>2, PTL DEF Spec

\* The socket is non-blocking during the operation only, and is let go at its end.
THEOREM SocketIsGivenBack == Spec => []SocketGivenBack
<1>1. ProxyInv => SocketGivenBack
  BY DEF ProxyInv, SocketInv, SocketGivenBack
<1> QED BY <1>1, ProxyInvariant, PTL

\* A message goes out when the reply to the one before it was read and was a good
\* one: also with replies that are longer than Get takes them to be.
THEOREM AskedIsInOrder == Spec => []AskedInOrder
<1>1. ProxyInv => AskedInOrder
  BY DEF ProxyInv, AskInv
<1> QED BY <1>1, ProxyInvariant, PTL

\* Whenever no SOCKS5 reply carries a domain name, the tunnel of an operation that
\* finished is open and holds nothing of the proxy's.
THEOREM TunnelStaysClean == "domain" \notin Addresses => (Spec => []TunnelIsClean)
<1>1. SUFFICES ASSUME "domain" \notin Addresses PROVE Spec => []TunnelIsClean
  OBVIOUS
<1>2. ProxyInv => TunnelIsClean
  BY <1>1 DEF ProxyInv, Exact
<1> QED BY <1>2, ProxyInvariant, PTL
=============================================================================
