----------------------------- MODULE MCNetProxy -----------------------------
(* Every kind of proxy and command; SSL, remote lookup and hosts that are not *)
(* set with one kind of proxy each: what they change is the same for all.     *)
EXTENDS NetProxy
MCCalls == {c \in AnyCall : /\ c.ssl => c.kind = "HTTP" /\ c.complete
                            /\ c.lookup => c.kind = "SOCKS4"
                            /\ ~c.complete => c.kind = "SOCKS4" /\ ~c.lookup}
=============================================================================
