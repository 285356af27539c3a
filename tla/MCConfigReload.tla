--------------------------- MODULE MCConfigReload ---------------------------
(***************************************************************************)
(* ConfigReload for TLC: files with a server, a client or both. Two        *)
(* services that come, go and change, tokens of their own and by default,  *)
(* and the transports that pass the validation, fail it, or pass it and    *)
(* cannot be created, reach every branch of from_str and calculate_events. *)
(***************************************************************************)
EXTENDS ConfigReload

CONSTANTS s1, s2

Transport(type, proxy, tls) ==
  [type |-> type, proxy |-> proxy, tls |-> tls, noise |-> None]

Plain == Transport("tcp", None, None)

Server(default, transport, services) ==
  [services |-> services, default_token |-> default, transport |-> transport, rest |-> 1]

Client(default, transport, services) ==
  [services |-> services, default_token |-> default, transport |-> transport,
   retry_interval |-> "1s", rest |-> 1]

(* A service of a server, with or without a token of its own. *)
S(token, rest) == [token |-> token, rest |-> rest]

(* A service of a client, which may have a retry_interval as well. *)
C(token, retry) == [token |-> token, retry_interval |-> retry, rest |-> 1]

ServerServices ==
  { <<>>, s1 :> S("t1", 1), s1 :> S(None, 1), s1 :> S("t1", 2), s2 :> S("t1", 1),
    (s1 :> S("t1", 2)) @@ (s2 :> S("t1", 1)) }

MCServers ==
  {Server(d, Plain, f) : d \in {None, "t1"}, f \in ServerServices}
    \cup {Server("t1", Transport("tls", None, k), s1 :> S(None, 1)) : k \in {None, "pkcs12", "full"}}

MCClients ==
  { Client(None, Plain, s1 :> C("t1", None)),
    Client(None, Plain, s1 :> C("t1", "1s")),
    Client(None, Plain, s1 :> C("t1", "2s")),
    Client("t1", Transport("tcp", "socks5", None), <<>>),
    Client("t1", Transport("tcp", "http", None), s1 :> C(None, None)),
    Client("t1", Transport("tls", None, "pkcs12"), s1 :> C(None, None)),
    Client("t1", Transport("noise", None, None), <<>>) }

File(x, y) == [m \in Sides |-> IF m = "server" THEN x ELSE y]

MCFiles ==
  {Unparsable}
    \cup {File(x, y) : x \in MCServers \cup {NoSide}, y \in {NoSide}}
    \cup {File(NoSide, y) : y \in MCClients}
    \cup {File(Server("t1", Plain, f), Client(None, Plain, s1 :> C("t1", r))) :
            f \in ServerServices, r \in {"1s", "2s"}}

(* A few of them, for the run that looks for one trace. *)
MCFewFiles ==
  { File(Server("t1", t, s1 :> S(None, r)), y) :
      t \in {Plain, Transport("tls", None, "full")}, r \in {1, 2},
      y \in {NoSide, Client(None, Plain, s1 :> C("t1", None))} }

=============================================================================
