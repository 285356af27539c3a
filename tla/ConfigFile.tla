------------------------------ MODULE ConfigFile ------------------------------
(***************************************************************************)
(* Config::from_str: what becomes of a configuration file. Parsing is      *)
(* serde's; what is translated is the validation, which also fills in what *)
(* a service leaves out, and what TlsTransport and NoiseTransport demand   *)
(* of a configuration when they are created.                               *)
(*                                                                         *)
(* A side of a file is a record with the fields                            *)
(*   services       a function from the names that are there               *)
(*   default_token  and, for a client, retry_interval                      *)
(*   transport      [type, proxy, tls, noise]                              *)
(*   rest           all else that equal_without_service compares           *)
(* and a service has a token, on a client a retry_interval, and `rest`.    *)
(* An Option is None or the value. A TLS section is known by its PKCS #12  *)
(* part: "roots" has none, "pkcs12" lacks the password, "full" has both.   *)
(***************************************************************************)

None == "none"
Sides == {"server", "client"}

NoSide == [services |-> <<>>]     \* the side is not in the file
Unparsable == [unparsable |-> TRUE]
Invalid == [invalid |-> TRUE]     \* the result of a failed validation

-----------------------------------------------------------------------------
(* The scheme of transport.tcp.proxy. *)
ValidProxy(t) == t.proxy \in {None, "socket5", "http"}

(* `pkcs12` and `pkcs12_password` are a server's. *)
ValidTls(t, is_server) ==
  t.type = "tls" => t.tls # None /\ (is_server => t.tls = "full")

(* validate_transport_config: noise is checked where it is used. *)
ValidTransport(t, is_server) == ValidProxy(t) /\ ValidTls(t, is_server)

(* A service without a token has the default one, which may be None too. *)
WithToken(s, side) ==
  IF s.token = None THEN [s EXCEPT !.token = side.default_token] ELSE s

(* Variant: the client's retry_interval is not handed down. *)
WithRetry_Kept(s, side) == s

(* A client's service without a retry_interval has the client's. *)
WithRetry(s, side) ==
  IF s.retry_interval = None THEN [s EXCEPT !.retry_interval = side.retry_interval]
  ELSE s

WithDefaults(s, side, is_server) ==
  IF is_server THEN WithToken(s, side) ELSE WithRetry(WithToken(s, side), side)

(* validate_server_config and validate_client_config *)
Validated(side, is_server) ==
  LET services == [n \in DOMAIN side.services |->
                     WithDefaults(side.services[n], side, is_server)]
  IN IF /\ \A n \in DOMAIN services : services[n].token # None
        /\ ValidTransport(side.transport, is_server)
     THEN [side EXCEPT !.services = services]
     ELSE Invalid

(* from_str; `f` is the file as parsed. *)
FromStr(f) ==
  IF f = Unparsable \/ (f.server = NoSide /\ f.client = NoSide) THEN Invalid
  ELSE LET c == [m \in Sides |-> IF f[m] = NoSide THEN NoSide
                                 ELSE Validated(f[m], m = "server")]
       IN IF \E m \in Sides : c[m] = Invalid THEN Invalid ELSE c

-----------------------------------------------------------------------------
(***************************************************************************)
(* TlsTransport::new: a PKCS #12 file without its password, which the      *)
(* validation lets a client have, is a panic, for None is unwrapped.       *)
(***************************************************************************)
CreatesTls(t) == t.type = "tls" => t.tls \in {"roots", "full"}

(* NoiseTransport::new, where the noise section is looked for at last. *)
CreatesNoise(t) == t.type = "noise" => t.noise # None

(* T::new of the transport. *)
Creates(t) == CreatesTls(t) /\ CreatesNoise(t)

=============================================================================
