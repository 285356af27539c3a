---------------------------- MODULE HeartbeatClock ----------------------------
(***************************************************************************)
(* Heartbeats of one control channel in discrete time: the two selects of  *)
(* ControlChannel::run on the server and on the client, each with a sleep  *)
(* that starts anew in every iteration, the connection between them, and   *)
(* the sleep of the client's retry loop before it dials again.             *)
(*                                                                         *)
(* heartbeat_interval is in the server's file and heartbeat_timeout in the *)
(* client's: nothing compares them. 0 turns either of them off.            *)
(*                                                                         *)
(* A task runs as soon as its timer fires or its input is there; what the  *)
(* scheduler, the network and the peer add to that is part of Delay.       *)
(***************************************************************************)
EXTENDS Integers

CONSTANTS MaxInterval,   \* bound: heartbeat_interval
          MaxTimeout,    \* bound: heartbeat_timeout
          Delay,         \* the longest a command is on its way
          WriteTimeout,  \* until TCP gives up on data that is not acknowledged
          MaxBackoff,    \* the longest sleep of the retry loop: retry_interval
                         \* and the fifth that is added at random
          Horizon        \* bound: time after the cut

ASSUME ClockAssumption ==
  /\ MaxInterval \in Nat /\ MaxTimeout \in Nat
  /\ Delay \in Nat /\ WriteTimeout \in Nat /\ MaxBackoff \in Nat /\ Horizon \in Nat

VARIABLES
  interval,  \* heartbeat_interval
  timeout,   \* heartbeat_timeout
  server,    \* ControlChannel::run of the server
  idle,      \* the age of its sleep
  socket,    \* its end of the connection
  stalled,   \* how long data in it has not been acknowledged
  wire,      \* ages of the commands on their way, the Ack the first of them
  link,      \* "dead" if the peers no longer reach each other
  client,    \* ControlChannel::run of the client and the loop around it
  quiet,     \* the age of its sleep
  cut        \* time since the link or the client is gone

config == <<interval, timeout>>
serverVars == <<server, idle, socket, stalled>>
clientVars == <<client, quiet>>
vars == <<config, serverVars, wire, link, clientVars, cut>>

(* The server has just written Ack::Ok and its loop begins. *)
Init ==
  /\ interval \in 0..MaxInterval /\ timeout \in 0..MaxTimeout
  /\ server = "running" /\ idle = 0 /\ socket = "fine" /\ stalled = 0
  /\ wire = {0} /\ link = "up"
  /\ client = "handshake" /\ quiet = 0
  /\ cut = 0

(* The client has its end of this connection. *)
Connected == client \in {"handshake", "running"}

(* The peer is out of reach, whether or not the server can know. *)
Cut == link = "dead" \/ ~Connected

-----------------------------------------------------------------------------
(* The server. *)

(* write_and_flush succeeds as long as the socket takes the data. *)
Written ==
  /\ socket # "broken"
  /\ socket' = IF Cut THEN "stalled" ELSE socket
  /\ wire' = IF Cut THEN wire ELSE wire \cup {0}
  /\ idle' = 0
  /\ UNCHANGED <<server, stalled>>

(* Its error ends the loop. *)
WriteFails ==
  /\ socket = "broken"
  /\ server' = "stopped"
  /\ UNCHANGED <<idle, socket, stalled, wire>>

(* data_ch_req_rx.recv(): CreateDataChannel, at any time. *)
Request ==
  /\ server = "running"
  /\ Written \/ WriteFails
  /\ UNCHANGED <<config, link, clientVars, cut>>

HeartbeatDue == interval # 0 /\ idle >= interval

(* Variant: a heartbeat that cannot be written is only logged. *)
Heartbeat_ErrorLogged ==
  /\ server = "running"
  /\ HeartbeatDue
  /\ \/ Written
     \/ socket = "broken" /\ idle' = 0 /\ UNCHANGED <<server, socket, stalled, wire>>
  /\ UNCHANGED <<config, link, clientVars, cut>>

(* The sleep arm. *)
Heartbeat ==
  /\ server = "running"
  /\ HeartbeatDue
  /\ Written \/ WriteFails
  /\ UNCHANGED <<config, link, clientVars, cut>>

(* The handle was dropped: the task ends and closes the connection. *)
ServerShutdown ==
  /\ server = "running"
  /\ server' = "stopped"
  /\ UNCHANGED <<config, idle, socket, stalled, wire, link, clientVars, cut>>

-----------------------------------------------------------------------------
(* The client. *)

(* Variant: one sleep for all the iterations of the loop. *)
Deliver_OneSleep ==
  /\ Connected
  /\ \E a \in wire :
       /\ \A b \in wire : b <= a
       /\ wire' = wire \ {a}
  /\ client' = "running"
  /\ UNCHANGED <<config, serverVars, link, quiet, cut>>

(* read_control_cmd, of either command: the select begins anew. The Ack    *)
(* ends the handshake, which has no timeout.                               *)
Deliver ==
  /\ Connected
  /\ \E a \in wire :
       /\ \A b \in wire : b <= a
       /\ wire' = wire \ {a}
  /\ client' = "running"
  /\ quiet' = 0
  /\ UNCHANGED <<config, serverVars, link, cut>>

(* shutdown_rx, or the client's program ends. *)
ClientStops ==
  /\ client # "stopped"
  /\ client' = "stopped"
  /\ UNCHANGED <<config, serverVars, wire, link, quiet, cut>>

(* run returns an error: its connection is dropped and the loop sleeps. *)
ClientFails ==
  /\ client = "running"
  /\ client' = "backoff"
  /\ quiet' = 0
  /\ UNCHANGED <<config, serverVars, wire, link, cut>>

(* Variant: the timer is one tick late. *)
TimeoutDue_Late == client = "running" /\ timeout # 0 /\ quiet > timeout

TimeoutDue == client = "running" /\ timeout # 0 /\ quiet >= timeout

(* Variant: the timeout is logged and the loop goes on. *)
ClientTimesOut_Logged ==
  /\ TimeoutDue
  /\ quiet' = 0
  /\ UNCHANGED <<config, serverVars, wire, link, client, cut>>

(* "HeatBeat timed out" *)
ClientTimesOut == TimeoutDue /\ ClientFails

(***************************************************************************)
(* read_control_cmd fails: the server closed the connection and the client *)
(* has read all before, or its keepalive has given up. A handshake that    *)
(* fails so is tried again as well, and is over here.                      *)
(***************************************************************************)
EndOfStream ==
  /\ \/ server = "stopped" /\ wire = {}
     \/ link = "dead"
  /\ \/ ClientFails
     \/ client = "handshake" /\ ClientStops

BackoffDue == client = "backoff" /\ quiet >= MaxBackoff

(* The sleep, of any length up to the longest, is over. *)
DialAgain ==
  /\ client = "backoff"
  /\ client' = "dialing"
  /\ UNCHANGED <<config, serverVars, wire, link, quiet, cut>>

-----------------------------------------------------------------------------
(* The network and the clock. *)

(* A host or the path between them goes silently: nothing more arrives. *)
LinkDies ==
  /\ link = "up"
  /\ link' = "dead"
  /\ wire' = {}
  /\ UNCHANGED <<config, serverVars, clientVars, cut>>

(* A reset, or retransmission is given up. *)
SocketBreaks ==
  /\ Cut
  /\ socket # "broken"
  /\ socket' = "broken"
  /\ UNCHANGED <<config, server, idle, stalled, wire, link, clientVars, cut>>

(* Time passes when nothing is due, and counts where a timer runs. *)
Tick ==
  /\ ~(server = "running" /\ HeartbeatDue)
  /\ ~TimeoutDue /\ ~BackoffDue
  /\ Connected => \A a \in wire : a < Delay
  /\ socket = "stalled" => stalled < WriteTimeout
  /\ Cut => cut < Horizon
  /\ idle' = IF interval # 0 /\ server = "running" THEN idle + 1 ELSE idle
  /\ quiet' = IF (timeout # 0 /\ client = "running") \/ client = "backoff"
               THEN quiet + 1 ELSE quiet
  /\ stalled' = IF socket = "stalled" THEN stalled + 1 ELSE stalled
  /\ wire' = IF Connected THEN {a + 1 : a \in wire} ELSE wire
  /\ cut' = IF Cut THEN cut + 1 ELSE cut
  /\ UNCHANGED <<config, server, socket, link, client>>

Next ==
  \/ Request \/ Heartbeat \/ ServerShutdown
  \/ Deliver \/ ClientTimesOut \/ EndOfStream \/ DialAgain \/ ClientStops
  \/ LinkDies \/ SocketBreaks \/ Tick

Spec == Init /\ [][Next]_vars

-----------------------------------------------------------------------------
(* Type invariant: no timer runs past its deadline. *)
TypeOK ==
  /\ interval \in 0..MaxInterval /\ timeout \in 0..MaxTimeout
  /\ server \in {"running", "stopped"}
  /\ idle \in 0..interval
  /\ socket \in {"fine", "stalled", "broken"}
  /\ stalled \in 0..WriteTimeout
  /\ wire \subseteq 0..Delay
  /\ link \in {"up", "dead"}
  /\ client \in {"handshake", "running", "backoff", "dialing", "stopped"}
  /\ quiet \in Nat
  /\ Connected => quiet <= timeout
  /\ client = "backoff" => quiet <= MaxBackoff
  /\ cut \in 0..Horizon

(***************************************************************************)
(* A heartbeat_timeout longer than heartbeat_interval and the delay keeps  *)
(* a living session: the client's timer never runs out on it. Every select *)
(* iteration restarts the server's timer, but only after a command.        *)
(***************************************************************************)
NoSpuriousTimeout ==
  interval # 0 /\ interval + Delay < timeout
    => (TimeoutDue => link = "dead" \/ server = "stopped")

(***************************************************************************)
(* A client that was in its command loop when the server went silently     *)
(* away leaves the session within heartbeat_timeout of the cut, and after  *)
(* that it dials again within the longest backoff.                         *)
(***************************************************************************)
ClientNotices ==
  timeout # 0 =>
    /\ client = "running" => cut <= timeout
    /\ client = "backoff" => cut <= timeout + MaxBackoff

(***************************************************************************)
(* The control task of a server whose client is gone ends after the write  *)
(* that is lost, the time TCP takes to give up, and the next write. The    *)
(* handle stays in the map, and the port of a TCP service goes only with   *)
(* the next visitor, whose request then fails (Accept in TcpService).      *)
(***************************************************************************)
ServerNotices ==
  server = "running" /\ interval # 0 => cut <= 2 * interval + WriteTimeout

=============================================================================
