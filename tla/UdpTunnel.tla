------------------------------ MODULE UdpTunnel ------------------------------
(***************************************************************************)
(* A UDP service end to end: the server's run_udp_connection_pool, the one *)
(* data channel it uses, and the client end of UdpForwarder.               *)
(*                                                                         *)
(*   visitors <--> pool ==to_client==> packet loop --inbox--> forwarders   *)
(*                      <==to_server== writer <----outbox----              *)
(*                                                                         *)
(* Both directions of the channel hold a bounded number of frames, so a    *)
(* write waits for the other end to read. A frame is written and read in   *)
(* one step: the two ends agree on its length.                             *)
(***************************************************************************)
EXTENDS UdpForwarder

CONSTANTS FrameRoom,   \* frames that fit into one direction of the channel
          PoolSize     \* UDP_POOL_SIZE, 2 in the code

ASSUME TunnelAssumption == FrameRoom \in Nat \ {0} /\ PoolSize \in Nat \ {0}

VARIABLES
  handle,    \* is the ControlChannelHandle in the control_channels map
  control,   \* server ControlChannel::run
  offers,    \* data channels asked for that have neither come nor failed
  data_ch,   \* data channels in the queue from the registry to the pool
  pool,      \* run_udp_connection_pool task
  visitor,   \* the sender of the packet the pool writes
  channel,   \* the data channel between the pool and the client
  to_client, \* frames in it, by the visitor they are from
  to_server  \* frames in it the other way

session == <<handle, control, offers, data_ch>>
stream == <<channel, to_client, to_server>>
tunnelVars == <<vars, session, pool, visitor, stream>>

TunnelInit ==
  /\ Init
  /\ handle = "registered" /\ control = "running"
  /\ offers = PoolSize /\ data_ch = 0
  /\ pool = "binding" /\ visitor = NoPacket
  /\ channel = "none" /\ to_client = <<>> /\ to_server = 0

-----------------------------------------------------------------------------
(* The session around the pool. *)

(* A data channel comes through the handshake, or the client's dial fails. *)
Offer ==
  /\ offers > 0
  /\ offers' = offers - 1
  /\ \/ handle = "registered" /\ pool # "ended" /\ data_ch' = data_ch + 1
     \/ UNCHANGED data_ch
  /\ UNCHANGED <<vars, handle, control, pool, visitor, stream>>

(* The service is removed or replaced: the handle is dropped. *)
RemoveHandle ==
  /\ handle = "registered"
  /\ handle' = "removed"
  /\ UNCHANGED <<vars, control, offers, data_ch, pool, visitor, stream>>

(* Variant: someone else has a sender of the requests as well. *)
RequestsOpen_Cloned == handle = "registered" \/ pool # "ended"

(***************************************************************************)
(* data_ch_req_tx was moved into the pool, which does not use it: the pool *)
(* has its only sender, so data_ch_req_rx gives None when the pool is gone.*)
(***************************************************************************)
RequestsOpen == pool # "ended"

(* Shutdown, the end of the requests, or a failed write ends the task. *)
ControlEnds ==
  /\ control = "running"
  /\ control' = "stopped"
  /\ UNCHANGED <<vars, handle, offers, data_ch, pool, visitor, stream>>

(* The client sees its control connection closed and starts a new session. *)
Reconnect == control = "stopped" /\ RemoveHandle

-----------------------------------------------------------------------------
(* The pool. *)

(* The pool returns and drops its channel and the queue. *)
PoolEnds ==
  /\ pool' = "ended"
  /\ data_ch' = 0
  /\ visitor' = NoPacket
  /\ channel' = IF channel = "none" THEN "none" ELSE "closed"
  /\ UNCHANGED <<vars, handle, control, offers, to_client, to_server>>

(* UdpSocket::bind with retries. *)
Bind ==
  /\ pool = "binding"
  /\ pool' = "waiting"
  /\ UNCHANGED <<vars, session, visitor, stream>>

(* Variant: the pool takes a channel only together with the other one. *)
TakeChannel_Both ==
  /\ pool = "waiting"
  /\ data_ch = PoolSize
  /\ data_ch' = data_ch - 1
  /\ pool' = "select"
  /\ channel' = "up"
  /\ UNCHANGED <<vars, handle, control, offers, visitor, to_client, to_server>>

(***************************************************************************)
(* data_ch_rx.recv() and the StartForwardUdp command: a channel that broke *)
(* in the queue ends the pool, and no other one is asked for.              *)
(***************************************************************************)
TakeChannel ==
  /\ pool = "waiting"
  /\ data_ch > 0
  /\ \/ /\ data_ch' = data_ch - 1
        /\ pool' = "select"
        /\ channel' = "up"
        /\ UNCHANGED <<vars, handle, control, offers, visitor, to_client, to_server>>
     \/ PoolEnds

(* recv() gives None once the handle is dropped and the queue is empty. *)
NoChannel ==
  /\ pool = "waiting"
  /\ handle = "removed" /\ data_ch = 0
  /\ PoolEnds

(***************************************************************************)
(* l.recv_from: the arm is chosen, the frame has yet to be written. Its    *)
(* error ends the pool, whose socket then is closed for every visitor.     *)
(***************************************************************************)
ReceiveFrom(v) ==
  /\ pool = "select"
  /\ \/ /\ pool' = "writing"
        /\ visitor' = v
        /\ UNCHANGED <<vars, session, stream>>
     \/ PoolEnds

(***************************************************************************)
(* UdpTraffic::write_slice, inside the arm: until it is done the pool      *)
(* neither reads from the channel nor looks at shutdown_rx.                *)
(***************************************************************************)
WriteSlice ==
  /\ pool = "writing"
  /\ \/ /\ channel = "up"
        /\ Len(to_client) < FrameRoom
        /\ to_client' = Append(to_client, visitor)
        /\ pool' = "select"
        /\ visitor' = NoPacket
        /\ UNCHANGED <<vars, session, channel, to_server>>
     \/ channel = "closed" /\ PoolEnds

(***************************************************************************)
(* conn.read_u8, UdpTraffic::read and l.send_to: an error of the socket    *)
(* ends the pool for all its visitors, as does the end of the channel.     *)
(***************************************************************************)
ReadFrame ==
  /\ pool = "select"
  /\ \/ /\ to_server > 0
        /\ to_server' = to_server - 1
        /\ UNCHANGED <<vars, session, pool, visitor, channel, to_client>>
     \/ to_server > 0 /\ PoolEnds
     \/ channel = "closed" /\ PoolEnds

(* Variant: shutdown_rx is looked at before the loop only. *)
PoolShutdown_Early ==
  /\ handle = "removed"
  /\ pool = "binding"
  /\ PoolEnds

(* shutdown_rx.recv() while binding and in the select. *)
PoolShutdown ==
  /\ handle = "removed"
  /\ pool \in {"binding", "select"}
  /\ PoolEnds

-----------------------------------------------------------------------------
(* The client end, on this channel. *)

(* The connection under the data channel breaks. *)
Break ==
  /\ channel = "up"
  /\ channel' = "closed"
  /\ UNCHANGED <<vars, session, pool, visitor, to_client, to_server>>

(* The packet loop takes a frame. *)
TakeFrame ==
  /\ to_client # <<>>
  /\ ReceivePacket(Head(to_client))
  /\ to_client' = Tail(to_client)
  /\ UNCHANGED <<session, pool, visitor, channel, to_server>>

(* It reads the end of the channel, or an error before that. *)
EndOfChannel ==
  /\ channel = "closed"
  /\ ChannelCloses
  /\ UNCHANGED <<session, pool, visitor, stream>>

(* The writer waits for room in the channel; what it writes to a closed    *)
(* one is lost.                                                            *)
PutFrame ==
  /\ channel = "up" => to_server < FrameRoom
  /\ WritePacket
  /\ to_server' = IF channel = "up" THEN to_server + 1 ELSE to_server
  /\ UNCHANGED <<session, pool, visitor, channel, to_client>>

WriterStops ==
  /\ channel # "up"
  /\ WriterEnds
  /\ UNCHANGED <<session, pool, visitor, stream>>

Inside(A) == A /\ UNCHANGED <<session, pool, visitor, stream>>

-----------------------------------------------------------------------------
PoolStep ==
  Bind \/ TakeChannel \/ NoChannel \/ WriteSlice \/ ReadFrame \/ PoolShutdown

PacketLoop == TakeFrame \/ EndOfChannel \/ Inside(LoopStep)

WriterTask == PutFrame \/ WriterStops

SessionEnds == (~RequestsOpen \/ handle = "removed") /\ ControlEnds

TunnelNext ==
  \/ Offer \/ RemoveHandle \/ ControlEnds
  \/ PoolStep \/ \E v \in Visitor : ReceiveFrom(v)
  \/ PacketLoop \/ WriterTask \/ Break
  \/ \E f \in Forwarder :
       Inside(ForwarderStep(f) \/ ReceiveReply(f) \/ ReceiveFails(f))

(***************************************************************************)
(* As in UdpForwarder; the arms of the pool's select! are chosen at random *)
(* too. Visitors, the local service, removals and breaks are not fair.     *)
(***************************************************************************)
TunnelFairness ==
  /\ WF_tunnelVars(Offer) /\ WF_tunnelVars(SessionEnds) /\ WF_tunnelVars(Reconnect)
  /\ WF_tunnelVars(PoolStep)
  /\ SF_tunnelVars(ReadFrame) /\ SF_tunnelVars(PoolShutdown)
  /\ WF_tunnelVars(PacketLoop)
  /\ WF_tunnelVars(WriterTask)
  /\ SF_tunnelVars(loop = "ended" /\ WriterStops)
  /\ \A f \in Forwarder :
       /\ WF_tunnelVars(Inside(ForwarderStep(f)))
       /\ SF_tunnelVars(Inside(ForwardInbound(f)))
       /\ SF_tunnelVars(Inside(SendReply(f)))

TunnelSpec == TunnelInit /\ [][TunnelNext]_tunnelVars /\ TunnelFairness

-----------------------------------------------------------------------------
(* Type invariant of the tunnel. *)
TunnelTypeOK ==
  /\ TypeOK
  /\ handle \in {"registered", "removed"} /\ control \in {"running", "stopped"}
  /\ offers \in 0..PoolSize /\ data_ch \in 0..PoolSize
  /\ pool \in {"binding", "waiting", "select", "writing", "ended"}
  /\ visitor \in Visitor \cup {NoPacket}
  /\ channel \in {"none", "up", "closed"}
  /\ to_client \in Seq(Visitor) /\ Len(to_client) <= FrameRoom
  /\ to_server \in 0..FrameRoom

(* The two read guards with a forwarder's write request between them. *)
TwoGuards == loop = "relock" /\ first /\ Head(queue) # Loop

(* The loop waits, under its read lock, for room in the queue of a         *)
(* forwarder that waits for the write lock.                                *)
WaitsForCleanup ==
  /\ loop = "send"
  /\ fwd[port_map[packet]] = "cleanup"
  /\ inbox[port_map[packet]] = SendQSize

(* Every queue on the way round is full and everyone waits to write. *)
FullCycle ==
  /\ loop = "send"
  /\ fwd[port_map[packet]] = "replying"
  /\ inbox[port_map[packet]] = SendQSize
  /\ outbox = BufferSize
  /\ to_server = FrameRoom
  /\ pool = "writing"
  /\ Len(to_client) = FrameRoom

Wedged == TwoGuards \/ WaitsForCleanup \/ FullCycle

(***************************************************************************)
(* The pool's write of a packet ends, unless the client is wedged in one   *)
(* of exactly three ways: the write in the select! arm stops the reading,  *)
(* but by itself that is no deadlock.                                      *)
(***************************************************************************)
WriteCompletes == pool = "writing" ~> pool # "writing" \/ Wedged

(***************************************************************************)
(* Dropping the handle ends the pool and frees its port wherever it is,    *)
(* unless it is in a write to a wedged client.                             *)
(***************************************************************************)
RemovalEndsPool == handle = "removed" ~> pool = "ended" \/ Wedged

(***************************************************************************)
(* A pool that ends by itself (a socket error, a broken channel) takes the *)
(* session with it: the control task misses its sender, and the client     *)
(* comes back with a new session.                                          *)
(***************************************************************************)
FailureRenewsSession == pool = "ended" ~> handle = "removed"

(***************************************************************************)
(* The pool gets a channel although one of the two dials may fail; with    *)
(* both lost it waits for as long as the handle is there.                  *)
(***************************************************************************)
OneDialIsEnough ==
  pool = "waiting" ~> pool # "waiting" \/ (offers = 0 /\ data_ch = 0)

=============================================================================
