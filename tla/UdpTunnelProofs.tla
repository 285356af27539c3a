--------------------------- MODULE UdpTunnelProofs ---------------------------
(***************************************************************************)
(* port_map is the map of the living forwarders, for every set of visitors *)
(* and every size of the queues, and stays so at the end of a tunnel.      *)
(***************************************************************************)
EXTENDS UdpTunnel, SequenceTheorems, TLAPS

(***************************************************************************)
(* What the loop knows of the entry of its packet: from the look-up that   *)
(* found none up to the insert there is none, for forwarders only remove   *)
(* entries; under a read guard an entry stays.                             *)
(***************************************************************************)
LoopKnows ==
  /\ loop \notin {"read", "ended"} => packet \in Visitor
  /\ loop \in {"missing", "create", "connect"} => port_map[packet] = NoForwarder
  /\ loop = "send" => port_map[packet] # NoForwarder

HasAddress == \A f \in Forwarder : Alive(f) => from[f] \in Visitor

IInv == TypeOK /\ LiveForwarderMapped /\ LoopKnows /\ HasAddress

USE DEF NoForwarder, Loop

(* Asking for the lock and taking it keep the type of the line for it. *)
LEMMA LineType ==
  ASSUME queue \in Seq(Forwarder \cup {Loop}), NEW t \in Forwarder \cup {Loop}
  PROVE  /\ Append(queue, t) \in Seq(Forwarder \cup {Loop})
         /\ queue # <<>> => Tail(queue) \in Seq(Forwarder \cup {Loop})
  BY AppendProperties, HeadTailProperties, EmptySeq

(* A new data channel task has no forwarders. *)
LEMMA InitInv == Init => IInv
<1> SUFFICES ASSUME Init PROVE IInv
  OBVIOUS
<1>1. queue \in Seq(Forwarder \cup {Loop})
  BY DEF Init
<1>2. 0 \in 0..SendQSize /\ 0 \in 0..BufferSize
  BY SizesAssumption
<1>3. TypeOK
  BY <1>1, <1>2, Zenon DEF Init, TypeOK
<1>4. LiveForwarderMapped /\ LoopKnows /\ HasAddress
  BY NamesAssumption DEF Init, LiveForwarderMapped, LoopKnows, HasAddress, Alive
<1> QED BY <1>3, <1>4 DEF IInv

-----------------------------------------------------------------------------
(* The steps of the packet loop. *)
LEMMA LoopInv ==
  ASSUME IInv,
         \/ LoopStep \/ ChannelCloses
         \/ \E v \in Visitor : ReceivePacket(v)
  PROVE  IInv'
<1> USE NamesAssumption, SizesAssumption, LineType
<1> USE DEF IInv
<1>1. ASSUME NEW v \in Visitor, ReceivePacket(v) PROVE IInv'
  BY <1>1 DEF ReceivePacket, TypeOK, LiveForwarderMapped, LoopKnows, HasAddress, Alive
<1>2. CASE ChannelCloses
  BY <1>2 DEF ChannelCloses, TypeOK, LiveForwarderMapped, LoopKnows, HasAddress, Alive
<1>3. CASE Lookup
  BY <1>3 DEF Lookup, ReadGranted, TypeOK, LiveForwarderMapped, LoopKnows, HasAddress, Alive
<1>4. CASE AskWrite
  BY <1>4 DEF AskWrite, TypeOK, LiveForwarderMapped, LoopKnows, HasAddress, Alive
<1>5. CASE StartConnect
  BY <1>5 DEF StartConnect, WriteGranted, TypeOK, LiveForwarderMapped, LoopKnows, HasAddress, Alive
<1>6. CASE UdpConnect
  <2>1. CASE UNCHANGED <<port_map, fwd, from>>
    BY <1>6, <2>1 DEF UdpConnect, TypeOK, LiveForwarderMapped, LoopKnows, HasAddress, Alive
  <2>2. ASSUME ~UNCHANGED <<port_map, fwd, from>> PROVE IInv'
    <3>1. PICK f \in Forwarder :
            /\ Unused(f)
            /\ port_map' = [port_map EXCEPT ![packet] = f]
            /\ fwd' = [fwd EXCEPT ![f] = "running"]
            /\ from' = [from EXCEPT ![f] = packet]
      BY <1>6, <2>2 DEF UdpConnect
    <3>2. packet \in Visitor /\ port_map[packet] = NoForwarder
      BY <1>6 DEF UdpConnect, LoopKnows
    <3>3. TypeOK'
      BY <1>6, <3>1, <3>2 DEF UdpConnect, TypeOK
    <3>4. LiveForwarderMapped'
      BY <3>1, <3>2 DEF Unused, TypeOK, LiveForwarderMapped, HasAddress, Alive
    <3>5. LoopKnows'
      BY <1>6, <3>2 DEF UdpConnect, LoopKnows
    <3>6. HasAddress'
      BY <3>1, <3>2 DEF Unused, TypeOK, HasAddress, Alive
    <3> QED BY <3>3, <3>4, <3>5, <3>6
  <2> QED BY <2>1, <2>2
<1>7. CASE AskRead
  BY <1>7 DEF AskRead, TypeOK, LiveForwarderMapped, LoopKnows, HasAddress, Alive
<1>8. CASE Relock
  BY <1>8 DEF Relock, ReadGranted, TypeOK, LiveForwarderMapped, LoopKnows, HasAddress, Alive
<1>9. CASE Send
  <2>1. port_map[packet] \in Forwarder /\ fwd' = fwd
    BY <1>9 DEF Send, LoopKnows, TypeOK
  <2>2. inbox' \in [Forwarder -> 0..SendQSize]
    <3>1. CASE inbox' = inbox
      BY <3>1 DEF TypeOK
    <3>2. CASE /\ inbox[port_map[packet]] < SendQSize
               /\ inbox' = [inbox EXCEPT ![port_map[packet]] = @ + 1]
      <4>1. inbox[port_map[packet]] \in 0..SendQSize
        BY <2>1 DEF TypeOK
      <4>2. inbox[port_map[packet]] + 1 \in 0..SendQSize
        BY <3>2, <4>1
      <4> QED BY <3>2, <4>2, <2>1 DEF TypeOK
    <3> QED BY <1>9, <3>1, <3>2 DEF Send
  <2>3. TypeOK'
    BY <1>9, <2>2 DEF Send, TypeOK
  <2> QED BY <1>9, <2>1, <2>3 DEF Send, LiveForwarderMapped, LoopKnows, HasAddress, Alive
<1> QED BY <1>1, <1>2, <1>3, <1>4, <1>5, <1>6, <1>7, <1>8, <1>9 DEF LoopStep

(* The steps of a forwarder: only Cleanup touches port_map. *)
LEMMA ForwarderInv ==
  ASSUME IInv, NEW f \in Forwarder,
         ForwarderStep(f) \/ ReceiveReply(f) \/ ReceiveFails(f)
  PROVE  IInv'
<1> USE NamesAssumption, SizesAssumption, LineType
<1> USE DEF IInv
<1>1. CASE ForwardInbound(f)
  <2>1. inbox[f] \in 0..SendQSize /\ inbox[f] > 0
    BY <1>1 DEF ForwardInbound, TypeOK
  <2>2. inbox[f] - 1 \in 0..SendQSize /\ 0 \in 0..SendQSize
    BY <2>1
  <2>3. inbox' \in [Forwarder -> 0..SendQSize]
    BY <1>1, <2>2 DEF ForwardInbound, Returns, TypeOK
  <2>4. fwd' = fwd \/ fwd' = [fwd EXCEPT ![f] = "done"]
    BY <1>1 DEF ForwardInbound, Returns
  <2>5. TypeOK'
    BY <1>1, <2>3, <2>4 DEF ForwardInbound, TypeOK
  <2> QED BY <1>1, <2>4, <2>5
          DEF ForwardInbound, TypeOK, LiveForwarderMapped, LoopKnows, HasAddress, Alive
<1>2. CASE ReceiveReply(f)
  BY <1>2 DEF ReceiveReply, TypeOK, LiveForwarderMapped, LoopKnows, HasAddress, Alive
<1>3. CASE ReceiveFails(f)
  BY <1>3 DEF ReceiveFails, Breaks, TypeOK, LiveForwarderMapped, LoopKnows, HasAddress, Alive
<1>4. CASE SendReply(f)
  BY <1>4 DEF SendReply, Returns, TypeOK, LiveForwarderMapped, LoopKnows, HasAddress, Alive
<1>5. CASE Timeout(f)
  BY <1>5 DEF Timeout, Breaks, TypeOK, LiveForwarderMapped, LoopKnows, HasAddress, Alive
<1>6. CASE Cleanup(f)
  <2>1. Alive(f) /\ from[f] \in Visitor /\ port_map[from[f]] = f
    BY <1>6 DEF Cleanup, Alive, LiveForwarderMapped, HasAddress
  <2>2. TypeOK'
    BY <1>6, <2>1 DEF Cleanup, WriteGranted, Returns, TypeOK
  <2>3. LiveForwarderMapped'
    BY <1>6, <2>1 DEF Cleanup, Returns, TypeOK, LiveForwarderMapped, HasAddress, Alive
  <2>4. LoopKnows'
    BY <1>6, <2>1 DEF Cleanup, WriteGranted, LoopReads, LoopKnows, TypeOK
  <2>5. HasAddress'
    BY <1>6 DEF Cleanup, Returns, TypeOK, HasAddress, Alive
  <2> QED BY <2>2, <2>3, <2>4, <2>5
<1> QED BY <1>1, <1>2, <1>3, <1>4, <1>5, <1>6 DEF ForwarderStep

(* The outbound task reads its queue only; the map is not its business. *)
LEMMA WriterInv ==
  ASSUME IInv, WriterStep
  PROVE  IInv'
  BY SizesAssumption
  DEF WriterStep, WritePacket, WriterEnds, IInv, TypeOK, LiveForwarderMapped,
      LoopKnows, HasAddress, Alive

-----------------------------------------------------------------------------
(***************************************************************************)
(* The inductive invariant of the client end: types, what the loop knows   *)
(* of the entry of its packet, and living forwarders behind their entries. *)
(***************************************************************************)
THEOREM ForwarderInvariance == Spec => []IInv
<1>1. ASSUME IInv, [Next]_vars PROVE IInv'
  <2>1. CASE UNCHANGED vars
    BY <1>1, <2>1 DEF vars, IInv, TypeOK, LiveForwarderMapped, LoopKnows, HasAddress, Alive
  <2>2. CASE Next
    BY <1>1, <2>2, LoopInv, ForwarderInv, WriterInv DEF Next
  <2> QED BY <1>1, <2>1, <2>2
<1> QED BY <1>1, InitInv, PTL DEF Spec

(***************************************************************************)
(* The entry of an address belongs to its forwarder for as long as that    *)
(* runs (run_data_channel_for_udp, run_udp_forwarder).                     *)
(***************************************************************************)
THEOREM ForwardersMapped == Spec => []LiveForwarderMapped
<1>1. IInv => LiveForwarderMapped
  BY DEF IInv
<1> QED BY <1>1, ForwarderInvariance, PTL

(* The frames to the client are packets of visitors. *)
Frames ==
  /\ to_client \in Seq(Visitor)
  /\ pool = "writing" => visitor \in Visitor

(* The pool writes a frame of its visitor or none. *)
LEMMA FramesKept ==
  ASSUME Frames, [TunnelNext]_tunnelVars
  PROVE  Frames'
<1>1. CASE UNCHANGED <<to_client, pool, visitor>>
  BY <1>1 DEF Frames
<1>2. CASE UNCHANGED to_client /\ pool' # "writing"
  BY <1>2 DEF Frames
<1>3. ASSUME NEW v \in Visitor, ReceiveFrom(v) PROVE Frames'
  BY <1>2, <1>3 DEF ReceiveFrom, PoolEnds, stream, Frames
<1>4. CASE WriteSlice
  <2>1. CASE to_client' = Append(to_client, visitor) /\ pool' = "select"
    BY <1>4, <2>1, AppendProperties DEF WriteSlice, Frames
  <2>2. CASE PoolEnds
    BY <2>2, <1>2 DEF PoolEnds
  <2> QED BY <1>4, <2>1, <2>2 DEF WriteSlice
<1>5. CASE TakeFrame
  <2>1. to_client # <<>> /\ to_client' = Tail(to_client) /\ UNCHANGED <<pool, visitor>>
    BY <1>5 DEF TakeFrame
  <2> QED BY <2>1, HeadTailProperties DEF Frames
<1>6. CASE Offer \/ RemoveHandle \/ ControlEnds \/ Break \/ EndOfChannel
           \/ Inside(LoopStep) \/ WriterTask
  BY <1>1, <1>6 DEF Offer, RemoveHandle, ControlEnds, Break, EndOfChannel, Inside,
                    WriterTask, PutFrame, WriterStops, stream
<1>7. CASE Bind \/ TakeChannel \/ NoChannel \/ ReadFrame \/ PoolShutdown
  BY <1>1, <1>2, <1>7 DEF Bind, TakeChannel, NoChannel, ReadFrame, PoolShutdown,
                          PoolEnds, stream
<1>8. ASSUME NEW f \in Forwarder,
             Inside(ForwarderStep(f) \/ ReceiveReply(f) \/ ReceiveFails(f))
      PROVE  Frames'
  BY <1>1, <1>8 DEF Inside, stream
<1>9. CASE UNCHANGED tunnelVars
  BY <1>1, <1>9 DEF tunnelVars, stream
<1> QED BY <1>3, <1>4, <1>5, <1>6, <1>7, <1>8, <1>9
        DEF TunnelNext, PoolStep, PacketLoop

(* A step of the tunnel is a step of the client end, or it leaves it alone. *)
LEMMA TunnelStep ==
  ASSUME Frames, [TunnelNext]_tunnelVars
  PROVE  [Next]_vars
<1>1. CASE UNCHANGED tunnelVars
  BY <1>1 DEF tunnelVars
<1>2. CASE \/ Offer \/ RemoveHandle \/ ControlEnds \/ Break
           \/ \E v \in Visitor : ReceiveFrom(v)
  BY <1>2 DEF Offer, RemoveHandle, ControlEnds, Break, ReceiveFrom, PoolEnds
<1>3. CASE PoolStep
  BY <1>3 DEF PoolStep, Bind, TakeChannel, NoChannel, WriteSlice, ReadFrame,
              PoolShutdown, PoolEnds
<1>4. CASE TakeFrame
  <2>1. Head(to_client) \in Visitor /\ ReceivePacket(Head(to_client))
    BY <1>4, HeadTailProperties DEF TakeFrame, Frames
  <2> QED BY <2>1 DEF Next
<1>5. CASE EndOfChannel
  BY <1>5 DEF EndOfChannel, Next
<1>6. CASE Inside(LoopStep)
  BY <1>6 DEF Inside, Next
<1>7. CASE WriterTask
  <2>1. WriterStep
    BY <1>7 DEF WriterTask, PutFrame, WriterStops, WriterStep
  <2> QED BY <2>1 DEF Next
<1>8. ASSUME NEW f \in Forwarder,
             Inside(ForwarderStep(f) \/ ReceiveReply(f) \/ ReceiveFails(f))
      PROVE  Next
  BY <1>8 DEF Inside, Next
<1> QED BY <1>1, <1>2, <1>3, <1>4, <1>5, <1>6, <1>7, <1>8 DEF TunnelNext, PacketLoop

(***************************************************************************)
(* The tunnel uses the client end as it is specified on its own: its       *)
(* behaviours are behaviours of UdpForwarder.                              *)
(***************************************************************************)
THEOREM TunnelIsForwarder == TunnelSpec => Spec
<1>1. TunnelInit => Init
  BY DEF TunnelInit
<1>2. TunnelInit => Frames
  BY EmptySeq DEF TunnelInit, Frames
<1>3. TunnelSpec => []Frames
  BY <1>2, FramesKept, PTL DEF TunnelSpec
<1> QED BY <1>1, <1>3, TunnelStep, PTL DEF TunnelSpec, Spec

(***************************************************************************)
(* So what holds of its port_map holds at the end of a data channel that   *)
(* the server's pool feeds (run_udp_connection_pool).                      *)
(***************************************************************************)
THEOREM TunnelForwarders == TunnelSpec => []LiveForwarderMapped
  BY TunnelIsForwarder, ForwardersMapped, PTL

-----------------------------------------------------------------------------
(***************************************************************************)
(* The tunnel's own part of the type invariant. A dial brings one channel, *)
(* so the queue has room for all that were asked for; and the pool writes  *)
(* for some visitor.                                                       *)
(***************************************************************************)
TunnelTypes ==
  /\ handle \in {"registered", "removed"} /\ control \in {"running", "stopped"}
  /\ offers \in Nat /\ data_ch \in Nat /\ offers + data_ch <= PoolSize
  /\ pool \in {"binding", "waiting", "select", "writing", "ended"}
  /\ visitor \in Visitor \cup {NoPacket}
  /\ channel \in {"none", "up", "closed"}
  /\ Len(to_client) <= FrameRoom
  /\ to_server \in 0..FrameRoom

(* The session around the pool loses and delivers what it was asked for. *)
LEMMA SessionTypes ==
  ASSUME TunnelTypes, Offer \/ RemoveHandle \/ ControlEnds
  PROVE  TunnelTypes'
<1>1. CASE Offer
  <2>1. \/ offers' = offers - 1 /\ data_ch' = data_ch + 1
        \/ offers' = offers - 1 /\ data_ch' = data_ch
    BY <1>1 DEF Offer
  <2>2. offers > 0 /\ UNCHANGED <<handle, control, pool, visitor, stream>>
    BY <1>1 DEF Offer
  <2> QED BY <2>1, <2>2, TunnelAssumption DEF stream, TunnelTypes
<1>2. CASE RemoveHandle
  BY <1>2 DEF RemoveHandle, stream, TunnelTypes
<1>3. CASE ControlEnds
  BY <1>3 DEF ControlEnds, stream, TunnelTypes
<1> QED BY <1>1, <1>2, <1>3

(* The pool writes only if there is room, and empties its queue at the end. *)
LEMMA PoolTypes ==
  ASSUME TunnelTypes, Frames, PoolStep \/ \E v \in Visitor : ReceiveFrom(v)
  PROVE  TunnelTypes'
<1> USE TunnelAssumption
<1>1. CASE PoolEnds
  BY <1>1 DEF PoolEnds, TunnelTypes
<1>2. ASSUME NEW v \in Visitor, ReceiveFrom(v) PROVE TunnelTypes'
  BY <1>1, <1>2 DEF ReceiveFrom, session, stream, TunnelTypes
<1>3. CASE Bind
  BY <1>3 DEF Bind, session, stream, TunnelTypes
<1>4. CASE TakeChannel
  BY <1>1, <1>4 DEF TakeChannel, TunnelTypes
<1>5. CASE WriteSlice
  <2>1. CASE /\ Len(to_client) < FrameRoom
             /\ to_client' = Append(to_client, visitor)
             /\ pool = "writing" /\ pool' = "select" /\ visitor' = NoPacket
             /\ UNCHANGED <<session, channel, to_server>>
    <3>1. Len(to_client') = Len(to_client) + 1 /\ Len(to_client) \in Nat
      BY <2>1, AppendProperties, LenProperties DEF Frames
    <3> QED BY <2>1, <3>1 DEF session, TunnelTypes
  <2> QED BY <1>1, <1>5, <2>1 DEF WriteSlice
<1>6. CASE ReadFrame
  BY <1>1, <1>6 DEF ReadFrame, session, TunnelTypes
<1>7. CASE NoChannel \/ PoolShutdown
  BY <1>1, <1>7 DEF NoChannel, PoolShutdown
<1> QED BY <1>2, <1>3, <1>4, <1>5, <1>6, <1>7 DEF PoolStep

(* The client end takes frames, puts them where there is room, or is alone. *)
LEMMA ClientTypes ==
  ASSUME TunnelTypes, Frames,
         \/ PacketLoop \/ WriterTask \/ Break
         \/ \E f \in Forwarder :
              Inside(ForwarderStep(f) \/ ReceiveReply(f) \/ ReceiveFails(f))
  PROVE  TunnelTypes'
<1> USE TunnelAssumption
<1>1. CASE UNCHANGED <<session, pool, visitor, stream>>
  BY <1>1 DEF session, stream, TunnelTypes
<1>2. CASE TakeFrame
  <2>1. Len(to_client') = Len(to_client) - 1
    BY <1>2, HeadTailProperties DEF TakeFrame, Frames
  <2>2. Len(to_client) \in Nat
    BY LenProperties DEF Frames
  <2> QED BY <1>2, <2>1, <2>2 DEF TakeFrame, session, TunnelTypes
<1>3. CASE PutFrame
  <2>1. to_server' \in 0..FrameRoom
    BY <1>3, FrameRoom \in Nat DEF PutFrame, TunnelTypes
  <2> QED BY <1>3, <2>1 DEF PutFrame, session, TunnelTypes
<1>4. CASE Break
  BY <1>4 DEF Break, session, TunnelTypes
<1> QED BY <1>1, <1>2, <1>3, <1>4 DEF PacketLoop, WriterTask, EndOfChannel, WriterStops, Inside

(***************************************************************************)
(* Every queue and both directions of the channel keep to their sizes in   *)
(* the composition (run_udp_connection_pool, run_data_channel_for_udp).    *)
(***************************************************************************)
THEOREM TunnelInRange == TunnelSpec => []TunnelTypeOK
<1>1. TunnelInit => TunnelTypes /\ Frames
  BY EmptySeq, TunnelAssumption DEF TunnelInit, TunnelTypes, Frames
<1>2. ASSUME TunnelTypes, Frames, [TunnelNext]_tunnelVars PROVE TunnelTypes'
  <2>1. CASE UNCHANGED tunnelVars
    BY <1>2, <2>1 DEF tunnelVars, session, stream, TunnelTypes
  <2> QED BY <1>2, <2>1, SessionTypes, PoolTypes, ClientTypes DEF TunnelNext
<1>3. TunnelSpec => [](TunnelTypes /\ Frames)
  BY <1>1, <1>2, FramesKept, PTL DEF TunnelSpec
<1>4. IInv /\ TunnelTypes /\ Frames => TunnelTypeOK
  BY TunnelAssumption DEF IInv, TunnelTypes, Frames, TunnelTypeOK
<1> QED BY <1>3, <1>4, TunnelIsForwarder, ForwarderInvariance, PTL

=============================================================================
