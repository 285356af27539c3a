---------------------------- MODULE UdpForwarder ----------------------------
(***************************************************************************)
(* The client end of a UDP data channel: the loop that reads the server's  *)
(* packets (run_data_channel_for_udp), the writer task behind the outbound *)
(* queue, and one forwarder task per visitor address (run_udp_forwarder).  *)
(* They share port_map, an Arc<RwLock<HashMap<SocketAddr, Sender<Bytes>>>>.*)
(* Payloads are not told apart, so the queues of a forwarder and of the    *)
(* writer are counters.                                                    *)
(***************************************************************************)
EXTENDS Integers, Sequences

CONSTANTS Visitor,        \* visitor addresses
          NoPacket,       \* no address
          Forwarder,      \* names for forwarder tasks, one for each address
          SendQSize,      \* UDP_SEND_Q_SIZE
          BufferSize      \* UDP_BUFFER_SIZE

NoForwarder == 0
Loop == 0        \* the packet loop, as a waiter for the lock

ASSUME NamesAssumption ==
  /\ NoPacket \notin Visitor
  /\ NoForwarder \notin Forwarder

ASSUME SizesAssumption ==
  SendQSize \in Nat \ {0} /\ BufferSize \in Nat \ {0}

VARIABLES
  loop,      \* where the packet loop is
  first,     \* it still has the read guard of its first look at port_map
  packet,    \* the address of the packet it works on
  port_map,  \* the forwarder whose sender is stored for each address
  queue,     \* tasks in line for the lock of port_map, first first
  fwd,       \* where each forwarder task is
  from,      \* the address each forwarder was spawned for
  inbox,     \* packets in the inbound queue of each forwarder
  outbox,    \* packets in the outbound queue of the writer
  writer     \* the writer task

vars == <<loop, first, packet, port_map, queue, fwd, from, inbox, outbox, writer>>

Init ==
  /\ loop = "read" /\ first = FALSE /\ packet = NoPacket
  /\ port_map = [v \in Visitor |-> NoForwarder]
  /\ queue = <<>>
  /\ fwd = [f \in Forwarder |-> "done"]
  /\ from = [f \in Forwarder |-> NoPacket]
  /\ inbox = [f \in Forwarder |-> 0]
  /\ outbox = 0 /\ writer = "running"

-----------------------------------------------------------------------------
(***************************************************************************)
(* The lock. tokio's RwLock is fair: a read waits behind a write that was  *)
(* asked for earlier, also when the reader has a read guard already.       *)
(***************************************************************************)
ReadGranted == queue # <<>> /\ Head(queue) = Loop

LoopReads == loop = "send" \/ first
LoopWrites == loop = "connect"

WriteGranted(t) ==
  /\ queue # <<>> /\ Head(queue) = t
  /\ ~LoopReads /\ ~LoopWrites

-----------------------------------------------------------------------------
(* The packet loop. *)

(* rd.read_u8, UdpTraffic::read; then it asks for the first read lock. *)
ReceivePacket(v) ==
  /\ loop = "read"
  /\ packet' = v
  /\ loop' = "lookup"
  /\ queue' = Append(queue, Loop)
  /\ UNCHANGED <<first, port_map, fwd, from, inbox, outbox, writer>>

(* The data channel is closed: run_data_channel_for_udp returns. *)
ChannelCloses ==
  /\ loop = "read"
  /\ loop' = "ended"
  /\ UNCHANGED <<first, packet, port_map, queue, fwd, from, inbox, outbox,
                 writer>>

(* Variant: every packet is taken for the first of its address. *)
Lookup_AlwaysMissing ==
  /\ loop = "lookup"
  /\ ReadGranted
  /\ queue' = Tail(queue)
  /\ loop' = "missing"
  /\ UNCHANGED <<first, packet, port_map, fwd, from, inbox, outbox, writer>>

(***************************************************************************)
(* m.get(&packet.from): only the branch that finds nothing drops m; in the *)
(* other the guard lives to the end of the iteration.                      *)
(***************************************************************************)
Lookup ==
  /\ loop = "lookup"
  /\ ReadGranted
  /\ queue' = Tail(queue)
  /\ \/ /\ port_map[packet] = NoForwarder
        /\ loop' = "missing"
        /\ UNCHANGED first
     \/ /\ port_map[packet] # NoForwarder
        /\ loop' = "forward"
        /\ first' = TRUE
  /\ UNCHANGED <<packet, port_map, fwd, from, inbox, outbox, writer>>

(* port_map.write() is asked for, with no guard in hand. *)
AskWrite ==
  /\ loop = "missing"
  /\ loop' = "create"
  /\ queue' = Append(queue, Loop)
  /\ UNCHANGED <<first, packet, port_map, fwd, from, inbox, outbox, writer>>

(* The write lock is held while udp_connect resolves and connects. *)
StartConnect ==
  /\ loop = "create"
  /\ WriteGranted(Loop)
  /\ queue' = Tail(queue)
  /\ loop' = "connect"
  /\ UNCHANGED <<first, packet, port_map, fwd, from, inbox, outbox, writer>>

(* A name no living forwarder has and no entry of port_map leads to. *)
Unused(f) == fwd[f] = "done" /\ \A v \in Visitor : port_map[v] # f

(* udp_connect: the sender is inserted and a forwarder spawned, or not. *)
UdpConnect ==
  /\ loop = "connect"
  /\ loop' = "forward"
  /\ \/ /\ \E f \in Forwarder : Unused(f)
        /\ LET f == CHOOSE g \in Forwarder : Unused(g) IN
           /\ port_map' = [port_map EXCEPT ![packet] = f]
           /\ fwd' = [fwd EXCEPT ![f] = "running"]
           /\ from' = [from EXCEPT ![f] = packet]
     \/ UNCHANGED <<port_map, fwd, from>>
  /\ UNCHANGED <<first, packet, queue, inbox, outbox, writer>>

(* The second port_map.read() is asked for. *)
AskRead ==
  /\ loop = "forward"
  /\ loop' = "relock"
  /\ queue' = Append(queue, Loop)
  /\ UNCHANGED <<first, packet, port_map, fwd, from, inbox, outbox, writer>>

Relock ==
  /\ loop = "relock"
  /\ ReadGranted
  /\ queue' = Tail(queue)
  /\ \/ port_map[packet] # NoForwarder /\ loop' = "send" /\ UNCHANGED first
     \/ port_map[packet] = NoForwarder /\ loop' = "read" /\ first' = FALSE
  /\ UNCHANGED <<packet, port_map, fwd, from, inbox, outbox, writer>>

(* Variant: one packet more than the queue has room for. *)
Send_OffByOne ==
  LET f == port_map[packet] IN
  /\ loop = "send"
  /\ inbox[f] <= SendQSize
  /\ inbox' = [inbox EXCEPT ![f] = @ + 1]
  /\ loop' = "read"
  /\ first' = FALSE
  /\ UNCHANGED <<packet, port_map, queue, fwd, from, outbox, writer>>

(* Variant: a packet that finds no receiver is offered again. *)
Send_Insists ==
  LET f == port_map[packet] IN
  /\ loop = "send"
  /\ fwd[f] # "done"
  /\ inbox[f] < SendQSize
  /\ inbox' = [inbox EXCEPT ![f] = @ + 1]
  /\ loop' = "read"
  /\ first' = FALSE
  /\ UNCHANGED <<packet, port_map, queue, fwd, from, outbox, writer>>

(***************************************************************************)
(* tx.send(packet.data).await under the read lock: it waits while the      *)
(* queue is full. The error of a sender whose forwarder is gone is ignored *)
(* and the packet is lost.                                                 *)
(***************************************************************************)
Send ==
  LET f == port_map[packet] IN
  /\ loop = "send"
  /\ \/ /\ fwd[f] # "done"
        /\ inbox[f] < SendQSize
        /\ inbox' = [inbox EXCEPT ![f] = @ + 1]
     \/ fwd[f] = "done" /\ UNCHANGED inbox
  /\ loop' = "read"
  /\ first' = FALSE
  /\ UNCHANGED <<packet, port_map, queue, fwd, from, outbox, writer>>

-----------------------------------------------------------------------------
(* The forwarders. *)

Returns(f) ==
  /\ fwd' = [fwd EXCEPT ![f] = "done"]
  /\ inbox' = [inbox EXCEPT ![f] = 0]

(* break: the task leaves its loop and asks for the write lock. *)
Breaks(f) ==
  /\ fwd' = [fwd EXCEPT ![f] = "cleanup"]
  /\ queue' = Append(queue, f)

(***************************************************************************)
(* inbound_rx.recv() and s.send(&data).await?: an error leaves the         *)
(* function at once, past the clean-up of port_map. recv() cannot return   *)
(* None here, for the sender is in port_map as long as the task runs.      *)
(***************************************************************************)
ForwardInbound(f) ==
  /\ fwd[f] = "running"
  /\ inbox[f] > 0
  /\ \/ inbox' = [inbox EXCEPT ![f] = @ - 1] /\ UNCHANGED fwd
     \/ Returns(f)
  /\ UNCHANGED <<loop, first, packet, port_map, queue, from, outbox, writer>>

(* s.recv(&mut buf): a packet of the service. *)
ReceiveReply(f) ==
  /\ fwd[f] = "running"
  /\ fwd' = [fwd EXCEPT ![f] = "replying"]
  /\ UNCHANGED <<loop, first, packet, port_map, queue, from, inbox, outbox,
                 writer>>

(* s.recv fails, as it does when the service's port is unreachable. *)
ReceiveFails(f) ==
  /\ fwd[f] = "running"
  /\ Breaks(f)
  /\ UNCHANGED <<loop, first, packet, port_map, from, inbox, outbox, writer>>

(* outbound_tx.send(t).await?: it waits for room, and returns on an error. *)
SendReply(f) ==
  /\ fwd[f] = "replying"
  /\ \/ /\ writer = "running"
        /\ outbox < BufferSize
        /\ outbox' = outbox + 1
        /\ fwd' = [fwd EXCEPT ![f] = "running"]
        /\ UNCHANGED inbox
     \/ writer = "stopped" /\ Returns(f) /\ UNCHANGED outbox
  /\ UNCHANGED <<loop, first, packet, port_map, queue, from, writer>>

(* Variant: a forwarder ends only when its sender is dropped. *)
Timeout_SenderDropped(f) ==
  /\ fwd[f] = "running"
  /\ inbox[f] = 0
  /\ port_map[from[f]] # f
  /\ Breaks(f)
  /\ UNCHANGED <<loop, first, packet, port_map, from, inbox, outbox, writer>>

(* UDP_TIMEOUT without a packet either way. *)
Timeout(f) ==
  /\ fwd[f] = "running"
  /\ inbox[f] = 0
  /\ Breaks(f)
  /\ UNCHANGED <<loop, first, packet, port_map, from, inbox, outbox, writer>>

(* port_map.write().await, remove(&from) *)
Cleanup(f) ==
  /\ fwd[f] = "cleanup"
  /\ WriteGranted(f)
  /\ queue' = Tail(queue)
  /\ port_map' = [port_map EXCEPT ![from[f]] = NoForwarder]
  /\ from' = [from EXCEPT ![f] = NoPacket]
  /\ Returns(f)
  /\ UNCHANGED <<loop, first, packet, outbox, writer>>

-----------------------------------------------------------------------------
(* The writer task. *)

WritePacket ==
  /\ writer = "running"
  /\ outbox > 0
  /\ outbox' = outbox - 1
  /\ UNCHANGED <<loop, first, packet, port_map, queue, fwd, from, inbox,
                 writer>>

(***************************************************************************)
(* A write fails, as it must on a closed data channel, or every sender is  *)
(* gone: the task ends and drops outbound_rx.                              *)
(***************************************************************************)
WriterEnds ==
  /\ writer = "running"
  /\ \/ outbox > 0
     \/ loop = "ended" /\ \A f \in Forwarder : fwd[f] = "done"
  /\ writer' = "stopped"
  /\ outbox' = 0
  /\ UNCHANGED <<loop, first, packet, port_map, queue, fwd, from, inbox>>

-----------------------------------------------------------------------------
LoopStep ==
  Lookup \/ AskWrite \/ StartConnect \/ UdpConnect \/ AskRead \/ Relock \/ Send

ForwarderStep(f) ==
  ForwardInbound(f) \/ SendReply(f) \/ Timeout(f) \/ Cleanup(f)

WriterStep == WritePacket \/ WriterEnds

Next ==
  \/ LoopStep \/ ChannelCloses \/ WriterStep
  \/ \E v \in Visitor : ReceivePacket(v)
  \/ \E f \in Forwarder : ForwarderStep(f) \/ ReceiveReply(f) \/ ReceiveFails(f)

Spec == Init /\ [][Next]_vars

(***************************************************************************)
(* Every task is polled when it is woken, and the sleep of a forwarder     *)
(* fires once the packets stop. select! chooses at random among its ready  *)
(* arms and the senders of a full queue wait in line, hence the strong     *)
(* fairness of a forwarder; writes to a closed channel fail sooner or      *)
(* later. Neither the peers nor other errors are fair.                     *)
(***************************************************************************)
Fairness ==
  /\ WF_vars(LoopStep)
  /\ WF_vars(WriterStep)
  /\ SF_vars(loop = "ended" /\ WriterEnds)
  /\ \A f \in Forwarder :
       /\ WF_vars(ForwarderStep(f))
       /\ SF_vars(ForwardInbound(f))
       /\ SF_vars(SendReply(f))

FairSpec == Spec /\ Fairness

-----------------------------------------------------------------------------
(* Type invariant: the queues keep to their capacities. *)
TypeOK ==
  /\ loop \in {"read", "lookup", "missing", "create", "connect", "forward",
               "relock", "send", "ended"}
  /\ first \in BOOLEAN
  /\ packet \in Visitor \cup {NoPacket}
  /\ port_map \in [Visitor -> Forwarder \cup {NoForwarder}]
  /\ queue \in Seq(Forwarder \cup {Loop})
  /\ fwd \in [Forwarder -> {"running", "replying", "cleanup", "done"}]
  /\ from \in [Forwarder -> Visitor \cup {NoPacket}]
  /\ inbox \in [Forwarder -> 0..SendQSize]
  /\ outbox \in 0..BufferSize
  /\ writer \in {"running", "stopped"}

Alive(f) == fwd[f] \in {"running", "replying", "cleanup"}

(***************************************************************************)
(* The entry of an address belongs to its forwarder as long as that runs:  *)
(* no second forwarder takes the address over, and no clean-up removes the *)
(* entry of another one, although the lock is let go between the look-up   *)
(* and the insert and forwarders take the write lock too.                  *)
(***************************************************************************)
LiveForwarderMapped ==
  /\ \A f \in Forwarder : Alive(f) => port_map[from[f]] = f
  /\ \A v \in Visitor : port_map[v] # NoForwarder => from[port_map[v]] = v

(***************************************************************************)
(* When the data channel closes, its forwarders end, although they keep    *)
(* one another's senders alive through their clones of port_map.           *)
(***************************************************************************)
ForwardersEnd == loop = "ended" ~> \A f \in Forwarder : ~Alive(f)

(***************************************************************************)
(* "Now there should be a udp forwarder that can receive the packet": an   *)
(* entry found by the loop has a forwarder behind it.                      *)
(***************************************************************************)
ForwarderCanReceive == loop = "send" => Alive(port_map[packet])

(***************************************************************************)
(* "This is the only thread that will try to grab the writer lock": so the *)
(* loop cannot be held up for ever by another task's request for it.       *)
(***************************************************************************)
LoopGetsLock ==
  loop \in {"lookup", "create", "relock"}
    ~> loop \notin {"lookup", "create", "relock"}

=============================================================================
