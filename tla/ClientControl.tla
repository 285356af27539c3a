---------------------------- MODULE ClientControl ----------------------------
(***************************************************************************)
(* One service name on the client: the loop of Client::run, which owns the *)
(* ControlChannelHandle of the service and replaces it on hot reload, and  *)
(* the control channel task of every handle it ever made (the retry loop   *)
(* of ControlChannelHandle::new around ControlChannel::run). The server is *)
(* its registry entry for the service (see ControlChannels): whoever       *)
(* completes a handshake last has the session, and the session before it   *)
(* is dropped, which closes its connection.                                *)
(***************************************************************************)
EXTENDS Integers

CONSTANTS MaxHandles,  \* bound: handles made for the service
          MaxFaults    \* bound: failed connects, broken connections, refusals

ASSUME BoundsAssumption == MaxHandles \in Nat /\ MaxFaults \in Nat

Handle == 1..MaxHandles
NoHandle == 0

VARIABLES
  client,   \* Client::run
  handle,   \* the handle stored in service_handles
  made,     \* handles made so far; Add makes the next one
  dropped,  \* is shutdown_tx of a handle gone (or was it used)
  phase,    \* where the task of each handle is
  conn,     \* its connection: none, open, session (registered), closed
  answer,   \* the Ack on its way to it
  late,     \* connections made after the handle was dropped: 0, 1, 2 or more
  faults

vars == <<client, handle, made, dropped, phase, conn, answer, late, faults>>
loop == <<client, handle, made, dropped>>

Fault == faults < MaxFaults /\ faults' = faults + 1

Init ==
  /\ client = "running" /\ handle = NoHandle /\ made = 0
  /\ dropped = [h \in Handle |-> FALSE]
  /\ phase = [h \in Handle |-> "none"]
  /\ conn = [h \in Handle |-> "none"]
  /\ answer = [h \in Handle |-> "none"]
  /\ late = [h \in Handle |-> 0]
  /\ faults = 0

-----------------------------------------------------------------------------
(* Client::run and handle_hot_reload. *)

(* Variant: the handle just stored is dropped, not the one it replaces. *)
DropHandle_New == dropped' = [h \in Handle |-> dropped[h] \/ h = handle']

(* The shutdown_tx of the stored handle is used, or is dropped with it. *)
DropHandle == dropped' = [h \in Handle |-> dropped[h] \/ h = handle]

(***************************************************************************)
(* The first handle and ClientServiceChange::Add: the task of the new      *)
(* handle is spawned and may run before the insert drops the old one.      *)
(***************************************************************************)
AddService ==
  /\ client = "running"
  /\ made < MaxHandles
  /\ made' = made + 1
  /\ phase' = [phase EXCEPT ![made'] = "connecting"]
  /\ client' = "adding"
  /\ UNCHANGED <<handle, dropped, conn, answer, late, faults>>

(* service_handles.insert(name, handle) *)
InsertHandle ==
  /\ client = "adding"
  /\ client' = "running"
  /\ handle' = made
  /\ DropHandle
  /\ UNCHANGED <<made, phase, conn, answer, late, faults>>

(* ClientServiceChange::Delete *)
DeleteService ==
  /\ client = "running"
  /\ handle # NoHandle
  /\ handle' = NoHandle
  /\ DropHandle
  /\ UNCHANGED <<client, made, phase, conn, answer, late, faults>>

(* The shutdown signal: service_handles is drained, each handle shut down. *)
Shutdown ==
  /\ client = "running"
  /\ client' = "stopped"
  /\ handle' = NoHandle
  /\ DropHandle
  /\ UNCHANGED <<made, phase, conn, answer, late, faults>>

-----------------------------------------------------------------------------
(* The task of a handle. *)

(* run returns an error: its connection is dropped. *)
Fails(h) ==
  /\ phase' = [phase EXCEPT ![h] = "failed"]
  /\ conn' = [conn EXCEPT ![h] = "none"]
  /\ answer' = [answer EXCEPT ![h] = "none"]

(* resolve, connect and the hello; there is no look at shutdown_rx here. *)
Connect(h) ==
  /\ phase[h] = "connecting"
  /\ late' = [late EXCEPT ![h] = IF dropped[h] /\ @ < 2 THEN @ + 1 ELSE @]
  /\ \/ /\ phase' = [phase EXCEPT ![h] = "handshake"]
        /\ conn' = [conn EXCEPT ![h] = "open"]
        /\ UNCHANGED <<answer, faults>>
     \/ Fault /\ Fails(h)
  /\ UNCHANGED loop

(* read_hello, write the auth, read_ack: no timeout, no look at shutdown_rx. *)
ReadAck(h) ==
  /\ phase[h] = "handshake"
  /\ \/ /\ answer[h] = "ok" /\ conn[h] = "session"
        /\ phase' = [phase EXCEPT ![h] = "running"]
        /\ answer' = [answer EXCEPT ![h] = "none"]
        /\ UNCHANGED conn
     \/ (answer[h] = "refused" \/ conn[h] = "closed") /\ Fails(h)
  /\ UNCHANGED <<loop, late, faults>>

(* Variant: the select of run has no arm for the shutdown. *)
SeeShutdown_NoArm(h) ==
  /\ phase[h] = "running"
  /\ dropped[h]
  /\ conn[h] = "closed"
  /\ phase' = [phase EXCEPT ![h] = "done"]
  /\ UNCHANGED <<loop, conn, answer, late, faults>>

(* The shutdown arm of the select: run returns Ok and the task ends. *)
SeeShutdown(h) ==
  /\ phase[h] = "running"
  /\ dropped[h]
  /\ phase' = [phase EXCEPT ![h] = "done"]
  /\ conn' = [conn EXCEPT ![h] = "none"]
  /\ UNCHANGED <<loop, answer, late, faults>>

(* read_control_cmd fails, or no command came for heartbeat_timeout. *)
ChannelFails(h) ==
  /\ phase[h] = "running"
  /\ \/ conn[h] = "closed" /\ UNCHANGED faults
     \/ Fault
  /\ Fails(h)
  /\ UNCHANGED <<loop, late>>

(* Variant: the retry loop does not look at the shutdown. *)
Retry_NoCheck(h) ==
  /\ phase[h] = "failed"
  /\ phase' = [phase EXCEPT ![h] = "backoff"]
  /\ UNCHANGED <<loop, conn, answer, late, faults>>

(* shutdown_rx.try_recv() after an error: stop, or sleep and try again. *)
Retry(h) ==
  /\ phase[h] = "failed"
  /\ phase' = [phase EXCEPT ![h] = IF dropped[h] THEN "done" ELSE "backoff"]
  /\ UNCHANGED <<loop, conn, answer, late, faults>>

(* The sleep is over; run starts without a look at shutdown_rx. *)
Wake(h) ==
  /\ phase[h] = "backoff"
  /\ phase' = [phase EXCEPT ![h] = "connecting"]
  /\ UNCHANGED <<loop, conn, answer, late, faults>>

-----------------------------------------------------------------------------
(* The server. *)

(* do_control_channel_handshake: the session before is dropped. *)
Register(h) ==
  /\ phase[h] = "handshake" /\ conn[h] = "open"
  /\ \/ /\ answer' = [answer EXCEPT ![h] = "ok"]
        /\ conn' = [g \in Handle |-> IF g = h THEN "session"
                                    ELSE IF conn[g] = "session" THEN "closed"
                                    ELSE conn[g]]
        /\ UNCHANGED faults
     \/ /\ Fault
        /\ answer' = [answer EXCEPT ![h] = "refused"]
        /\ conn' = [conn EXCEPT ![h] = "closed"]
  /\ UNCHANGED <<loop, phase, late>>

(***************************************************************************)
(* The connection breaks, or the server drops the session: an error of its *)
(* own, or the late handshake of a connection that is gone.                *)
(***************************************************************************)
Break(h) ==
  /\ conn[h] \in {"open", "session"}
  /\ Fault
  /\ conn' = [conn EXCEPT ![h] = "closed"]
  /\ UNCHANGED <<loop, phase, answer, late>>

-----------------------------------------------------------------------------
TaskStep(h) ==
  Connect(h) \/ ReadAck(h) \/ SeeShutdown(h) \/ ChannelFails(h) \/ Retry(h) \/ Wake(h)

Next ==
  \/ AddService \/ InsertHandle \/ DeleteService \/ Shutdown
  \/ \E h \in Handle : TaskStep(h) \/ Register(h) \/ Break(h)

Spec == Init /\ [][Next]_vars

(***************************************************************************)
(* Each task runs on, a sleep ends, and a server that is there answers. A  *)
(* step that needs a fault is never forced: a session may run for ever,    *)
(* with faults to spare.                                                   *)
(***************************************************************************)
Fairness ==
  /\ WF_vars(InsertHandle)
  /\ \A h \in Handle : /\ WF_vars(TaskStep(h) /\ UNCHANGED faults)
                      /\ WF_vars(Register(h) /\ UNCHANGED faults)

FairSpec == Spec /\ Fairness

-----------------------------------------------------------------------------
(* Type invariant. *)
TypeOK ==
  /\ client \in {"running", "adding", "stopped"}
  /\ made \in 0..MaxHandles
  /\ dropped \in [Handle -> BOOLEAN]
  /\ handle \in {h \in Handle : ~dropped[h]} \cup {NoHandle}
  /\ phase \in [Handle -> {"none", "connecting", "handshake", "running",
                           "failed", "backoff", "done"}]
  /\ conn \in [Handle -> {"none", "open", "session", "closed"}]
  /\ answer \in [Handle -> {"none", "ok", "refused"}]
  /\ late \in [Handle -> 0..2]
  /\ faults \in 0..MaxFaults

(***************************************************************************)
(* A dropped handle connects to the server once more at most: its task     *)
(* misses the shutdown in the sleep and in the handshake, never twice.     *)
(***************************************************************************)
DroppedConnectsOnce == \A h \in Handle : late[h] <= 1

(***************************************************************************)
(* When the reloads and the faults are over, the handle in service_handles *)
(* has the session on the server and keeps it: the tasks of older handles  *)
(* cannot take it away for ever.                                           *)
(***************************************************************************)
NewestHasSession ==
  <>[](handle # NoHandle => phase[handle] = "running" /\ conn[handle] = "session")

(***************************************************************************)
(* "Dropping it will also drop the actual control channel" (client         *)
(* control_channel.rs): the task of a dropped handle ends. It needs a      *)
(* server that answers: the handshake has no timeout.                      *)
(***************************************************************************)
DroppedEnds == \A h \in Handle : dropped[h] ~> phase[h] = "done"

(***************************************************************************)
(* The same comment, read for the handle that replaced it: once dropped, a *)
(* handle does not come back and take the session of its successor.        *)
(***************************************************************************)
SuccessorKeepsSession ==
  [][\A h \in Handle :
       dropped[h] /\ handle # NoHandle /\ conn[handle] = "session" /\ conn'[h] = "session"
         => conn[h] = "session"]_vars

=============================================================================
