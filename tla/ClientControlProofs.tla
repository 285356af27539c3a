------------------------- MODULE ClientControlProofs -------------------------
(***************************************************************************)
(* The client's table and the tasks of its handles, for any number of      *)
(* handles and failures: the types, and how often a handle that was        *)
(* dropped can still connect.                                              *)
(***************************************************************************)
EXTENDS ClientControl, TLAPS

(***************************************************************************)
(* A task that connected after its handle was dropped is past the places   *)
(* that do not look at the shutdown: from here every way back to a         *)
(* connect leads through try_recv, which sees the drop.                    *)
(***************************************************************************)
PastConnect ==
  \A h \in Handle :
    late[h] # 0 => /\ late[h] = 1 /\ dropped[h]
                   /\ phase[h] \in {"handshake", "running", "failed", "done"}

(***************************************************************************)
(* Handles are made one after the other: none to come has been dropped or  *)
(* has connected, and the one made last is not the one it replaces.        *)
(***************************************************************************)
MadeInOrder ==
  /\ \A h \in Handle : h > made => ~dropped[h] /\ late[h] = 0
  /\ handle <= made
  /\ client = "adding" => made \in Handle /\ handle < made /\ ~dropped[made]

IInv == TypeOK /\ PastConnect /\ MadeInOrder

USE BoundsAssumption DEF Handle, NoHandle

(* Before the first handle nothing has been dropped. *)
LEMMA InitInv == Init => IInv
  BY DEF Init, IInv, TypeOK, PastConnect, MadeInOrder

-----------------------------------------------------------------------------
(* A stored handle is dropped when it leaves the table, and stays dropped. *)
LEMMA TableInv ==
  ASSUME IInv, AddService \/ InsertHandle \/ DeleteService \/ Shutdown
  PROVE  IInv'
<1> USE DEF IInv
<1>1. CASE AddService
  <2>1. TypeOK'
    BY <1>1 DEF AddService, TypeOK
  <2>2. PastConnect'
    BY <1>1 DEF AddService, TypeOK, PastConnect, MadeInOrder
  <2>3. MadeInOrder'
    BY <1>1 DEF AddService, TypeOK, MadeInOrder
  <2> QED BY <2>1, <2>2, <2>3
<1>2. CASE InsertHandle \/ DeleteService \/ Shutdown
  <2>1. /\ dropped' = [h \in Handle |-> dropped[h] \/ h = handle]
        /\ UNCHANGED <<made, phase, conn, answer, late, faults>>
    BY <1>2 DEF InsertHandle, DeleteService, Shutdown, DropHandle
  <2>2. /\ client' \in {"running", "stopped"}
        /\ \/ handle' = NoHandle
           \/ handle' \in Handle /\ handle' = made /\ ~dropped'[made]
    <3>1. CASE InsertHandle
      <4>1. made \in Handle /\ made # handle /\ ~dropped[made]
        BY <3>1 DEF InsertHandle, TypeOK, MadeInOrder
      <4>2. ~dropped'[made]
        BY <2>1, <4>1, Zenon
      <4> QED BY <3>1, <4>1, <4>2 DEF InsertHandle
    <3>2. CASE DeleteService \/ Shutdown
      BY <3>2 DEF DeleteService, Shutdown
    <3> QED BY <1>2, <3>1, <3>2
  <2>3. TypeOK'
    <3>1. dropped' \in [Handle -> BOOLEAN]
      BY <2>1, Zenon DEF TypeOK
    <3>2. handle' \in {h \in Handle : ~dropped'[h]} \cup {NoHandle}
      BY <2>2
    <3> QED BY <2>1, <2>2, <3>1, <3>2, Zenon DEF TypeOK
  <2>4. PastConnect'
    BY <2>1 DEF TypeOK, PastConnect
  <2>5. MadeInOrder'
    BY <2>1, <2>2 DEF TypeOK, MadeInOrder
  <2> QED BY <2>3, <2>4, <2>5
<1> QED BY <1>1, <1>2

(* The server and the network touch no task and no handle. *)
LEMMA PeerInv ==
  ASSUME IInv, NEW h \in Handle, Register(h) \/ Break(h)
  PROVE  IInv'
<1>1. UNCHANGED <<loop, phase, late>>
  BY DEF Register, Break
<1>2. TypeOK'
  <2>1. conn' \in [Handle -> {"none", "open", "session", "closed"}]
    BY DEF IInv, Register, Break, TypeOK
  <2>2. answer' \in [Handle -> {"none", "ok", "refused"}]
    BY DEF IInv, Register, Break, TypeOK
  <2>3. faults' \in 0..MaxFaults
    BY DEF IInv, Register, Break, Fault, TypeOK
  <2> QED BY <1>1, <2>1, <2>2, <2>3, Zenon DEF IInv, loop, TypeOK
<1> QED BY <1>1, <1>2 DEF IInv, loop, PastConnect, MadeInOrder

(***************************************************************************)
(* A task that has not connected late does so once; one that has finds out *)
(* at its next error.                                                      *)
(***************************************************************************)
LEMMA TaskInv ==
  ASSUME IInv, NEW h \in Handle, TaskStep(h)
  PROVE  IInv'
<1> USE DEF IInv
<1>1. UNCHANGED loop
  BY DEF TaskStep, Connect, ReadAck, SeeShutdown, ChannelFails, Retry, Wake
<1>2. TypeOK'
  <2>1. phase' \in [Handle -> {"none", "connecting", "handshake", "running",
                              "failed", "backoff", "done"}]
    BY DEF TaskStep, Connect, ReadAck, SeeShutdown, ChannelFails, Retry, Wake, Fails, TypeOK
  <2>2. conn' \in [Handle -> {"none", "open", "session", "closed"}]
    BY DEF TaskStep, Connect, ReadAck, SeeShutdown, ChannelFails, Retry, Wake, Fails, TypeOK
  <2>3. answer' \in [Handle -> {"none", "ok", "refused"}]
    BY DEF TaskStep, Connect, ReadAck, SeeShutdown, ChannelFails, Retry, Wake, Fails, TypeOK
  <2>4. late' \in [Handle -> 0..2]
    BY DEF TaskStep, Connect, ReadAck, SeeShutdown, ChannelFails, Retry, Wake, TypeOK
  <2>5. faults' \in 0..MaxFaults
    BY DEF TaskStep, Connect, ReadAck, SeeShutdown, ChannelFails, Retry, Wake, Fault, TypeOK
  <2> QED BY <1>1, <2>1, <2>2, <2>3, <2>4, <2>5, Zenon DEF loop, TypeOK
<1>3. \A g \in Handle : g # h => phase'[g] = phase[g] /\ late'[g] = late[g]
  <2>1. CASE Connect(h)
    BY <2>1 DEF Connect, Fails, TypeOK
  <2>2. CASE ~Connect(h)
    BY <2>2 DEF TaskStep, ReadAck, SeeShutdown, ChannelFails, Retry, Wake, Fails, TypeOK
  <2> QED BY <2>1, <2>2
<1>4. late'[h] # 0 => /\ late'[h] = 1 /\ dropped[h]
                      /\ phase'[h] \in {"handshake", "running", "failed", "done"}
  <2>1. CASE Connect(h)
    <3>1. late[h] = 0
      BY <2>1 DEF Connect, PastConnect
    <3>2. late'[h] = IF dropped[h] THEN 1 ELSE 0
      BY <2>1, <3>1 DEF Connect, TypeOK
    <3>3. phase'[h] \in {"handshake", "failed"}
      BY <2>1 DEF Connect, Fails, TypeOK
    <3> QED BY <3>2, <3>3
  <2>2. CASE ReadAck(h) \/ ChannelFails(h) \/ SeeShutdown(h)
    BY <2>2 DEF ReadAck, ChannelFails, SeeShutdown, Fails, TypeOK, PastConnect
  <2>3. CASE Retry(h)
    BY <2>3 DEF Retry, TypeOK, PastConnect
  <2>4. CASE Wake(h)
    BY <2>4 DEF Wake, PastConnect
  <2> QED BY <2>1, <2>2, <2>3, <2>4 DEF TaskStep
<1>5. PastConnect'
  BY <1>1, <1>3, <1>4 DEF loop, PastConnect
<1>6. MadeInOrder'
  BY <1>1, <1>3, <1>4 DEF loop, MadeInOrder
<1> QED BY <1>2, <1>5, <1>6

-----------------------------------------------------------------------------
(* The inductive invariant of the table and its tasks. *)
THEOREM TableInvariance == Spec => []IInv
<1>1. ASSUME IInv, [Next]_vars PROVE IInv'
  <2>1. CASE UNCHANGED vars
    BY <1>1, <2>1 DEF vars, IInv, TypeOK, PastConnect, MadeInOrder
  <2> QED BY <1>1, <2>1, TableInv, TaskInv, PeerInv DEF Next
<1> QED BY <1>1, InitInv, PTL DEF Spec

(* Every variable keeps its range, and no dropped handle is in the table. *)
THEOREM TableTypes == Spec => []TypeOK
<1>1. IInv => TypeOK
  BY DEF IInv
<1> QED BY <1>1, TableInvariance, PTL

(***************************************************************************)
(* However many handles, faults and retries there are, a dropped handle    *)
(* connects to the server once more at most (ControlChannelHandle::new).   *)
(***************************************************************************)
THEOREM DroppedConnectOnce == Spec => []DroppedConnectsOnce
<1>1. IInv => DroppedConnectsOnce
  BY DEF IInv, TypeOK, PastConnect, DroppedConnectsOnce
<1> QED BY <1>1, TableInvariance, PTL

=============================================================================
