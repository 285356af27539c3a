# Verification of penetrate

TLA+ specifications of penetrate, a reverse proxy in the manner of rathole: a
*server* with a public address, a *client* behind a NAT, and services that the
server exposes on ports of its own and the client forwards to. The modules are
translated from the Rust code under `src/`; TLC checks them on small instances,
and TLAPS proves every safety invariant of the passing runs, and the action
properties, for every value of the constants.

Run everything in this directory: `tlc -config X.cfg MCModule`, `tlapm
XProofs.tla`. `PROJECT.json` maps each definition to the lines it models and
lists the hazards of the code with the properties that are about them.

## The system

| component | state it keeps | operations | interacts with |
|---|---|---|---|
| instance owner (`lib.rs`) | last instance, its update queue, `shutdown_tx` | start, stop and join, pass on a service change | watcher (unbounded queue of `ConfigChange`), instance (broadcast shutdown, mpsc of 1024) |
| configuration watcher (`config_watcher.rs`) | `old` configuration, file notifications | rescan, `calculate_events` | file system, instance owner |
| server (`server.rs`) | maps `services` and `control_channels`, each in an `Arc<RwLock>` | accept, hot reload, shutdown | one task per connection |
| handshakes (`server/connection.rs`, `control_channel.rs`, `data_channel.rs`) | what they read before an await | hello, lookup, auth, ack, insert; data channel lookup and send | both maps under their locks, the peer |
| TCP session (`server/control_channel.rs`, `connection.rs`, `pool.rs`) | three queues, visitors in hand | listen, request, command, pair, replace | handle in the map, client |
| UDP session (`server/pool.rs`) | one data channel, one socket | forward both ways | client |
| client (`client.rs`) | `service_handles` | start, hot reload, shutdown | a task per handle |
| client control channel (`client/control_channel.rs`) | connection, backoff, shutdown receiver | handshake, command loop, retry | server, data channel tasks |
| client data channels (`client/data_channel.rs`, `traffic.rs`) | TCP: none; UDP: `port_map` with its lock, a queue per forwarder | dial, forward, set up and clean up forwarders | server, local service |
| `MultiMap` (`multi_map.rs`) | one heap item under two keys | insert, get, remove, drop | server |
| protocol, transports, configuration, helpers, command line | framing, sockets, TLS and Noise, validation, proxies | | all |

What is hard in it is the concurrency of tokio tasks: queues with capacities,
locks held across awaits, ends of channels that are noticed by the drop of the
other end, values read before an await and used after it, and failures that
nobody reports. Nothing is persisted, so there is no crash recovery beyond the
client's reconnect. The hazards are listed with their lines in `PROJECT.json`.

What makes each component correct, in short:

- *TCP session*: visitors form one line that is served from its head and loses
  nobody unless something failed (`KeepsPromise`); every visitor has its channel
  under way (`Ledger`); nobody waits under the registry lock (`NoBlockedSend`);
  everything ends with the handle (`DropStopsTasks`).
- *registry*: one session for a service, locks that order handshakes and
  reloads, reloads that neither block nor undo a newer session.
- *`MultiMap`*: no pointer dangles, no box is freed twice or left over.
- *UDP*: `port_map` holds exactly the living forwarders; all end with the
  channel; a write of the pool ends, and a pool that failed gets a new session.
- *client*: the newest handle ends up with the session; old tasks end.
- *heartbeats*: a living session is kept; the client leaves a dead one and dials
  again in bounded time, and the server's control task ends in bounded time.
- *configuration*: what runs is what the file says, whatever the edits, and has
  every field that the tasks unwrap.

## Modules

Each system module has an `MC` module that fixes what TLC needs, and `.cfg`
files named for the runs. A `...Proofs` module holds the theorems about the
module it extends.

    VisitorQueue <--implements-- TcpService          MultiMap <-- ControlChannels
    UdpForwarder <--extended by-- UdpTunnel          ConfigFile <-- ConfigReload
    ClientControl                                    HeartbeatClock

### TcpService and VisitorQueue

One session of a TCP service, as `ControlChannelHandle::new` starts it: the
listener task, the pool task and the control task on the server, the control
loop and the dialing tasks on the client, and the handshake tasks that bring
data channels back through the registry.

| state | code |
|---|---|
| `listener`, `incoming` | `tcp_listen_and_send`; the visitor inside `tx.send(incoming).await` |
| `visitor_ch` | `mpsc::channel(CHAN_SIZE)` |
| `pool`, `current` | `run_tcp_connection_pool`; the visitor of its outer loop |
| `requests` | `data_ch_req`, unbounded |
| `control`, `conn`, `cmds`, `client` | both `ControlChannel::run` and the connection between them |
| `dialing`, `arriving`, `sending` | `run_data_channel` before its hello; `do_data_channel_handshake` before and after the lookup |
| `data_ch` | `mpsc::channel(CHAN_SIZE * 2)`, its entries open or broken |
| `handle`, `writer` | the entry in `control_channels`; a task in line for its write lock |
| `lost` | history: requests that will never bring a channel |

Until the pool pairs it, a data channel belongs to no visitor, so tokens under
way are counters; `data_ch` is a sequence because a channel may break in it.
Each queue's closing is the drop of its other end: the pool's receiver is gone
when `pool = "stopped"`, the control task's when `control = "stopped"`, the
sender of `data_ch` is in the handle. Actions have the names of what the code
does at that point; a `select!` arm is a disjunct.

`VisitorQueue` is the abstract specification of such a session: visitors wait in
one line and are served from its head; none is turned away before a failure or
the removal of the service; when serving has ended, all who wait are hung up on.
`TcpService` implements it:

    Promise == INSTANCE VisitorQueue
      WITH clean <- Clean, serving <- (pool # "stopped"), waiting <- Line

where `Line` is the visitor in the pool's hand, then `visitor_ch`, then the one
in the listener's hand, and `Clean` says that nothing has failed and the handle
is registered.

### ControlChannels and MultiMap

The server around the sessions: `Server::run`, `handle_connection` with both
handshakes, `handle_hot_reload`, the two maps and their locks, and the sessions
as far as they bind a port and stop. `services` holds versions, so that a
configuration cloned before an await (`config`) can be told from the one in
the map. The lock of `control_channels` has its queue of waiters: tokio's
`RwLock` is fair and the properties depend on it. The asking for a lock is a
step of its own where another thread can come in between (`AskChannels`). The
lock of `services` needs no queue: its one writer is the accept loop, and a
reader that holds it across an await is one that writes
`Ack::ServiceNotExist`.

The map `channels` is a `MultiMap`: the pointers in either hash map and the heap
of boxes `(k1, k2, v)`, with every operation of `multi_map.rs` as an operator.
A look-up compares keys through the pointers, as the code does, so a pointer
to a freed box would be a read of it. The registry calls `insert`, `get1`,
`get2`, `remove1` and `drop`; `remove2`, which nothing calls, is covered by the
proofs only.

A session here is the task that has its port: the listener of a TCP service, the
pool of a UDP service (`Udp`).

| `session` | code |
|---|---|
| `binding` | the retried bind; the task looks at nothing but `shutdown_rx` |
| `listening` | its select, or a wait that the drop of the handle ends as well |
| `busy` | a UDP pool inside an arm: `write_slice` to the client, or the rest of a frame from it, for as long as the client likes |
| `failed` | over by itself: the control task is gone and a visitor came, or the socket or the channel of a pool failed. The handle may still be in the map |
| `stopped` | over because the handle was dropped |

That a drop of the handle ends a listener wherever it waits is `DropStopsTasks` of
`TcpService`, and a pool wherever it can look is `RemovalEndsPool` of `UdpTunnel`:
here both are the step `StopSession`, which a busy pool cannot take. `FailSession`
may happen to any bound session at any time. `SendChannel` never waits because of
`NoBlockedSend`.

### UdpForwarder and UdpTunnel

`UdpForwarder` is the client end of a UDP data channel. `loop` is
`run_data_channel_for_udp`, and `first` says that its read guard of line 164 is
still alive: the branch that finds an entry does not drop it before the second
`read()`. `fwd` are the tasks of `run_udp_forwarder`; an early `?` return is
`Returns`, which skips the clean-up, and a `break` is `Breaks`, which asks for
the write lock. A forwarder may be set up again after it ended, so the run
bounds neither packets nor replies nor failures.

`UdpTunnel` extends it to the whole service: `run_udp_connection_pool` on the
server (`pool`, with `visitor` in its hand; any error of its socket or channel
ends it), the data channel with a bounded
number of frames each way (`to_client`, `to_server`), and the session (`handle`,
`control`, and the dials `offers` that bring channels to `data_ch`). The pool
writes inside its `select!`, so while it writes it neither reads nor sees the
shutdown. `RequestsOpen` is where a failure of the pool is noticed: the pool
was moved the only sender of the requests, so its end ends the control task,
the client loses its connection and dials again (`Reconnect`).

### HeartbeatClock

Both `select!` loops of a control channel with their sleeps, which start anew in
every iteration, in discrete time. `interval` is in the server's file and
`timeout` in the client's; nothing compares them, and 0 turns either off.
`wire` holds the ages of the commands on their way, at most `Delay`. The link
may die silently: from then on what is written stays unacknowledged until TCP
gives up, after at most `WriteTimeout` (retransmission, or the keepalive that
`SocketOpts` sets), or before (`SocketBreaks`).
A client that fails drops its connection and sleeps before it dials again
(`backoff`, at most `MaxBackoff`); what becomes of the new connection is in
`ClientControl`. The server's side is its control task: after it has ended, a TCP
service keeps its handle and its port until the next visitor's request fails
(`Accept` in `TcpService`, `FailSession` in `ControlChannels`), for which there is
no bound.
Time passes only when nothing is due: the reaction time of a task is part of
`Delay`.

### ConfigFile and ConfigReload

`ConfigFile` is `Config::from_str` on files as parsed: the validation of the
services, the transport and the proxy, the defaults it fills in (`default_token`,
the client's `retry_interval`), and what the constructors of the transports
demand afterwards (`Creates`).

`ConfigReload` is an edit on its way to the instance: the raw file,
notification, `from_str`, `calculate_events` (as the set of event lists that the
iteration orders of a `HashMap` allow), the loop of `run`, the bounded update
queue and the instance. A side of a file is its part that
`equal_without_service` compares and its services. `FoldLeft` over the pending
events defines what the instance is going to run. `missed` remembers an edit
between the reading of the file (`config_watcher.rs:134`) and the start of the
watching (line 196): it is not applied before the next one.

### ClientControl

One service name on the client, with all the handles ever made for it. A handle
is dropped when the insert replaces it (the new task may run before that:
`AddService`, `InsertHandle`), on removal and on shutdown. The server is its
registry entry: `conn[h] = "session"` for the last handle that registered,
whose predecessor's connection is closed.

## Runs

Every passing run checks all properties of its module, under fairness where it
has temporal ones. Deadlock is not checked: a session that was dropped, a client
that was shut down and a clock at its horizon rightly stop, and the bounds stop
the environment.

| run | shows | bounds |
|---|---|---|
| `TcpService` | implements `VisitorQueue`; ledger, room, order, spares, removal | 5 visitors, 1 fault, `ChanSize` 3, `PoolSize` 1 |
| `ControlChannels` | one session for a service, sound pointers, locks, reloads end; a registered session gets its port and the shutdown ends all, but for a busy pool or a silent peer | 1 service (UDP), 3 connections, 2 reloads |
| `UdpTunnel` | map of the living forwarders; they end; writes and removals complete unless wedged; failures renew the session | 1 visitor, 2 forwarders, all queues 1, 2 data channels |
| `ConfigReload` | no change lost; nothing is unwrapped that is not there; converges | 36 raw files, 2 edits (invalid ones too), 1 failing instance, queue of 1 |
| `ClientControl` | newest handle wins; dropped ones end | 3 handles, 3 faults |
| `HeartbeatClock` | no spurious timeout; the client leaves and dials again, the control task of the server ends | intervals to 3, timeouts to 6, delay 2, write timeout 2, backoff 2, horizon 10 |
| `ControlChannels_removed` | **violated**: a removed service comes back | 2 connections, 1 reload |
| `ControlChannels_shutdown` | **violated**: a stopped instance keeps its ports | 2 connections |
| `UdpForwarder_stale` | **violated**: an entry with no forwarder | 1 visitor, 1 forwarder |
| `UdpForwarder_stuck` | **violated**: the packet loop is deadlocked | 2 visitors, 2 forwarders |
| `ConfigReload_restart` | **violated**: a restart ends the program | 2 edits |
| `ClientControl_return` | **violated**: a dropped handle takes the session | 2 handles |

Why the bounds are enough. In `TcpService` the sizes meet `RoomAssumption` with
equality and five visitors fill the listener's hand, the queue and the pool's
hand, so `data_ch` is exactly full in some states; one fault loses the one
spare or ends the session. In `ControlChannels` three connections are a session,
the handshake that replaces it and a data channel for either; two reloads are a
removal and an addition, or two changes of a running service. Services meet only
in the locks, so the passing run has one; it is of type UDP, whose sessions do all
that one of TCP does and are busy besides. In `UdpTunnel` nothing is bounded but
what the code bounds: packets, replies, failures and the lives of a forwarder are
without limit. It has one visitor, who has one forwarder at a time: with every
queue of length one a single visitor fills the whole way round and reaches each of
the three wedges below, and a forwarder that was cleaned up is set up again. No
state uses the second name of a forwarder: it is there so that a second forwarder
for the same address would be seen, as one is when the look-up misses its entry.
Forwarders of two visitors meet in the lock, the outbound queue and the writer
only; they are in `UdpForwarder_stuck`, and the proofs are for any number. In `ClientControl` two dropped tasks race the handle that stays. The ranges of
`HeartbeatClock` hold every order of interval, delay and timeout, and the horizon
lies beyond the bounds it checks.

### Fairness

Weak fairness of each task's ready steps, since tokio polls every woken task.
Strong fairness only where a step may be ready again and again without staying
so: the arms of a `select!`, which chooses at random among the ready ones, and
senders to a full queue, which tokio serves in line. Not fair: visitors, peers
that owe a hello or an auth, the local service, faults, edits, reloads and
shutdowns.

- No fault is forced. In `ClientControl` the fair steps of a task and of the server
  are those that need none (`UNCHANGED faults`), so a session may run for ever with
  faults to spare, and `NewestHasSession` must hold then too. In `ControlChannels`
  and `UdpTunnel` failures are not fair either.
- `Bind` is fair in `ControlChannels` when no other session has the port: the
  address is good and no other program holds it. `StopSession` is strongly fair,
  for a pool that packets keep busy comes back to a select that chooses at random
  (`PoolShutdown` in `UdpTunnel`). `LeaveArm` is not fair: a client may never take
  what a pool writes.
- `TakesOverPort` excuses one thing: another session of the service stays in an arm
  for good and has the port. `ShutdownStopsSessions` excuses a peer that owes its
  hello or auth for ever, and says nothing of a pool that stays in an arm. With
  either excuse left out the property is violated.
- `Register` is fair in `ClientControl`, so `DroppedEnds` is about a server that
  answers; against a silent one the code has no defence, for the client's
  handshake has neither a timeout nor a shutdown arm.
- `Reconnect` and `Offer` are fair in `UdpTunnel`: the client is alive. How long
  the control task outlives a client that is not is in `HeartbeatClock`.
- `SpareChannelsCover` excuses a session that lost more channels than
  `PoolSize`: a dial that fails is not reported to the server, and a visitor may
  then wait for good with the control channel up. `OneDialIsEnough` is the same
  for UDP: with both dials lost the service is dead until the handle goes.
- `WriteCompletes` and `RemovalEndsPool` excuse exactly three states:
  `TwoGuards` (the deadlock of `UdpForwarder_stuck`), `WaitsForCleanup` (the loop
  waits, under its read lock, for room in the queue of a forwarder that waits for
  the write lock) and `FullCycle` (loop, forwarder, writer and pool all wait to
  write, and nobody reads). Nothing but the end of the connection lets the pool go
  on from any of them, and the loop never leaves the first two; the pool may be
  in its write then, where it does not see that its service was removed. With any of
  the three left out of `Wedged` both properties are violated.
- `Converges` excuses an edit in the gap between read and watch (`missed`), which
  a test that writes the file after a sleep does not meet.

### What the violated runs show

- `RemovedServiceStops`: the handshake uses the configuration it cloned before
  `read_auth`, and a `Delete` in between finds nothing to remove.
- `InstanceOwned`: sessions end with the last `Arc` of the map, and a task in
  `read_hello` has one, for as long as its peer is silent.
- `ForwarderCanReceive`: `?` in `run_udp_forwarder` leaves past the clean-up; the
  address is dead until the data channel closes.
- `LoopGetsLock`: two read guards in one task with a writer in line between them.
- `GeneralRestarts`: `shutdown_tx.send(true)?` fails when the instance has died.
- `SuccessorKeepsSession`: a handle dropped in its handshake or its backoff
  still registers, and the server drops the session of its successor. The
  successor gets it back (`NewestHasSession`).

Two more disagreements are of literals and have no behaviour to check. The validation
accepts the proxy schemes `socket5` and `http` (`config.rs:415`), the connect
takes `socks5` and `http` and panics on others (`helper.rs:102`): a SOCKS5 proxy
is refused under its name (`examples/use_proxy/client.toml:13`) and accepted
under one that panics. And a client may have a `pkcs12` without its password,
which `tls.rs:76` unwraps; `Runnable` claims the password of servers only, and
`Creates` makes such a client fail.

## Proofs

Each invariant below was first checked with TLC. A proof has one lemma per group
of actions, and the steps of an action name the conjuncts it can disturb.

**TcpServiceProofs**, for every `ChanSize` and `PoolSize` with
`PoolSize + 2 <= ChanSize` (the code has 8 and 2048) and any number of visitors
and faults: `TypeCorrect`, `LedgerBalances`, `SendNeverBlocks`. The invariant is
`IInv == TypeOK /\ Hands /\ Ledger`. `Ledger` alone is not inductive: it counts
the visitors in the hands of the listener and of the pool, and `Hands` says that
a hand is full exactly in the states where its task waits with a visitor, and
that `visitor_ch` keeps to its capacity. `SendNeverBlocks` follows: tokens are at
most `PoolSize + ChanSize + 2`, one of them is being sent, so `data_ch` holds at
most `PoolSize + ChanSize + 1 < 2 * ChanSize`.

**TcpRefinementProofs**: `SessionKeepsPromise`, that is `Spec => Promise!Spec`.
The invariant adds `Causes` (as long as nothing failed, no task has ended and no
channel is broken, so nobody is turned away without a reason) and `Drained` (a
pool that stopped holds nobody, so serving does not begin again). `CleanFades`
says that `Clean` never returns. Each step then maps to a step of the queue or
leaves it alone. `VisitorsInOrder` (`Spec => ServedInOrder`) is the theorem of
the queue, carried down. **VisitorQueueProofs** has that theorem,
`PromiseInOrder`, from `Ascending` (the line is in the order of arrival) and
`Lined` (it holds all who are accepted).

**ControlChannelsProofs** starts with `MultiMap`, for any keys and values:
`InsertCorrect`, `Remove1Correct`, `Remove2Correct`, `DropCorrect`: each operation
keeps `WellFormed` and changes the set of items as its name says. On them it
builds, for any number of services, connections and reloads, `RegistryTypes`,
`PointersSound`, `InsertsSucceed`, `HandlesOutliveSends`. They are one inductive
invariant with `ItemsOfConns` (an item is at the address of the connection whose
handshake made it, and that one is over) and `OneWriter` (the write lock has one
holder, so what a handshake removed nobody inserts again before it does).
`ReloadsSpareNewConfig` needs `Versioned` besides: an Add keeps the lock of
`services` until it has been through `control_channels`, so until then the version
it installed is newer than all that handshakes have cloned; a Delete leaves the
service without one until the next Add. A reload then removes only sessions of an
older version.

**UdpTunnelProofs**, for any set of visitors and sizes of the queues:
`ForwardersMapped` (`Spec => []LiveForwarderMapped`) of the client end. The
strengthening is `LoopKnows`: from the look-up that found no entry to the insert
there still is none, although the lock is let go in between, and under a read
guard a found entry stays. `TunnelIsForwarder` (`TunnelSpec => Spec`) says that the
tunnel is a client end whose frames come from somewhere, so that what holds of the
client end holds in it (`TunnelForwarders`). `TunnelInRange` is the tunnel's type
invariant; the strengthening is that dials and channels together are at most two,
and that the frames keep to their room.

**ClientControlProofs**, for any number of handles and faults: `TableTypes` and
`DroppedConnectOnce`. That a dropped handle connects once more at most is not
inductive: `PastConnect` says that a task that has done so is in its handshake, in
its command loop, at its error or over, and every way from there to another
connect leads through `try_recv`. `MadeInOrder` says that a handle not yet made is
not dropped and that the one made last is not the one its insert replaces.

**ConfigReloadProofs**, for any set of files, edits, restarts and any size of the
update queue: `ReloadTypes`, `ReloadLosesNothing`, `ReloadKeepsRunnable`.
`NothingLost` is about a fold over the pending events. The argument has three
parts.

- *The fold.* `FoldLeft` is a recursion over sets of indices. `SetInduction` (from
  the pigeonhole principle of the library) gives that the recursion is well
  founded, and `FoldByRun` that the fold is the last value of any run of `Replay`
  along the sequence. From that follow the laws used later: a fold over a
  concatenation, a step from the front (`FoldStep`), and that nothing before a
  General change counts (`FoldFromGeneral`).
- *calculate_events.* `EventsReplay`: for configurations `c` and `d` that passed
  the validation, and any order in which the maps are iterated, the events turn
  what a start with `c` runs into what a start with `d` runs. `FoldDeletes` and
  `FoldAdds` give the runs explicitly; the changes of the other side are ignored;
  `EqualButServices` says what `equal_without_service` leaves to the services.
- *The steps.* The invariant adds `InTransit` (which kinds of changes each queue
  and the hand of `run` carry) and `RunsFit` (a living instance runs a side that
  the validation let through). The watcher appends events; a restart throws away
  updates that a General change has made irrelevant; every other step moves an
  event along `Pending` or takes it from its front.

**HeartbeatClockProofs**, for every interval, timeout, delay and horizon:
`TimersInRange`, `LivingSessionsStay` (`interval + Delay < timeout` is enough),
`ClientLeavesInTime` (within `heartbeat_timeout` of the cut, and it dials again
within `MaxBackoff` after that), `ServerLeavesInTime` (the control task ends within
`2 * interval + WriteTimeout`). The invariant adds `Fresh` (the client's timer is
as old as the last command it read, which came at most an interval before the
next one), `Unreached` (nothing arrives after a cut, so the client's timer, and
after it the backoff, measures the cut) and `Phases` (the server's
time after a cut: to its next write, to the end of that write, to the one after).

Assumptions on constants are named in the module that declares them:
`SizesAssumption` and `RoomAssumption`, `BoundsAssumption`, `TunnelAssumption`,
`ClockAssumption` and the like; TLC evaluates them on every run. `FilesAssumption`
of `ConfigReload` is what serde's types give: a side that is there has services,
finitely many of them, and a transport, and on a client the side has a
`retry_interval` and each service a field for one.

Only model-checked is all liveness, for fairness and `ENABLED` are out of the
prover's reach: `DropStopsTasks`, `RemovalNotBlocked`, `SpareChannelsCover`,
`ReloadCompletes`, `TakesOverPort`, `ShutdownStopsSessions`, `ForwardersEnd`,
`WriteCompletes`, `RemovalEndsPool`, `FailureRenewsSession`, `OneDialIsEnough`,
`Converges`, `NewestHasSession`, `DroppedEnds`, and of `KeepsPromise` the fairness
of `VisitorQueue`.

## Plan

Next, in the order of their worth:

1. An abstract specification of the reload (a file, and an instance that runs it
   or an earlier version) that `ConfigReload` implements: `NothingLost` is the
   invariant its refinement needs.
2. The safety halves of liveness properties as theorems: that a pool, a forwarder
   or a task that must end has, in every state, a step that is ready or one of the
   named excuses.
3. The frames of `UdpTraffic`: a read that `select!` abandons between the first
   byte and the rest, and the casts of the lengths to `u16` and `u8`.
4. The sessions of `ControlChannels` (bind, busy, failed, stopped) as an abstract
   session that `TcpService` and `UdpTunnel` implement, in place of the argument
   above.

## Not modelled

- The bytes: framing, digests, TLS, Noise, the copy loops. A connection is up,
  down or fails its handshake; a frame is read and written in one step; a
  session key names the connection it was made for.
- Time outside of the heartbeats: timeouts and backoffs are steps that may
  happen. The five seconds of the transport handshake inside the accept loop
  appear only as a state of the loop.
- EMFILE backoffs of `accept`, address resolution, socket options but the
  keepalive, the connects through proxies, command line, key generation, logging.
- An instance that is about to fail counts as failed from its start: what `run`
  does with either is the same.
