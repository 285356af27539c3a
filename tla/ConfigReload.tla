---------------------------- MODULE ConfigReload ----------------------------
(***************************************************************************)
(* From an edit of the configuration file to the running instance: the     *)
(* watcher task (config_watcher), the loop of lib.rs `run` that owns the   *)
(* instance, and the instance as far as it answers to that loop: it takes  *)
(* service updates, stops on the shutdown signal, or dies of an error      *)
(* (run_instance unwraps the result).                                      *)
(*                                                                         *)
(* ConfigFile has the shape of a file and what from_str makes of it.       *)
(***************************************************************************)
EXTENDS Integers, SequencesExt, ConfigFile

CONSTANTS Files,       \* what an operator may write, as parsed
          ArgMode,     \* the --server / --client flag, or "auto"
          UpdateCap,   \* mpsc::channel(1024) to the instance
          MaxEdits,    \* bound: edits of the file
          MaxFaults    \* bound: instances that cannot start

ASSUME ParametersAssumption ==
  /\ ArgMode \in {"auto", "server", "client"}
  /\ UpdateCap \in Nat \ {0}
  /\ MaxEdits \in Nat /\ MaxFaults \in Nat

(***************************************************************************)
(* What serde gives for a file that parses: the fields of ServerConfig and *)
(* ClientConfig. The services are a HashMap, so they are finitely many,    *)
(* and the retry_interval of a client is no Option, that of a service is.  *)
(***************************************************************************)
FileParses(f) ==
  \A m \in Sides :
    f[m] = NoSide
      \/ /\ {"services", "transport"} \subseteq DOMAIN f[m]
         /\ IsFiniteSet(DOMAIN f[m].services)
         /\ m = "client" =>
              /\ f[m].retry_interval # None
              /\ \A n \in DOMAIN f[m].services : "retry_interval" \in DOMAIN f[m].services[n]

ASSUME FilesAssumption == \A f \in Files : f = Unparsable \/ FileParses(f)

NoInstance == [side |-> None]

(* The configurations an instance or the watcher can have. *)
Configs == {FromStr(f) : f \in Files} \ {Invalid}

VARIABLES
  file,     \* the configuration file
  missed,   \* it changed last before it was watched
  watch,    \* the watcher: "loaded" the file, "watching", "stopped"
  fevents,  \* file notifications not yet handled
  old,      \* the configuration the watcher compared last
  events,   \* ConfigChanges on their way to run
  run,      \* where the loop of run is
  item,     \* the ConfigChange it works on
  inst,     \* the instance task
  applied,  \* the side the instance runs, as updated
  updates,  \* service changes on their way to the instance
  edits, faults

vars == <<file, missed, watch, fevents, old, events, run, item, inst, applied,
          updates, edits, faults>>
watcher  == <<missed, watch, fevents, old>>
instance == <<inst, applied, updates>>

-----------------------------------------------------------------------------
(* calculate_events *)

General(c) == [kind |-> "general", config |-> c]
Delete(m, s) == [kind |-> "delete", side |-> m, service |-> s]
Add(m, s, v) == [kind |-> "add", side |-> m, service |-> s, config |-> v]

NoItem == [kind |-> "none"]

(* A HashMap is iterated in any order. *)
Orders(S) == {q \in [1..Cardinality(S) -> S] : IsInjective(q)}

(* Variant: only names that are new count as additions. *)
Added_NewNames(o, n) == DOMAIN n \ DOMAIN o

(* `addition`: new and changed services. *)
Added(o, n) == {s \in DOMAIN n : s \notin DOMAIN o \/ o[s] # n[s]}

(* `deletions` *)
Deleted(o, n) == DOMAIN o \ DOMAIN n

Deletions(m, d) == [i \in DOMAIN d |-> Delete(m, d[i])]
Additions(m, a, n) == [i \in DOMAIN a |-> Add(m, a[i], n[a[i]])]

(* calculate_instance_config_events when no General change is needed. *)
ServiceEvents(m, o, n) ==
  {Deletions(m, d) \o Additions(m, a, n) :
     d \in Orders(Deleted(o, n)), a \in Orders(Added(o, n))}

(* The events of one side; a side that is not there has none. *)
SideEvents(m, c, d) ==
  IF c[m] = d[m] THEN {<<>>}
  ELSE ServiceEvents(m, c[m].services, d[m].services)

EqualWithoutService(x, y) ==
  [x EXCEPT !.services = <<>>] = [y EXCEPT !.services = <<>>]

(***************************************************************************)
(* A side came or went, or something beside its services changed. The code *)
(* looks at the server first, and returns General alone in either case.    *)
(***************************************************************************)
NeedsGeneral(c, d) == \E m \in Sides : ~EqualWithoutService(c[m], d[m])

(* calculate_events, for every order of the maps. *)
Events(c, d) ==
  IF NeedsGeneral(c, d) THEN {<<General(d)>>}
  ELSE {p \o q : p \in SideEvents("server", c, d), q \in SideEvents("client", c, d)}

-----------------------------------------------------------------------------
(* determine_run_mode, and the side an instance of configuration c runs:   *)
(* none if the mode is undetermined or its side is missing.                *)

RunMode(c) ==
  IF ArgMode # "auto" THEN {ArgMode} ELSE {m \in Sides : c[m] # NoSide}

Started(c) ==
  IF Cardinality(RunMode(c)) # 1 THEN NoInstance
  ELSE LET m == CHOOSE m \in Sides : RunMode(c) = {m} IN
       IF c[m] = NoSide THEN NoInstance ELSE [side |-> m, config |-> c[m]]

(* The service changes of the other side are ignored with a warning. *)
Update(a, e) ==
  IF a.side # e.side THEN a
  ELSE [a EXCEPT !.config.services =
          IF e.kind = "add"
          THEN [n \in DOMAIN @ \cup {e.service} |-> IF n = e.service THEN e.config ELSE @[n]]
          ELSE [n \in DOMAIN @ \ {e.service} |-> @[n]]]

(* ConfigWatcherHandle::new: the file is read and the first event sent. *)
Init ==
  /\ file \in Files /\ FromStr(file) # Invalid /\ missed = FALSE
  /\ old = FromStr(file) /\ events = <<General(old)>>
  /\ watch = "loaded" /\ fevents = 0
  /\ run = "idle" /\ item = NoItem
  /\ inst = "none" /\ applied = NoInstance /\ updates = <<>>
  /\ edits = 0 /\ faults = 0

-----------------------------------------------------------------------------
(* The operator and the watcher. *)

Edit(c) ==
  /\ edits < MaxEdits
  /\ edits' = edits + 1
  /\ file' = c
  /\ missed' = (watch = "loaded")
  /\ fevents' = IF watch = "watching" THEN fevents + 1 ELSE fevents
  /\ UNCHANGED <<watch, old, events, run, item, instance, faults>>

(* notify::recommended_watcher and watch(), some time after the file was read. *)
StartWatching ==
  /\ watch = "loaded"
  /\ watch' = "watching"
  /\ UNCHANGED <<file, missed, fevents, old, events, run, item, instance, edits, faults>>

(* Variant: an invalid file ends the watcher. *)
Rescan_BreaksOnInvalid ==
  /\ watch = "watching"
  /\ fevents > 0
  /\ fevents' = fevents - 1
  /\ \/ FromStr(file) = Invalid /\ watch' = "broken" /\ UNCHANGED <<old, events>>
     \/ /\ FromStr(file) # Invalid
        /\ \E es \in Events(old, FromStr(file)) : events' = events \o es
        /\ old' = FromStr(file)
        /\ UNCHANGED watch
  /\ UNCHANGED <<file, missed, run, item, instance, edits, faults>>

(* fevent_rx.recv(): the file is read again; an invalid one is ignored. *)
Rescan ==
  /\ watch = "watching"
  /\ fevents > 0
  /\ fevents' = fevents - 1
  /\ \/ FromStr(file) = Invalid /\ UNCHANGED <<old, events>>
     \/ /\ FromStr(file) # Invalid
        /\ \E es \in Events(old, FromStr(file)) : events' = events \o es
        /\ old' = FromStr(file)
  /\ UNCHANGED <<file, missed, watch, run, item, instance, edits, faults>>

(* shutdown_rx.recv() in the watcher: Ctrl-C. *)
Quit ==
  /\ watch = "watching"
  /\ watch' = "stopped"
  /\ UNCHANGED <<file, missed, fevents, old, events, run, item, instance, edits, faults>>

-----------------------------------------------------------------------------
(* The loop of run. *)

(* The transport of the side can be created. *)
Starts(c) == Started(c) # NoInstance /\ Creates(Started(c).config.transport)

(* tokio::spawn(run_instance(config)), with a new update channel. *)
StartInstance(c) ==
  /\ updates' = <<>>
  /\ applied' = Started(c)
  /\ \/ inst' = (IF Starts(c) THEN "running" ELSE "dead") /\ UNCHANGED faults
     \/ /\ Starts(c)
        /\ faults < MaxFaults
        /\ faults' = faults + 1
        /\ inst' = "dead"

(* A General change with no last instance. *)
FirstInstance ==
  /\ run = "idle" /\ events # <<>>
  /\ Head(events).kind = "general"
  /\ inst = "none"
  /\ events' = Tail(events)
  /\ StartInstance(Head(events).config)
  /\ UNCHANGED <<file, watcher, run, item, edits>>

(***************************************************************************)
(* shutdown_tx.send(true)?: with no receiver left, because the instance is *)
(* dead, the error leaves run, and the program ends.                       *)
(***************************************************************************)
StopInstance ==
  /\ run = "idle" /\ events # <<>>
  /\ Head(events).kind = "general"
  /\ inst # "none"
  /\ events' = Tail(events)
  /\ item' = Head(events)
  /\ run' = IF inst = "running" THEN "stopping" ELSE "failed"
  /\ UNCHANGED <<file, watcher, instance, edits, faults>>

(* i.await?: the old instance is joined before the new one starts. *)
JoinInstance ==
  /\ run = "stopping"
  /\ inst = "stopped"
  /\ StartInstance(item.config)
  /\ run' = "idle"
  /\ item' = NoItem
  /\ UNCHANGED <<file, watcher, events, edits>>

(* Any other change is for the instance. *)
TakeServiceChange ==
  /\ run = "idle" /\ events # <<>>
  /\ Head(events).kind # "general"
  /\ events' = Tail(events)
  /\ item' = Head(events)
  /\ run' = "sending"
  /\ UNCHANGED <<file, watcher, instance, edits, faults>>

(* Variant: the update queue has no bound. *)
SendUpdate_Unbounded ==
  /\ run = "sending"
  /\ updates' = Append(updates, item)
  /\ run' = "idle"
  /\ item' = NoItem
  /\ UNCHANGED <<file, watcher, events, inst, applied, edits, faults>>

(* service_update_tx.send(ev).await; the error of a dead instance is ignored. *)
SendUpdate ==
  /\ run = "sending"
  /\ \/ /\ inst = "running"
        /\ Len(updates) < UpdateCap
        /\ updates' = Append(updates, item)
     \/ inst = "dead" /\ UNCHANGED updates
  /\ run' = "idle"
  /\ item' = NoItem
  /\ UNCHANGED <<file, watcher, events, inst, applied, edits, faults>>

(* event_rx.recv() = None: the watcher has gone. *)
RunEnds ==
  /\ run = "idle" /\ events = <<>> /\ watch = "stopped"
  /\ run' = "ended"
  /\ UNCHANGED <<file, watcher, events, item, instance, edits, faults>>

-----------------------------------------------------------------------------
(* The instance: the two arms of its select. *)

TakeUpdate ==
  /\ inst = "running"
  /\ updates # <<>>
  /\ applied' = Update(applied, Head(updates))
  /\ updates' = Tail(updates)
  /\ UNCHANGED <<file, watcher, events, run, item, inst, edits, faults>>

Stop ==
  /\ inst = "running"
  /\ run = "stopping"
  /\ inst' = "stopped"
  /\ UNCHANGED <<file, watcher, events, run, item, applied, updates, edits, faults>>

-----------------------------------------------------------------------------
RunStep ==
  FirstInstance \/ StopInstance \/ JoinInstance \/ TakeServiceChange \/ SendUpdate

InstanceStep == TakeUpdate \/ Stop

Next ==
  \/ \E c \in Files : Edit(c)
  \/ StartWatching \/ Rescan \/ Quit
  \/ RunStep \/ RunEnds
  \/ InstanceStep

Spec == Init /\ [][Next]_vars

(***************************************************************************)
(* The watcher, the loop of run and the instance are tasks; a notification *)
(* the file system delivered is handled. Edits and Ctrl-C are not fair.    *)
(* The select of the instance is random, so it takes the shutdown signal   *)
(* in the end although updates may be ready as well.                       *)
(***************************************************************************)
Fairness ==
  /\ WF_vars(StartWatching) /\ WF_vars(Rescan)
  /\ WF_vars(RunStep)
  /\ WF_vars(TakeUpdate) /\ WF_vars(Stop)

FairSpec == Spec /\ Fairness

-----------------------------------------------------------------------------
(* Type invariant: where the tasks are; the update queue keeps to its size. *)
TypeOK ==
  /\ file \in Files /\ missed \in BOOLEAN /\ old \in Configs
  /\ watch \in {"loaded", "watching", "stopped"}
  /\ fevents \in 0..MaxEdits
  /\ run \in {"idle", "stopping", "sending", "failed", "ended"}
  /\ inst \in {"none", "running", "stopped", "dead"}
  /\ Len(updates) <= UpdateCap
  /\ edits \in 0..MaxEdits /\ faults \in 0..MaxFaults

(***************************************************************************)
(* What the instance runs, once it has taken all that is on its way in the *)
(* three queues, restarts included.                                        *)
(***************************************************************************)
Replay(a, e) == IF e.kind = "general" THEN Started(e.config) ELSE Update(a, e)

Pending ==
  IF run = "stopping" THEN <<item>> \o events
  ELSE updates \o (IF run = "sending" THEN <<item>> ELSE <<>>) \o events

(***************************************************************************)
(* No change gets lost or out of order between the watcher and a living    *)
(* instance: when all that is pending has been applied, the instance runs  *)
(* what a fresh start from the watcher's configuration would run.          *)
(***************************************************************************)
NothingLost ==
  inst # "dead" /\ run # "failed"
    => FoldLeft(Replay, applied, Pending) = Started(old)

(***************************************************************************)
(* An instance, and each change on its way to it, has what the code that   *)
(* runs it unwraps: tokens, on a client retry_intervals, on a TLS server a *)
(* PKCS #12 file with its password.                                        *)
(***************************************************************************)
ServiceRuns(side, s) ==
  s.token # None /\ (side = "client" => s.retry_interval # None)

Runnable ==
  /\ inst = "running" =>
       /\ \A n \in DOMAIN applied.config.services :
            ServiceRuns(applied.side, applied.config.services[n])
       /\ applied.side = "server" /\ applied.config.transport.type = "tls"
            => applied.config.transport.tls = "full"
  /\ \A i \in DOMAIN updates :
       updates[i].kind = "add" => ServiceRuns(updates[i].side, updates[i].config)

(***************************************************************************)
(* When the edits are over, the instance comes to run the configuration in *)
(* the file, unless the file is invalid, was last written between being    *)
(* read and being watched, the program ended or the instance died.         *)
(***************************************************************************)
Converges ==
  <>[](\/ missed
       \/ FromStr(file) = Invalid
       \/ applied = Started(FromStr(file))
       \/ watch = "stopped" \/ run = "failed" \/ inst = "dead")

(***************************************************************************)
(* "General configuration change detected. Restarting..." (lib.rs): such a *)
(* change brings a new instance, it does not end the program.              *)
(***************************************************************************)
GeneralRestarts == run # "failed"

=============================================================================
