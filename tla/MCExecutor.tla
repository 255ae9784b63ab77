----------------------------- MODULE MCExecutor -----------------------------
(***************************************************************************)
(* Instances of the executor, of the events it reads and of the disk below *)
(* its store.  A behaviour is one of one part; the others keep still.      *)
(***************************************************************************)
EXTENDS Executor

CONSTANTS a, Parts,
          Size, ReadMax, Rooms, SubsMax, Kinds, MaxEvents, MaxPolls, \* Events
          NBlocks, Values, IoMax, Wrap, Scenarios, MaxCalls         \* Disk

VARIABLES which, evlog, evall, evsubs, evseen,
          dsc, dcache, dcall, dq, dseen, dhw, dack, dlim

V == INSTANCE Events
D == INSTANCE Disk
ASSUME DiskConstantsHold == D!DiskConstants

----------------------------------------------------------------------------
(* Workloads of the executor.                                              *)

R(n, op, target) ==
    [id |-> <<n>>, fp |-> op, op |-> op, target |-> target, name |-> a, valid |-> TRUE]
S(n, op) == R(n, op, <<0, 0>>)

Store1 == {S(1, "config.set"), S(2, "config.delete"), S(3, "config.get")}
Store2 == {S(1, "blob.put"), S(2, "blob.delete")}
Store3 == {S(1, "history.pin"), S(2, "history.unpin")}
Store4 == {S(1, "store.prune"), [S(2, "config.set") EXCEPT !.valid = FALSE], S(3, "config.list")}
Tasks1 == {S(1, "task.spawn"), R(2, "task.terminate", <<1, 2>>)}
Tasks2 == {S(1, "task.spawn"), R(2, "task.measure", <<1, 2>>), R(3, "task.inspect", <<1, 2>>)}
Tasks3 == {S(1, "task.spawn"), S(2, "task.spawn")}
Tasks4 == {R(1, "task.measure", <<1, 1>>), R(2, "task.terminate", <<1, 1>>)}

ReadOps == {"system.describe", "task.list", "memory.stats", "store.status", "store.check", "config.list",
            "blob.check", "history.list", "provider.status", "telemetry.status",
            "event.subscribe", "event.poll", "net.status", "net.ping", "net.resolve", "net.probe", "rng.status", "tls.probe"}
Tools == {S(0, "task.spawn"), R(0, "task.terminate", <<1, 2>>)}

MCWorkloads ==
    {[host |-> h, tools |-> {}] : h \in {Store1, Store2, Store3, Store4, Tasks1, Tasks2, Tasks3, Tasks4}}
    \cup {[host |-> {S(1, op)}, tools |-> {}] : op \in ReadOps}
    \cup {[host |-> {S(1, "agent.ask")}, tools |-> Tools],
          [host |-> {S(1, "agent.ask"), S(2, "agent.ask")},
           tools |-> {S(0, "memory.stats"), R(0, "task.terminate", <<1, 1>>)}]}

\* The ids 1 and 2 begin alike.
MCCut == [h \in 1..3 |-> IF h = 2 THEN 1 ELSE h]

----------------------------------------------------------------------------
(* Devices.                                                                *)

Sc(pages, errors, timeouts, late, hasflush) ==
  [cache |-> pages > 0, pages |-> pages, errors |-> errors, timeouts |-> timeouts, late |-> late,
   crash |-> FALSE, lose |-> "all", hasflush |-> hasflush, ro |-> FALSE]
\* Errors, a device that stops answering, one without flush, one that is read
\* only; the cache with errors but large enough, and small with crash points.
MCScenarios ==
  {Sc(0, 1, 0, FALSE, TRUE), Sc(0, 0, 3, FALSE, TRUE), Sc(0, 0, 0, FALSE, FALSE),
   [Sc(0, 0, 0, FALSE, TRUE) EXCEPT !.ro = TRUE], Sc(6, 1, 0, FALSE, TRUE), Sc(2, 0, 0, FALSE, FALSE)}
  \cup {[Sc(2, 0, 0, FALSE, TRUE) EXCEPT !.crash = TRUE, !.lose = lose] : lose \in {"all", "none", "torn", "reorder"}}

----------------------------------------------------------------------------
eVars == <<evlog, evall, evsubs, evseen>>
dVars == <<dsc, dcache, dcall, dq, dseen, dhw, dack, dlim>>
allVars == <<which, vars, eVars, dVars>>

\* What keeps still has an initial state, or 0.
MCInit ==
  /\ which \in Parts
  /\ Init /\ (which # "executor" => work = CHOOSE w \in Workloads : TRUE)
  /\ D!Init /\ (which # "disk" => dsc = CHOOSE s \in Scenarios : TRUE)
  /\ IF which = "events" THEN V!Init ELSE evlog = 0 /\ evall = 0 /\ evsubs = 0 /\ evseen = 0
MCNext ==
  /\ UNCHANGED which
  /\ \/ which = "executor" /\ Next /\ UNCHANGED <<eVars, dVars>>
     \/ which = "events" /\ V!Next /\ UNCHANGED <<vars, dVars>>
     \/ which = "disk" /\ D!Next /\ UNCHANGED <<vars, eVars>>
MCFairness == \/ []<>(which # "executor" \/ pc \in {"idle", "closed"})
              \/ []<><<which = "executor" /\ Executes>>_vars
MCSpec == MCInit /\ [][MCNext]_allVars /\ MCFairness

----------------------------------------------------------------------------
(* The properties, each with what it says about the part in its module.    *)

\* Between actions the handles are those of known tasks, and no operation asks
\* for a transition the lifecycle of actions does not have (op_terminate,
\* op_measure, step).
EngineSound == which = "executor" => TypeOK /\ HandlesExact /\ NoIllegalStep

\* Whatever a power loss leaves: a change of the store and its record are there
\* together, an effect outside has a record, and an answer with saved=yes
\* keeps its record (commit_with_record, ps_intent, ps_final).
RecordsDurable == RecordWithChange /\ EffectRecorded /\ SavedStays

\* A kill ends the task that was named, and an agent request succeeds only if
\* its actions did (resolve, op_agent_ask).
ActsAsNamed == KillsNamed /\ AskTruthful

\* Every request is answered (core_handle, op_agent_ask).
RequestsAnswered == which = "executor" => Answered

\* A subscriber gets every event or is told how many it lost, unless an answer
\* fails for its length, and verification sees in the log what happened
\* (op_poll, event_seen).
EventsExact == which = "events" => V!TypeOK /\ V!PollsAddUp /\ V!SeenRight

\* What was written before a successful flush is on the medium, reads return
\* what was written last, and a crash point leaves of each block what was
\* flushed or written since (nx_blk_flush, nx_blk_read, crash).
DiskSound == which = "disk" => D!DiskSound

\* The kernel's device behaves as the one the store is checked on (BlockDev).
Implements == [][which = "disk" => D!DevStep]_dVars
=============================================================================
