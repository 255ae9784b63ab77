------------------------------ MODULE Executor ------------------------------
(***************************************************************************)
(* bin/core: the request loop, the task engine, the store operations and   *)
(* the agent loop (user/core/core.c, engine.c, persist.c, agent.c).        *)
(*                                                                         *)
(* The host sends requests and repeats them at will, also after a power    *)
(* loss.  The executor is sequential, so a step runs to the next point     *)
(* where a power loss, a device error or the kernel can make a difference: *)
(* a commit, a kernel call, a wait.  The store is what DurableStore        *)
(* promises: `disk' is saved, a state in `doubt' may turn out to be on the *)
(* medium instead, `view' is what is mounted.                              *)
(*                                                                         *)
(* An id is a sequence: <<h>> for a request of the host, <<h, n>> for the  *)
(* n-th action of an agent request whose id begins with the 20 characters  *)
(* h, which other agent requests may share.  Response texts are their      *)
(* state.                                                                  *)
(***************************************************************************)
EXTENDS Integers, FiniteSets, Sequences, SequencesExt

CONSTANTS
    Workloads,      \* the host's requests: set of [host, tools : sets of requests]
    Names,          \* objects and pins of the store
    Cut,            \* what is left of a host's id in the ids of its actions
    None,
    Slots,          \* ENG_SLOTS
    KnownMax,       \* KNOWN_MAX
    StepsMax,       \* AGENT_STEPS_MAX
    MaxTools,       \* bound: tool calls in one answer of the model
    MaxTasks,       \* bound: tasks started per boot
    MaxDoubt,       \* bound: commits of unknown outcome with no good one since
    MaxBoots        \* bound: boots

\* Operations with effects outside the store.
Outside == {"task.spawn", "task.terminate"}

\* The end states of an action.
Final == {"SUCCEEDED", "FAILED", "OUTCOME_UNKNOWN", "CANCELLED"}

ASSUME ExecutorAssumption == {Slots, KnownMax, StepsMax, MaxTools, MaxTasks, MaxDoubt, MaxBoots} \subseteq Nat \ {0}

VARIABLES
    work,       \* the workload of this behaviour
    eng,        \* engine records, oldest first
    view, disk, doubt,      \* the store
    pc,         \* what the executor does next
    req,        \* the request being executed
    tx,         \* contents of the transaction
    ask,        \* the agent request being executed, or None
    boot,       \* boot_id
    tasks,      \* kernel: state of the tasks of this boot, by id; 1 is the executor's
    known,      \* ids of tasks it keeps a handle of
    handles,    \* kernel: ids of tasks it has open handles of
    illegal,    \* step() refused a transition
    \* History: kernel calls made, by the id of the request; requests whose
    \* record was evicted; requests whose commit had an unknown outcome or that
    \* acted without a store; requests answered SUCCEEDED with saved=yes.
    calls, forgotten, unsure, promised

store == <<view, disk, doubt>>
kern == <<tasks, known, handles>>
past == <<calls, forgotten, unsure>>
vars == <<work, boot, eng, pc, req, tx, ask, illegal, store, kern, past, promised>>

Mounted == view # None
Self == 1

---------------------------------------------------------------------------
(* The task engine.                                                        *)

Record(q, s, p) == [id |-> q.id, fp |-> q.fp, op |-> q.op, state |-> s, persist |-> p]

\* The transitions of the lifecycle.
Legal == [CREATED   |-> {"OBSERVING", "FAILED"},
          OBSERVING |-> {"PLANNED", "FAILED"},
          PLANNED   |-> {"RUNNING", "FAILED", "CANCELLED"},
          RUNNING   |-> {"VERIFYING", "FAILED", "OUTCOME_UNKNOWN"},
          VERIFYING |-> {"SUCCEEDED", "FAILED", "OUTCOME_UNKNOWN"},
          SUCCEEDED |-> {}, FAILED |-> {}, OUTCOME_UNKNOWN |-> {}, CANCELLED |-> {}]

\* step() along w: a transition that is not legal is refused and counted.
Walk(s, w) == FoldLeft(LAMBDA x, to : IF to \in Legal[x] THEN to ELSE x, s, w)
Refused(s, w) == \E i \in 1..Len(w) : w[i] \notin Legal[Walk(s, SubSeq(w, 1, i - 1))]

\* The place of the record of id, 0 if there is none.
eng_find(e, id) == LET at == {i \in DOMAIN e : e[i].id = id}
                   IN  IF at = {} THEN 0 ELSE CHOOSE i \in at : \A j \in at : j <= i

First(S) == CHOOSE i \in S : \A j \in S : i <= j

\* The record to give up for a new one: the oldest finished one, of those the
\* store does not keep if there are any.  0: a slot is free; -1: all are busy.
Victim(e) ==
    LET final == {i \in DOMAIN e : e[i].state \in Final}
        lesser == {i \in final : e[i].persist = "no"}
    IN  IF Len(e) < Slots THEN 0
        ELSE IF lesser # {} THEN First(lesser)
        ELSE IF final # {} THEN First(final) ELSE -1

Evict(e) == IF Victim(e) = 0 THEN e ELSE RemoveAt(e, Victim(e))
Evicted(e) == IF Victim(e) > 0 THEN {e[Victim(e)].id} ELSE {}

\* eng_begin and eng_restore append.
eng_begin(e, q) == Append(Evict(e), Record(q, "CREATED", "no"))

Of(e, id) == e[eng_find(e, id)]
SetState(e, id, s) == [e EXCEPT ![eng_find(e, id)].state = s]
SetPersist(e, id, p) == [e EXCEPT ![eng_find(e, id)].persist = p]

---------------------------------------------------------------------------
(* The store.                                                              *)

\* Contents of a generation: objects, pins, the labels of its commits (the
\* requests that changed it) and the task records.
Empty == [obj |-> [n \in Names |-> FALSE], pin |-> [n \in Names |-> FALSE], log |-> {}, recs |-> <<>>]

\* Executions are counted to two: <<id, 1>>, then <<id, 2>>.
Count(l, id) == l \cup {<<id, IF <<id, 1>> \in l THEN 2 ELSE 1>>}

\* The records to store, with state s for the one being committed.
build_tasks(e, over, s) ==
    LET kept == SelectSeq(e, LAMBDA r : r.persist # "no" \/ r.id = over)
    IN  [i \in DOMAIN kept |-> [kept[i] EXCEPT !.persist = "record",
                                               !.state = IF kept[i].id = over THEN s ELSE @]]

put_tasks(c, e, over, s) == [c EXCEPT !.recs = build_tasks(e, over, s)]

\* st_commit of c, and the remount after an unknown outcome.
CommitOk(c) == view' = c /\ disk' = c /\ doubt' = {}
CommitFails == UNCHANGED store
CommitUnknown(c) == /\ Cardinality(doubt) < MaxDoubt
                    /\ doubt' = doubt \cup {c} /\ UNCHANGED disk
                    /\ view' \in {None, disk, c} \cup doubt

\* BROKEN: the records are not restored.
restore_tasksNone(c) == <<>>

\* A record found in a state that is not final was interrupted.
restore_tasks(c) ==
    [i \in DOMAIN c.recs |-> [c.recs[i] EXCEPT
        !.state = IF @ \in Final THEN @ ELSE "OUTCOME_UNKNOWN"]]
Interrupted(c) == \E i \in DOMAIN c.recs : c.recs[i].state \notin Final

---------------------------------------------------------------------------
Init ==
    /\ work \in Workloads
    /\ eng = <<>> /\ view = None /\ disk = Empty /\ doubt = {}
    /\ pc = "boot" /\ req = None /\ tx = None /\ ask = None
    /\ boot = 1 /\ tasks = <<"alive">> /\ known = {} /\ handles = {} /\ illegal = FALSE
    /\ calls = {} /\ forgotten = {} /\ unsure = {} /\ promised = {}

\* The action ends and its response is sent: to the host, or to the agent loop.
Return(q, s, p) ==
    /\ req' = None /\ tx' = None
    /\ IF ask = None \/ ask.id = q.id
       THEN pc' = "idle" /\ ask' = None
       ELSE /\ pc' = "ask"
            /\ ask' = [ask EXCEPT !.failed = @ \/ s # "SUCCEEDED",
                                  !.effects = IF s = "SUCCEEDED" /\ q.op \in Outside THEN @ \cup {q.id} ELSE @]
    /\ promised' = IF s = "SUCCEEDED" /\ p = "record" THEN promised \cup {q.id} ELSE promised

\* The record of the action in e takes the steps w, and the action goes on at l ...
Goes(e, q, w, l) ==
    /\ eng' = SetState(e, q.id, Walk(Of(e, q.id).state, w))
    /\ illegal' = (illegal \/ Refused(Of(e, q.id).state, w))
    /\ pc' = l /\ req' = q /\ UNCHANGED promised

\* ... or ends; with a write-ahead record the final one is due first.
Ends(e, q, w) ==
    LET s == Walk(Of(e, q.id).state, w)
        p == Of(e, q.id).persist
    IN  IF p = "intent" THEN Goes(e, q, w, "final") /\ UNCHANGED <<tx, ask>>
        ELSE /\ eng' = SetState(e, q.id, s)
             /\ illegal' = (illegal \/ Refused(Of(e, q.id).state, w))
             /\ Return(q, s, p)

\* What an action that goes well passes through, and one that fails after n steps.
Through == <<"OBSERVING", "PLANNED", "RUNNING", "VERIFYING", "SUCCEEDED">>
FailsAfter(n) == Append(SubSeq(Through, 1, n), "FAILED")

---------------------------------------------------------------------------
(* Operations that change nothing outside the engine: the steps they take. *)
(* A response that does not fit takes an action that went well back to     *)
(* VERIFYING and ends it FAILED: RESPONSE_TOO_LARGE (core_handle).         *)

\* BROKEN: the boot of the reference is not compared.
resolveAnyBoot(q) ==
    CASE q.target[2] \notin DOMAIN tasks -> "NOT_FOUND"
      [] tasks[q.target[2]] = "alive" -> "OK"
      [] OTHER -> "GONE"

\* A task reference names the boot it is from.
resolve(q) ==
    CASE q.target[1] # boot -> "STALE_REF"
      [] q.target[2] \notin DOMAIN tasks -> "NOT_FOUND"
      [] tasks[q.target[2]] = "alive" -> "OK"
      [] OTHER -> "GONE"

TooLarge == FailsAfter(4)
op_describe == {Through, FailsAfter(3), TooLarge}
op_list == {Through, FailsAfter(3), FailsAfter(4)}
op_memory == {Through, FailsAfter(3)}
op_status == {Through}
op_inspect(q) == (IF resolve(q) \in {"OK", "GONE"} THEN {Through} ELSE {})
            \cup (IF resolve(q) # "OK" THEN {FailsAfter(1)} ELSE {})
op_check == IF Mounted THEN {Through, FailsAfter(4)} ELSE {FailsAfter(1)}
op_config_get(q) == IF Mounted /\ q.valid THEN {Through, FailsAfter(3)} ELSE {FailsAfter(1)}
op_config_list == IF Mounted THEN {Through, TooLarge} ELSE {FailsAfter(1)}
op_blob_check(q) == IF Mounted /\ q.valid THEN {Through, FailsAfter(3), FailsAfter(4)} ELSE {FailsAfter(1)}
op_history_list == IF Mounted THEN {Through, TooLarge} ELSE {FailsAfter(1)}
op_provider_status(q) == IF q.valid THEN {Through} ELSE {FailsAfter(1)}
op_telemetry_status == {Through}
op_subscribe == {Through, FailsAfter(1)}
op_poll(q) == IF q.valid THEN {Through, FailsAfter(3), FailsAfter(4)} ELSE {FailsAfter(1)}
\* Without the network these fail before anything is planned.
op_net_status == {Through, FailsAfter(1), FailsAfter(3)}
op_net_ping == {Through, FailsAfter(1), FailsAfter(3)}
op_net_resolve == {Through, FailsAfter(1), FailsAfter(3)}
op_net_probe == {Through, FailsAfter(1), FailsAfter(3), FailsAfter(4)}
op_rng_status == {Through, FailsAfter(1), FailsAfter(4)}
op_tls_probe == {Through, FailsAfter(1), FailsAfter(3), FailsAfter(4)}

Reads(q) ==
    CASE q.op = "system.describe" -> op_describe
      [] q.op = "task.list" -> op_list
      [] q.op = "memory.stats" -> op_memory
      [] q.op = "store.status" -> op_status
      [] q.op = "task.inspect" -> op_inspect(q)
      [] q.op = "store.check" -> op_check
      [] q.op = "config.get" -> op_config_get(q)
      [] q.op = "config.list" -> op_config_list
      [] q.op = "blob.check" -> op_blob_check(q)
      [] q.op = "history.list" -> op_history_list
      [] q.op = "provider.status" -> op_provider_status(q)
      [] q.op = "telemetry.status" -> op_telemetry_status
      [] q.op = "event.subscribe" -> op_subscribe
      [] q.op = "event.poll" -> op_poll(q)
      [] q.op = "net.status" -> op_net_status
      [] q.op = "net.ping" -> op_net_ping
      [] q.op = "net.resolve" -> op_net_resolve
      [] q.op = "net.probe" -> op_net_probe
      [] q.op = "rng.status" -> op_rng_status
      [] q.op = "tls.probe" -> op_tls_probe
      [] OTHER -> {}

---------------------------------------------------------------------------
(* Store operations: one transaction each.                                 *)

\* The transaction is open and holds its change: record and commit follow.
Transacts(e, q, c) ==
    /\ Goes(e, q, SubSeq(Through, 1, 3), "commit")
    /\ tx' = [c EXCEPT !.log = Count(@, q.id)] /\ UNCHANGED <<ask, store, kern>>

Fails(e, q, n) == Ends(e, q, FailsAfter(n)) /\ UNCHANGED <<store, kern>>

\* `before': a check that fails before anything is planned; otherwise st_begin or
\* the change itself may fail, and must where `possible' does not hold.
StoreOp(e, q, before, possible, c) ==
    \/ (~Mounted \/ ~before) /\ Fails(e, q, 1)
    \/ Mounted /\ before /\ Fails(e, q, 3)
    \/ Mounted /\ before /\ possible /\ Transacts(e, q, c)

op_config_set(e, q) == StoreOp(e, q, q.valid, TRUE, [view EXCEPT !.obj[q.name] = TRUE])
op_blob_put(e, q) == StoreOp(e, q, q.valid, TRUE, [view EXCEPT !.obj[q.name] = TRUE])
op_config_delete(e, q) ==
    StoreOp(e, q, q.valid /\ Mounted /\ view.obj[q.name], TRUE, [view EXCEPT !.obj[q.name] = FALSE])
op_blob_delete(e, q) ==
    StoreOp(e, q, q.valid /\ Mounted /\ view.obj[q.name], TRUE, [view EXCEPT !.obj[q.name] = FALSE])
pin_or_unpin(e, q, pin) ==
    StoreOp(e, q, q.valid, view.pin[q.name] # pin, [view EXCEPT !.pin[q.name] = pin])
op_prune(e, q) == StoreOp(e, q, TRUE, TRUE, view)

\* st_commit with the record of the action, as SUCCEEDED.
commit_with_record ==
    LET c == put_tasks(tx, eng, req.id, "SUCCEEDED") IN
    /\ pc = "commit"
    /\ \/ CommitFails /\ Ends(eng, req, <<"FAILED">>) /\ UNCHANGED unsure
       \/ CommitUnknown(c) /\ Ends(eng, req, <<"OUTCOME_UNKNOWN">>) /\ unsure' = unsure \cup {req.id}
       \/ /\ CommitOk(c) /\ tx' = c
          /\ Goes(SetPersist(eng, req.id, "record"), req, <<"VERIFYING">>, "readback")
          /\ UNCHANGED <<ask, unsure>>
    /\ UNCHANGED <<work, boot, kern, calls, forgotten>>

\* The change and its record are read back.
finish_tx ==
    /\ pc = "readback"
    /\ \/ view = tx /\ Ends(eng, req, <<"SUCCEEDED">>)
       \/ Ends(eng, req, <<"FAILED">>)
    /\ UNCHANGED <<work, boot, store, kern, past>>

---------------------------------------------------------------------------
(* task.spawn and task.terminate: a write-ahead record, the kernel call,   *)
(* a bounded wait for its effect, the final record.                        *)

\* A handle opened for this action alone is closed when it ends.
Temp(q) == IF q.op = "task.spawn" \/ q.target[2] \in known THEN {} ELSE {q.target[2]}

op_spawn(e, q) ==
    \/ (~q.valid \/ Cardinality(known) = KnownMax) /\ Fails(e, q, 1)
    \/ /\ q.valid /\ Cardinality(known) < KnownMax
       /\ Goes(e, q, SubSeq(Through, 1, 2), IF Mounted THEN "intent" ELSE "call")
       /\ UNCHANGED <<tx, ask, store, kern>>

\* The reference has to name a live task of this boot, not itself, at the revision the
\* caller saw; the handle is the one kept from the spawn or a new one.
op_terminate(e, q) ==
    \/ (~q.valid \/ resolve(q) # "OK" \/ q.target[2] \notin known) /\ Fails(e, q, 1)
    \/ /\ q.valid /\ resolve(q) = "OK" /\ q.target[2] # Self
       /\ Goes(e, q, SubSeq(Through, 1, 2), IF Mounted THEN "intent" ELSE "call")
       /\ handles' = handles \cup {q.target[2]}
       /\ UNCHANGED <<tx, ask, store, tasks, known>>

\* BROKEN: the handle stays open on a failure.
GivesUpOpen(w) == Ends(eng, req, w) /\ UNCHANGED kern

\* The action stops here, with the handle it opened closed again.
GivesUp(w) ==
    /\ Ends(eng, req, w) /\ handles' = handles \ Temp(req) /\ UNCHANGED <<tasks, known>>

\* BROKEN: the kernel call comes before the record is committed.
ps_intentLate ==
    /\ pc = "intent"
    /\ \/ GivesUp(<<"FAILED">>) /\ CommitFails
       \/ Goes(SetPersist(eng, req.id, "intent"), req, <<>>, "call") /\ UNCHANGED <<tx, ask, store, kern>>
    /\ UNCHANGED <<work, boot, past>>

\* The write-ahead record: no effect without it.
ps_intent ==
    LET c == put_tasks(view, eng, req.id, "RUNNING") IN
    /\ pc = "intent"
    /\ \/ GivesUp(<<"FAILED">>) /\ (CommitFails \/ CommitUnknown(c))
       \/ /\ CommitOk(c) /\ Goes(SetPersist(eng, req.id, "intent"), req, <<>>, "call")
          /\ UNCHANGED <<tx, ask, kern>>
    /\ UNCHANGED <<work, boot, past>>

\* The call into the kernel had its effect.
Acts ==
    /\ Goes(eng, req, <<"RUNNING", "VERIFYING">>, "verify") /\ UNCHANGED <<tx, ask, known>>
    /\ calls' = Count(calls, req.id)
    /\ unsure' = IF Mounted THEN unsure ELSE unsure \cup {req.id}

nx_sov_task_spawn ==
    /\ pc = "call" /\ req.op = "task.spawn"
    /\ \/ GivesUp(<<"RUNNING", "FAILED">>) /\ UNCHANGED <<calls, unsure>>
       \/ /\ Len(tasks) < MaxTasks /\ Acts
          /\ tasks' = Append(tasks, "alive") /\ handles' = handles \cup {Len(tasks) + 1}
    /\ UNCHANGED <<work, boot, store, forgotten>>

\* A task that ended meanwhile refuses the kill.
nx_task_kill ==
    /\ pc = "call" /\ req.op = "task.terminate"
    /\ \/ tasks[req.target[2]] # "alive" /\ GivesUp(<<"RUNNING", "FAILED">>) /\ UNCHANGED <<calls, unsure>>
       \/ /\ tasks[req.target[2]] = "alive" /\ Acts
          /\ tasks' = [tasks EXCEPT ![req.target[2]] = "dead"] /\ UNCHANGED handles
    /\ UNCHANGED <<work, boot, store, forgotten>>

\* The spawned task is kept whatever the wait shows; it has to have run.  (Only
\* if nx_task_info failed would known[] miss its id; on the handle the spawn
\* has just returned it does not.)
VerifySpawn ==
    /\ pc = "verify" /\ req.op = "task.spawn"
    /\ known' = known \cup {Len(tasks)}
    /\ \/ tasks[Len(tasks)] = "alive" /\ Ends(eng, req, <<"SUCCEEDED">>)
       \/ Ends(eng, req, <<"FAILED">>)
    /\ UNCHANGED <<work, boot, store, tasks, handles, past>>

\* The task has to be reaped before the wait times out; the handle kept from
\* the spawn is given up only then, and the action may fail still.
VerifyTerminate ==
    /\ pc = "verify" /\ req.op = "task.terminate"
    /\ \/ /\ tasks[req.target[2]] = "reaped" /\ \E s \in {"SUCCEEDED", "FAILED"} : Ends(eng, req, <<s>>)
          /\ handles' = handles \ {req.target[2]} /\ known' = known \ {req.target[2]}
       \/ /\ Ends(eng, req, <<"FAILED">>)
          /\ handles' = handles \ Temp(req) /\ UNCHANGED known
    /\ UNCHANGED <<work, boot, store, tasks, past>>

\* The final record replaces the write-ahead one; if that fails the answer is
\* saved=no and the write-ahead record stays.
ps_final ==
    LET s == Of(eng, req.id).state
        c == put_tasks(view, eng, req.id, s)
    IN  /\ pc = "final"
        /\ \/ (CommitFails \/ CommitUnknown(c)) /\ Return(req, s, "intent") /\ UNCHANGED eng
           \/ CommitOk(c) /\ Return(req, s, "record") /\ eng' = SetPersist(eng, req.id, "record")
        /\ UNCHANGED <<work, boot, illegal, kern, past>>

---------------------------------------------------------------------------
(* task.measure: samples the counters of a task over an interval.          *)

op_measure(e, q) ==
    \/ (~q.valid \/ resolve(q) # "OK" \/ q.target[2] \notin known) /\ Fails(e, q, 1)
    \/ /\ q.valid /\ resolve(q) = "OK"
       /\ Goes(e, q, SubSeq(Through, 1, 3), "measure")
       /\ handles' = handles \cup {q.target[2]}
       /\ UNCHANGED <<tx, ask, store, tasks, known>>

\* It fails if the task ended, or if a call failed or the counters do not agree.
MeasureEnds ==
    /\ pc = "measure"
    /\ \/ tasks[req.target[2]] = "alive" /\ GivesUp(<<"VERIFYING", "SUCCEEDED">>)
       \/ GivesUp(<<"VERIFYING", "FAILED">>)
    /\ UNCHANGED <<work, boot, store, past>>

---------------------------------------------------------------------------
(* agent.ask: the model is asked, its tool calls run as actions, and so on *)
(* until it answers without one, within StepsMax requests.                 *)

op_agent_ask(e, q) ==
    \/ Fails(e, q, 1)
    \/ /\ q.valid /\ Goes(e, q, SubSeq(Through, 1, 3), "ask")
       /\ ask' = [id |-> q.id, steps |-> 0, n |-> 0, todo |-> 0,
                  failed |-> FALSE, bad |-> FALSE, effects |-> {}]
       /\ UNCHANGED <<tx, store, kern>>

AskRecord == [id |-> ask.id, op |-> "agent.ask"]
Asking == pc = "ask" /\ UNCHANGED <<work, boot, store, kern, past>>

\* The request fails, or there is no answer within the steps.
AskFails == Asking /\ ask.todo = 0 /\ Ends(eng, AskRecord, <<"FAILED">>)

\* An answer counts only if no action failed and no tool call was refused.
AskAnswers ==
    /\ Asking /\ ask.todo = 0 /\ ask.steps < StepsMax
    /\ Ends(eng, AskRecord, IF ask.failed \/ ask.bad THEN <<"FAILED">> ELSE <<"VERIFYING", "SUCCEEDED">>)

\* BROKEN: the count of rounds starts again with every answer.
AskForToolsAfresh ==
    /\ Asking /\ ask.todo = 0
    /\ \E k \in 1..MaxTools : ask' = [ask EXCEPT !.steps = 1, !.n = 0, !.todo = k]
    /\ UNCHANGED <<eng, pc, req, tx, illegal, promised>>

AskForTools ==
    /\ Asking /\ ask.todo = 0 /\ ask.steps < StepsMax
    /\ \E k \in 1..MaxTools : ask' = [ask EXCEPT !.steps = @ + 1, !.todo = k]
    /\ UNCHANGED <<eng, pc, req, tx, illegal, promised>>

\* A tool call becomes a request of one of the tools' operations.
tool_line(rid) == {[t EXCEPT !.id = rid] : t \in work.tools}

\* The next tool call is refused, or becomes a request with an id of its own,
\* unless two asks begin alike: then the engine may know the id already.
run_tools ==
    /\ Asking /\ ask.todo > 0
    /\ \/ /\ ask' = [ask EXCEPT !.todo = @ - 1, !.n = @ + 1, !.bad = TRUE] /\ UNCHANGED <<pc, req>>
       \/ /\ ask' = [ask EXCEPT !.todo = @ - 1, !.n = @ + 1] /\ pc' = "exec"
          /\ req' \in tool_line(<<Cut[ask.id[1]], ask.n + 1>>)
    /\ UNCHANGED <<eng, tx, illegal, promised>>

---------------------------------------------------------------------------
(* Requests.                                                               *)

Dispatch(e, q) ==
    \/ \E w \in Reads(q) : Ends(e, q, w) /\ UNCHANGED <<store, kern>>
    \/ q.op = "config.set" /\ op_config_set(e, q)
    \/ q.op = "config.delete" /\ op_config_delete(e, q)
    \/ q.op = "blob.put" /\ op_blob_put(e, q)
    \/ q.op = "blob.delete" /\ op_blob_delete(e, q)
    \/ q.op = "history.pin" /\ pin_or_unpin(e, q, TRUE)
    \/ q.op = "history.unpin" /\ pin_or_unpin(e, q, FALSE)
    \/ q.op = "store.prune" /\ op_prune(e, q)
    \/ q.op = "task.spawn" /\ op_spawn(e, q)
    \/ q.op = "task.terminate" /\ op_terminate(e, q)
    \/ q.op = "task.measure" /\ op_measure(e, q)
    \/ q.op = "agent.ask" /\ op_agent_ask(e, q)

\* A request is new if the engine has no record of its id; then it runs.
Begins(q) ==
    /\ eng_find(eng, q.id) = 0 /\ Victim(eng) >= 0
    /\ forgotten' = forgotten \cup Evicted(eng)
    /\ Dispatch(eng_begin(eng, q), q)
    /\ UNCHANGED <<work, boot, calls, unsure>>

\* From the host.  A replayed or refused request changes nothing.
core_handle == pc = "idle" /\ \E q \in work.host : Begins(q)

\* From the agent loop: a replay or a refusal is a failed action.
core_exec ==
    /\ pc = "exec"
    /\ \/ Begins(req)
       \/ /\ eng_find(eng, req.id) # 0 \/ Victim(eng) = -1
          /\ pc' = "ask" /\ req' = None /\ ask' = [ask EXCEPT !.failed = TRUE]
          /\ UNCHANGED <<work, boot, eng, tx, illegal, store, kern, past, promised>>

\* session.close, or no request for a while.
session_close ==
    /\ pc = "idle" /\ pc' = "closed"
    /\ UNCHANGED <<work, boot, eng, req, tx, ask, illegal, store, kern, past, promised>>

---------------------------------------------------------------------------
(* Start and power loss.                                                   *)

\* The store is mounted, or the executor serves without it.  If only the task
\* records cannot be read it serves with none of them.
ps_init ==
    /\ pc = "boot"
    /\ \/ view' = None /\ eng' = <<>> /\ pc' = "idle" /\ UNCHANGED forgotten
       \/ /\ view' = disk /\ eng' = <<>> /\ pc' = "idle" /\ disk.recs # <<>>
          /\ forgotten' = forgotten \cup {disk.recs[i].id : i \in DOMAIN disk.recs}
       \/ /\ view' = disk /\ eng' = restore_tasks(disk)
          /\ pc' = IF Interrupted(disk) THEN "recover" ELSE "idle"
          /\ UNCHANGED forgotten
    /\ UNCHANGED <<work, boot, req, tx, ask, illegal, disk, doubt, kern, calls, unsure, promised>>

\* The commit of the records that were found interrupted.
recover ==
    LET c == put_tasks(view, eng, <<>>, "") IN
    /\ pc = "recover" /\ pc' = "idle"
    /\ CommitOk(c) \/ CommitFails \/ CommitUnknown(c)
    /\ UNCHANGED <<work, boot, eng, req, tx, ask, illegal, kern, past, promised>>

\* What the commit under way would write.
Committing ==
    CASE pc = "commit" -> {put_tasks(tx, eng, req.id, "SUCCEEDED")}
      [] pc = "intent" -> {put_tasks(view, eng, req.id, "RUNNING")}
      [] pc = "final" -> {put_tasks(view, eng, req.id, Of(eng, req.id).state)}
      [] pc = "recover" -> {put_tasks(view, eng, <<>>, "")}
      [] OTHER -> {}

PowerLoss ==
    /\ boot < MaxBoots /\ boot' = boot + 1 /\ pc # "boot"
    /\ disk' \in {disk} \cup doubt \cup Committing /\ doubt' = {} /\ view' = None
    /\ eng' = <<>> /\ pc' = "boot" /\ req' = None /\ tx' = None /\ ask' = None
    /\ tasks' = <<"alive">> /\ known' = {} /\ handles' = {}
    /\ UNCHANGED <<work, illegal, past, promised>>

\* Tasks end by themselves, and the reaper takes them.
TaskEnds ==
    /\ \E i \in DOMAIN tasks \ {Self} : tasks[i] = "alive" /\ tasks' = [tasks EXCEPT ![i] = "dead"]
    /\ UNCHANGED <<work, boot, eng, pc, req, tx, ask, illegal, store, known, handles, past, promised>>
reap ==
    /\ \E i \in DOMAIN tasks : tasks[i] = "dead" /\ tasks' = [tasks EXCEPT ![i] = "reaped"]
    /\ UNCHANGED <<work, boot, eng, pc, req, tx, ask, illegal, store, known, handles, past, promised>>

Executes ==
    \/ commit_with_record \/ finish_tx
    \/ ps_intent \/ nx_sov_task_spawn \/ nx_task_kill \/ VerifySpawn \/ VerifyTerminate \/ ps_final
    \/ MeasureEnds \/ AskFails \/ AskAnswers \/ AskForTools \/ run_tools \/ core_exec
    \/ ps_init \/ recover
Next == Executes \/ core_handle \/ session_close \/ PowerLoss \/ TaskEnds \/ reap

\* The executor is a thread the scheduler keeps running: unless it waits for a
\* request it takes steps (weak fairness of Executes, whose guard is pc alone).
\* Requests, power losses and the tasks are not fair.
Fairness == []<>(pc \in {"idle", "closed"}) \/ []<><<Executes>>_vars
Spec == Init /\ [][Next]_vars /\ Fairness

---------------------------------------------------------------------------
(* Properties.                                                             *)

\* The record of id is in contents c.
Kept(c, id) == \E i \in DOMAIN c.recs : c.recs[i].id = id

\* What a power loss now may leave on the medium.
OnMedium == {disk} \cup doubt \cup Committing

\* The engine holds at most Slots records (ENG_SLOTS), one per id, the store
\* keeps records of final or write-ahead states only, and nothing is left of an
\* action between requests (engine.c, persist.c).
TypeOK ==
    /\ Len(eng) <= Slots
    /\ \A i, j \in DOMAIN eng : eng[i].id = eng[j].id => i = j
    /\ \A i \in DOMAIN eng : eng[i].state \in DOMAIN Legal /\ eng[i].persist \in {"no", "intent", "record"}
    /\ \A c \in OnMedium : \A i \in DOMAIN c.recs : c.recs[i].state \in Final \cup {"RUNNING"}
    /\ pc \in {"boot", "recover", "idle", "closed"} => req = None /\ tx = None /\ ask = None
    /\ Cardinality(known) <= KnownMax /\ boot \in 1..MaxBoots

\* A request is executed at most once, however often the host repeats it and
\* whatever power losses fall between, as long as the store keeps its record:
\* eng_begin replays it (engine.c:36) from the records ps_init restored.  Exempt
\* are requests whose record gave way to newer ones or could not be read, and
\* those answered OUTCOME_UNKNOWN or carried out without a store.
AtMostOnce ==
    /\ \A id \in {x[1] : x \in calls} \ (forgotten \cup unsure) : <<id, 2>> \notin calls
    /\ \A c \in OnMedium : \A id \in {x[1] : x \in c.log} \ (forgotten \cup unsure) : <<id, 2>> \notin c.log

\* Whatever a power loss leaves, a change of the store and the record of the
\* request that made it are there together (commit_with_record, persist.c:266):
\* no change without its record, no record of success without its change.
RecordWithChange ==
    \A c \in OnMedium :
        /\ \A x \in c.log : x[1] \notin forgotten \cup unsure => Kept(c, x[1])
        /\ \A i \in DOMAIN c.recs :
               c.recs[i].op \notin Outside /\ c.recs[i].state = "SUCCEEDED" => <<c.recs[i].id, 1>> \in c.log

\* The same without exemption for a commit of unknown outcome: every change that
\* is saved has its record, unless that was evicted (persist.c:12).
BothOrNeither == \A x \in disk.log : x[1] \notin forgotten => Kept(disk, x[1])

\* A task is started or killed with a store mounted only when the record of
\* the request is saved, and the record stays: after a power loss at any point
\* the engine knows that the request may have acted (ps_intent, persist.c:412).
EffectRecorded ==
    \A x \in calls : x[1] \notin forgotten \cup unsure => \A c \in OnMedium : Kept(c, x[1])

\* A request answered SUCCEEDED with saved=yes is SUCCEEDED in whatever a power
\* loss leaves, later commits that fail or have an unknown outcome included
\* (ps_final, persist.c:444; build_tasks takes every record along).
SavedStays ==
    \A id \in promised \ forgotten : \A c \in OnMedium :
        \E i \in DOMAIN c.recs : c.recs[i].id = id /\ c.recs[i].state = "SUCCEEDED"

\* Between actions the executor holds exactly the handles of the tasks in
\* known[]: each way out of op_terminate and op_measure closes the handle it
\* opened and keeps the one of a task it started (core.c:626).
HandlesExact == pc \in {"idle", "closed", "ask", "exec"} => handles = known

\* No operation asks the engine for a transition the lifecycle does not have,
\* the records carried over a restart included (step, core.c:166).
NoIllegalStep == ~illegal

\* A kill ends the task the request named, in the boot the reference is from,
\* and no other: ids start again at every boot (resolve, core.c:287).
KillsNamed ==
    [][pc = "call" /\ req.op = "task.terminate" /\ calls' # calls
        => /\ req.target[1] = boot
           /\ \A i \in DOMAIN tasks : tasks'[i] # tasks[i] => i = req.target[2]]_vars

\* agent.ask ends SUCCEEDED only if each action it ran and the engine still
\* knows ended SUCCEEDED, one refused as a duplicate of an action before a
\* power loss included (op_agent_ask, agent.c:474).
AskTruthful ==
    [][\A i \in DOMAIN eng' :
        (ask # None /\ eng'[i].id = ask.id /\ eng'[i].state = "SUCCEEDED")
            => \A j \in DOMAIN eng' :
                   (\E n \in 1..ask.n : eng'[j].id = <<Cut[ask.id[1]], n>>) => eng'[j].state = "SUCCEEDED"]_vars

\* Every request is answered: the waits are bounded, the agent loop ends after
\* StepsMax rounds, and a store that fails ends the action (core.c:638,
\* agent.c:452).
Answered == pc \notin {"idle", "closed"} ~> pc \in {"idle", "closed"}
=============================================================================
