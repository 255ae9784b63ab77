------------------------------- MODULE Kernel -------------------------------
(***************************************************************************)
(* Tasks, the scheduler, handles, IPC and memory objects of the C kernel   *)
(* (kernel/task.c, kernel/obj, kernel/syscall.c, kernel/m3test.c).         *)
(*                                                                         *)
(* One CPU.  Kernel code is not preempted: a system call, or a kernel      *)
(* thread between two points where it blocks, is one step of the current   *)
(* task.  User code is interrupted by the timer.  Kernel functions that    *)
(* call one another are operators from kernel state to kernel state.       *)
(*                                                                         *)
(* The controller (kmain) has created the tasks of Grant, given them the   *)
(* handles Grant names, and waits for Core; it then ends what is left.     *)
(* A handle is the index of its entry: module Handles has generations.     *)
(* Rights that only gate reads and writes of data are left out.            *)
(***************************************************************************)
EXTENDS Integers, FiniteSets, Sequences, SequencesExt

CONSTANTS
    Users,          \* slots of user tasks (naturals above the kernel threads')
    Core,           \* the user task the controller waits for
    Grant,          \* [user tasks at the start -> sequence of table entries]
    Programs,       \* what user programs may do: set of [Users -> sets of calls]
    Eps, Vmos,      \* the pools of endpoints and memory objects
    sovereign, channel,     \* static objects: their counts never matter
    None,           \* NULL
    Handles,        \* NX_HANDLE_SLOTS
    Maps,           \* NX_TASK_MAPS
    Queue,          \* NX_IPC_QUEUE
    Slice,          \* NX_SCHED_SLICE
    Pages,          \* pages the physical allocator manages
    TaskPages,      \* pages of a new task: stacks, root table, program
    TablePages,     \* page tables one mapping may add
    CleanMax,       \* pauses of the controller at the end of the session (100)
    MaxIds,         \* bound: tasks ever created
    MaxSleep        \* bound: ticks of one sleep or polling wait

\* Slots of the kernel threads; tasks run round robin in slot order.
kmain == 0
idle == 1
reaper == 2
Slots == {kmain, idle, reaper} \cup Users

ASSUME KernelAssumption ==
    /\ Users \subseteq Nat \ 0..2 /\ IsFiniteSet(Users)
    /\ Core \in DOMAIN Grant /\ DOMAIN Grant \subseteq Users
    /\ {Handles, Maps, Queue, Slice, Pages, TaskPages, TablePages, CleanMax} \subseteq Nat

VARIABLES
    kern,       \* the kernel's globals, below
    nextId,     \* next_id
    kpc,        \* where the controller is
    prog        \* the calls the program in each slot makes

vars == <<kern, nextId, kpc, prog>>

task == kern.task       \* struct nx_task of each slot
ep == kern.ep           \* the object pools
vmo == kern.vmo
cur == kern.cur         \* nx_current
free == kern.free       \* nx_pmm.free_pages
tlb == kern.tlb         \* id of the task whose user translations the CPU may hold

Entry(o, r) == [obj |-> o, rights |-> r]
NoEntry == Entry(None, {})
FreeEp == [refs |-> 0, q |-> <<>>, waiter |-> None]

\* User code runs, or the task is inside a call that may block: receiving on
\* handle h, or polling the channel of handle h for n more ticks.
InUser == [op |-> "user", h |-> 0, n |-> 0]

FreeTask == [state |-> "FREE", id |-> 0, refs |-> 0, on |-> None, waiter |-> None,
             slice |-> 0, sleep |-> 0, call |-> InUser, root |-> 0, pages |-> 0,
             table |-> [i \in 1..Handles |-> NoEntry], maps |-> [i \in 1..Maps |-> None]]

\* alloc_task and nx_utask_create: one reference until the task is reaped, and
\* a root table of its own; kernel threads have the kernel's, 0.
NewTask(id, root) ==
    [FreeTask EXCEPT !.state = "BLOCKED", !.id = id, !.refs = 1, !.root = root, !.pages = TaskPages]

---------------------------------------------------------------------------
(* The kernel's functions, on a kernel state k.                            *)

IsUser(s) == s \in Users

\* The id whose translations are loaded with s's root: kernel threads have none.
Space(k, s) == IF IsUser(s) THEN k.task[s].id ELSE 0

Ref(k, o) ==
    CASE o \in Vmos  -> [k EXCEPT !.vmo[o].refs = @ + 1]
      [] o \in Eps   -> [k EXCEPT !.ep[o].refs = @ + 1]
      [] o \in Slots -> [k EXCEPT !.task[o].refs = @ + 1]
      [] OTHER -> k

\* nx_obj_unref of a memory object or a task: the last reference destroys it.
UnrefLeaf(k, o) ==
    CASE o \in Vmos ->
            IF k.vmo[o].refs = 1
            THEN [k EXCEPT !.vmo[o] = [refs |-> 0, pages |-> 0], !.free = @ + k.vmo[o].pages]
            ELSE [k EXCEPT !.vmo[o].refs = @ - 1]
      [] o \in Slots ->
            [k EXCEPT !.task[o].refs = @ - 1,
                      !.task[o].state = IF k.task[o].refs = 1 THEN "FREE" ELSE @]
      [] OTHER -> k

\* ep_destroy drops the objects of the queued messages.
Unref(k, o) ==
    IF o \notin Eps THEN UnrefLeaf(k, o)
    ELSE IF k.ep[o].refs > 1 THEN [k EXCEPT !.ep[o].refs = @ - 1]
    ELSE LET q == k.ep[o].q
         IN  FoldLeft(LAMBDA s, m : UnrefLeaf(s, m.obj), [k EXCEPT !.ep[o] = FreeEp], q)

FreeHandle(k, t) == {i \in 1..Handles : k.task[t].table[i] = NoEntry}
HandleTableFull(k, t) == FreeHandle(k, t) = {}
FirstOf(S) == CHOOSE i \in S : \A j \in S : i <= j

\* The page nx_as_create takes for a root table: the first one free, so that a
\* new task has the root of one that was reaped.
RootPage(k) == FirstOf(Users \ {k.task[u].root : u \in {s \in Users : k.task[s].pages > 0}})

nx_ht_install(k, t, o, r) ==
    Ref([k EXCEPT !.task[t].table[FirstOf(FreeHandle(k, t))] = Entry(o, r)], o)

nx_ht_close(k, t, i) ==
    Unref([k EXCEPT !.task[t].table[i] = NoEntry], k.task[t].table[i].obj)

nx_ht_clear(k, t) == FoldLeft(LAMBDA s, i : nx_ht_close(s, t, i), k, [i \in 1..Handles |-> i])

\* nx_ht_lookup with the rights the call needs.
Resolves(k, t, i, objs, need) ==
    k.task[t].table[i].obj \in objs /\ need \subseteq k.task[t].table[i].rights

nx_task_wake(k, t) ==
    IF k.task[t].state = "BLOCKED"
    THEN [k EXCEPT !.task[t].state = "READY", !.task[t].on = None] ELSE k

\* BROKEN: the first ready slot, not the next one.
pick_nextFirst(k) ==
    LET ready == {s \in Slots \ {idle} : k.task[s].state = "READY"}
    IN  IF ready # {} THEN FirstOf(ready)
        ELSE IF k.task[k.cur].state = "RUNNING" /\ k.cur # idle THEN k.cur ELSE idle

\* Round robin over the READY tasks after the current one, else the current
\* one, else idle.
pick_next(k) ==
    LET n == 1 + CHOOSE m \in Slots : \A s \in Slots : s <= m
        dist(s) == IF s > k.cur THEN s - k.cur ELSE s - k.cur + n
        ready == {s \in Slots \ {idle} : k.task[s].state = "READY"}
    IN  IF ready # {} THEN CHOOSE s \in ready : \A r \in ready : dist(s) <= dist(r)
        ELSE IF k.task[k.cur].state = "RUNNING" /\ k.cur # idle THEN k.cur
        ELSE idle

\* Roots are compared, not tasks: next->cr3 != prev->cr3.
SwitchSpace(k, next) == IF k.task[next].root # k.task[k.cur].root THEN Space(k, next) ELSE k.tlb

\* The task that was running can run again.
Preempt(st) == IF st = "RUNNING" THEN "READY" ELSE st

nx_schedule(k) ==
    LET next == pick_next(k)
    IN  IF next = k.cur THEN [k EXCEPT !.task[next].slice = Slice]
        ELSE [k EXCEPT
                !.task[k.cur].state = Preempt(@),
                !.task[next].state = "RUNNING", !.task[next].slice = Slice,
                !.cur = next,
                !.tlb = SwitchSpace(k, next)]

nx_task_block(k, on) ==
    nx_schedule([k EXCEPT !.task[k.cur].state = "BLOCKED", !.task[k.cur].on = on])

nx_task_sleep(k, n) == nx_task_block([k EXCEPT !.task[k.cur].sleep = n], "sleep")

\* BROKEN: the endpoint keeps the dead task as its receiver.
StopWaitingKeeps(k, t) == k

\* A task that ends while it is the receiver of an endpoint is that no more.
StopWaiting(k, t) ==
    LET on == k.task[t].on
    IN  IF k.task[t].state = "BLOCKED" /\ on \in Eps /\ k.ep[on].waiter = t
        THEN [k EXCEPT !.ep[on].waiter = None] ELSE k

end_task(k, t) ==
    LET k1 == [StopWaiting(k, t) EXCEPT
                 !.task[t] = [@ EXCEPT !.on = None, !.state = "DEAD", !.call = InUser,
                                       !.slice = 0, !.sleep = 0]]
        w == k.task[t].waiter
    IN  nx_task_wake(k1, IF w # None THEN w ELSE reaper)

nx_task_terminate(k, t) ==
    IF k.task[t].state \in {"FREE", "DEAD", "REAPED"} THEN k
    ELSE IF t = k.cur THEN nx_schedule(end_task(k, t)) ELSE end_task(k, t)

\* The pages of the address space and the kernel stack.
nx_as_destroy(k, t) == [k EXCEPT !.free = @ + k.task[t].pages, !.task[t].pages = 0]

\* The handles, the address space, the mapped objects, the kernel stack, and
\* last the reference that kept the slot.
reap(k, t) ==
    LET k1 == nx_ht_clear(k, t)
        k2 == nx_as_destroy(k1, t)
        k3 == FoldLeft(LAMBDA s, i : Unref([s EXCEPT !.task[t].maps[i] = None], k.task[t].maps[i]),
                       k2, [i \in 1..Maps |-> i])
    IN  Unref([k3 EXCEPT !.task[t].state = "REAPED"], t)

\* Live tasks named in ts, in slot order.
InOrder(ts) == SetToSortSeq(ts, <)

---------------------------------------------------------------------------
Init ==
    LET grants(o) == {<<u, i>> \in (DOMAIN Grant) \X (1..Handles) :
                        i <= Len(Grant[u]) /\ Grant[u][i].obj = o}
        made == DOMAIN Grant
        start(u) == [NewTask(1 + Cardinality({v \in made : v < u}), u) EXCEPT
                       !.state = "READY",
                       !.refs = IF u = Core THEN 2 ELSE 1,
                       !.table = [i \in 1..Handles |->
                                    IF i <= Len(Grant[u]) THEN Grant[u][i] ELSE NoEntry]]
        kernel(s) == [FreeTask EXCEPT !.state = IF s = kmain THEN "RUNNING" ELSE "READY", !.refs = 1]
    IN  /\ kern = [task |-> [s \in Slots |-> IF s \in made THEN start(s)
                                            ELSE IF IsUser(s) THEN FreeTask ELSE kernel(s)],
                   ep   |-> [x \in Eps |-> [FreeEp EXCEPT !.refs = Cardinality(grants(x))]],
                   vmo  |-> [v \in Vmos |-> [refs |-> 0, pages |-> 0]],
                   cur  |-> kmain, tlb |-> 0,
                   free |-> Pages - TaskPages * Cardinality(made)]
        /\ nextId = 1 + Cardinality(made) /\ kpc = "wait"
        /\ prog \in Programs

\* t runs user code and makes a system call.
Calls(t) == cur = t /\ task[t].call = InUser

\* The call ends and changes nothing else.
Keep == UNCHANGED <<nextId, kpc>>

sys_exit(t) == Calls(t) /\ kern' = nx_task_terminate(kern, t) /\ Keep

sys_handle_close(t, i) ==
    /\ Calls(t) /\ task[t].table[i] # NoEntry
    /\ kern' = nx_ht_close(kern, t, i) /\ Keep

\* A duplicate has some of the rights.
sys_handle_dup(t, i, r) ==
    /\ Calls(t) /\ Resolves(kern, t, i, Eps \cup Vmos \cup Slots \cup {sovereign, channel}, {"DUPLICATE"})
    /\ r \subseteq task[t].table[i].rights /\ ~HandleTableFull(kern, t)
    /\ kern' = nx_ht_install(kern, t, task[t].table[i].obj, r) /\ Keep

\* The creator's reference is dropped after the handle took its own: a full
\* table frees the object again.
sys_vmo_create(t, n) ==
    LET unused == {v \in Vmos : vmo[v].refs = 0}
        v == CHOOSE x \in unused : TRUE
        k1 == [kern EXCEPT !.vmo[v] = [refs |-> 1, pages |-> n], !.free = @ - n]
        k2 == IF HandleTableFull(k1, t) THEN k1
              ELSE nx_ht_install(k1, t, v, {"MAP", "TRANSFER", "DUPLICATE"})
    IN  /\ Calls(t) /\ unused # {} /\ n <= free
        /\ kern' = Unref(k2, v) /\ Keep

\* BROKEN: the mapping takes no reference.
AddMapNoRef(k, t, m, v) == [k EXCEPT !.task[t].maps[m] = v]

\* The mapping has its own reference on the object.
AddMap(k, t, m, v) == Ref([k EXCEPT !.task[t].maps[m] = v], v)

\* The page tables a mapping needs stay with the task even when it fails.
sys_vmo_map(t, i, need) ==
    LET slot == {m \in 1..Maps : task[t].maps[m] = None}
        v == task[t].table[i].obj
        got == IF need <= free THEN need ELSE free
        k1 == [kern EXCEPT !.task[t].pages = @ + got, !.free = @ - got]
    IN  /\ Calls(t) /\ Resolves(kern, t, i, Vmos, {"MAP"}) /\ slot # {}
        /\ kern' = (IF got < need THEN k1
                  ELSE AddMap(k1, t, FirstOf(slot), v))
        /\ Keep

\* Every check comes before the first change; the handle moves.
sys_ipc_send(t, i, h, r) ==
    LET e == task[t].table[i].obj
        x == IF h = 0 THEN NoEntry ELSE task[t].table[h]
        k1 == IF h = 0 THEN kern ELSE [kern EXCEPT !.task[t].table[h] = NoEntry]
        k2 == [k1 EXCEPT !.ep[e].q = Append(@, Entry(x.obj, r)), !.ep[e].waiter = None]
        w == ep[e].waiter
    IN  /\ Calls(t) /\ Resolves(kern, t, i, Eps, {"SEND"}) /\ Len(ep[e].q) < Queue
        /\ IF h = 0 THEN r = {}
           ELSE Resolves(kern, t, h, Vmos \cup Slots, {"TRANSFER"}) /\ r \subseteq x.rights
        /\ kern' = (IF w = None THEN k2 ELSE nx_task_wake(k2, w)) /\ Keep

\* The loop of the receive, from the call or from a wake-up: block, take the
\* oldest message, or fail (another receiver waits; the message is longer than
\* the buffer, the buffer is bad or no handle slot is free, and the message
\* stays queued).
sys_ipc_recv(t, i) ==
    LET e == task[t].table[i].obj
        k1 == [kern EXCEPT !.task[t].call = [op |-> "recv", h |-> i, n |-> 0], !.ep[e].waiter = t]
        done == [kern EXCEPT !.task[t].call = InUser]
        m == Head(ep[e].q)
        k2 == IF m.obj = None THEN done
              ELSE Unref(nx_ht_install(done, t, m.obj, m.rights), m.obj)
    IN  /\ cur = t /\ (task[t].call = InUser \/ (task[t].call.op = "recv" /\ task[t].call.h = i))
        /\ Resolves(kern, t, i, Eps, {"RECV"})
        /\ \/ ep[e].q = <<>> /\ kern' = IF ep[e].waiter \notin {None, t} THEN done ELSE nx_task_block(k1, e)
           \/ ep[e].q # <<>> /\ kern' = done
           \/ /\ ep[e].q # <<>> /\ ~(m.obj # None /\ HandleTableFull(kern, t))
              /\ kern' = [k2 EXCEPT !.ep[e].q = Tail(@)]
        /\ Keep

sys_sov_task_open(t, i, u) ==
    /\ Calls(t) /\ Resolves(kern, t, i, {sovereign}, {"SOVEREIGN"})
    /\ task[u].state \notin {"FREE", "DEAD", "REAPED"} /\ ~HandleTableFull(kern, t)
    /\ kern' = nx_ht_install(kern, t, u, {"MANAGE", "TRANSFER", "DUPLICATE"}) /\ Keep

sys_task_kill(t, i) ==
    LET u == task[t].table[i].obj
    IN  /\ Calls(t) /\ Resolves(kern, t, i, Slots, {"MANAGE"})
        /\ task[u].state \notin {"DEAD", "REAPED"}
        /\ kern' = nx_task_terminate(kern, u) /\ Keep

\* BROKEN: the id is not used up.
TakeIdAgain == UNCHANGED nextId

\* Ids are not used twice.
TakeId == nextId' = nextId + 1

\* The task slot is taken, and its id used up, before memory runs out.
sys_sov_task_spawn(t, i) ==
    LET slots == {u \in Users : task[u].state = "FREE"}
        u == FirstOf(slots)
        k1 == [kern EXCEPT !.task[u] = [NewTask(nextId, RootPage(kern)) EXCEPT !.state = "READY"],
                          !.free = @ - TaskPages]
    IN  /\ Calls(t) /\ Resolves(kern, t, i, {sovereign}, {"SOVEREIGN"})
        /\ ~HandleTableFull(kern, t) /\ slots # {} /\ nextId <= MaxIds
        /\ TakeId
        /\ kern' = (IF free < TaskPages THEN kern
                    ELSE nx_ht_install(k1, t, u, {"MANAGE", "TRANSFER", "DUPLICATE"}))
        /\ UNCHANGED kpc

\* A sleep of no ticks is a yield.
sys_sleep(t, n) ==
    /\ Calls(t)
    /\ kern' = (IF n = 0 THEN nx_schedule([kern EXCEPT !.task[t].slice = 0]) ELSE nx_task_sleep(kern, n))
    /\ Keep

\* Polls; without input sleeps one tick and looks the handle up again, until
\* the timeout has passed.
sys_chan_read(t, i, n, input) ==
    LET left == IF task[t].call = InUser THEN n ELSE task[t].call.n
        done == [kern EXCEPT !.task[t].call = InUser]
    IN  /\ cur = t /\ (task[t].call = InUser \/ (task[t].call.op = "poll" /\ task[t].call.h = i))
        /\ Resolves(kern, t, i, {channel}, {"READ"})
        /\ kern' = (IF input \/ left = 0 THEN done
                  ELSE nx_task_sleep([kern EXCEPT !.task[t].call =
                                        [op |-> "poll", h |-> i, n |-> left - 1]], 1))
        /\ Keep

\* The timer interrupt: only user code and the idle thread run with interrupts
\* enabled.
sched_tick ==
    LET c == task[cur]
        ticked == [s \in Slots |->
                     IF task[s].state = "BLOCKED" /\ task[s].on = "sleep"
                     THEN IF task[s].sleep <= 1
                          THEN [task[s] EXCEPT !.state = "READY", !.on = None, !.sleep = 0]
                          ELSE [task[s] EXCEPT !.sleep = @ - 1]
                     ELSE IF s = cur /\ c.slice > 0 THEN [task[s] EXCEPT !.slice = @ - 1]
                     ELSE task[s]]
        k == [kern EXCEPT !.task = ticked]
        other_ready == \E s \in Slots \ {idle, cur} : ticked[s].state = "READY"
    IN  /\ cur = idle \/ (IsUser(cur) /\ c.call = InUser)
        /\ kern' = (IF (cur = idle \/ ticked[cur].slice = 0) /\ other_ready THEN nx_schedule(k) ELSE k)
        /\ Keep

\* idle_main: halted until an interrupt, then another task if one is ready.
idle_main == /\ cur = idle /\ pick_next(kern) # idle
             /\ kern' = nx_schedule(kern) /\ Keep

\* Dead tasks nobody waits for.
Reapable == {s \in Slots : task[s].state = "DEAD" /\ task[s].waiter = None}

\* The reaper scans the slots once and blocks.
reaper_main ==
    /\ cur = reaper
    /\ kern' = nx_task_block(FoldLeft(reap, kern, InOrder(Reapable)), None) /\ Keep

\* The controller in nx_task_wait_reap.
nx_task_wait_reap ==
    /\ cur = kmain /\ kpc = "wait" /\ task[Core].state \notin {"DEAD", "REAPED"}
    /\ kern' = nx_task_block([kern EXCEPT !.task[Core].waiter = kmain], None) /\ Keep

\* Core has ended: the controller reaps it, drops its reference, and
\* terminates every user task that is left.
nx_core_session ==
    LET k1 == [kern EXCEPT !.task[Core].waiter = None]
        k2 == IF task[Core].state = "DEAD" THEN reap(k1, Core) ELSE k1
        k3 == Unref(k2, Core)
    IN  /\ cur = kmain /\ kpc = "wait" /\ task[Core].state \in {"DEAD", "REAPED"}
        /\ kern' = FoldLeft(nx_task_terminate, k3, InOrder(Users))
        /\ kpc' = "clean" /\ UNCHANGED nextId

\* Ended tasks that still hold their resources.
Leftovers == {s \in Slots : task[s].state = "DEAD"}

Pause(k) == nx_task_sleep([k EXCEPT !.task[kmain].call.n = @ + 1], 1)

\* It sleeps until the reaper has released them, CleanMax ticks at most (the
\* loop's counter is the n of its call), and ends the session.
cleanup_leftovers ==
    LET waits == Leftovers # {} /\ task[kmain].call.n < CleanMax
    IN  /\ cur = kmain /\ kpc = "clean" /\ UNCHANGED nextId
        /\ \/ waits /\ kern' = Pause(kern) /\ UNCHANGED kpc
           \/ ~waits /\ kern' = kern /\ kpc' = "done"

nx_syscall(t) ==
    LET may(c) == c \in prog[t]
    IN  \/ may("exit") /\ sys_exit(t)
        \/ may("vmo_create") /\ \E n \in 1..2 : sys_vmo_create(t, n)
        \/ may("sleep") /\ \E n \in 0..MaxSleep : sys_sleep(t, n)
        \/ \E i \in 1..Handles :
            \/ may("close") /\ sys_handle_close(t, i)
            \/ may("dup") /\ \E r \in {{}, {"MAP", "TRANSFER"}} : sys_handle_dup(t, i, r)
            \/ may("vmo_map") /\ \E need \in 0..TablePages : sys_vmo_map(t, i, need)
            \/ may("send") /\ sys_ipc_send(t, i, 0, {})
            \/ may("give") /\ \E h \in 1..Handles, r \in {{"MAP"}, {"MANAGE"}} : sys_ipc_send(t, i, h, r)
            \/ may("recv") /\ sys_ipc_recv(t, i)
            \/ may("open") /\ \E u \in Users : sys_sov_task_open(t, i, u)
            \/ may("kill") /\ sys_task_kill(t, i)
            \/ may("spawn") /\ sys_sov_task_spawn(t, i)
            \/ may("chan_read") /\ \E n \in 0..MaxSleep, input \in BOOLEAN : sys_chan_read(t, i, n, input)

Threads == idle_main \/ reaper_main \/ nx_task_wait_reap \/ nx_core_session \/ cleanup_leftovers

\* The session is over when the controller reports its result.
Next == /\ kpc # "done" /\ UNCHANGED prog
        /\ \/ \E t \in Users : nx_syscall(t)
           \/ Threads \/ sched_tick

\* Kernel code has the CPU: a kernel thread, or a call that goes on after it
\* blocked.
InKernel == \/ cur \in {kmain, reaper} /\ kpc # "done"
            \/ IsUser(cur) /\ task[cur].call # InUser

\* A timer interrupt would change something.
TickDue == /\ kpc # "done" /\ ~InKernel
           /\ \/ task[cur].slice > 0
              \/ \E s \in Slots \ {idle, cur} : task[s].state = "READY"
              \/ \E s \in Slots : task[s].state = "BLOCKED" /\ task[s].on = "sleep"

\* The CPU goes on executing kernel code, and the timer keeps firing; user code
\* need not do anything.  (Weak fairness of both, with their ENABLED spelled
\* out: any step taken in the kernel is the kernel's.)
Fairness == /\ []<>~InKernel \/ []<><<InKernel>>_vars
            /\ []<>~TickDue \/ []<><<sched_tick>>_vars

Spec == Init /\ [][Next]_vars /\ Fairness

---------------------------------------------------------------------------
(* Properties.                                                             *)

Objects == Eps \cup Vmos \cup Users
Refs(o) == IF o \in Eps THEN ep[o].refs ELSE IF o \in Vmos THEN vmo[o].refs ELSE task[o].refs

\* Types of the kernel's tables; exactly the current task is RUNNING.
TypeOK ==
    /\ \A s \in Slots : /\ task[s].state \in {"FREE", "READY", "RUNNING", "BLOCKED", "DEAD", "REAPED"}
                        /\ task[s].refs \in Nat /\ task[s].slice \in 0..Slice
                        /\ (task[s].state = "RUNNING") <=> (s = cur)
    /\ \A e \in Eps : Len(ep[e].q) <= Queue
    /\ cur \in Slots /\ free \in 0..Pages /\ nextId \in Nat

\* Every object counts exactly the handles, queued messages, mappings and
\* kernel references (an unreaped task's own, the controller's) that name it,
\* so nothing is destroyed while referenced and nothing unreferenced is kept.
RefsExact ==
    \A o \in Objects :
        Refs(o) =
            Cardinality({<<t, i>> \in Users \X (1..Handles) : task[t].table[i].obj = o})
          + Cardinality({<<t, i>> \in Users \X (1..Maps) : task[t].maps[i] = o})
          + Cardinality({<<e, i>> \in Eps \X (1..Queue) : i <= Len(ep[e].q) /\ ep[e].q[i].obj = o})
          + (IF o \in Users /\ task[o].state \notin {"FREE", "REAPED"} THEN 1 ELSE 0)
          + (IF o = Core /\ kpc = "wait" THEN 1 ELSE 0)

\* No wake-up is lost: the waiter of an endpoint is a task blocked on it, its
\* queue is empty, and every task blocked on an endpoint is its waiter.
WaiterSound ==
    /\ \A e \in Eps : LET w == ep[e].waiter IN
          w # None => task[w].state = "BLOCKED" /\ task[w].on = e /\ ep[e].q = <<>>
    /\ \A t \in Users : task[t].state = "BLOCKED" /\ task[t].on \in Eps
                           => ep[task[t].on].waiter = t

\* Every page is free or belongs to one live task or memory object: error
\* paths, destruction and reaping return each page once.
Sum(f) == FoldLeft(+, 0, [i \in 1..Cardinality(DOMAIN f) |-> f[SetToSeq(DOMAIN f)[i]]])
PagesConserved ==
    free + Sum([v \in Vmos |-> vmo[v].pages]) + Sum([u \in Users |-> task[u].pages]) = Pages

\* The CPU holds no translations of another task's address space while user
\* code runs, although nx_schedule compares roots and not tasks, and the root
\* page may be one that a reaped task had.
OwnTranslations == IsUser(cur) => tlb = task[cur].id

\* When the session ends, everything tasks used has been returned.
ResourcesRestored ==
    kpc = "done" => /\ free = Pages /\ \A o \in Objects : Refs(o) = 0
                    /\ \A u \in Users : task[u].state = "FREE"

\* A task that has ended never runs or blocks again: after DEAD its slot is only
\* reaped and freed, and who takes the slot then has an id no task had before.
Lifecycle == [][\A u \in Users :
    IF task'[u].id = task[u].id
    THEN task[u].state \in {"DEAD", "REAPED"} => task'[u].state \in {"DEAD", "REAPED", "FREE"}
    ELSE task[u].state = "FREE" /\ \A v \in Users : task[v].id < task'[u].id]_vars

\* The scheduler starves nobody: a task that is ready runs or is ended.
ReadyRuns == \A u \in Users :
    (kpc # "done" /\ task[u].state = "READY") ~> (kpc = "done" \/ task[u].state # "READY")

\* Every task that ends is reaped.
DeadReaped == \A u \in Users :
    (task[u].state = "DEAD") ~> (task[u].state # "DEAD")

\* Once the task it waits for has ended, the controller finishes the session.
SessionEnds == (task[Core].state \in {"DEAD", "REAPED"}) ~> (kpc = "done")
=============================================================================
