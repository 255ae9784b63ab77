------------------------------ MODULE MCKernel ------------------------------
(***************************************************************************)
(* Instances of the kernel's parts for TLC: tasks and objects, memory, and *)
(* handle tables.  A behaviour is one of one part; the others keep still.  *)
(***************************************************************************)
EXTENDS Kernel

CONSTANTS endpoint, Regions, Storage, MemSlots, VmoPages, MmioPages, MaxOps, MaxSteps

VARIABLES which, mm, mtask, mvmo, mabs, mops, ht, hmoving, hissued, hsteps

\* Core holds the Sovereign object and the channel; both first tasks use the
\* endpoint.
MCGrant == [u \in {3, 4} |->
    IF u = 3 THEN <<Entry(endpoint, {"SEND", "RECV"}), Entry(sovereign, {"SOVEREIGN"})>>
             ELSE <<Entry(endpoint, {"SEND", "RECV"}), Entry(channel, {"READ"})>>]

Prog(c, p) == [u \in Users |-> IF u = 3 THEN c ELSE p]

\* Two tasks that send, receive and end one another; two that share memory
\* objects; one that starts and ends others.
MCPrograms == {
    Prog({"exit", "send", "recv", "sleep", "open", "kill", "spawn"}, {"exit", "send", "recv", "sleep", "chan_read"}),
    Prog({"exit", "vmo_create", "vmo_map", "close", "give"}, {"exit", "recv", "vmo_map", "close"}),
    Prog({"exit", "spawn", "kill", "close", "give", "dup"}, {"exit", "recv", "vmo_create", "kill"})}

\* Room for one task and a half, and for two once the boot memory is reclaimed.
R(type, first, last) == [type |-> type, first |-> first, last |-> last]
MCRegions == {R("usable", 1, 18), R("boot", 19, 20), R("stack", 21, 22), R("usable", 24, 24)}
M == INSTANCE Memory WITH Slots <- MemSlots
H == INSTANCE Handles WITH
       Tables <- {1, 2}, HandleSlots <- 2, GenMax <- 2, Objects <- {"a", "b"}, Rights <- {"dup", "move", "write"}
ASSUME HandleConstantsHold == H!HandleConstants

----------------------------------------------------------------------------
mVars == <<mm, mtask, mvmo, mabs, mops>>
hVars == <<ht, hmoving, hissued, hsteps>>
allVars == <<which, vars, mVars, hVars>>

\* What keeps still has an initial state, or 0.
MCInit ==
  /\ which \in {"tasks", "memory", "handles"}
  /\ Init /\ (which # "tasks" => prog = CHOOSE p \in Programs : TRUE)
  /\ IF which = "memory" THEN M!Init ELSE mm = 0 /\ mtask = 0 /\ mvmo = 0 /\ mabs = 0 /\ mops = 0
  /\ IF which = "handles" THEN H!Init ELSE ht = 0 /\ hmoving = 0 /\ hissued = 0 /\ hsteps = 0
MCNext ==
  /\ UNCHANGED which
  /\ \/ which = "tasks" /\ Next /\ UNCHANGED <<mVars, hVars>>
     \/ which = "memory" /\ M!Next /\ UNCHANGED <<vars, hVars>>
     \/ which = "handles" /\ H!Next /\ UNCHANGED <<vars, mVars>>

\* Kernel's fairness.
Busy == which = "tasks" /\ InKernel
Due == which = "tasks" /\ TickDue
MCFairness == /\ []<>~Busy \/ []<><<Busy>>_vars
              /\ []<>~Due \/ []<><<which = "tasks" /\ sched_tick>>_vars
MCSpec == MCInit /\ [][MCNext]_allVars /\ MCFairness

----------------------------------------------------------------------------
(* The properties, each with what it says about the part in its module.    *)

\* Exactly the current task runs, on its own page tables or the kernel's, and a
\* task waits on an endpoint exactly while it is blocked on it: no wake-up is
\* lost when a task is killed while it receives (sys_ipc_recv, end_task,
\* schedule).
TasksSound == TypeOK /\ WaiterSound /\ OwnTranslations

\* Objects have as many references as something holds, and pages are free or
\* owned; when the session is over everything is as it was, however its tasks
\* ended (nx_obj_unref, nx_as_destroy, reaper_main, nx_core_session).
ResourcesExact == RefsExact /\ PagesConserved /\ ResourcesRestored

\* A ready task runs, one that ended is reaped, and the controller finishes
\* once Core has ended (pick_next, reaper_main, nx_core_session).
TasksProceed == which = "tasks" => ReadyRuns /\ DeadReaped /\ SessionEnds

\* The pages in use are those something refers to, every address space
\* translates as what was mapped, and user code reaches only its own pages,
\* with allocations that fail half-way (pmm.c, walk_create, nx_pt_query).
MemoryExact == which = "memory" => M!TypeOK /\ M!PagesExact /\ M!QueryExact /\ M!UserReach

\* A closed handle's value finds nothing until the generation wraps, and no
\* handle gains a right on its way through duplicates and messages (bump,
\* nx_ht_dup, nx_ht_take).
HandlesSound == which = "handles" => H!HandlesSound
=============================================================================
