----------------------------- MODULE TicketLock -----------------------------
(***************************************************************************)
(* The IRQ-aware FIFO ticket spinlock of crates/hw-smp/src/lock.rs.        *)
(*                                                                         *)
(* On every CPU two contexts may use the lock: the code it runs ("task")   *)
(* and a handler that interrupts it at any point ("nmi": disabling IRQs    *)
(* does not stop it) and runs to its end before the task continues.  Each  *)
(* atomic access of the lock is a step.  Tickets are machine words: they   *)
(* wrap at Wrap (2^32 in the code).  The CPU ids are valid (< MAX_CPUS).   *)
(*                                                                         *)
(* try_lock compares next with a value of serving it loaded before.  The   *)
(* comparison is sound only if fewer than Wrap tickets are taken between   *)
(* the two; the model states this as the bound TryWindow.                  *)
(***************************************************************************)
EXTENDS Integers, FiniteSets, Sequences

CONSTANTS
    Cpus,           \* logical CPUs
    NoOwner,        \* NO_OWNER
    Wrap,           \* number of ticket values
    NmiCpus,        \* CPUs whose handlers use the lock
    TryCpus         \* CPUs that call try_lock besides lock

ASSUME LockAssumption ==
    /\ IsFiniteSet(Cpus) /\ NoOwner \notin Cpus
    /\ Wrap \in Nat /\ Wrap > Cardinality(Cpus)
    /\ NmiCpus \subseteq Cpus /\ TryCpus \subseteq Cpus

VARIABLES
    next, serving, owner, active,       \* struct TicketLock
    pc, ticket,                         \* each context's position and ticket
    irq, state,                         \* IRQs enabled; the state a context saved
    lag, queue                          \* history: how far next is past the value
                                        \* a try_lock has loaded; who took tickets,
                                        \* in that order, and has not released

vars == <<next, serving, owner, active, pc, ticket, irq, state, lag, queue>>

Ctx == Cpus \X {"task", "nmi"}
Cpu(x) == x[1]
Tickets == 0 .. Wrap - 1

\* wrapping_add(1)
Inc(t) == IF t = Wrap - 1 THEN 0 ELSE t + 1

\* How far ticket t is from being served.
Ahead(t) == IF t >= serving THEN t - serving ELSE t - serving + Wrap

\* A context runs unless a handler has interrupted it.
Runs(x) == x[2] = "nmi" \/ pc[<<Cpu(x), "nmi">>] = "idle"

At(x, p) == Runs(x) /\ pc[x] = p
Goto(x, p) == pc' = [pc EXCEPT ![x] = p]

Init ==
    /\ next = 0 /\ serving = 0 /\ owner = NoOwner /\ active = {}
    /\ pc = [x \in Ctx |-> "idle"] /\ ticket = [x \in Ctx |-> 0]
    /\ irq = [c \in Cpus |-> TRUE] /\ state = [x \in Ctx |-> TRUE]
    /\ lag = [x \in Ctx |-> 0] /\ queue = <<>>

\* Bound: next does not move by Wrap or more while a try_lock is between its
\* load and its compare_exchange.
TryWindow == \A y \in Ctx : pc[y] = "cas" => lag[y] < Wrap - 1

\* A ticket is taken.
Issue(x) ==
    /\ TryWindow
    /\ next' = Inc(next)
    /\ queue' = Append(queue, x)
    /\ lag' = [y \in Ctx |-> IF y # x /\ pc[y] = "cas" THEN lag[y] + 1 ELSE 0]

\* lock and try_lock: save the IRQ state and disable IRQs.
Enter(x) ==
    /\ At(x, "idle")
    /\ x[2] = "nmi" => Cpu(x) \in NmiCpus
    /\ \/ Goto(x, "claim_lock")
       \/ Cpu(x) \in TryCpus /\ Goto(x, "claim_try")
    /\ state' = [state EXCEPT ![x] = irq[Cpu(x)]]
    /\ irq' = [irq EXCEPT ![Cpu(x)] = FALSE]
    /\ UNCHANGED <<next, serving, owner, active, ticket, lag, queue>>

\* claim_cpu: a CPU already active on this lock is refused (Recursive).
Claim(x) ==
    /\ At(x, "claim_lock") \/ At(x, "claim_try")
    /\ \/ /\ Cpu(x) \in active
          /\ Goto(x, "restore") /\ UNCHANGED active
       \/ /\ Cpu(x) \notin active
          /\ active' = active \cup {Cpu(x)}
          /\ Goto(x, IF pc[x] = "claim_lock" THEN "take" ELSE "load")
    /\ UNCHANGED <<next, serving, owner, ticket, irq, state, lag, queue>>

\* BROKEN variant of Take: next is loaded but not advanced.
TakeNoAdd(x) ==
    /\ At(x, "take")
    /\ ticket' = [ticket EXCEPT ![x] = next] /\ queue' = Append(queue, x)
    /\ Goto(x, "spin")
    /\ UNCHANGED <<next, serving, owner, active, irq, state, lag>>

\* lock: next.fetch_add(1)
Take(x) ==
    /\ At(x, "take")
    /\ ticket' = [ticket EXCEPT ![x] = next] /\ Issue(x)
    /\ Goto(x, "spin")
    /\ UNCHANGED <<serving, owner, active, irq, state>>

\* lock: the spin on serving ends.
Spin(x) ==
    /\ At(x, "spin") /\ serving = ticket[x]
    /\ Goto(x, "granted")
    /\ UNCHANGED <<next, serving, owner, active, ticket, irq, state, lag, queue>>

\* try_lock: serving.load, then the compare_exchange on next.
Load(x) ==
    /\ At(x, "load")
    /\ ticket' = [ticket EXCEPT ![x] = serving]
    /\ lag' = [lag EXCEPT ![x] = Ahead(next)]
    /\ Goto(x, "cas")
    /\ UNCHANGED <<next, serving, owner, active, irq, state, queue>>

\* BROKEN variant of Cas: the ticket is taken whoever else has taken one.
CasAlways(x) ==
    /\ At(x, "cas") /\ Issue(x) /\ Goto(x, "granted")
    /\ UNCHANGED <<serving, owner, active, ticket, irq, state>>

Cas(x) ==
    /\ At(x, "cas")
    /\ \/ next = ticket[x] /\ Issue(x) /\ Goto(x, "granted")
       \/ next # ticket[x] /\ UNCHANGED <<next, lag, queue>> /\ Goto(x, "refused")
    /\ UNCHANGED <<serving, owner, active, ticket, irq, state>>

\* try_lock: WouldBlock, after release_cpu.
Refused(x) ==
    /\ At(x, "refused")
    /\ active' = active \ {Cpu(x)} /\ Goto(x, "restore")
    /\ UNCHANGED <<next, serving, owner, ticket, irq, state, lag, queue>>

\* granted: the guard exists from here until Serve.
Granted(x) ==
    /\ At(x, "granted")
    /\ owner' = Cpu(x) /\ Goto(x, "held")
    /\ UNCHANGED <<next, serving, active, ticket, irq, state, lag, queue>>

\* BROKEN variant of Serve: serving stays at the ticket released.
ServeSame(x) ==
    /\ At(x, "held")
    /\ serving' = ticket[x] /\ queue' = Tail(queue) /\ Goto(x, "disown")
    /\ UNCHANGED <<next, owner, active, ticket, irq, state, lag>>

\* drop: release_ticket_with.
Serve(x) ==
    /\ At(x, "held")
    /\ serving' = Inc(ticket[x]) /\ queue' = Tail(queue) /\ Goto(x, "disown")
    /\ UNCHANGED <<next, owner, active, ticket, irq, state, lag>>

\* BROKEN variant of Disown: a plain store.
DisownStore(x) ==
    /\ At(x, "disown")
    /\ owner' = NoOwner
    /\ Goto(x, "leave")
    /\ UNCHANGED <<next, serving, active, ticket, irq, state, lag, queue>>

Disown(x) ==
    /\ At(x, "disown")
    /\ owner' = IF owner = Cpu(x) THEN NoOwner ELSE owner
    /\ Goto(x, "leave")
    /\ UNCHANGED <<next, serving, active, ticket, irq, state, lag, queue>>

\* drop: release_cpu.
Leave(x) ==
    /\ At(x, "leave")
    /\ active' = active \ {Cpu(x)} /\ Goto(x, "restore")
    /\ UNCHANGED <<next, serving, owner, ticket, irq, state, lag, queue>>

\* The saved IRQ state is restored, last on every path.
Restore(x) ==
    /\ At(x, "restore")
    /\ irq' = [irq EXCEPT ![Cpu(x)] = state[x]] /\ Goto(x, "idle")
    /\ UNCHANGED <<next, serving, owner, active, ticket, state, lag, queue>>

Step(x) == Claim(x) \/ Take(x) \/ Spin(x) \/ Load(x) \/ Cas(x) \/ Refused(x)
           \/ Granted(x) \/ Serve(x) \/ Disown(x) \/ Leave(x) \/ Restore(x)

Next == \E x \in Ctx : Enter(x) \/ Step(x)

Spec == Init /\ [][Next]_vars

\* A context that can run does; a handler does not come so often that the code
\* it interrupts never moves.
FairSpec == Spec /\ \A x \in Ctx : SF_vars(Step(x))
----------------------------------------------------------------------------
Holding == {"granted", "held"}
Queued == {"spin"} \cup Holding
Active == {"take", "load", "cas", "refused", "disown", "leave"} \cup Queued
Pcs == {"idle", "claim_lock", "claim_try", "restore"} \cup Active

\* The lock's words and the contexts' local state have their types; tickets
\* stay machine words.
TypeOK ==
    /\ next \in Tickets /\ serving \in Tickets
    /\ owner \in Cpus \cup {NoOwner} /\ active \subseteq Cpus
    /\ pc \in [Ctx -> Pcs] /\ ticket \in [Ctx -> Tickets]
    /\ irq \in [Cpus -> BOOLEAN] /\ state \in [Ctx -> BOOLEAN]
    /\ lag \in [Ctx -> Tickets] /\ queue \in Seq(Ctx)

\* At most one guard exists: two contexts are never both between their grant
\* and the store to serving that releases the lock (the SAFETY argument of the
\* Sync impl).
MutualExclusion ==
    \A x, y \in Ctx : pc[x] \in Holding /\ pc[y] \in Holding => x = y

\* A handler never waits for the lock behind the context it interrupted: at
\* most one context of a CPU is past claim_cpu.
NoSelfWait ==
    \A c \in Cpus : pc[<<c, "task">>] \in Active => pc[<<c, "nmi">>] \notin Active

\* The diagnostic owner is the holder, and never a CPU that has left the lock:
\* a late compare-exchange does not erase the next owner.
OwnerTruthful ==
    /\ \A x \in Ctx : pc[x] = "held" => owner = Cpu(x)
    /\ owner # NoOwner => owner \in active

\* IRQs stay disabled from the claim to the end of the release, handlers that
\* save and restore the state in between included; idle CPUs have them back.
IrqsRestored ==
    \A c \in Cpus : IF pc[<<c, "task">>] # "idle"
                    THEN ~irq[c]
                    ELSE pc[<<c, "nmi">>] = "idle" => irq[c]

\* The words wrap, no handler waits behind the context it interrupted, the
\* diagnostic owner is the holder, and IRQs are off exactly from the claim to
\* the end of the release (claim_cpu, lock, try_lock, LockGuard::drop).
ContextsSound == TypeOK /\ NoSelfWait /\ OwnerTruthful /\ IrqsRestored

\* lock and try_lock are FIFO across the wrap of the counters: the lock is
\* granted to the context that took its ticket before all others that wait.
Fifo == [][\A x \in Ctx : pc[x] # "granted" /\ pc'[x] = "granted" => x = Head(queue')]_vars

\* Whoever takes a ticket gets the lock.
EveryTicketServed == \A x \in Ctx : pc[x] = "spin" ~> pc[x] = "held"
=============================================================================
