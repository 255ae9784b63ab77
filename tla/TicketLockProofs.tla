-------------------------- MODULE TicketLockProofs --------------------------
(***************************************************************************)
(* The ticket lock is exclusive, FIFO and keeps the IRQ state, for every   *)
(* set of CPUs and every width of the tickets that exceeds their number.   *)
(***************************************************************************)
EXTENDS TicketLock, FiniteSetTheorems, SequenceTheorems, TLAPS

USE Zenon

----------------------------------------------------------------------------
(* The inductive invariant.                                                *)

\* The ticket k places behind the one being served.
Nth(k) == IF serving + k < Wrap THEN serving + k ELSE serving + k - Wrap

\* The queue holds the contexts with a ticket, each once, with consecutive
\* tickets from serving on; only the first may hold the lock.
QueueInv ==
    /\ \A x \in Ctx : pc[x] \in Queued <=> \E i \in 1..Len(queue) : queue[i] = x
    /\ \A i, j \in 1..Len(queue) : queue[i] = queue[j] => i = j
    /\ \A i \in 1..Len(queue) : ticket[queue[i]] = Nth(i - 1)
    /\ \A i \in 1..Len(queue) : pc[queue[i]] \in Holding => i = 1
    /\ next = Nth(Len(queue))

\* What try_lock loaded is lag behind next, at least as far as the queue is long.
LagInv ==
    \A x \in Ctx : pc[x] = "cas" =>
        /\ next = IF ticket[x] + lag[x] < Wrap THEN ticket[x] + lag[x] ELSE ticket[x] + lag[x] - Wrap
        /\ Len(queue) <= lag[x]

\* A CPU is active while one of its contexts, and only one, is past claim_cpu.
ActiveInv ==
    /\ \A c \in Cpus : c \in active <=> pc[<<c, "task">>] \in Active \/ pc[<<c, "nmi">>] \in Active
    /\ NoSelfWait

\* The owner is the CPU of a context that holds the lock or is about to erase
\* its own name.
OwnerInv ==
    /\ \A x \in Ctx : pc[x] = "held" => owner = Cpu(x)
    /\ owner # NoOwner => pc[<<owner, "task">>] \in {"held", "disown"} \/ pc[<<owner, "nmi">>] \in {"held", "disown"}

\* A context that is not idle has IRQs off and has saved what they were before.
IrqInv ==
    \A c \in Cpus :
        /\ pc[<<c, "task">>] # "idle" => ~irq[c] /\ state[<<c, "task">>]
        /\ pc[<<c, "nmi">>] # "idle" => ~irq[c] /\ state[<<c, "nmi">>] = (pc[<<c, "task">>] = "idle")
        /\ pc[<<c, "task">>] = "idle" /\ pc[<<c, "nmi">>] = "idle" => irq[c]

IInv == TypeOK /\ QueueInv /\ LagInv /\ ActiveInv /\ OwnerInv /\ IrqInv

----------------------------------------------------------------------------
(* Facts about contexts, tickets and frames.                               *)

\* The contexts of a CPU are its task and its handler.
LEMMA Contexts ==
  /\ \A x \in Ctx : Cpu(x) \in Cpus /\ (x = <<Cpu(x), "task">> \/ x = <<Cpu(x), "nmi">>)
  /\ \A c \in Cpus : <<c, "task">> \in Ctx /\ <<c, "nmi">> \in Ctx /\ <<c, "task">> # <<c, "nmi">>
BY SMTT(30) DEF Ctx, Cpu

\* The moving context is the only one whose position changes.
LEMMA Moves ==
  ASSUME TypeOK, NEW x \in Ctx, NEW p \in Pcs, Goto(x, p)
  PROVE  /\ pc' \in [Ctx -> Pcs]
         /\ pc'[x] = p
         /\ \A y \in Ctx : y # x => pc'[y] = pc[y]
BY DEF TypeOK, Goto

\* The groups of positions, spelled out.
LEMMA Groups ==
  /\ Holding = {"granted", "held"} /\ Queued = {"spin", "granted", "held"}
  /\ Active = {"take", "load", "cas", "refused", "disown", "leave", "spin", "granted", "held"}
  /\ Pcs = {"idle", "claim_lock", "claim_try", "restore",
            "take", "load", "cas", "refused", "disown", "leave", "spin", "granted", "held"}
BY DEF Holding, Queued, Active, Pcs

\* No more tickets are out than there are CPUs: the queue is shorter than Wrap.
LEMMA QueueShort ==
  ASSUME TypeOK, QueueInv, ActiveInv
  PROVE  Len(queue) < Wrap
<1> DEFINE f == [i \in 1..Len(queue) |-> Cpu(queue[i])]
<1>1. Len(queue) \in Nat /\ \A i \in 1..Len(queue) : queue[i] \in Ctx
  BY SMTT(30) DEF TypeOK
<1>2. f \in [1..Len(queue) -> Cpus]
  BY <1>1, Contexts
<1>3. ASSUME NEW i \in 1..Len(queue), NEW j \in 1..Len(queue), f[i] = f[j]
      PROVE  i = j
  <2>1. pc[queue[i]] \in Active /\ pc[queue[j]] \in Active
    BY <1>1, Groups DEF QueueInv
  <2>2. Cpu(queue[i]) = Cpu(queue[j])
    BY <1>3
  <2>3. queue[i] = queue[j]
    BY <1>1, <2>1, <2>2, Contexts DEF ActiveInv, NoSelfWait
  <2> QED
    BY <2>3 DEF QueueInv
<1>4. f \in Injection(1..Len(queue), Cpus)
  BY <1>2, <1>3 DEF Injection, IsInjective
<1>5. IsFiniteSet(1..Len(queue)) /\ Cardinality(1..Len(queue)) = Len(queue)
  BY <1>1, FS_Interval, SMTT(30)
<1>6. Cardinality(Cpus) \in Nat
  BY LockAssumption, FS_CardinalityType
<1>7. Len(queue) <= Cardinality(Cpus)
  BY <1>4, <1>5, LockAssumption, FS_Injection, SMTT(30) DEF ExistsInjection
<1> QED
  BY <1>1, <1>6, <1>7, LockAssumption, SMTT(30)

\* Only the first in the queue holds the lock.
LEMMA Exclusive ==
  ASSUME QueueInv
  PROVE  MutualExclusion
<1> SUFFICES ASSUME NEW x \in Ctx, NEW y \in Ctx, pc[x] \in Holding, pc[y] \in Holding
             PROVE  x = y
  BY DEF MutualExclusion
<1>1. PICK i \in 1..Len(queue) : queue[i] = x
  BY Groups DEF QueueInv
<1>2. PICK j \in 1..Len(queue) : queue[j] = y
  BY Groups DEF QueueInv
<1> QED
  BY <1>1, <1>2 DEF QueueInv

\* What a step that leaves these variables alone, and moves a context only
\* within these groups of positions, preserves.
LEMMA QueueFrame ==
  ASSUME TypeOK, QueueInv, UNCHANGED <<next, serving, ticket, queue>>,
         \A y \in Ctx : /\ pc'[y] \in Queued <=> pc[y] \in Queued
                        /\ pc'[y] \in Holding => pc[y] \in Holding
  PROVE  QueueInv'
<1>1. \A i \in 1..Len(queue) : queue[i] \in Ctx
  BY SMTT(30) DEF TypeOK
<1> QED
  BY <1>1 DEF QueueInv, Nth

LEMMA LagFrame ==
  ASSUME LagInv, UNCHANGED <<next, ticket, lag, queue>>,
         \A y \in Ctx : pc'[y] = "cas" => pc[y] = "cas"
  PROVE  LagInv'
BY DEF LagInv

LEMMA ActiveFrame ==
  ASSUME ActiveInv, UNCHANGED active,
         \A y \in Ctx : pc'[y] \in Active <=> pc[y] \in Active
  PROVE  ActiveInv'
BY Contexts DEF ActiveInv, NoSelfWait

LEMMA OwnerFrame ==
  ASSUME TypeOK, OwnerInv, UNCHANGED owner,
         \A y \in Ctx : /\ pc'[y] = "held" => pc[y] = "held"
                        /\ pc[y] \in {"held", "disown"} => pc'[y] \in {"held", "disown"}
  PROVE  OwnerInv'
BY Contexts DEF OwnerInv, TypeOK

LEMMA IrqFrame ==
  ASSUME IrqInv, UNCHANGED <<irq, state>>,
         \A y \in Ctx : pc'[y] = "idle" <=> pc[y] = "idle"
  PROVE  IrqInv'
BY Contexts DEF IrqInv

----------------------------------------------------------------------------
(* Every step preserves the invariant.                                     *)

\* lock and try_lock begin: only the IRQ state changes.
LEMMA EnterStep ==
  ASSUME IInv, NEW x \in Ctx, Enter(x)
  PROVE  IInv'
<1> USE DEF IInv
<1>0. PICK p \in {"claim_lock", "claim_try"} : Goto(x, p)
  BY DEF Enter
<1>1. /\ pc[x] = "idle" /\ pc'[x] = p /\ pc' \in [Ctx -> Pcs]
      /\ \A y \in Ctx : y # x => pc'[y] = pc[y]
  BY <1>0, Moves, Groups DEF Enter, At
<1>2. TypeOK'
  BY <1>1, Contexts DEF Enter, TypeOK
<1>3. QueueInv' /\ LagInv' /\ ActiveInv' /\ OwnerInv'
  BY <1>1, Groups, QueueFrame, LagFrame, ActiveFrame, OwnerFrame DEF Enter
<1>4. IrqInv'
  <2>1. /\ irq \in [Cpus -> BOOLEAN] /\ state \in [Ctx -> BOOLEAN]
        /\ irq' = [irq EXCEPT ![Cpu(x)] = FALSE] /\ state' = [state EXCEPT ![x] = irq[Cpu(x)]]
    BY DEF Enter, TypeOK
  <2>2. x = <<Cpu(x), "task">> => pc[<<Cpu(x), "nmi">>] = "idle"
    BY SMTT(30) DEF Enter, At, Runs
  <2> SUFFICES ASSUME NEW c \in Cpus
               PROVE  IrqInv!(c)'
    BY DEF IrqInv
  <2>3. CASE c # Cpu(x)
    BY <1>1, <2>1, <2>3, Contexts, SMTT(30) DEF IrqInv
  <2>4. CASE c = Cpu(x) /\ x = <<c, "task">>
    BY <1>1, <2>1, <2>2, <2>4, Contexts DEF IrqInv
  <2>5. CASE c = Cpu(x) /\ x = <<c, "nmi">>
    BY <1>1, <2>1, <2>5, Contexts, SMTT(30) DEF IrqInv
  <2> QED
    BY <2>3, <2>4, <2>5, Contexts
<1> QED
  BY <1>2, <1>3, <1>4

\* claim_cpu.
LEMMA ClaimStep ==
  ASSUME IInv, NEW x \in Ctx, Claim(x)
  PROVE  IInv'
<1> USE DEF IInv
<1>0. PICK p \in {"restore", "take", "load"} :
        Goto(x, p) /\ (IF p = "restore" THEN active' = active
                       ELSE Cpu(x) \notin active /\ active' = active \cup {Cpu(x)})
  BY DEF Claim
<1>1. /\ pc[x] \in {"claim_lock", "claim_try"} /\ pc'[x] = p /\ pc' \in [Ctx -> Pcs]
      /\ \A y \in Ctx : y # x => pc'[y] = pc[y]
  BY <1>0, Moves, Groups DEF Claim, At
<1>2. TypeOK'
  BY <1>0, <1>1, Contexts DEF Claim, TypeOK
<1>3. QueueInv' /\ LagInv' /\ OwnerInv' /\ IrqInv'
  BY <1>1, Groups, QueueFrame, LagFrame, OwnerFrame, IrqFrame DEF Claim
<1>4. ActiveInv'
  <2>1. CASE p = "restore"
    BY <1>0, <1>1, <2>1, Groups, ActiveFrame
  <2>2. CASE p # "restore"
    BY <1>0, <1>1, <2>2, Groups, Contexts, SMTT(30) DEF ActiveInv, NoSelfWait
  <2> QED
    BY <2>1, <2>2
<1> QED
  BY <1>2, <1>3, <1>4

\* A context that takes a ticket joins the end of the queue with the ticket
\* next, which nobody else in the queue has.
LEMMA IssueQueue ==
  ASSUME IInv, NEW x \in Ctx, Issue(x), UNCHANGED serving,
         pc[x] \notin Queued, pc'[x] \in Queued, pc'[x] = "granted" => queue = <<>>,
         pc'[x] # "held", ticket' \in [Ctx -> Tickets], ticket'[x] = next,
         \A y \in Ctx : y # x => pc'[y] = pc[y] /\ ticket'[y] = ticket[y]
  PROVE  QueueInv'
<1> USE DEF IInv
<1>1. Len(queue) \in Nat /\ Len(queue) < Wrap /\ Wrap \in Nat /\ serving \in Tickets /\ next \in Tickets
  BY QueueShort, LockAssumption, SMTT(30) DEF TypeOK
<1>2. /\ queue' \in Seq(Ctx) /\ Len(queue') = Len(queue) + 1
      /\ queue'[Len(queue) + 1] = x
      /\ \A i \in 1..Len(queue) : queue'[i] = queue[i] /\ queue[i] \in Ctx
  BY SMTT(30) DEF Issue, TypeOK
<1>3. \A i \in 1..Len(queue) : queue[i] # x
  BY DEF QueueInv
<1>4. 1..Len(queue') = 1..Len(queue) \cup {Len(queue) + 1}
  BY <1>1, <1>2, SMTT(30)
<1>5. \A y \in Ctx : (pc[y] \in Queued <=> \E i \in 1..Len(queue) : queue[i] = y)'
  <2> SUFFICES ASSUME NEW y \in Ctx
               PROVE  pc'[y] \in Queued <=> \E i \in 1..Len(queue') : queue'[i] = y
    OBVIOUS
  <2>1. CASE y = x
    BY <1>2, <1>4, <2>1
  <2>2. CASE y # x
    <3>1. (\E i \in 1..Len(queue') : queue'[i] = y) <=> \E i \in 1..Len(queue) : queue[i] = y
      BY <1>2, <1>4, <2>2
    <3> QED
      BY <2>2, <3>1 DEF QueueInv
  <2> QED
    BY <2>1, <2>2
<1>6. \A i, j \in 1..Len(queue') : queue'[i] = queue'[j] => i = j
  BY <1>2, <1>3, <1>4, SMTT(30) DEF QueueInv
<1>7. ASSUME NEW i \in 1..Len(queue')
      PROVE  ticket'[queue'[i]] = Nth(i - 1)'
  <2>1. CASE i \in 1..Len(queue)
    BY <1>2, <1>3, <2>1, SMTT(30) DEF QueueInv, Nth
  <2>2. CASE i = Len(queue) + 1
    <3>1. ticket'[queue'[i]] = Nth(Len(queue)) /\ i - 1 = Len(queue)
      BY <1>1, <1>2, <2>2, SMTT(30) DEF QueueInv
    <3> QED
      BY <3>1 DEF Nth
  <2> QED
    BY <1>4, <2>1, <2>2
<1>8. \A i \in 1..Len(queue') : pc'[queue'[i]] \in Holding => i = 1
  <2>1. \A i \in 1..Len(queue) : pc'[queue'[i]] \in Holding => i = 1
    BY <1>2, <1>3, SMTT(30) DEF QueueInv
  <2>2. pc'[queue'[Len(queue) + 1]] \in Holding => Len(queue) + 1 = 1
    BY <1>2, Groups, SMTT(30)
  <2> QED
    BY <1>4, <2>1, <2>2
<1>9. next' = Nth(Len(queue))'
  BY <1>1, <1>2, SMTT(30) DEF QueueInv, Nth, Issue, Inc, Tickets
<1> QED
  BY <1>5, <1>6, <1>7, <1>8, <1>9 DEF QueueInv

\* The distances of the try_locks under way grow with next, and TryWindow keeps
\* them below Wrap.
LEMMA IssueLag ==
  ASSUME IInv, NEW x \in Ctx, Issue(x), pc'[x] # "cas",
         \A y \in Ctx : y # x => pc'[y] = pc[y] /\ ticket'[y] = ticket[y]
  PROVE  /\ LagInv' /\ lag' \in [Ctx -> Tickets]
         /\ next' \in Tickets /\ queue' \in Seq(Ctx)
<1> USE DEF IInv
<1>1. /\ Wrap \in Nat /\ next \in Tickets /\ lag \in [Ctx -> Tickets] /\ ticket \in [Ctx -> Tickets]
      /\ Len(queue) \in Nat /\ Len(queue) < Wrap /\ Len(queue') = Len(queue) + 1 /\ queue' \in Seq(Ctx)
  BY QueueShort, LockAssumption, SMTT(30) DEF TypeOK, Issue
<1>2. next' \in Tickets
  BY <1>1, SMTT(30) DEF Issue, Inc, Tickets
<1>3. \A y \in Ctx : lag'[y] = IF y # x /\ pc[y] = "cas" THEN lag[y] + 1 ELSE 0
  BY DEF Issue
<1>4. lag' \in [Ctx -> Tickets]
  BY <1>1, SMTT(30) DEF Issue, TryWindow, Tickets
<1>5. LagInv'
  <2> SUFFICES ASSUME NEW y \in Ctx, pc'[y] = "cas"
               PROVE  /\ next' = IF ticket'[y] + lag'[y] < Wrap THEN ticket'[y] + lag'[y] ELSE ticket'[y] + lag'[y] - Wrap
                      /\ Len(queue') <= lag'[y]
    BY DEF LagInv
  <2>1. y # x /\ pc[y] = "cas" /\ ticket'[y] = ticket[y] /\ lag'[y] = lag[y] + 1
    BY <1>3
  <2>2. lag[y] < Wrap - 1 /\ next' = Inc(next)
    BY <2>1 DEF Issue, TryWindow
  <2>3. /\ next = IF ticket[y] + lag[y] < Wrap THEN ticket[y] + lag[y] ELSE ticket[y] + lag[y] - Wrap
        /\ Len(queue) <= lag[y]
    BY <2>1 DEF LagInv
  <2>4. ticket[y] \in Nat /\ lag[y] \in Nat /\ ticket[y] < Wrap
    BY <1>1, SMTT(30) DEF Tickets
  <2>5. Len(queue') <= lag'[y]
    BY <1>1, <2>1, <2>3, <2>4, SMTT(30)
  <2>6. Inc(next) = IF ticket[y] + (lag[y] + 1) < Wrap THEN ticket[y] + (lag[y] + 1) ELSE ticket[y] + (lag[y] + 1) - Wrap
    BY <1>1, <2>2, <2>3, <2>4, SMTT(30) DEF Inc
  <2> QED
    BY <2>1, <2>2, <2>5, <2>6
<1> QED
  BY <1>1, <1>2, <1>4, <1>5

\* lock: fetch_add.
LEMMA TakeStep ==
  ASSUME IInv, NEW x \in Ctx, Take(x)
  PROVE  IInv'
<1> USE DEF IInv
<1>1. /\ pc[x] = "take" /\ pc'[x] = "spin" /\ pc' \in [Ctx -> Pcs]
      /\ \A y \in Ctx : y # x => pc'[y] = pc[y]
  BY Moves, Groups DEF Take, At
<1>2. /\ ticket' \in [Ctx -> Tickets] /\ ticket'[x] = next
      /\ \A y \in Ctx : y # x => ticket'[y] = ticket[y]
  BY DEF Take, TypeOK
<1>3. QueueInv'
  BY <1>1, <1>2, Groups, IssueQueue DEF Take
<1>4. LagInv' /\ lag' \in [Ctx -> Tickets] /\ next' \in Tickets /\ queue' \in Seq(Ctx)
  BY <1>1, <1>2, IssueLag DEF Take
<1>5. TypeOK'
  BY <1>1, <1>2, <1>4 DEF Take, TypeOK
<1>6. ActiveInv' /\ OwnerInv' /\ IrqInv'
  BY <1>1, Groups, ActiveFrame, OwnerFrame, IrqFrame DEF Take
<1> QED
  BY <1>3, <1>4, <1>5, <1>6

\* lock: the spin ends.
LEMMA SpinStep ==
  ASSUME IInv, NEW x \in Ctx, Spin(x)
  PROVE  IInv'
<1> USE DEF IInv
<1>1. /\ pc[x] = "spin" /\ pc'[x] = "granted" /\ pc' \in [Ctx -> Pcs]
      /\ \A y \in Ctx : y # x => pc'[y] = pc[y]
  BY Moves, Groups DEF Spin, At
<1>2. TypeOK'
  BY <1>1 DEF Spin, TypeOK
<1>3. LagInv' /\ ActiveInv' /\ OwnerInv' /\ IrqInv'
  BY <1>1, Groups, LagFrame, ActiveFrame, OwnerFrame, IrqFrame DEF Spin
<1>4. QueueInv'
  <2>1. Len(queue) < Wrap /\ Len(queue) \in Nat /\ \A i \in 1..Len(queue) : queue[i] \in Ctx
    BY QueueShort, SMTT(30) DEF TypeOK
  <2>2. PICK k \in 1..Len(queue) : queue[k] = x
    BY <1>1, Groups DEF QueueInv
  <2>3. serving = Nth(k - 1)
    BY <2>2 DEF Spin, QueueInv
  <2>4. k = 1
    BY <2>1, <2>2, <2>3, LockAssumption, SMTT(30) DEF Nth, TypeOK, Tickets
  <2>5. \A i \in 1..Len(queue) : pc'[queue[i]] \in Holding => i = 1
    BY <1>1, <2>1, <2>2, <2>4, SMTT(30) DEF QueueInv
  <2>6. \A y \in Ctx : pc'[y] \in Queued <=> pc[y] \in Queued
    BY <1>1, Groups
  <2> QED
    BY <2>5, <2>6 DEF QueueInv, Nth, Spin
<1> QED
  BY <1>2, <1>3, <1>4

\* try_lock: serving is loaded; next is as far ahead as the queue is long.
LEMMA LoadStep ==
  ASSUME IInv, NEW x \in Ctx, Load(x)
  PROVE  IInv'
<1> USE DEF IInv
<1>1. /\ pc[x] = "load" /\ pc'[x] = "cas" /\ pc' \in [Ctx -> Pcs]
      /\ \A y \in Ctx : y # x => pc'[y] = pc[y]
  BY Moves, Groups DEF Load, At
<1>2. /\ Wrap \in Nat /\ next \in Tickets /\ serving \in Tickets
      /\ Len(queue) \in Nat /\ Len(queue) < Wrap /\ next = Nth(Len(queue))
  BY QueueShort, LockAssumption, SMTT(30) DEF TypeOK, QueueInv
<1>3. Ahead(next) = Len(queue) /\ Ahead(next) \in Tickets
  BY <1>2, SMTT(30) DEF Ahead, Nth, Tickets
<1>4. /\ ticket' \in [Ctx -> Tickets] /\ ticket'[x] = serving
      /\ lag' \in [Ctx -> Tickets] /\ lag'[x] = Len(queue)
      /\ \A y \in Ctx : y # x => ticket'[y] = ticket[y] /\ lag'[y] = lag[y]
  BY <1>2, <1>3 DEF Load, TypeOK
<1>5. TypeOK'
  BY <1>1, <1>4 DEF Load, TypeOK
<1>6. QueueInv'
  <2>1. \A i \in 1..Len(queue) : queue[i] \in Ctx /\ queue[i] # x
    BY <1>1, Groups, SMTT(30) DEF QueueInv, TypeOK
  <2>2. \A i \in 1..Len(queue) : ticket'[queue[i]] = ticket[queue[i]] /\ pc'[queue[i]] = pc[queue[i]]
    BY <1>1, <1>4, <2>1
  <2>3. \A y \in Ctx : pc'[y] \in Queued <=> pc[y] \in Queued
    BY <1>1, Groups
  <2> QED
    BY <2>2, <2>3 DEF QueueInv, Nth, Load
<1>7. LagInv'
  <2> SUFFICES ASSUME NEW y \in Ctx, pc'[y] = "cas"
               PROVE  /\ next' = IF ticket'[y] + lag'[y] < Wrap THEN ticket'[y] + lag'[y] ELSE ticket'[y] + lag'[y] - Wrap
                      /\ Len(queue') <= lag'[y]
    BY DEF LagInv
  <2>1. CASE y = x
    BY <1>2, <1>4, <2>1, SMTT(30) DEF Load, Nth
  <2>2. CASE y # x
    BY <1>1, <1>4, <2>2 DEF Load, LagInv
  <2> QED
    BY <2>1, <2>2
<1>8. ActiveInv' /\ OwnerInv' /\ IrqInv'
  BY <1>1, Groups, ActiveFrame, OwnerFrame, IrqFrame DEF Load
<1> QED
  BY <1>5, <1>6, <1>7, <1>8

\* try_lock: the compare-exchange succeeds only when no ticket is out.
LEMMA CasStep ==
  ASSUME IInv, NEW x \in Ctx, Cas(x)
  PROVE  IInv'
<1> USE DEF IInv
<1>1. CASE next = ticket[x] /\ Issue(x) /\ Goto(x, "granted")
  <2>1. /\ pc[x] = "cas" /\ pc'[x] = "granted" /\ pc' \in [Ctx -> Pcs]
        /\ \A y \in Ctx : y # x => pc'[y] = pc[y]
    BY <1>1, Moves, Groups DEF Cas, At
  <2>2. /\ next \in Tickets /\ Wrap \in Nat /\ Len(queue) \in Nat /\ queue \in Seq(Ctx)
        /\ ticket \in [Ctx -> Tickets] /\ lag \in [Ctx -> Tickets]
    BY LockAssumption, SMTT(30) DEF TypeOK
  <2>3. lag[x] = 0
    BY <1>1, <2>1, <2>2, SMTT(30) DEF LagInv, Tickets
  <2>4. Len(queue) = 0
    BY <2>1, <2>2, <2>3, SMTT(30) DEF LagInv
  <2>5. queue = <<>>
    BY <2>2, <2>4, EmptySeq
  <2>6. QueueInv'
    BY <1>1, <2>1, <2>2, <2>5, Groups, IssueQueue DEF Cas
  <2>7. LagInv' /\ lag' \in [Ctx -> Tickets] /\ next' \in Tickets /\ queue' \in Seq(Ctx)
    BY <1>1, <2>1, IssueLag DEF Cas
  <2>8. TypeOK'
    BY <2>1, <2>7 DEF Cas, TypeOK
  <2>9. ActiveInv' /\ OwnerInv' /\ IrqInv'
    BY <2>1, Groups, ActiveFrame, OwnerFrame, IrqFrame DEF Cas
  <2> QED
    BY <2>6, <2>7, <2>8, <2>9
<1>2. CASE UNCHANGED <<next, lag, queue>> /\ Goto(x, "refused")
  <2>1. /\ pc[x] = "cas" /\ pc'[x] = "refused" /\ pc' \in [Ctx -> Pcs]
        /\ \A y \in Ctx : y # x => pc'[y] = pc[y]
    BY <1>2, Moves, Groups DEF Cas, At
  <2>2. TypeOK'
    BY <1>2, <2>1 DEF Cas, TypeOK
  <2>3. QueueInv' /\ LagInv' /\ ActiveInv' /\ OwnerInv' /\ IrqInv'
    BY <1>2, <2>1, Groups, QueueFrame, LagFrame, ActiveFrame, OwnerFrame, IrqFrame DEF Cas
  <2> QED
    BY <2>2, <2>3
<1> QED
  BY <1>1, <1>2 DEF Cas

\* try_lock returns WouldBlock, and a guard's drop leaves the lock: the CPU is
\* no longer active.
LEMMA InactiveStep ==
  ASSUME IInv, NEW x \in Ctx, Refused(x) \/ Leave(x)
  PROVE  IInv'
<1> USE DEF IInv
<1>1. /\ pc[x] \in {"refused", "leave"} /\ pc'[x] = "restore" /\ pc' \in [Ctx -> Pcs]
      /\ \A y \in Ctx : y # x => pc'[y] = pc[y]
      /\ active' = active \ {Cpu(x)}
      /\ UNCHANGED <<next, serving, owner, ticket, irq, state, lag, queue>>
  BY Moves, Groups DEF Refused, Leave, At
<1>2. TypeOK'
  BY <1>1 DEF TypeOK
<1>3. QueueInv' /\ LagInv' /\ OwnerInv' /\ IrqInv'
  BY <1>1, Groups, QueueFrame, LagFrame, OwnerFrame, IrqFrame
<1>4. ActiveInv'
  BY <1>1, Groups, Contexts, SMTT(30) DEF ActiveInv, NoSelfWait
<1> QED
  BY <1>2, <1>3, <1>4

\* granted: the holder writes its name; no other context is "held".
LEMMA GrantedStep ==
  ASSUME IInv, NEW x \in Ctx, Granted(x)
  PROVE  IInv'
<1> USE DEF IInv
<1>1. /\ pc[x] = "granted" /\ pc'[x] = "held" /\ pc' \in [Ctx -> Pcs]
      /\ \A y \in Ctx : y # x => pc'[y] = pc[y]
  BY Moves, Groups DEF Granted, At
<1>2. TypeOK'
  BY <1>1, Contexts DEF Granted, TypeOK
<1>3. QueueInv' /\ LagInv' /\ ActiveInv' /\ IrqInv'
  BY <1>1, Groups, QueueFrame, LagFrame, ActiveFrame, IrqFrame DEF Granted
<1>4. OwnerInv'
  <2>1. \A y \in Ctx : pc'[y] = "held" => y = x
    BY <1>1, Exclusive, Groups DEF MutualExclusion
  <2> QED
    BY <1>1, <2>1, Contexts DEF Granted, OwnerInv
<1> QED
  BY <1>2, <1>3, <1>4

\* drop: serving moves on to the ticket of the second in the queue.
LEMMA ServeStep ==
  ASSUME IInv, NEW x \in Ctx, Serve(x)
  PROVE  IInv'
<1> USE DEF IInv
<1>1. /\ pc[x] = "held" /\ pc'[x] = "disown" /\ pc' \in [Ctx -> Pcs]
      /\ \A y \in Ctx : y # x => pc'[y] = pc[y]
  BY Moves, Groups DEF Serve, At
<1>2. /\ Wrap \in Nat /\ Wrap > 0 /\ serving \in Tickets /\ Len(queue) \in Nat /\ Len(queue) < Wrap
      /\ queue \in Seq(Ctx) /\ \A i \in 1..Len(queue) : queue[i] \in Ctx
  BY QueueShort, LockAssumption, SMTT(30) DEF TypeOK
<1>3. Len(queue) > 0 /\ queue[1] = x /\ ticket[x] = serving
  <2>1. PICK k \in 1..Len(queue) : queue[k] = x
    BY <1>1, Groups DEF QueueInv
  <2>2. k = 1
    BY <1>1, <2>1, Groups DEF QueueInv
  <2>3. ticket[x] = Nth(0)
    BY <2>1, <2>2, SMTT(30) DEF QueueInv
  <2> QED
    BY <1>2, <2>1, <2>2, <2>3, SMTT(30) DEF Nth, Tickets
<1>4. serving' = Inc(serving) /\ serving' \in Tickets
  BY <1>2, <1>3, SMTT(30) DEF Serve, Inc, Tickets
<1>5. queue' \in Seq(Ctx) /\ Len(queue') = Len(queue) - 1 /\ \A i \in 1..Len(queue') : queue'[i] = queue[i + 1]
  <2>1. queue # <<>> /\ queue' = Tail(queue)
    BY <1>2, <1>3, EmptySeq, SMTT(30) DEF Serve
  <2> QED
    BY <1>2, <1>3, <2>1, HeadTailProperties
<1>6. TypeOK'
  BY <1>1, <1>4, <1>5 DEF Serve, TypeOK
<1>7. QueueInv'
  <2>1. \A k \in 0..Len(queue') : Nth(k)' = Nth(k + 1)
    BY <1>2, <1>3, <1>4, <1>5, SMTT(30) DEF Nth, Inc, Tickets
  <2>2. \A i \in 1..Len(queue') : queue'[i] \in Ctx /\ i + 1 \in 1..Len(queue) /\ queue'[i] # x
    BY <1>2, <1>3, <1>5, SMTT(30) DEF QueueInv
  <2>3. ASSUME NEW y \in Ctx
        PROVE  pc'[y] \in Queued <=> \E i \in 1..Len(queue') : queue'[i] = y
    <3>1. CASE y = x
      BY <1>1, <2>2, <3>1, Groups
    <3>2. CASE y # x
      <4>1. (\E i \in 1..Len(queue') : queue'[i] = y) <=> \E i \in 1..Len(queue) : queue[i] = y
        <5>1. ASSUME NEW i \in 1..Len(queue), queue[i] = y
              PROVE  i - 1 \in 1..Len(queue') /\ queue'[i - 1] = y
          BY <1>2, <1>3, <1>5, <3>2, <5>1, SMTT(30)
        <5>2. ASSUME NEW i \in 1..Len(queue'), queue'[i] = y
              PROVE  i + 1 \in 1..Len(queue) /\ queue[i + 1] = y
          BY <1>5, <2>2, <5>2
        <5> QED
          BY <5>1, <5>2
      <4> QED
        BY <1>1, <3>2, <4>1 DEF QueueInv
    <3> QED
      BY <3>1, <3>2
  <2>4. \A i, j \in 1..Len(queue') : queue'[i] = queue'[j] => i = j
    <3> SUFFICES ASSUME NEW i \in 1..Len(queue'), NEW j \in 1..Len(queue'), queue'[i] = queue'[j]
                 PROVE  i = j
      OBVIOUS
    <3>1. i + 1 = j + 1
      BY <1>5, <2>2, SMTT(30) DEF QueueInv
    <3> QED
      BY <3>1, SMTT(30)
  <2>5. ASSUME NEW i \in 1..Len(queue')
        PROVE  ticket'[queue'[i]] = Nth(i - 1)'
    <3>1. ticket'[queue'[i]] = Nth(i + 1 - 1)
      BY <1>5, <2>2, SMTT(30) DEF Serve, QueueInv
    <3>2. i - 1 \in 0..Len(queue') /\ i - 1 + 1 = i + 1 - 1
      BY <1>2, <1>5, SMTT(30)
    <3> QED
      BY <2>1, <3>1, <3>2 DEF Nth
  <2>6. \A i \in 1..Len(queue') : pc'[queue'[i]] \in Holding => i = 1
    <3> SUFFICES ASSUME NEW i \in 1..Len(queue'), pc'[queue'[i]] \in Holding
                 PROVE  FALSE
      OBVIOUS
    <3>1. pc[queue[i + 1]] \in Holding
      BY <1>1, <1>5, <2>2
    <3>2. i + 1 = 1
      BY <2>2, <3>1 DEF QueueInv
    <3> QED
      BY <3>2, SMTT(30)
  <2>7. next' = Nth(Len(queue))'
    BY <1>2, <1>3, <1>4, <1>5, SMTT(30) DEF Serve, QueueInv, Nth, Inc, Tickets
  <2> QED
    BY <2>3, <2>4, <2>5, <2>6, <2>7 DEF QueueInv
<1>8. LagInv'
  BY <1>1, <1>2, <1>5, SMTT(30) DEF LagInv, Serve, TypeOK, Tickets
<1>9. ActiveInv' /\ OwnerInv' /\ IrqInv'
  BY <1>1, Groups, ActiveFrame, OwnerFrame, IrqFrame DEF Serve
<1> QED
  BY <1>6, <1>7, <1>8, <1>9

\* drop: the compare-exchange erases the owner only if it is still this CPU,
\* and no other context of this CPU holds the lock.
LEMMA DisownStep ==
  ASSUME IInv, NEW x \in Ctx, Disown(x)
  PROVE  IInv'
<1> USE DEF IInv
<1>1. /\ pc[x] = "disown" /\ pc'[x] = "leave" /\ pc' \in [Ctx -> Pcs]
      /\ \A y \in Ctx : y # x => pc'[y] = pc[y]
  BY Moves, Groups DEF Disown, At
<1>2. TypeOK'
  BY <1>1 DEF Disown, TypeOK
<1>3. QueueInv' /\ LagInv' /\ ActiveInv' /\ IrqInv'
  BY <1>1, Groups, QueueFrame, LagFrame, ActiveFrame, IrqFrame DEF Disown
<1>4. OwnerInv'
  <2>1. ASSUME NEW y \in Ctx, pc'[y] = "held"
        PROVE  owner' = Cpu(y)
    <3>1. y # x /\ pc[y] = "held" /\ owner = Cpu(y)
      BY <1>1, <2>1 DEF OwnerInv
    <3>2. Cpu(y) # Cpu(x)
      BY <1>1, <3>1, Contexts, Groups DEF ActiveInv, NoSelfWait
    <3> QED
      BY <3>1, <3>2 DEF Disown
  <2>2. ASSUME owner' # NoOwner
        PROVE  pc'[<<owner', "task">>] \in {"held", "disown"} \/ pc'[<<owner', "nmi">>] \in {"held", "disown"}
    <3>1. owner' = owner /\ owner \in Cpus /\ owner # Cpu(x)
      BY <2>2, Contexts, LockAssumption DEF Disown, TypeOK
    <3>2. <<owner, "task">> # x /\ <<owner, "nmi">> # x
      BY <3>1, SMTT(30) DEF Cpu
    <3> QED
      BY <1>1, <2>2, <3>1, <3>2, Contexts DEF OwnerInv
  <2> QED
    BY <2>1, <2>2 DEF OwnerInv
<1> QED
  BY <1>2, <1>3, <1>4

\* The saved IRQ state comes back: a handler's is that of the code it
\* interrupted, and that code is not running while the handler is.
LEMMA RestoreStep ==
  ASSUME IInv, NEW x \in Ctx, Restore(x)
  PROVE  IInv'
<1> USE DEF IInv
<1>1. /\ pc[x] = "restore" /\ pc'[x] = "idle" /\ pc' \in [Ctx -> Pcs]
      /\ \A y \in Ctx : y # x => pc'[y] = pc[y]
  BY Moves, Groups DEF Restore, At
<1>2. TypeOK'
  BY <1>1, Contexts DEF Restore, TypeOK
<1>3. QueueInv' /\ LagInv' /\ ActiveInv' /\ OwnerInv'
  BY <1>1, Groups, QueueFrame, LagFrame, ActiveFrame, OwnerFrame DEF Restore
<1>4. IrqInv'
  <2>1. /\ irq \in [Cpus -> BOOLEAN] /\ state \in [Ctx -> BOOLEAN]
        /\ irq' = [irq EXCEPT ![Cpu(x)] = state[x]] /\ state' = state
    BY DEF Restore, TypeOK
  <2>2. x = <<Cpu(x), "task">> => pc[<<Cpu(x), "nmi">>] = "idle"
    BY SMTT(30) DEF Restore, At, Runs
  <2> SUFFICES ASSUME NEW c \in Cpus
               PROVE  IrqInv!(c)'
    BY DEF IrqInv
  <2>3. CASE c # Cpu(x)
    BY <1>1, <2>1, <2>3, Contexts, SMTT(30) DEF IrqInv
  <2>4. CASE c = Cpu(x) /\ x = <<c, "task">>
    BY <1>1, <2>1, <2>2, <2>4, Contexts DEF IrqInv
  <2>5. CASE c = Cpu(x) /\ x = <<c, "nmi">>
    BY <1>1, <2>1, <2>5, Contexts DEF IrqInv
  <2> QED
    BY <2>3, <2>4, <2>5, Contexts
<1> QED
  BY <1>2, <1>3, <1>4

----------------------------------------------------------------------------
(* The theorems.                                                           *)

\* The invariant holds when the lock is created.
LEMMA InitIInv == Init => IInv
<1> SUFFICES ASSUME Init PROVE IInv
  OBVIOUS
<1>1. 0 \in Tickets
  BY LockAssumption, FS_CardinalityType, SMTT(30) DEF Tickets
<1>2. TypeOK
  BY <1>1, Groups, SMTT(30) DEF Init, TypeOK
<1>3. \A x \in Ctx : pc[x] = "idle"
  BY DEF Init
<1>4. Len(queue) = 0 /\ next = Nth(0)
  BY <1>1, LockAssumption, SMTT(30) DEF Init, Nth, Tickets
<1>5. QueueInv /\ LagInv /\ ActiveInv /\ OwnerInv
  BY <1>3, <1>4, Groups, Contexts, SMTT(30) DEF Init, QueueInv, LagInv, ActiveInv, NoSelfWait, OwnerInv
<1>6. IrqInv
  BY <1>3, Contexts DEF Init, IrqInv
<1> QED
  BY <1>2, <1>5, <1>6 DEF IInv

\* Every access of the lock preserves the invariant.
LEMMA NextIInv == IInv /\ [Next]_vars => IInv'
<1> SUFFICES ASSUME IInv, [Next]_vars PROVE IInv'
  OBVIOUS
<1>1. CASE Next
  <2>1. PICK x \in Ctx : Enter(x) \/ Step(x)
    BY <1>1 DEF Next
  <2> QED
    BY <2>1, EnterStep, ClaimStep, TakeStep, SpinStep, LoadStep, CasStep, InactiveStep,
       GrantedStep, ServeStep, DisownStep, RestoreStep DEF Step
<1>2. CASE UNCHANGED vars
  BY <1>2 DEF vars, IInv, TypeOK, QueueInv, Nth, LagInv, ActiveInv, NoSelfWait, OwnerInv, IrqInv
<1> QED
  BY <1>1, <1>2

\* The invariant holds in every state of every behaviour of the lock.
LEMMA Invariance == Spec => []IInv
BY InitIInv, NextIInv, PTL DEF Spec

\* At most one guard exists, for any number of CPUs and whatever the handlers
\* do: the SAFETY argument of the Sync impl of the lock.
THEOREM Exclusion == Spec => []MutualExclusion
<1>1. IInv => MutualExclusion
  BY Exclusive DEF IInv
<1> QED
  BY <1>1, Invariance, PTL

\* The words keep their width, no handler waits behind the context it
\* interrupted (claim_cpu), the diagnostic owner is the holder, and IRQs are off
\* exactly from the claim to the end of the release (lock, try_lock, drop).
THEOREM ContextsAreSound == Spec => []ContextsSound
<1>1. ASSUME IInv PROVE OwnerTruthful
  <2>1. owner # NoOwner => owner \in active
    BY <1>1, Groups DEF IInv, OwnerInv, ActiveInv, TypeOK
  <2> QED
    BY <1>1, <2>1 DEF OwnerTruthful, IInv, OwnerInv
<1>2. IInv => IrqsRestored
  BY DEF IInv, IrqInv, IrqsRestored
<1>3. IInv => ContextsSound
  BY <1>1, <1>2 DEF IInv, ActiveInv, ContextsSound
<1> QED
  BY <1>3, Invariance, PTL

\* lock and try_lock grant the lock in the order of the tickets, across the wrap
\* of both counters.
THEOREM GrantsAreFifo == Spec => Fifo
<1>1. IInv' => \A x \in Ctx : pc[x] # "granted" /\ pc'[x] = "granted" => x = Head(queue')
  <2> SUFFICES ASSUME IInv', NEW x \in Ctx, pc'[x] = "granted"
               PROVE  x = Head(queue')
    OBVIOUS
  <2>1. PICK i \in 1..Len(queue') : queue'[i] = x
    BY Groups DEF IInv, QueueInv
  <2>2. i = 1
    BY <2>1, Groups DEF IInv, QueueInv
  <2>3. queue' \in Seq(Ctx)
    BY DEF IInv, TypeOK
  <2> QED
    BY <2>1, <2>2, <2>3, SMTT(30)
<1> QED
  BY <1>1, Invariance, PTL DEF Fifo
=============================================================================
