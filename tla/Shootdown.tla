------------------------------ MODULE Shootdown ------------------------------
(***************************************************************************)
(* The TLB shootdown protocol of crates/hw-smp/src/shootdown.rs.           *)
(*                                                                         *)
(* Every CPU runs one main context, which unmaps pages, initiates          *)
(* shootdowns and goes on and off line, and two contexts that service      *)
(* requests: "irq", the IPI handler, which interrupts the main context,    *)
(* and "spin", the call of service in the loops of start and wait and in   *)
(* mark_offline.  Each atomic access is a step (the fences of the code     *)
(* give the order of the steps; start and length of a range are one word). *)
(*                                                                         *)
(* A page has one frame.  tlb[c] is the set of pages CPU c has cached      *)
(* translations of; the hardware may cache a mapped page at any time, even *)
(* on a CPU that is off line.  Shootdowns target all CPUs.                 *)
(***************************************************************************)
EXTENDS Integers, FiniteSets

CONSTANTS
    Cpus, Pages,
    Requests,       \* sets of pages; the set of all pages is FlushRequest::All,
                    \* the empty set a range that holds none of the pages
    Masked,         \* initiators run with the IPI masked
    Timeouts,       \* waits may time out
    MaxGen,         \* bound: shootdowns started
    MaxHotplug      \* bound: CPUs going off line

ASSUME ShootdownAssumption ==
    /\ IsFiniteSet(Cpus) /\ Requests \subseteq SUBSET Pages
    /\ Masked \in BOOLEAN /\ Timeouts \in BOOLEAN
    /\ MaxGen \in Nat /\ MaxHotplug \in Nat

VARIABLES
    busy, lastGen, seq, reqGen, req,            \* struct ShootdownDomain
    pending, acked, online, initiating,         \* its CpuSlots
    ipi,            \* the IPI is raised and not yet taken
    mapped, tlb,    \* page table; cached translations
    pc, gen, arg, waiting, todo,    \* main contexts: position, generation,
                                    \* request or page, wait set, targets left
    svc, reg,       \* service contexts: position and local variables
    retired,        \* retired[p]: the RetiredFrame of p, or None
    tokens,         \* ShootdownComplete tokens
    released,       \* pages whose frame has been given back
    hotplugs

domain == <<busy, lastGen, seq, reqGen, req, pending, acked, online, initiating, ipi>>
mainVars == <<pc, gen, arg, waiting, todo>>
svcVars == <<svc, reg>>
frames == <<retired, tokens, released>>
vars == <<domain, mapped, tlb, mainVars, svcVars, frames, hotplugs>>

None == [cpu |-> "none"]
Levels == {"irq", "spin"}
ServiceCtx == Cpus \X Levels

\* The main context runs when no service context of its CPU does.
MainAt(c, p) == pc[c] = p /\ \A l \in Levels : svc[<<c, l>>] = "idle"
Goto(c, p) == pc' = [pc EXCEPT ![c] = p]

Init ==
    /\ busy = FALSE /\ lastGen = 0 /\ seq = 0 /\ reqGen = 0 /\ req = {}
    /\ pending = [c \in Cpus |-> 0] /\ acked = [c \in Cpus |-> 0]
    /\ online = [c \in Cpus |-> FALSE] /\ initiating = [c \in Cpus |-> FALSE]
    /\ ipi = [c \in Cpus |-> FALSE]
    /\ mapped = Pages /\ tlb = [c \in Cpus |-> {}]
    /\ pc = [c \in Cpus |-> "off"] /\ gen = [c \in Cpus |-> 0] /\ arg = [c \in Cpus |-> {}]
    /\ waiting = [c \in Cpus |-> {}] /\ todo = [c \in Cpus |-> {}]
    /\ svc = [x \in ServiceCtx |-> "idle"]
    /\ reg = [x \in ServiceCtx |-> [pending |-> 0, seq |-> 0, gen |-> 0, req |-> {}]]
    /\ retired = [p \in Pages |-> None] /\ tokens = {} /\ released = {}
    /\ hotplugs = 0
----------------------------------------------------------------------------
\* The hardware caches the translation of a mapped page.
Fill(c) ==
    /\ \E p \in mapped \ tlb[c] : tlb' = [tlb EXCEPT ![c] = @ \cup {p}]
    /\ UNCHANGED <<domain, mapped, mainVars, svcVars, frames, hotplugs>>

\* mark_online: the flag, then the flush, before any translation is used.
MarkOnline(c) ==
    /\ MainAt(c, "off")
    /\ online' = [online EXCEPT ![c] = TRUE] /\ Goto(c, "onlining")
    /\ UNCHANGED <<busy, lastGen, seq, reqGen, req, pending, acked, initiating, ipi, mapped, tlb,
                   gen, arg, waiting, todo, svcVars, frames, hotplugs>>

\* BROKEN: mark_online publishes the flag and does not flush.
OnlineNoFlush(c) ==
    /\ MainAt(c, "onlining")
    /\ Goto(c, "idle")
    /\ UNCHANGED <<domain, mapped, tlb, gen, arg, waiting, todo, svcVars, frames, hotplugs>>

OnlineFlush(c) ==
    /\ MainAt(c, "onlining")
    /\ tlb' = [tlb EXCEPT ![c] = {}] /\ Goto(c, "idle")
    /\ UNCHANGED <<domain, mapped, gen, arg, waiting, todo, svcVars, frames, hotplugs>>

\* mark_offline: the flag, then service until nothing is pending.
MarkOffline(c) ==
    /\ MainAt(c, "idle") /\ hotplugs < MaxHotplug /\ hotplugs' = hotplugs + 1
    /\ online' = [online EXCEPT ![c] = FALSE] /\ Goto(c, "offlining")
    /\ UNCHANGED <<busy, lastGen, seq, reqGen, req, pending, acked, initiating, ipi, mapped, tlb,
                   gen, arg, waiting, todo, svcVars, frames>>

Offline(c) ==
    /\ MainAt(c, "offlining") /\ pending[c] <= acked[c]
    /\ Goto(c, "off")
    /\ UNCHANGED <<domain, mapped, tlb, gen, arg, waiting, todo, svcVars, frames, hotplugs>>
----------------------------------------------------------------------------
(***************************************************************************)
(* service                                                                 *)
(***************************************************************************)
SvcGoto(x, p) == svc' = [svc EXCEPT ![x] = p]
SvcAt(x, p) == svc[x] = p /\ (x[2] = "spin" => svc[<<x[1], "irq">>] = "idle")

\* Where the IPI may be taken, and where the main context calls service.
CanInterrupt(c) == pc[c] \in {"idle", "retire", "offlining"} \/ (~Masked /\ pc[c] \notin {"off", "onlining"})
\* BROKEN: the loop for the slot does not service requests.
InLoopNoSlot(c) == pc[c] = "wait" \/ pc[c] = "offlining"

InLoop(c) == pc[c] = "wait" \/ (pc[c] = "slot" /\ busy) \/ pc[c] = "offlining"

\* Entry: the IPI handler runs; the loop calls service when there is a request
\* to find (when there is none the call changes nothing).
ServiceIrq(c) ==
    /\ ipi[c] /\ CanInterrupt(c) /\ svc[<<c, "irq">>] = "idle"
    /\ ipi' = [ipi EXCEPT ![c] = FALSE] /\ SvcGoto(<<c, "irq">>, "load")
    /\ UNCHANGED <<busy, lastGen, seq, reqGen, req, pending, acked, online, initiating,
                   mapped, tlb, mainVars, reg, frames, hotplugs>>

ServiceSpin(c) ==
    /\ InLoop(c) /\ pending[c] > acked[c] /\ \A l \in Levels : svc[<<c, l>>] = "idle"
    /\ SvcGoto(<<c, "spin">>, "load")
    /\ UNCHANGED <<domain, mapped, tlb, mainVars, reg, frames, hotplugs>>

\* pending and acked are loaded; the loop of service ends here.
SvcLoad(x) ==
    /\ SvcAt(x, "load")
    /\ \/ pending[x[1]] <= acked[x[1]] /\ SvcGoto(x, "idle") /\ UNCHANGED reg
       \/ /\ pending[x[1]] > acked[x[1]] /\ SvcGoto(x, "seq1")
          /\ reg' = [reg EXCEPT ![x].pending = pending[x[1]]]
    /\ UNCHANGED <<domain, mapped, tlb, mainVars, frames, hotplugs>>

\* The seqlock: seq, the request in two loads, seq again.
SvcSeq1(x) ==
    /\ SvcAt(x, "seq1") /\ SvcGoto(x, "gen")
    /\ reg' = [reg EXCEPT ![x].seq = seq]
    /\ UNCHANGED <<domain, mapped, tlb, mainVars, frames, hotplugs>>

SvcGen(x) ==
    /\ SvcAt(x, "gen") /\ SvcGoto(x, "req")
    /\ reg' = [reg EXCEPT ![x].gen = reqGen]
    /\ UNCHANGED <<domain, mapped, tlb, mainVars, frames, hotplugs>>

SvcReq(x) ==
    /\ SvcAt(x, "req") /\ SvcGoto(x, "flush")
    /\ reg' = [reg EXCEPT ![x].req = req]
    /\ UNCHANGED <<domain, mapped, tlb, mainVars, frames, hotplugs>>

Consistent(x) ==
    /\ reg[x].seq = seq /\ seq % 2 = 0
    /\ reg[x].gen = reg[x].pending

\* Flush the range, or everything if the request read is torn or newer.
SvcFlush(x) ==
    /\ SvcAt(x, "flush") /\ SvcGoto(x, "ack")
    /\ tlb' = [tlb EXCEPT ![x[1]] = IF Consistent(x) THEN @ \ reg[x].req ELSE {}]
    /\ UNCHANGED <<domain, mapped, mainVars, reg, frames, hotplugs>>

\* acked.fetch_max(pending), and again.
SvcAck(x) ==
    /\ SvcAt(x, "ack") /\ SvcGoto(x, "load")
    /\ acked' = [acked EXCEPT ![x[1]] = IF reg[x].pending > @ THEN reg[x].pending ELSE @]
    /\ reg' = [reg EXCEPT ![x] = [pending |-> 0, seq |-> 0, gen |-> 0, req |-> {}]]
    /\ UNCHANGED <<busy, lastGen, seq, reqGen, req, pending, online, initiating, ipi, mapped, tlb,
                   mainVars, frames, hotplugs>>

Service(x) == SvcLoad(x) \/ SvcSeq1(x) \/ SvcGen(x) \/ SvcReq(x) \/ SvcFlush(x) \/ SvcAck(x)
----------------------------------------------------------------------------
(***************************************************************************)
(* The caller: clear the page-table entry, then retire the frame.          *)
(***************************************************************************)
Unmap(c) ==
    /\ MainAt(c, "idle")
    /\ \E p \in mapped : mapped' = mapped \ {p} /\ arg' = [arg EXCEPT ![c] = {p}]
    /\ Goto(c, "retire")
    /\ UNCHANGED <<domain, tlb, gen, waiting, todo, svcVars, frames, hotplugs>>

\* RetiredFrame::retire
Retire(c) ==
    /\ MainAt(c, "retire")
    /\ retired' = [p \in Pages |-> IF p \in arg[c] THEN [cpu |-> c, after |-> lastGen] ELSE retired[p]]
    /\ arg' = [arg EXCEPT ![c] = {}] /\ Goto(c, "idle")
    /\ UNCHANGED <<domain, mapped, tlb, gen, waiting, todo, svcVars, tokens, released, hotplugs>>

\* RetiredFrame::release, which takes any token by reference.
Release(p) ==
    /\ retired[p] # None
    /\ \E t \in tokens : t.cpu = retired[p].cpu /\ t.gen > retired[p].after /\ p \in t.req
    /\ released' = released \cup {p} /\ retired' = [retired EXCEPT ![p] = None]
    /\ UNCHANGED <<domain, mapped, tlb, mainVars, svcVars, tokens, hotplugs>>
----------------------------------------------------------------------------
(***************************************************************************)
(* start: claim the initiating flag and the slot                           *)
(***************************************************************************)
Start(c) ==
    /\ MainAt(c, "idle") /\ ~initiating[c]
    /\ lastGen + Cardinality({d \in Cpus : pc[d] \in {"slot", "gen"}}) < MaxGen
    /\ \E r \in Requests : arg' = [arg EXCEPT ![c] = r]
    /\ initiating' = [initiating EXCEPT ![c] = TRUE] /\ Goto(c, "slot")
    /\ UNCHANGED <<busy, lastGen, seq, reqGen, req, pending, acked, online, ipi, mapped, tlb,
                   gen, waiting, todo, svcVars, frames, hotplugs>>

Acquire(c) ==
    /\ MainAt(c, "slot") /\ ~busy
    /\ busy' = TRUE /\ Goto(c, "gen")
    /\ UNCHANGED <<lastGen, seq, reqGen, req, pending, acked, online, initiating, ipi, mapped, tlb,
                   gen, arg, waiting, todo, svcVars, frames, hotplugs>>

\* BROKEN: the timeout leaves the initiating flag set.
SlotTimeoutLeaves(c) ==
    /\ Timeouts /\ MainAt(c, "slot")
    /\ arg' = [arg EXCEPT ![c] = {}] /\ Goto(c, "idle")
    /\ UNCHANGED <<busy, lastGen, seq, reqGen, req, pending, acked, online, initiating, ipi, mapped, tlb,
                   gen, waiting, todo, svcVars, frames, hotplugs>>

SlotTimeout(c) ==
    /\ Timeouts /\ MainAt(c, "slot")
    /\ initiating' = [initiating EXCEPT ![c] = FALSE]
    /\ arg' = [arg EXCEPT ![c] = {}] /\ Goto(c, "idle")
    /\ UNCHANGED <<busy, lastGen, seq, reqGen, req, pending, acked, online, ipi, mapped, tlb,
                   gen, waiting, todo, svcVars, frames, hotplugs>>

\* The next generation, and the request under the seqlock.
NextGen(c) ==
    /\ MainAt(c, "gen")
    /\ gen' = [gen EXCEPT ![c] = lastGen + 1] /\ lastGen' = lastGen + 1 /\ Goto(c, "odd")
    /\ UNCHANGED <<busy, seq, reqGen, req, pending, acked, online, initiating, ipi, mapped, tlb,
                   arg, waiting, todo, svcVars, frames, hotplugs>>

SeqOdd(c) ==
    /\ MainAt(c, "odd") /\ seq' = seq + 1 /\ Goto(c, "reqgen")
    /\ UNCHANGED <<busy, lastGen, reqGen, req, pending, acked, online, initiating, ipi, mapped, tlb,
                   gen, arg, waiting, todo, svcVars, frames, hotplugs>>

WriteGen(c) ==
    /\ MainAt(c, "reqgen") /\ reqGen' = gen[c] /\ Goto(c, "req")
    /\ UNCHANGED <<busy, lastGen, seq, req, pending, acked, online, initiating, ipi, mapped, tlb,
                   gen, arg, waiting, todo, svcVars, frames, hotplugs>>

WriteReq(c) ==
    /\ MainAt(c, "req") /\ req' = arg[c] /\ Goto(c, "even")
    /\ UNCHANGED <<busy, lastGen, seq, reqGen, pending, acked, online, initiating, ipi, mapped, tlb,
                   gen, arg, waiting, todo, svcVars, frames, hotplugs>>

SeqEven(c) ==
    /\ MainAt(c, "even") /\ seq' = seq + 1
    /\ todo' = [todo EXCEPT ![c] = Cpus \ {c}] /\ Goto(c, "scan")
    /\ UNCHANGED <<busy, lastGen, reqGen, req, pending, acked, online, initiating, ipi, mapped, tlb,
                   gen, arg, waiting, svcVars, frames, hotplugs>>
----------------------------------------------------------------------------
(***************************************************************************)
(* start: read the online flags, publish, flush locally                    *)
(***************************************************************************)
Scan(c) ==
    /\ MainAt(c, "scan")
    /\ \/ \E t \in todo[c] :
            /\ todo' = [todo EXCEPT ![c] = @ \ {t}]
            /\ waiting' = [waiting EXCEPT ![c] = IF online[t] THEN @ \cup {t} ELSE @]
            /\ UNCHANGED pc
       \/ /\ todo[c] = {} /\ todo' = [todo EXCEPT ![c] = waiting[c]]
          /\ Goto(c, "publish") /\ UNCHANGED waiting
    /\ UNCHANGED <<domain, mapped, tlb, gen, arg, svcVars, frames, hotplugs>>

\* pending.store, of one target
Publish(c) ==
    /\ MainAt(c, "publish")
    /\ \E t \in todo[c] : pending' = [pending EXCEPT ![t] = gen[c]]
                          /\ pc' = [pc EXCEPT ![c] = "ipi"]
    /\ UNCHANGED <<busy, lastGen, seq, reqGen, req, acked, online, initiating, ipi, mapped, tlb,
                   gen, arg, waiting, todo, svcVars, frames, hotplugs>>

\* send_ipi, to the target just published to
SendIpi(c) ==
    /\ MainAt(c, "ipi")
    /\ \E t \in todo[c] :
        /\ pending[t] = gen[c]
        /\ ipi' = [ipi EXCEPT ![t] = TRUE] /\ todo' = [todo EXCEPT ![c] = @ \ {t}]
    /\ Goto(c, "publish")
    /\ UNCHANGED <<busy, lastGen, seq, reqGen, req, pending, acked, online, initiating, mapped, tlb,
                   gen, arg, waiting, svcVars, frames, hotplugs>>

LocalFlush(c) ==
    /\ MainAt(c, "publish") /\ todo[c] = {}
    /\ tlb' = [tlb EXCEPT ![c] = @ \ arg[c]] /\ Goto(c, "wait")
    /\ UNCHANGED <<domain, mapped, gen, arg, waiting, todo, svcVars, frames, hotplugs>>
----------------------------------------------------------------------------
(***************************************************************************)
(* InFlight::wait and drop                                                 *)
(***************************************************************************)
Collect(c) ==
    /\ MainAt(c, "wait")
    /\ \E t \in waiting[c] :
        /\ acked[t] = gen[c] \/ ~online[t]
        /\ waiting' = [waiting EXCEPT ![c] = @ \ {t}]
    /\ UNCHANGED <<domain, mapped, tlb, pc, gen, arg, todo, svcVars, frames, hotplugs>>

Complete(c) ==
    /\ MainAt(c, "wait") /\ waiting[c] = {}
    /\ tokens' = tokens \cup {[cpu |-> c, gen |-> gen[c], req |-> arg[c]]}
    /\ Goto(c, "drop")
    /\ UNCHANGED <<domain, mapped, tlb, gen, arg, waiting, todo, svcVars, retired, released, hotplugs>>

\* Timeout, or the InFlight is dropped without waiting: no token.
Abandon(c) ==
    /\ Timeouts /\ MainAt(c, "wait")
    /\ Goto(c, "drop")
    /\ UNCHANGED <<domain, mapped, tlb, gen, arg, waiting, todo, svcVars, frames, hotplugs>>

DropBusy(c) ==
    /\ MainAt(c, "drop") /\ busy' = FALSE /\ Goto(c, "dropped")
    /\ UNCHANGED <<lastGen, seq, reqGen, req, pending, acked, online, initiating, ipi, mapped, tlb,
                   gen, arg, waiting, todo, svcVars, frames, hotplugs>>

DropInitiating(c) ==
    /\ MainAt(c, "dropped") /\ initiating' = [initiating EXCEPT ![c] = FALSE] /\ Goto(c, "idle")
    /\ gen' = [gen EXCEPT ![c] = 0] /\ arg' = [arg EXCEPT ![c] = {}]
    /\ waiting' = [waiting EXCEPT ![c] = {}]
    /\ UNCHANGED <<busy, lastGen, seq, reqGen, req, pending, acked, online, ipi, mapped, tlb,
                   todo, svcVars, frames, hotplugs>>
----------------------------------------------------------------------------
\* The steps of a main context that, once due, are taken.
Progress(c) ==
    \/ OnlineFlush(c) \/ Offline(c) \/ Retire(c)
    \/ Acquire(c) \/ NextGen(c) \/ SeqOdd(c) \/ WriteGen(c) \/ WriteReq(c) \/ SeqEven(c)
    \/ Scan(c) \/ Publish(c) \/ SendIpi(c) \/ LocalFlush(c)
    \/ Collect(c) \/ Complete(c) \/ DropBusy(c) \/ DropInitiating(c)

Main(c) ==
    \/ Progress(c)
    \/ MarkOnline(c) \/ MarkOffline(c) \/ Unmap(c) \/ Start(c) \/ SlotTimeout(c) \/ Abandon(c)

Next ==
    \/ \E c \in Cpus : Fill(c) \/ Main(c) \/ ServiceIrq(c) \/ ServiceSpin(c)
    \/ \E x \in ServiceCtx : Service(x)
    \/ \E p \in Pages : Release(p)

Spec == Init /\ [][Next]_vars

\* CPUs keep executing: a CPU takes its next step, and an unmasked IPI.
FairSpec ==
    /\ Spec
    /\ \A c \in Cpus : WF_vars(Progress(c)) /\ WF_vars(ServiceIrq(c)) /\ WF_vars(ServiceSpin(c))
    /\ \A x \in ServiceCtx : WF_vars(Service(x))
----------------------------------------------------------------------------
Pcs == {"off", "onlining", "idle", "offlining", "retire", "slot", "gen", "odd", "reqgen", "req",
        "even", "scan", "publish", "ipi", "wait", "drop", "dropped"}
Gens == 0..MaxGen
Initiators == {"slot", "gen", "odd", "reqgen", "req", "even", "scan", "publish", "ipi", "wait",
               "drop", "dropped"}
Holders == Initiators \ {"slot", "dropped"}

\* The domain's words, the contexts' positions and the frames have their types.
TypeOK ==
    /\ busy \in BOOLEAN /\ lastGen \in Gens /\ seq \in 0..2 * MaxGen
    /\ reqGen \in Gens /\ req \subseteq Pages
    /\ pending \in [Cpus -> Gens] /\ acked \in [Cpus -> Gens]
    /\ online \in [Cpus -> BOOLEAN] /\ initiating \in [Cpus -> BOOLEAN] /\ ipi \in [Cpus -> BOOLEAN]
    /\ mapped \subseteq Pages /\ tlb \in [Cpus -> SUBSET Pages]
    /\ pc \in [Cpus -> Pcs] /\ gen \in [Cpus -> Gens] /\ arg \in [Cpus -> SUBSET Pages]
    /\ waiting \in [Cpus -> SUBSET Cpus] /\ todo \in [Cpus -> SUBSET Cpus]
    /\ svc \in [ServiceCtx -> {"idle", "load", "seq1", "gen", "req", "flush", "ack"}]
    /\ reg \in [ServiceCtx -> [pending : Gens, seq : Nat, gen : Gens, req : SUBSET Pages]]
    /\ retired \in [Pages -> {None} \cup [cpu : Cpus, after : Gens]]
    /\ tokens \subseteq [cpu : Cpus, gen : Gens, req : SUBSET Pages]
    /\ released \subseteq Pages /\ hotplugs \in 0..MaxHotplug

\* A frame that RetiredFrame::release gave back is reachable through no cached
\* translation of a CPU that uses translations: whatever shootdowns timed out,
\* were acknowledged late, or raced a CPU going on or off line.
FrameReuseSafe ==
    \A p \in released, c \in Cpus : pc[c] \notin {"off", "onlining", "offlining"} => p \notin tlb[c]

\* busy is held by exactly the CPU between its CAS and InFlight::drop, and
\* initiating is set on exactly the CPUs inside start or wait: no error path
\* leaves the slot taken or a CPU answering Reentrant for ever.
SlotExact ==
    /\ busy = (\E c \in Cpus : pc[c] \in Holders)
    /\ \A c, d \in Cpus : pc[c] \in Holders /\ pc[d] \in Holders => c = d
    /\ \A c \in Cpus : initiating[c] = (pc[c] \in Initiators)

\* The domain's words have their types, and the slot and the flags of initiators
\* are taken and given back on every path, timeouts included (start, wait,
\* InFlight::drop).
SlotSound == TypeOK /\ SlotExact

\* A shootdown that owns the slot completes, even when the CPUs it waits for
\* are spinning for the slot with interrupts masked.
HolderCompletes == \A c \in Cpus : pc[c] = "gen" ~> pc[c] = "idle"
=============================================================================
