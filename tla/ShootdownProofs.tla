-------------------------- MODULE ShootdownProofs --------------------------
(***************************************************************************)
(* A frame is never reused while a CPU can reach it, and the slot of the   *)
(* domain is never lost, for every set of CPUs, pages and requests.        *)
(***************************************************************************)
EXTENDS Shootdown, FiniteSetTheorems, TLAPS

USE Zenon

----------------------------------------------------------------------------
(* The inductive invariant.                                                *)

\* No translation of p can be used on CPU t.
CleanOn(p, t) == pc[t] \notin {"off", "onlining", "offlining"} => p \notin tlb[t]

\* What the shootdown of c has to reach on CPU t, the pages it covers that were
\* retired before it got its generation, is gone there.
Flushed(c, t) ==
    \A p \in arg[c] : retired[p] # None /\ retired[p].after < gen[c] => CleanOn(p, t)

\* Positions: with a generation; before any target can know it; publishing or
\* waiting.
Numbered == Holders \ {"gen"}
Secret == {"odd", "reqgen", "req", "even", "scan"}
Public == {"publish", "ipi", "wait"}

\* MaxGen bounds the generations given out and asked for.
Asking == {d \in Cpus : pc[d] \in {"slot", "gen"}}
CountInv == lastGen + Cardinality(Asking) <= MaxGen

\* The generation of the shootdown under way is the last one, and nobody has
\* seen it before the first publication.
GenInv ==
    /\ \A c \in Cpus : pc[c] \in Numbered => gen[c] = lastGen
    /\ \A t \in tokens : t.gen <= lastGen
    /\ \A t \in Cpus : pending[t] <= lastGen /\ acked[t] <= lastGen
    /\ \A x \in ServiceCtx : reg[x].pending <= lastGen
    /\ \A c \in Cpus : pc[c] \in Secret =>
        /\ \A t \in Cpus : pending[t] < lastGen /\ acked[t] < lastGen
        /\ \A x \in ServiceCtx : reg[x].pending < lastGen

\* seq counts twice the generations, less what the writer still has to add.
SeqInv ==
    /\ (\A c \in Cpus : pc[c] \notin {"odd", "reqgen", "req", "even"}) => seq = 2 * lastGen
    /\ \A c \in Cpus : pc[c] = "odd" => seq = 2 * lastGen - 2
    /\ \A c \in Cpus : pc[c] \in {"reqgen", "req", "even"} => seq = 2 * lastGen - 1

\* The request word is the request of the shootdown under way.
ReqInv == \A c \in Cpus : pc[c] \in {"even", "scan"} \cup Public => req = arg[c]

\* Whoever services the generation under way flushes what it covers before it
\* acknowledges it.
AckInv ==
    \A c \in Cpus : pc[c] \in Public =>
        /\ \A t \in Cpus : acked[t] = gen[c] => Flushed(c, t)
        /\ \A x \in ServiceCtx : reg[x].pending = gen[c] =>
            /\ svc[x] = "flush" => reg[x].req = arg[c]
            /\ svc[x] = "ack" => Flushed(c, x[1])

\* The CPUs that a shootdown does not wait for have nothing to flush.
WaitInv ==
    \A c \in Cpus :
        /\ pc[c] = "scan" => \A t \in Cpus \ {c} : t \in todo[c] \cup waiting[c] \/ Flushed(c, t)
        /\ pc[c] \in Public => \A t \in Cpus \ {c} : t \in waiting[c] \/ Flushed(c, t)
        /\ pc[c] = "wait" => Flushed(c, c)

\* A token vouches for the frames retired before its generation.
TokenInv ==
    \A p \in Pages, t \in tokens :
        retired[p] # None /\ t.gen > retired[p].after /\ p \in t.req => \A c \in Cpus : CleanOn(p, c)

\* Frames on their way out are not mapped; the online flags tell who may use
\* translations.
UnmappedInv ==
    /\ \A p \in Pages : retired[p] # None \/ p \in released => p \notin mapped
    /\ \A c \in Cpus : pc[c] = "retire" => arg[c] \cap mapped = {}
    /\ \A c \in Cpus : online[c] = (pc[c] \notin {"off", "offlining"})

IInv ==
    /\ TypeOK /\ SlotExact /\ CountInv /\ GenInv /\ SeqInv /\ ReqInv /\ AckInv /\ WaitInv /\ TokenInv
    /\ UnmappedInv /\ FrameReuseSafe

----------------------------------------------------------------------------
(* Positions, and what a step leaves alone.                                *)

\* The groups of positions, spelled out.
LEMMA Positions ==
  /\ Pcs = {"off", "onlining", "idle", "offlining", "retire", "slot", "gen", "odd", "reqgen", "req",
            "even", "scan", "publish", "ipi", "wait", "drop", "dropped"}
  /\ Initiators = {"slot", "gen", "odd", "reqgen", "req", "even", "scan", "publish", "ipi", "wait",
                   "drop", "dropped"}
  /\ Holders = {"gen", "odd", "reqgen", "req", "even", "scan", "publish", "ipi", "wait", "drop"}
  /\ Numbered = {"odd", "reqgen", "req", "even", "scan", "publish", "ipi", "wait", "drop"}
  /\ Secret = {"odd", "reqgen", "req", "even", "scan"}
  /\ Public = {"publish", "ipi", "wait"}
BY DEF Pcs, Initiators, Holders, Numbered, Secret, Public

\* The main context that moves is the only one whose position changes.
LEMMA Moves ==
  ASSUME TypeOK, NEW c \in Cpus, NEW q \in Pcs, Goto(c, q)
  PROVE  /\ pc' \in [Cpus -> Pcs] /\ pc'[c] = q
         /\ \A d \in Cpus : d # c => pc'[d] = pc[d]
BY DEF TypeOK, Goto

\* No step makes a page that is not mapped reachable again, and a frame retired
\* now is newer than every shootdown.
Calm ==
    \A p \in Pages :
        /\ retired'[p] # None => retired'[p] = retired[p] \/ retired'[p].after = lastGen
        /\ p \notin mapped => p \notin mapped' /\ \A t \in Cpus : CleanOn(p, t) => CleanOn(p, t)'

\* What makes a step calm.
LEMMA CalmBy ==
  ASSUME TypeOK, mapped' \subseteq mapped,
         \A p \in Pages : retired'[p] # None => retired'[p] = retired[p] \/ retired'[p].after = lastGen,
         \A t \in Cpus : \/ tlb'[t] \subseteq tlb[t] \cup mapped
                            /\ (pc[t] \in {"off", "onlining", "offlining"} => pc'[t] \in {"off", "onlining", "offlining"})
                         \/ tlb'[t] = {}
  PROVE  Calm
BY DEF Calm, CleanOn

LEMMA SlotFrame ==
  ASSUME SlotExact, UNCHANGED <<busy, initiating>>,
         \A d \in Cpus : /\ pc'[d] \in Holders <=> pc[d] \in Holders
                         /\ pc'[d] \in Initiators <=> pc[d] \in Initiators
  PROVE  SlotExact'
<1>1. (\E d \in Cpus : pc'[d] \in Holders) <=> \E d \in Cpus : pc[d] \in Holders
  OBVIOUS
<1> QED
  BY <1>1, SMTT(30) DEF SlotExact

LEMMA CountFrame ==
  ASSUME CountInv, UNCHANGED lastGen,
         \A d \in Cpus : pc'[d] \in {"slot", "gen"} <=> pc[d] \in {"slot", "gen"}
  PROVE  CountInv'
<1>1. Asking' = Asking
  BY DEF Asking
<1> QED
  BY <1>1 DEF CountInv

LEMMA GenFrame ==
  ASSUME GenInv, UNCHANGED <<lastGen, tokens, pending, acked>>,
         \A x \in ServiceCtx : reg'[x].pending = reg[x].pending,
         \A d \in Cpus : /\ pc'[d] \in Numbered => pc[d] \in Numbered /\ gen'[d] = gen[d]
                         /\ pc'[d] \in Secret => pc[d] \in Secret
  PROVE  GenInv'
BY DEF GenInv

LEMMA SeqFrame ==
  ASSUME SeqInv, UNCHANGED <<seq, lastGen>>,
         \A d \in Cpus : /\ pc'[d] = "odd" <=> pc[d] = "odd"
                         /\ pc'[d] \in {"reqgen", "req", "even"} <=> pc[d] \in {"reqgen", "req", "even"}
  PROVE  SeqInv'
<1>1. (\A d \in Cpus : pc'[d] \notin {"odd", "reqgen", "req", "even"})
        => \A d \in Cpus : pc[d] \notin {"odd", "reqgen", "req", "even"}
  OBVIOUS
<1> QED
  BY <1>1 DEF SeqInv

LEMMA ReqFrame ==
  ASSUME ReqInv, UNCHANGED req,
         \A d \in Cpus : pc'[d] \in {"even", "scan"} \cup Public =>
                           pc[d] \in {"even", "scan"} \cup Public /\ arg'[d] = arg[d]
  PROVE  ReqInv'
BY DEF ReqInv

\* What was flushed for a shootdown under way stays flushed.
LEMMA FlushedFrame ==
  ASSUME TypeOK, GenInv, UnmappedInv, Calm, NEW c \in Cpus, NEW t \in Cpus, Flushed(c, t),
         pc[c] \in Numbered, arg'[c] = arg[c], gen'[c] = gen[c]
  PROVE  Flushed(c, t)'
<1> SUFFICES ASSUME NEW p \in arg[c], retired'[p] # None, retired'[p].after < gen[c]
             PROVE  CleanOn(p, t)'
  BY DEF Flushed
<1>1. p \in Pages /\ gen[c] = lastGen /\ lastGen \in Int
  BY SMTT(30) DEF TypeOK, GenInv, Gens
<1>2. retired'[p] = retired[p]
  BY <1>1, SMTT(30) DEF Calm
<1>3. p \notin mapped /\ CleanOn(p, t)
  BY <1>1, <1>2 DEF UnmappedInv, Flushed
<1> QED
  BY <1>1, <1>3 DEF Calm

LEMMA AckFrame ==
  ASSUME TypeOK, GenInv, UnmappedInv, Calm, AckInv, UNCHANGED acked,
         \A x \in ServiceCtx : svc'[x] \in {"flush", "ack"} => svc'[x] = svc[x] /\ reg'[x] = reg[x],
         \A d \in Cpus : pc'[d] \in Public => pc[d] \in Public /\ arg'[d] = arg[d] /\ gen'[d] = gen[d]
  PROVE  AckInv'
<1>1. \A c \in Cpus, t \in Cpus : pc'[c] \in Public /\ Flushed(c, t) => Flushed(c, t)'
  BY FlushedFrame, Positions
<1>2. \A x \in ServiceCtx : x[1] \in Cpus
  BY DEF ServiceCtx
<1> QED
  BY <1>1, <1>2, SMTT(30) DEF AckInv

LEMMA WaitFrame ==
  ASSUME TypeOK, GenInv, UnmappedInv, Calm, WaitInv,
         \A d \in Cpus : pc'[d] \in {"scan"} \cup Public =>
            /\ pc'[d] = pc[d] \/ {pc'[d], pc[d]} \subseteq {"publish", "ipi"}
            /\ arg'[d] = arg[d] /\ gen'[d] = gen[d] /\ waiting'[d] = waiting[d]
            /\ pc'[d] = "scan" => todo'[d] = todo[d]
  PROVE  WaitInv'
<1>1. \A c \in Cpus, t \in Cpus : pc'[c] \in {"scan"} \cup Public /\ Flushed(c, t) => Flushed(c, t)'
  BY FlushedFrame, Positions
<1> QED
  BY <1>1, Positions DEF WaitInv

LEMMA TokenFrame ==
  ASSUME TypeOK, GenInv, UnmappedInv, Calm, TokenInv, UNCHANGED tokens
  PROVE  TokenInv'
<1> SUFFICES ASSUME NEW p \in Pages, NEW t \in tokens, NEW c \in Cpus,
                    retired'[p] # None, t.gen > retired'[p].after, p \in t.req
             PROVE  CleanOn(p, c)'
  BY DEF TokenInv
<1>1. t.gen <= lastGen /\ t.gen \in Int /\ lastGen \in Int
  BY SMTT(30) DEF TypeOK, GenInv, Gens
<1>2. retired'[p] = retired[p]
  BY <1>1, SMTT(30) DEF Calm
<1>3. p \notin mapped /\ CleanOn(p, c)
  BY <1>2 DEF UnmappedInv, TokenInv
<1> QED
  BY <1>3 DEF Calm

LEMMA ReuseFrame ==
  ASSUME TypeOK, UnmappedInv, Calm, FrameReuseSafe, UNCHANGED released
  PROVE  FrameReuseSafe'
<1> SUFFICES ASSUME NEW p \in released, NEW c \in Cpus
             PROVE  CleanOn(p, c)'
  BY DEF FrameReuseSafe, CleanOn
<1>1. p \in Pages /\ p \notin mapped /\ CleanOn(p, c)
  BY DEF TypeOK, UnmappedInv, FrameReuseSafe, CleanOn
<1> QED
  BY <1>1 DEF Calm

LEMMA UnmappedFrame ==
  ASSUME UnmappedInv, UNCHANGED <<mapped, retired, released, online>>,
         \A d \in Cpus : /\ pc'[d] = "retire" => pc[d] = "retire" /\ arg'[d] = arg[d]
                         /\ pc'[d] \in {"off", "offlining"} <=> pc[d] \in {"off", "offlining"}
  PROVE  UnmappedInv'
BY DEF UnmappedInv

----------------------------------------------------------------------------
(* The hardware and the service contexts.                                  *)

\* What the steps of service and of the hardware leave alone.
LEMMA ServiceFrame ==
  ASSUME IInv,
         UNCHANGED <<busy, lastGen, seq, req, online, initiating, mapped, mainVars, frames>>,
         \A t \in Cpus : tlb'[t] \subseteq tlb[t] \cup mapped
  PROVE  /\ Calm /\ SlotExact' /\ CountInv' /\ SeqInv' /\ ReqInv' /\ WaitInv' /\ TokenInv'
         /\ UnmappedInv' /\ FrameReuseSafe'
<1> USE DEF IInv, mainVars, frames
<1>1. Calm
  BY CalmBy
<1>2. SlotExact' /\ CountInv' /\ SeqInv' /\ ReqInv'
  BY SlotFrame, CountFrame, SeqFrame, ReqFrame
<1>3. WaitInv' /\ TokenInv' /\ UnmappedInv' /\ FrameReuseSafe'
  BY <1>1, WaitFrame, TokenFrame, UnmappedFrame, ReuseFrame
<1> QED
  BY <1>1, <1>2, <1>3

\* The service context that moves is the only one whose position changes.
LEMMA SvcMoves ==
  ASSUME TypeOK, NEW x \in ServiceCtx, NEW q \in {"idle", "load", "seq1", "gen", "req", "flush", "ack"},
         SvcGoto(x, q)
  PROVE  /\ svc' \in [ServiceCtx -> {"idle", "load", "seq1", "gen", "req", "flush", "ack"}]
         /\ svc'[x] = q /\ \A y \in ServiceCtx : y # x => svc'[y] = svc[y]
BY DEF TypeOK, SvcGoto

\* A CPU caches a translation of a mapped page.
LEMMA FillStep ==
  ASSUME IInv, NEW c \in Cpus, Fill(c)
  PROVE  IInv'
<1> USE DEF IInv
<1>1. PICK p \in mapped : tlb' = [tlb EXCEPT ![c] = @ \cup {p}]
  BY DEF Fill
<1>2. tlb' \in [Cpus -> SUBSET Pages] /\ \A t \in Cpus : tlb'[t] \subseteq tlb[t] \cup mapped
  BY <1>1 DEF TypeOK
<1>3. /\ Calm /\ SlotExact' /\ CountInv' /\ SeqInv' /\ ReqInv' /\ WaitInv' /\ TokenInv'
      /\ UnmappedInv' /\ FrameReuseSafe'
  BY <1>2, ServiceFrame DEF Fill, domain
<1>4. TypeOK'
  BY <1>2 DEF Fill, TypeOK, domain, mainVars, svcVars, frames
<1>5. GenInv' /\ AckInv'
  BY <1>3, GenFrame, AckFrame DEF Fill, domain, mainVars, svcVars, frames
<1> QED
  BY <1>3, <1>4, <1>5

\* service is entered, from the IPI or from a loop.
LEMMA ServiceEntryStep ==
  ASSUME IInv, NEW c \in Cpus, ServiceIrq(c) \/ ServiceSpin(c)
  PROVE  IInv'
<1> USE DEF IInv
<1>1. PICK x \in ServiceCtx : SvcGoto(x, "load")
  BY DEF ServiceIrq, ServiceSpin, ServiceCtx, Levels
<1>2. /\ svc' \in [ServiceCtx -> {"idle", "load", "seq1", "gen", "req", "flush", "ack"}]
      /\ svc'[x] = "load" /\ \A y \in ServiceCtx : y # x => svc'[y] = svc[y]
  BY <1>1, SvcMoves
<1>3. /\ UNCHANGED <<busy, lastGen, seq, reqGen, req, pending, acked, online, initiating,
                     mapped, tlb, mainVars, reg, frames, hotplugs>>
      /\ ipi' \in [Cpus -> BOOLEAN]
  BY DEF ServiceIrq, ServiceSpin, domain, TypeOK
<1>4. /\ Calm /\ SlotExact' /\ CountInv' /\ SeqInv' /\ ReqInv' /\ WaitInv' /\ TokenInv'
      /\ UnmappedInv' /\ FrameReuseSafe'
  BY <1>3, ServiceFrame
<1>5. TypeOK'
  BY <1>2, <1>3 DEF TypeOK, mainVars, frames
<1>6. GenInv' /\ AckInv'
  BY <1>2, <1>3, <1>4, GenFrame, AckFrame DEF mainVars, frames
<1> QED
  BY <1>4, <1>5, <1>6

\* service reads pending and acked, the sequence word and the generation.
LEMMA SvcReadStep ==
  ASSUME IInv, NEW x \in ServiceCtx, SvcLoad(x) \/ SvcSeq1(x) \/ SvcGen(x)
  PROVE  IInv'
<1> USE DEF IInv
<1>1. PICK q \in {"idle", "seq1", "gen", "req"} : SvcGoto(x, q)
  BY DEF SvcLoad, SvcSeq1, SvcGen
<1>2. /\ svc' \in [ServiceCtx -> {"idle", "load", "seq1", "gen", "req", "flush", "ack"}]
      /\ svc'[x] = q /\ \A y \in ServiceCtx : y # x => svc'[y] = svc[y]
  BY <1>1, SvcMoves
<1>3. UNCHANGED <<domain, mapped, tlb, mainVars, frames, hotplugs>>
  BY DEF SvcLoad, SvcSeq1, SvcGen
<1>4. x[1] \in Cpus
  BY DEF ServiceCtx
<1>5. /\ reg' \in [ServiceCtx -> [pending : Gens, seq : Nat, gen : Gens, req : SUBSET Pages]]
      /\ \A y \in ServiceCtx : y # x => reg'[y] = reg[y]
      /\ reg'[x].pending = reg[x].pending \/ reg'[x].pending = pending[x[1]]
  <2>1. reg' = reg \/ reg' = [reg EXCEPT ![x].pending = pending[x[1]]]
        \/ reg' = [reg EXCEPT ![x].seq = seq] \/ reg' = [reg EXCEPT ![x].gen = reqGen]
    BY DEF SvcLoad, SvcSeq1, SvcGen
  <2>2. /\ reg \in [ServiceCtx -> [pending : Gens, seq : Nat, gen : Gens, req : SUBSET Pages]]
        /\ pending[x[1]] \in Gens /\ seq \in Nat /\ reqGen \in Gens
    BY <1>4, ShootdownAssumption, SMTT(30) DEF TypeOK
  <2> QED
    BY <2>1, <2>2, ZenonT(30)
<1>6. /\ Calm /\ SlotExact' /\ CountInv' /\ SeqInv' /\ ReqInv' /\ WaitInv' /\ TokenInv'
      /\ UnmappedInv' /\ FrameReuseSafe'
  BY <1>3, ServiceFrame DEF domain
<1>7. TypeOK'
  BY <1>2, <1>3, <1>5 DEF TypeOK, domain, mainVars, frames
<1>8. GenInv'
  BY <1>3, <1>4, <1>5 DEF GenInv, domain, mainVars, frames
<1>9. AckInv'
  BY <1>2, <1>3, <1>5, <1>6, AckFrame DEF domain, mainVars, frames
<1> QED
  BY <1>6, <1>7, <1>8, <1>9

\* service reads the request: that of the generation under way, if it services it.
LEMMA SvcReqStep ==
  ASSUME IInv, NEW x \in ServiceCtx, SvcReq(x)
  PROVE  IInv'
<1> USE DEF IInv
<1>1. /\ svc' \in [ServiceCtx -> {"idle", "load", "seq1", "gen", "req", "flush", "ack"}]
      /\ svc'[x] = "flush" /\ \A y \in ServiceCtx : y # x => svc'[y] = svc[y]
  BY SvcMoves DEF SvcReq
<1>2. /\ reg' \in [ServiceCtx -> [pending : Gens, seq : Nat, gen : Gens, req : SUBSET Pages]]
      /\ \A y \in ServiceCtx : y # x => reg'[y] = reg[y]
      /\ reg'[x].pending = reg[x].pending /\ reg'[x].req = req
  BY ZenonT(30) DEF SvcReq, TypeOK
<1>3. UNCHANGED <<domain, mapped, tlb, mainVars, frames, hotplugs>>
  BY DEF SvcReq
<1>4. /\ Calm /\ SlotExact' /\ CountInv' /\ SeqInv' /\ ReqInv' /\ WaitInv' /\ TokenInv'
      /\ UnmappedInv' /\ FrameReuseSafe'
  BY <1>3, ServiceFrame DEF domain
<1>5. TypeOK'
  BY <1>1, <1>2, <1>3 DEF TypeOK, domain, mainVars, frames
<1>6. GenInv'
  BY <1>2, <1>3, GenFrame DEF domain, mainVars, frames
<1>7. AckInv'
  <2> SUFFICES ASSUME NEW c \in Cpus, pc[c] \in Public
               PROVE  AckInv!(c)!2'
    BY <1>3 DEF AckInv, mainVars
  <2>1. \A t \in Cpus : Flushed(c, t)' = Flushed(c, t)
    BY <1>3 DEF Flushed, CleanOn, mainVars, frames
  <2>2. req = arg[c]
    BY DEF ReqInv
  <2>3. \A y \in ServiceCtx : y[1] \in Cpus
    BY DEF ServiceCtx
  <2> QED
    BY <1>1, <1>2, <1>3, <2>1, <2>2, <2>3, SMTT(30) DEF AckInv, domain, mainVars
<1> QED
  BY <1>4, <1>5, <1>6, <1>7

\* service flushes the request it read, or everything.
LEMMA SvcFlushStep ==
  ASSUME IInv, NEW x \in ServiceCtx, SvcFlush(x)
  PROVE  IInv'
<1> USE DEF IInv
<1>1. /\ svc' \in [ServiceCtx -> {"idle", "load", "seq1", "gen", "req", "flush", "ack"}] /\ svc[x] = "flush"
      /\ svc'[x] = "ack" /\ \A y \in ServiceCtx : y # x => svc'[y] = svc[y]
  BY SvcMoves DEF SvcFlush, SvcAt
<1>2. UNCHANGED <<domain, mapped, mainVars, reg, frames, hotplugs>> /\ x[1] \in Cpus
  BY DEF SvcFlush, ServiceCtx
<1>3. /\ tlb' \in [Cpus -> SUBSET Pages] /\ tlb'[x[1]] \cap reg[x].req = {}
      /\ \A t \in Cpus : tlb'[t] \subseteq tlb[t]
  BY <1>2 DEF SvcFlush, TypeOK
<1>4. /\ Calm /\ SlotExact' /\ CountInv' /\ SeqInv' /\ ReqInv' /\ WaitInv' /\ TokenInv'
      /\ UnmappedInv' /\ FrameReuseSafe'
  BY <1>2, <1>3, ServiceFrame DEF domain
<1>5. TypeOK'
  BY <1>1, <1>2, <1>3 DEF TypeOK, domain, mainVars, frames
<1>6. GenInv'
  BY <1>2, GenFrame DEF domain, mainVars, frames
<1>7. AckInv'
  <2> SUFFICES ASSUME NEW c \in Cpus, pc[c] \in Public
               PROVE  AckInv!(c)!2'
    BY <1>2 DEF AckInv, mainVars
  <2>1. \A t \in Cpus : Flushed(c, t) => Flushed(c, t)'
    BY <1>2, <1>4, FlushedFrame, Positions DEF mainVars
  <2>2. reg[x].pending = gen[c] => Flushed(c, x[1])'
    BY <1>1, <1>2, <1>3 DEF AckInv, Flushed, CleanOn, mainVars
  <2>3. \A y \in ServiceCtx : y[1] \in Cpus
    BY DEF ServiceCtx
  <2> QED
    BY <1>1, <1>2, <2>1, <2>2, <2>3, SMTT(30) DEF AckInv, domain, mainVars
<1> QED
  BY <1>4, <1>5, <1>6, <1>7

\* service acknowledges what it has flushed.
LEMMA SvcAckStep ==
  ASSUME IInv, NEW x \in ServiceCtx, SvcAck(x)
  PROVE  IInv'
<1> USE DEF IInv
<1>1. /\ svc' \in [ServiceCtx -> {"idle", "load", "seq1", "gen", "req", "flush", "ack"}] /\ svc[x] = "ack"
      /\ svc'[x] = "load" /\ \A y \in ServiceCtx : y # x => svc'[y] = svc[y]
  BY SvcMoves DEF SvcAck, SvcAt
<1>2. /\ UNCHANGED <<busy, lastGen, seq, reqGen, req, pending, online, initiating, ipi, mapped, tlb,
                     mainVars, frames, hotplugs>>
      /\ x[1] \in Cpus
  BY DEF SvcAck, ServiceCtx
<1>3. /\ acked' \in [Cpus -> Gens] /\ acked'[x[1]] \in {acked[x[1]], reg[x].pending}
      /\ \A t \in Cpus : t # x[1] => acked'[t] = acked[t]
  BY <1>2 DEF SvcAck, TypeOK
<1>4. /\ reg' \in [ServiceCtx -> [pending : Gens, seq : Nat, gen : Gens, req : SUBSET Pages]]
      /\ reg'[x].pending = 0 /\ \A y \in ServiceCtx : y # x => reg'[y] = reg[y]
  BY ShootdownAssumption, SMTT(30) DEF SvcAck, TypeOK, Gens
<1>5. /\ Calm /\ SlotExact' /\ CountInv' /\ SeqInv' /\ ReqInv' /\ WaitInv' /\ TokenInv'
      /\ UnmappedInv' /\ FrameReuseSafe'
  BY <1>2, ServiceFrame
<1>6. TypeOK'
  BY <1>1, <1>2, <1>3, <1>4 DEF TypeOK, mainVars, frames
<1>7. GenInv'
  <2>1. /\ lastGen \in Nat /\ acked[x[1]] \in Nat
        /\ \A y \in ServiceCtx : reg'[y].pending = reg[y].pending \/ reg'[y].pending = 0
    BY <1>2, <1>4, ShootdownAssumption, SMTT(30) DEF TypeOK, Gens
  <2>2. \A t \in Cpus : acked'[t] <= lastGen
    BY <1>2, <1>3 DEF GenInv
  <2>3. \A c, t \in Cpus : pc[c] \in Secret => acked'[t] < lastGen
    BY <1>2, <1>3 DEF GenInv
  <2>4. \A y \in ServiceCtx : reg'[y].pending <= lastGen
    BY <2>1, SMTT(30) DEF GenInv
  <2>5. \A c \in Cpus, y \in ServiceCtx : pc[c] \in Secret => reg'[y].pending < lastGen
    <3>1. \A c \in Cpus : pc[c] \in Secret => 0 < lastGen
      BY <1>2, <2>1, SMTT(30) DEF GenInv
    <3> QED
      BY <2>1, <3>1 DEF GenInv
  <2> QED
    BY <1>2, <2>2, <2>3, <2>4, <2>5 DEF GenInv, mainVars, frames
<1>8. AckInv'
  <2> SUFFICES ASSUME NEW c \in Cpus, pc[c] \in Public
               PROVE  AckInv!(c)!2'
    BY <1>2 DEF AckInv, mainVars
  <2>1. \A t \in Cpus : Flushed(c, t)' = Flushed(c, t)
    BY <1>2 DEF Flushed, CleanOn, mainVars, frames
  <2>2. \A t \in Cpus : acked'[t] = gen[c] => Flushed(c, t)
    BY <1>1, <1>2, <1>3, SMTT(30) DEF AckInv
  <2>3. \A y \in ServiceCtx : y[1] \in Cpus
    BY DEF ServiceCtx
  <2> QED
    BY <1>1, <1>2, <1>4, <2>1, <2>2, <2>3, SMTT(30) DEF AckInv, mainVars
<1> QED
  BY <1>5, <1>6, <1>7, <1>8

\* RetiredFrame::release: the token vouches for the frame.
LEMMA ReleaseStep ==
  ASSUME IInv, NEW p \in Pages, Release(p)
  PROVE  IInv'
<1> USE DEF IInv
<1>1. /\ UNCHANGED <<domain, mapped, tlb, mainVars, svcVars, tokens, hotplugs>>
      /\ retired[p] # None /\ released' = released \cup {p} /\ retired' = [retired EXCEPT ![p] = None]
  BY DEF Release
<1>2. retired' \in [Pages -> {None} \cup [cpu : Cpus, after : Gens]]
      /\ \A r \in Pages : retired'[r] # None => r # p /\ retired'[r] = retired[r]
  BY <1>1 DEF TypeOK
<1>3. TypeOK'
  BY <1>1, <1>2 DEF TypeOK, domain, mainVars, svcVars
<1>4. Calm
  BY <1>1, <1>2, CalmBy DEF mainVars
<1>5. SlotExact' /\ CountInv' /\ GenInv' /\ SeqInv' /\ ReqInv'
  BY <1>1, SlotFrame, CountFrame, GenFrame, SeqFrame, ReqFrame DEF domain, mainVars, svcVars
<1>6. AckInv' /\ WaitInv' /\ TokenInv'
  BY <1>1, <1>4, AckFrame, WaitFrame, TokenFrame DEF domain, mainVars, svcVars
<1>7. UnmappedInv'
  BY <1>1, <1>2 DEF UnmappedInv, domain, mainVars
<1>8. FrameReuseSafe'
  <2>1. \A c \in Cpus : CleanOn(p, c)
    BY DEF Release, TokenInv
  <2> QED
    BY <1>1, <2>1 DEF FrameReuseSafe, CleanOn, mainVars
<1> QED
  BY <1>3, <1>5, <1>6, <1>7, <1>8

----------------------------------------------------------------------------
(* The main contexts, outside a shootdown.                                 *)

\* What a main context leaves alone that is not past the slot after its step.
LEMMA OutsideFrame ==
  ASSUME IInv, Calm, NEW c \in Cpus,
         pc[c] \notin {"odd", "reqgen", "req", "even"},
         pc'[c] \in Numbered => pc'[c] = "drop" /\ pc[c] \in Numbered /\ gen'[c] = gen[c],
         \A d \in Cpus : d # c => /\ pc'[d] = pc[d] /\ gen'[d] = gen[d] /\ arg'[d] = arg[d]
                                  /\ waiting'[d] = waiting[d] /\ todo'[d] = todo[d],
         UNCHANGED <<lastGen, seq, req, pending, acked, svc, reg, tokens, released>>
  PROVE  GenInv' /\ SeqInv' /\ ReqInv' /\ AckInv' /\ WaitInv' /\ TokenInv' /\ FrameReuseSafe'
<1> USE DEF IInv
<1>1. \A d \in Cpus : pc'[d] \in Secret \cup Public => d # c
  BY Positions
<1>2. GenInv'
  BY <1>1, GenFrame
<1>3. SeqInv' /\ ReqInv'
  BY <1>1, SeqFrame, ReqFrame, Positions
<1>4. AckInv'
  BY <1>1, AckFrame
<1>5. WaitInv'
  BY <1>1, WaitFrame, Positions
<1> QED
  BY <1>2, <1>3, <1>4, <1>5, TokenFrame, ReuseFrame

\* mark_online sets the flag.
LEMMA MarkOnlineStep ==
  ASSUME IInv, NEW c \in Cpus, MarkOnline(c)
  PROVE  IInv'
<1> USE DEF IInv
<1>1. /\ pc[c] = "off" /\ pc'[c] = "onlining" /\ pc' \in [Cpus -> Pcs]
      /\ \A d \in Cpus : d # c => pc'[d] = pc[d]
  BY Moves, Positions DEF MarkOnline, MainAt
<1>2. TypeOK'
  BY <1>1 DEF MarkOnline, TypeOK, svcVars, frames
<1>3. Calm
  BY <1>1, CalmBy DEF MarkOnline, frames
<1>4. SlotExact' /\ CountInv'
  BY <1>1, Positions, SlotFrame, CountFrame DEF MarkOnline
<1>5. GenInv' /\ SeqInv' /\ ReqInv' /\ AckInv' /\ WaitInv' /\ TokenInv' /\ FrameReuseSafe'
  BY <1>1, <1>3, Positions, OutsideFrame DEF MarkOnline, svcVars, frames
<1>6. UnmappedInv'
  BY <1>1 DEF MarkOnline, UnmappedInv, TypeOK, frames
<1> QED
  BY <1>2, <1>4, <1>5, <1>6

\* mark_online flushes before it returns.
LEMMA OnlineFlushStep ==
  ASSUME IInv, NEW c \in Cpus, OnlineFlush(c)
  PROVE  IInv'
<1> USE DEF IInv
<1>1. /\ pc[c] = "onlining" /\ pc'[c] = "idle" /\ pc' \in [Cpus -> Pcs]
      /\ \A d \in Cpus : d # c => pc'[d] = pc[d]
  BY Moves, Positions DEF OnlineFlush, MainAt
<1>2. tlb' \in [Cpus -> SUBSET Pages] /\ tlb'[c] = {} /\ \A d \in Cpus : d # c => tlb'[d] = tlb[d]
  BY DEF OnlineFlush, TypeOK
<1>3. TypeOK'
  BY <1>1, <1>2 DEF OnlineFlush, TypeOK, domain, svcVars, frames
<1>4. Calm
  BY <1>1, <1>2, CalmBy DEF OnlineFlush, frames
<1>5. SlotExact' /\ CountInv' /\ UnmappedInv'
  BY <1>1, Positions, SlotFrame, CountFrame, UnmappedFrame DEF OnlineFlush, domain, frames
<1>6. GenInv' /\ SeqInv' /\ ReqInv' /\ AckInv' /\ WaitInv' /\ TokenInv' /\ FrameReuseSafe'
  BY <1>1, <1>4, Positions, OutsideFrame DEF OnlineFlush, domain, svcVars, frames
<1> QED
  BY <1>3, <1>5, <1>6

\* mark_offline clears the flag.
LEMMA MarkOfflineStep ==
  ASSUME IInv, NEW c \in Cpus, MarkOffline(c)
  PROVE  IInv'
<1> USE DEF IInv
<1>1. /\ pc[c] = "idle" /\ pc'[c] = "offlining" /\ pc' \in [Cpus -> Pcs]
      /\ \A d \in Cpus : d # c => pc'[d] = pc[d]
  BY Moves, Positions DEF MarkOffline, MainAt
<1>2. TypeOK'
  <2>1. hotplugs' \in 0..MaxHotplug
    BY ShootdownAssumption, SMTT(30) DEF MarkOffline, TypeOK
  <2> QED
    BY <1>1, <2>1 DEF MarkOffline, TypeOK, svcVars, frames
<1>3. Calm
  BY <1>1, CalmBy DEF MarkOffline, frames
<1>4. SlotExact' /\ CountInv'
  BY <1>1, Positions, SlotFrame, CountFrame DEF MarkOffline
<1>5. GenInv' /\ SeqInv' /\ ReqInv' /\ AckInv' /\ WaitInv' /\ TokenInv' /\ FrameReuseSafe'
  BY <1>1, <1>3, Positions, OutsideFrame DEF MarkOffline, svcVars, frames
<1>6. UnmappedInv'
  BY <1>1 DEF MarkOffline, UnmappedInv, TypeOK, frames
<1> QED
  BY <1>2, <1>4, <1>5, <1>6

\* mark_offline returns.
LEMMA OfflineStep ==
  ASSUME IInv, NEW c \in Cpus, Offline(c)
  PROVE  IInv'
<1> USE DEF IInv
<1>1. /\ pc[c] = "offlining" /\ pc'[c] = "off" /\ pc' \in [Cpus -> Pcs]
      /\ \A d \in Cpus : d # c => pc'[d] = pc[d]
  BY Moves, Positions DEF Offline, MainAt
<1>2. TypeOK'
  BY <1>1 DEF Offline, TypeOK, domain, svcVars, frames
<1>3. Calm
  BY <1>1, CalmBy DEF Offline, frames
<1>4. SlotExact' /\ CountInv' /\ UnmappedInv'
  BY <1>1, Positions, SlotFrame, CountFrame, UnmappedFrame DEF Offline, domain, frames
<1>5. GenInv' /\ SeqInv' /\ ReqInv' /\ AckInv' /\ WaitInv' /\ TokenInv' /\ FrameReuseSafe'
  BY <1>1, <1>3, Positions, OutsideFrame DEF Offline, domain, svcVars, frames
<1> QED
  BY <1>2, <1>4, <1>5

\* The caller clears the page-table entry.
LEMMA UnmapStep ==
  ASSUME IInv, NEW c \in Cpus, Unmap(c)
  PROVE  IInv'
<1> USE DEF IInv
<1>1. /\ pc[c] = "idle" /\ pc'[c] = "retire" /\ pc' \in [Cpus -> Pcs]
      /\ \A d \in Cpus : d # c => pc'[d] = pc[d]
  BY Moves, Positions DEF Unmap, MainAt
<1>2. PICK p \in mapped : mapped' = mapped \ {p} /\ arg' = [arg EXCEPT ![c] = {p}]
  BY DEF Unmap
<1>3. arg' \in [Cpus -> SUBSET Pages] /\ arg'[c] = {p} /\ \A d \in Cpus : d # c => arg'[d] = arg[d]
  BY <1>2 DEF TypeOK
<1>4. TypeOK'
  BY <1>1, <1>2, <1>3 DEF Unmap, TypeOK, domain, svcVars, frames
<1>5. Calm
  BY <1>1, <1>2, CalmBy DEF Unmap, frames
<1>6. SlotExact' /\ CountInv'
  BY <1>1, Positions, SlotFrame, CountFrame DEF Unmap, domain
<1>7. GenInv' /\ SeqInv' /\ ReqInv' /\ AckInv' /\ WaitInv' /\ TokenInv' /\ FrameReuseSafe'
  BY <1>1, <1>3, <1>5, Positions, OutsideFrame DEF Unmap, domain, svcVars, frames
<1>8. UnmappedInv'
  BY <1>1, <1>2, <1>3, SMTT(30) DEF Unmap, UnmappedInv, domain, frames
<1> QED
  BY <1>4, <1>6, <1>7, <1>8

\* RetiredFrame::retire notes the last generation, which no token is newer than.
LEMMA RetireStep ==
  ASSUME IInv, NEW c \in Cpus, Retire(c)
  PROVE  IInv'
<1> USE DEF IInv
<1>1. /\ pc[c] = "retire" /\ pc'[c] = "idle" /\ pc' \in [Cpus -> Pcs]
      /\ \A d \in Cpus : d # c => pc'[d] = pc[d]
  BY Moves, Positions DEF Retire, MainAt
<1>2. arg' \in [Cpus -> SUBSET Pages] /\ \A d \in Cpus : d # c => arg'[d] = arg[d]
  BY DEF Retire, TypeOK
<1>3. /\ retired' \in [Pages -> {None} \cup [cpu : Cpus, after : Gens]]
      /\ \A p \in Pages : IF p \in arg[c] THEN retired'[p].after = lastGen ELSE retired'[p] = retired[p]
  BY DEF Retire, TypeOK
<1>4. TypeOK'
  BY <1>1, <1>2, <1>3 DEF Retire, TypeOK, domain, svcVars
<1>5. Calm
  BY <1>1, <1>3, CalmBy DEF Retire
<1>6. SlotExact' /\ CountInv'
  BY <1>1, Positions, SlotFrame, CountFrame DEF Retire, domain
<1>7. GenInv' /\ SeqInv' /\ ReqInv' /\ AckInv' /\ WaitInv' /\ TokenInv' /\ FrameReuseSafe'
  BY <1>1, <1>2, <1>5, Positions, OutsideFrame DEF Retire, domain, svcVars
<1>8. UnmappedInv'
  BY <1>1, <1>2, <1>3 DEF Retire, UnmappedInv, domain
<1> QED
  BY <1>4, <1>6, <1>7, <1>8

\* start sets the initiating flag.
LEMMA StartStep ==
  ASSUME IInv, NEW c \in Cpus, Start(c)
  PROVE  IInv'
<1> USE DEF IInv
<1>1. /\ pc[c] = "idle" /\ pc'[c] = "slot" /\ pc' \in [Cpus -> Pcs]
      /\ \A d \in Cpus : d # c => pc'[d] = pc[d]
  BY Moves, Positions DEF Start, MainAt
<1>2. arg' \in [Cpus -> SUBSET Pages] /\ \A d \in Cpus : d # c => arg'[d] = arg[d]
  BY ShootdownAssumption, SMTT(30) DEF Start, TypeOK
<1>3. initiating' \in [Cpus -> BOOLEAN] /\ initiating'[c] = TRUE
      /\ \A d \in Cpus : d # c => initiating'[d] = initiating[d]
  BY DEF Start, TypeOK
<1>4. TypeOK'
  BY <1>1, <1>2, <1>3 DEF Start, TypeOK, svcVars, frames
<1>5. Calm
  BY <1>1, CalmBy DEF Start, frames
<1>6. SlotExact'
  <2>1. \A d \in Cpus : pc'[d] \in Holders <=> pc[d] \in Holders
    BY <1>1, Positions
  <2>2. \A d \in Cpus : initiating'[d] = (pc'[d] \in Initiators)
    BY <1>1, <1>3, Positions, ZenonT(30) DEF SlotExact
  <2> QED
    BY <2>1, <2>2 DEF SlotExact, Start
<1>7. CountInv'
  <2>1. Asking' = Asking \cup {c} /\ c \notin Asking
    BY <1>1 DEF Asking
  <2>2. IsFiniteSet(Asking)
    BY ShootdownAssumption, FS_Subset DEF Asking
  <2>3. Cardinality(Asking') = Cardinality(Asking) + 1 /\ Cardinality(Asking) \in Nat
    BY <2>1, <2>2, FS_AddElement, FS_CardinalityType
  <2>4. lastGen + Cardinality(Asking) < MaxGen /\ lastGen' = lastGen
    BY DEF Start, Asking
  <2> QED
    BY <2>3, <2>4, ShootdownAssumption, SMTT(30) DEF CountInv, TypeOK, Gens
<1>8. GenInv' /\ SeqInv' /\ ReqInv' /\ AckInv' /\ WaitInv' /\ TokenInv' /\ FrameReuseSafe'
  BY <1>1, <1>2, <1>5, Positions, OutsideFrame DEF Start, svcVars, frames
<1>9. UnmappedInv'
  BY <1>1, <1>2, UnmappedFrame DEF Start, frames
<1> QED
  BY <1>4, <1>6, <1>7, <1>8, <1>9

\* start takes the slot.
LEMMA AcquireStep ==
  ASSUME IInv, NEW c \in Cpus, Acquire(c)
  PROVE  IInv'
<1> USE DEF IInv
<1>1. /\ pc[c] = "slot" /\ pc'[c] = "gen" /\ pc' \in [Cpus -> Pcs]
      /\ \A d \in Cpus : d # c => pc'[d] = pc[d]
  BY Moves, Positions DEF Acquire, MainAt
<1>2. TypeOK'
  BY <1>1 DEF Acquire, TypeOK, svcVars, frames
<1>3. Calm
  BY <1>1, CalmBy DEF Acquire, frames
<1>4. SlotExact'
  <2>1. \A d \in Cpus : pc'[d] \in Holders <=> d = c
    BY <1>1, Positions DEF Acquire, SlotExact
  <2>2. \A d \in Cpus : initiating'[d] = (pc'[d] \in Initiators)
    BY <1>1, Positions DEF Acquire, SlotExact
  <2>3. busy' = TRUE
    BY DEF Acquire
  <2> QED
    BY <2>1, <2>2, <2>3 DEF SlotExact
<1>5. CountInv' /\ UnmappedInv'
  BY <1>1, CountFrame, UnmappedFrame DEF Acquire, frames
<1>6. GenInv' /\ SeqInv' /\ ReqInv' /\ AckInv' /\ WaitInv' /\ TokenInv' /\ FrameReuseSafe'
  BY <1>1, <1>3, Positions, OutsideFrame DEF Acquire, svcVars, frames
<1> QED
  BY <1>2, <1>4, <1>5, <1>6

\* start gives up waiting for the slot.
LEMMA SlotTimeoutStep ==
  ASSUME IInv, NEW c \in Cpus, SlotTimeout(c)
  PROVE  IInv'
<1> USE DEF IInv
<1>1. /\ pc[c] = "slot" /\ pc'[c] = "idle" /\ pc' \in [Cpus -> Pcs]
      /\ \A d \in Cpus : d # c => pc'[d] = pc[d]
  BY Moves, Positions DEF SlotTimeout, MainAt
<1>2. arg' \in [Cpus -> SUBSET Pages] /\ \A d \in Cpus : d # c => arg'[d] = arg[d]
  BY DEF SlotTimeout, TypeOK
<1>3. initiating' \in [Cpus -> BOOLEAN] /\ initiating'[c] = FALSE
      /\ \A d \in Cpus : d # c => initiating'[d] = initiating[d]
  BY DEF SlotTimeout, TypeOK
<1>4. TypeOK'
  BY <1>1, <1>2, <1>3 DEF SlotTimeout, TypeOK, svcVars, frames
<1>5. Calm
  BY <1>1, CalmBy DEF SlotTimeout, frames
<1>6. SlotExact'
  <2>1. \A d \in Cpus : pc'[d] \in Holders <=> pc[d] \in Holders
    BY <1>1, Positions
  <2>2. \A d \in Cpus : initiating'[d] = (pc'[d] \in Initiators)
    BY <1>1, <1>3, Positions, SMTT(30) DEF SlotExact
  <2> QED
    BY <2>1, <2>2 DEF SlotExact, SlotTimeout
<1>7. CountInv'
  <2>1. Asking' \subseteq Asking /\ IsFiniteSet(Asking)
    BY <1>1, ShootdownAssumption, FS_Subset DEF Asking
  <2>2. Cardinality(Asking') <= Cardinality(Asking) /\ Cardinality(Asking) \in Nat /\ Cardinality(Asking') \in Nat
    BY <2>1, FS_Subset, FS_CardinalityType
  <2>3. lastGen' = lastGen /\ lastGen \in Nat
    BY ShootdownAssumption, SMTT(30) DEF SlotTimeout, TypeOK, Gens
  <2> QED
    BY <2>2, <2>3, ShootdownAssumption, SMTT(30) DEF CountInv
<1>8. GenInv' /\ SeqInv' /\ ReqInv' /\ AckInv' /\ WaitInv' /\ TokenInv' /\ FrameReuseSafe'
  BY <1>1, <1>2, <1>5, Positions, OutsideFrame DEF SlotTimeout, svcVars, frames
<1>9. UnmappedInv'
  BY <1>1, <1>2, UnmappedFrame DEF SlotTimeout, frames
<1> QED
  BY <1>4, <1>6, <1>7, <1>8, <1>9

\* wait times out, or the InFlight is dropped.
LEMMA AbandonStep ==
  ASSUME IInv, NEW c \in Cpus, Abandon(c)
  PROVE  IInv'
<1> USE DEF IInv
<1>1. /\ pc[c] = "wait" /\ pc'[c] = "drop" /\ pc' \in [Cpus -> Pcs]
      /\ \A d \in Cpus : d # c => pc'[d] = pc[d]
  BY Moves, Positions DEF Abandon, MainAt
<1>2. TypeOK'
  BY <1>1 DEF Abandon, TypeOK, domain, svcVars, frames
<1>3. Calm
  BY <1>1, CalmBy DEF Abandon, frames
<1>4. SlotExact' /\ CountInv' /\ UnmappedInv'
  BY <1>1, Positions, SlotFrame, CountFrame, UnmappedFrame DEF Abandon, domain, frames
<1>5. GenInv' /\ SeqInv' /\ ReqInv' /\ AckInv' /\ WaitInv' /\ TokenInv' /\ FrameReuseSafe'
  BY <1>1, <1>3, Positions, OutsideFrame DEF Abandon, domain, svcVars, frames
<1> QED
  BY <1>2, <1>4, <1>5

\* InFlight::drop gives the slot back.
LEMMA DropBusyStep ==
  ASSUME IInv, NEW c \in Cpus, DropBusy(c)
  PROVE  IInv'
<1> USE DEF IInv
<1>1. /\ pc[c] = "drop" /\ pc'[c] = "dropped" /\ pc' \in [Cpus -> Pcs]
      /\ \A d \in Cpus : d # c => pc'[d] = pc[d]
  BY Moves, Positions DEF DropBusy, MainAt
<1>2. TypeOK'
  BY <1>1 DEF DropBusy, TypeOK, svcVars, frames
<1>3. Calm
  BY <1>1, CalmBy DEF DropBusy, frames
<1>4. SlotExact'
  <2>1. \A d \in Cpus : pc'[d] \notin Holders
    BY <1>1, Positions DEF SlotExact
  <2>2. \A d \in Cpus : initiating'[d] = (pc'[d] \in Initiators)
    BY <1>1, Positions, ZenonT(30) DEF DropBusy, SlotExact
  <2>3. busy' = FALSE
    BY DEF DropBusy
  <2> QED
    BY <2>1, <2>2, <2>3 DEF SlotExact
<1>5. CountInv' /\ UnmappedInv'
  BY <1>1, CountFrame, UnmappedFrame DEF DropBusy, frames
<1>6. GenInv' /\ SeqInv' /\ ReqInv' /\ AckInv' /\ WaitInv' /\ TokenInv' /\ FrameReuseSafe'
  BY <1>1, <1>3, Positions, OutsideFrame DEF DropBusy, svcVars, frames
<1> QED
  BY <1>2, <1>4, <1>5, <1>6

\* InFlight::drop clears the initiating flag.
LEMMA DropInitiatingStep ==
  ASSUME IInv, NEW c \in Cpus, DropInitiating(c)
  PROVE  IInv'
<1> USE DEF IInv
<1>1. /\ pc[c] = "dropped" /\ pc'[c] = "idle" /\ pc' \in [Cpus -> Pcs]
      /\ \A d \in Cpus : d # c => pc'[d] = pc[d]
  BY Moves, Positions DEF DropInitiating, MainAt
<1>2. /\ arg' \in [Cpus -> SUBSET Pages] /\ gen' \in [Cpus -> Gens] /\ waiting' \in [Cpus -> SUBSET Cpus]
      /\ \A d \in Cpus : d # c => arg'[d] = arg[d] /\ gen'[d] = gen[d] /\ waiting'[d] = waiting[d]
  BY ShootdownAssumption, SMTT(30) DEF DropInitiating, TypeOK, Gens
<1>3. initiating' \in [Cpus -> BOOLEAN] /\ initiating'[c] = FALSE
      /\ \A d \in Cpus : d # c => initiating'[d] = initiating[d]
  BY DEF DropInitiating, TypeOK
<1>4. TypeOK'
  BY <1>1, <1>2, <1>3 DEF DropInitiating, TypeOK, svcVars, frames
<1>5. Calm
  BY <1>1, CalmBy DEF DropInitiating, frames
<1>6. SlotExact'
  <2>1. \A d \in Cpus : pc'[d] \in Holders <=> pc[d] \in Holders
    BY <1>1, Positions
  <2>2. \A d \in Cpus : initiating'[d] = (pc'[d] \in Initiators)
    BY <1>1, <1>3, Positions, SMTT(30) DEF SlotExact
  <2> QED
    BY <2>1, <2>2 DEF SlotExact, DropInitiating
<1>7. CountInv' /\ UnmappedInv'
  BY <1>1, <1>2, CountFrame, UnmappedFrame DEF DropInitiating, frames
<1>8. GenInv' /\ SeqInv' /\ ReqInv' /\ AckInv' /\ WaitInv' /\ TokenInv' /\ FrameReuseSafe'
  BY <1>1, <1>2, <1>5, Positions, OutsideFrame DEF DropInitiating, svcVars, frames
<1> QED
  BY <1>4, <1>6, <1>7, <1>8

----------------------------------------------------------------------------
(* The main contexts, inside a shootdown.                                  *)

\* What the owner of the slot leaves alone: it is the only one.
LEMMA InsideFrame ==
  ASSUME IInv, NEW c \in Cpus, pc[c] \in Holders, pc'[c] \in Holders,
         \A d \in Cpus : d # c => pc'[d] = pc[d],
         \A t \in Cpus : tlb'[t] \subseteq tlb[t],
         UNCHANGED <<busy, initiating, mapped, retired, released, online>>,
         \A d \in Cpus : d # c => arg'[d] = arg[d]
  PROVE  /\ Calm /\ SlotExact' /\ UnmappedInv' /\ FrameReuseSafe'
         /\ UNCHANGED tokens => TokenInv'
         /\ \A d \in Cpus : pc[d] \in Holders \/ pc'[d] \in Holders => d = c
<1> USE DEF IInv
<1>1. Calm
  BY CalmBy, Positions
<1>2. SlotExact' /\ UnmappedInv'
  BY SlotFrame, UnmappedFrame, Positions
<1>3. \A d \in Cpus : pc[d] \in Holders \/ pc'[d] \in Holders => d = c
  BY DEF SlotExact
<1> QED
  BY <1>1, <1>2, <1>3, ReuseFrame, TokenFrame

\* The next generation is new to everybody.
LEMMA NextGenStep ==
  ASSUME IInv, NEW c \in Cpus, NextGen(c)
  PROVE  IInv'
<1> USE DEF IInv
<1>1. /\ pc[c] = "gen" /\ pc'[c] = "odd" /\ pc' \in [Cpus -> Pcs]
      /\ \A d \in Cpus : d # c => pc'[d] = pc[d]
  BY Moves, Positions DEF NextGen, MainAt
<1>2. /\ Calm /\ SlotExact' /\ UnmappedInv' /\ FrameReuseSafe' /\ TokenInv'
      /\ \A d \in Cpus : pc[d] \in Holders \/ pc'[d] \in Holders => d = c
  BY <1>1, InsideFrame, Positions DEF NextGen, frames
<1>3. CountInv' /\ lastGen' \in Gens /\ lastGen \in Nat /\ lastGen' = lastGen + 1
  <2>1. Asking' = Asking \ {c} /\ c \in Asking
    BY <1>1 DEF Asking
  <2>2. IsFiniteSet(Asking)
    BY ShootdownAssumption, FS_Subset DEF Asking
  <2>3. /\ Cardinality(Asking') = Cardinality(Asking) - 1
        /\ Cardinality(Asking) \in Nat /\ Cardinality(Asking') \in Nat
    BY <2>1, <2>2, FS_RemoveElement, FS_CardinalityType
  <2>4. lastGen' = lastGen + 1 /\ lastGen \in Nat
    BY ShootdownAssumption, SMTT(30) DEF NextGen, TypeOK, Gens
  <2> QED
    BY <2>3, <2>4, ShootdownAssumption, SMTT(30) DEF CountInv, Gens
<1>4. gen' \in [Cpus -> Gens] /\ gen'[c] = lastGen'
  BY <1>3 DEF NextGen, TypeOK
<1>5. TypeOK'
  BY <1>1, <1>3, <1>4 DEF NextGen, TypeOK, svcVars, frames
<1>6. GenInv'
  <2>1. /\ \A t \in tokens : t.gen \in Nat
        /\ \A t \in Cpus : pending[t] \in Nat /\ acked[t] \in Nat
        /\ \A x \in ServiceCtx : reg[x].pending \in Nat
    BY ShootdownAssumption, SMTT(30) DEF TypeOK, Gens
  <2>2. /\ \A t \in tokens : t.gen <= lastGen'
        /\ \A t \in Cpus : pending[t] < lastGen' /\ acked[t] < lastGen'
        /\ \A x \in ServiceCtx : reg[x].pending < lastGen'
    BY <1>3, <2>1, SMTT(30) DEF GenInv
  <2>3. /\ \A t \in Cpus : pending[t] <= lastGen' /\ acked[t] <= lastGen'
        /\ \A x \in ServiceCtx : reg[x].pending <= lastGen'
    BY <1>3, <2>1, <2>2, SMTT(30)
  <2>4. \A d \in Cpus : pc'[d] \in Numbered => gen'[d] = lastGen'
    BY <1>2, <1>4, Positions
  <2> QED
    BY <2>2, <2>3, <2>4 DEF NextGen, GenInv, svcVars, frames
<1>7. SeqInv'
  <2>1. seq = 2 * lastGen /\ seq' = seq
    BY <1>2, <1>1, Positions DEF SeqInv, NextGen
  <2>2. \A d \in Cpus : pc'[d] \in {"odd", "reqgen", "req", "even"} => d = c
    BY <1>2, Positions
  <2>3. seq' = 2 * lastGen' - 2
    BY <1>3, <2>1, SMTT(30)
  <2> QED
    BY <1>1, <2>2, <2>3 DEF SeqInv
<1>8. ReqInv' /\ AckInv' /\ WaitInv'
  <2>1. \A d \in Cpus : pc'[d] \notin {"even", "scan"} \cup Public
    BY <1>1, <1>2, Positions
  <2> QED
    BY <2>1, Positions DEF ReqInv, AckInv, WaitInv
<1> QED
  BY <1>2, <1>3, <1>5, <1>6, <1>7, <1>8

\* The request is written under the sequence word.
LEMMA WriteStep ==
  ASSUME IInv, NEW c \in Cpus, SeqOdd(c) \/ WriteGen(c) \/ WriteReq(c)
  PROVE  IInv'
<1> USE DEF IInv
<1>1. /\ \/ pc[c] = "odd" /\ pc'[c] = "reqgen" /\ seq' = seq + 1 /\ UNCHANGED <<reqGen, req>>
         \/ pc[c] = "reqgen" /\ pc'[c] = "req" /\ reqGen' = gen[c] /\ UNCHANGED <<seq, req>>
         \/ pc[c] = "req" /\ pc'[c] = "even" /\ req' = arg[c] /\ UNCHANGED <<seq, reqGen>>
      /\ pc' \in [Cpus -> Pcs]
      /\ \A d \in Cpus : d # c => pc'[d] = pc[d]
      /\ UNCHANGED <<busy, lastGen, pending, acked, online, initiating, ipi, mapped, tlb,
                     gen, arg, waiting, todo, svcVars, frames, hotplugs>>
  BY Moves, Positions DEF SeqOdd, WriteGen, WriteReq, MainAt
<1>2. /\ Calm /\ SlotExact' /\ UnmappedInv' /\ FrameReuseSafe' /\ TokenInv'
      /\ \A d \in Cpus : pc[d] \in Holders \/ pc'[d] \in Holders => d = c
  BY <1>1, InsideFrame, Positions DEF frames
<1>3. CountInv' /\ GenInv'
  BY <1>1, Positions, CountFrame, GenFrame DEF svcVars, frames
<1>4. SeqInv'
  <2>1. lastGen \in Int /\ seq \in Int
    BY SMTT(30) DEF TypeOK, Gens
  <2>2. \A d \in Cpus : pc'[d] \in {"odd", "reqgen", "req", "even"} <=> d = c
    BY <1>1, <1>2, Positions
  <2>3. seq' = 2 * lastGen' - 1
    BY <1>1, <2>1, SMTT(30) DEF SeqInv
  <2> QED
    BY <1>1, <2>2, <2>3 DEF SeqInv
<1>5. lastGen >= 1
  BY <1>1, Positions, ShootdownAssumption, SMTT(30) DEF GenInv, TypeOK, Gens
<1>6. TypeOK'
  <2>1. seq' \in 0..2 * MaxGen
    <3>1. seq' = 2 * lastGen - 1
      BY <1>1, <1>4 DEF SeqInv
    <3>2. lastGen \in Nat /\ lastGen <= MaxGen /\ MaxGen \in Nat
      BY ShootdownAssumption, SMTT(30) DEF TypeOK, Gens
    <3> QED
      BY <1>5, <3>1, <3>2, SMTT(30)
  <2>2. reqGen' \in Gens /\ req' \subseteq Pages
    BY <1>1, SMTT(30) DEF TypeOK
  <2> QED
    BY <1>1, <2>1, <2>2 DEF TypeOK, svcVars, frames
<1>7. ReqInv'
  BY <1>1, <1>2, Positions DEF ReqInv
<1>8. AckInv' /\ WaitInv'
  <2>1. \A d \in Cpus : pc'[d] \notin {"scan"} \cup Public
    BY <1>1, <1>2, Positions
  <2> QED
    BY <2>1, Positions DEF AckInv, WaitInv
<1> QED
  BY <1>2, <1>3, <1>4, <1>6, <1>7, <1>8

\* The request is complete; every other CPU is still to be looked at.
LEMMA SeqEvenStep ==
  ASSUME IInv, NEW c \in Cpus, SeqEven(c)
  PROVE  IInv'
<1> USE DEF IInv
<1>1. /\ pc[c] = "even" /\ pc'[c] = "scan" /\ pc' \in [Cpus -> Pcs]
      /\ \A d \in Cpus : d # c => pc'[d] = pc[d]
  BY Moves, Positions DEF SeqEven, MainAt
<1>2. /\ Calm /\ SlotExact' /\ UnmappedInv' /\ FrameReuseSafe' /\ TokenInv'
      /\ \A d \in Cpus : pc[d] \in Holders \/ pc'[d] \in Holders => d = c
  BY <1>1, InsideFrame, Positions DEF SeqEven, frames
<1>3. CountInv' /\ GenInv' /\ ReqInv'
  BY <1>1, Positions, CountFrame, GenFrame, ReqFrame DEF SeqEven, svcVars, frames
<1>4. seq' = 2 * lastGen /\ lastGen' = lastGen /\ lastGen \in Nat /\ lastGen <= MaxGen /\ MaxGen \in Nat
  BY <1>1, ShootdownAssumption, SMTT(30) DEF SeqEven, SeqInv, TypeOK, Gens
<1>5. SeqInv'
  <2>1. \A d \in Cpus : pc'[d] \notin {"odd", "reqgen", "req", "even"}
    BY <1>1, <1>2, Positions
  <2> QED
    BY <1>4, <2>1 DEF SeqInv
<1>6. todo' \in [Cpus -> SUBSET Cpus] /\ todo'[c] = Cpus \ {c}
  BY DEF SeqEven, TypeOK
<1>7. TypeOK'
  <2>1. seq' \in 0..2 * MaxGen
    BY <1>4, SMTT(30)
  <2> QED
    BY <1>1, <1>6, <2>1 DEF SeqEven, TypeOK, svcVars, frames
<1>8. AckInv' /\ WaitInv'
  <2>1. \A d \in Cpus : pc'[d] \notin Public /\ (pc'[d] = "scan" => d = c)
    BY <1>1, <1>2, Positions
  <2> QED
    BY <1>6, <2>1, Positions DEF AckInv, WaitInv
<1> QED
  BY <1>2, <1>3, <1>5, <1>7, <1>8

\* A CPU that is off line has nothing to flush that it could use.
LEMMA OfflineFlushed ==
  ASSUME UnmappedInv, NEW c \in Cpus, NEW t \in Cpus, ~online[t]
  PROVE  Flushed(c, t)
BY DEF UnmappedInv, Flushed, CleanOn

\* start reads the online flag of a target, or has read them all.
LEMMA ScanStep ==
  ASSUME IInv, NEW c \in Cpus, Scan(c)
  PROVE  IInv'
<1> USE DEF IInv
<1>1. /\ pc[c] = "scan" /\ pc'[c] \in {"scan", "publish"} /\ pc' \in [Cpus -> Pcs]
      /\ \A d \in Cpus : d # c => pc'[d] = pc[d]
  <2>1. pc' = pc \/ Goto(c, "publish")
    BY DEF Scan
  <2> QED
    BY <2>1, Moves, Positions DEF Scan, MainAt, TypeOK
<1>2. UNCHANGED <<domain, mapped, tlb, gen, arg, svcVars, frames, hotplugs>>
  BY DEF Scan
<1>3. /\ Calm /\ SlotExact' /\ UnmappedInv' /\ FrameReuseSafe' /\ TokenInv'
      /\ \A d \in Cpus : pc[d] \in Holders \/ pc'[d] \in Holders => d = c
  BY <1>1, <1>2, InsideFrame, Positions DEF domain, frames
<1>4. CountInv' /\ GenInv' /\ SeqInv' /\ ReqInv'
  BY <1>1, <1>2, Positions, CountFrame, GenFrame, SeqFrame, ReqFrame DEF domain, svcVars, frames
<1>5. TypeOK'
  <2>1. todo' \in [Cpus -> SUBSET Cpus] /\ waiting' \in [Cpus -> SUBSET Cpus]
    BY SMTT(30) DEF Scan, TypeOK
  <2> QED
    BY <1>1, <1>2, <2>1 DEF TypeOK, domain, svcVars, frames
<1>6. AckInv'
  <2> SUFFICES ASSUME pc'[c] \in Public
               PROVE  AckInv!(c)!2'
    BY <1>3, Positions DEF AckInv
  <2>1. gen'[c] = lastGen
    BY <1>1, <1>2, Positions DEF GenInv
  <2>2. \A t \in Cpus : acked'[t] # gen'[c]
    BY <1>1, <1>2, <2>1, Positions, SMTT(30) DEF GenInv, domain, TypeOK, Gens
  <2>3. \A x \in ServiceCtx : reg'[x].pending # gen'[c]
    BY <1>1, <1>2, <2>1, Positions, SMTT(30) DEF GenInv, svcVars, TypeOK, Gens
  <2> QED
    BY <2>2, <2>3
<1>7. WaitInv'
  <2>1. \A t \in Cpus : Flushed(c, t) => Flushed(c, t)'
    BY <1>1, <1>2, <1>3, FlushedFrame, Positions
  <2>2. CASE pc'[c] = "publish"
    <3>1. \A t \in Cpus \ {c} : t \in waiting'[c] \/ Flushed(c, t)'
      BY <1>1, <2>1, <2>2 DEF Scan, WaitInv
    <3> QED
      BY <1>3, <2>2, <3>1, Positions DEF WaitInv
  <2>3. CASE pc'[c] = "scan"
    <3>1. PICK s \in todo[c] : /\ todo' = [todo EXCEPT ![c] = @ \ {s}]
                               /\ waiting' = [waiting EXCEPT ![c] = IF online[s] THEN @ \cup {s} ELSE @]
      BY <2>3, <1>1, Moves, Positions DEF Scan
    <3>2. /\ todo'[c] = todo[c] \ {s} /\ s \in Cpus
          /\ waiting'[c] = IF online[s] THEN waiting[c] \cup {s} ELSE waiting[c]
      BY <3>1 DEF TypeOK
    <3>3. ~online[s] => Flushed(c, s)
      BY <3>2, OfflineFlushed
    <3>4. \A t \in Cpus \ {c} : t \in todo'[c] \cup waiting'[c] \/ Flushed(c, t)'
      BY <1>1, <2>1, <3>2, <3>3, SMTT(30) DEF WaitInv
    <3> QED
      BY <1>3, <2>3, <3>4, Positions DEF WaitInv
  <2> QED
    BY <1>1, <2>2, <2>3
<1> QED
  BY <1>3, <1>4, <1>5, <1>6, <1>7

\* start publishes the generation to a target and raises its IPI.
LEMMA PublishStep ==
  ASSUME IInv, NEW c \in Cpus, Publish(c) \/ SendIpi(c)
  PROVE  IInv'
<1> USE DEF IInv
<1>1. /\ pc[c] \in {"publish", "ipi"} /\ pc'[c] \in {"publish", "ipi"} /\ pc' \in [Cpus -> Pcs]
      /\ \A d \in Cpus : d # c => pc'[d] = pc[d]
  <2>1. Goto(c, "ipi") \/ Goto(c, "publish")
    BY DEF Publish, SendIpi, Goto
  <2> QED
    BY <2>1, Moves, Positions DEF Publish, SendIpi, MainAt
<1>2. UNCHANGED <<busy, lastGen, seq, reqGen, req, acked, online, initiating, mapped, tlb,
                   gen, arg, waiting, svcVars, frames, hotplugs>>
  BY DEF Publish, SendIpi
<1>3. /\ pending' \in [Cpus -> Gens] /\ ipi' \in [Cpus -> BOOLEAN] /\ todo' \in [Cpus -> SUBSET Cpus]
      /\ \A t \in Cpus : pending'[t] \in {pending[t], gen[c]}
  <2>1. CASE Publish(c)
    <3>1. PICK s \in todo[c] : pending' = [pending EXCEPT ![s] = gen[c]]
      BY <2>1 DEF Publish
    <3> QED
      BY <2>1, <3>1, ZenonT(30) DEF Publish, TypeOK
  <2>2. CASE SendIpi(c)
    BY <2>2, SMTT(30) DEF SendIpi, TypeOK
  <2> QED
    BY <2>1, <2>2
<1>4. /\ Calm /\ SlotExact' /\ UnmappedInv' /\ FrameReuseSafe' /\ TokenInv'
      /\ \A d \in Cpus : pc[d] \in Holders \/ pc'[d] \in Holders => d = c
  BY <1>1, <1>2, InsideFrame, Positions DEF frames
<1>5. CountInv' /\ SeqInv' /\ ReqInv'
  BY <1>1, <1>2, Positions, CountFrame, SeqFrame, ReqFrame
<1>6. GenInv'
  <2>1. gen[c] = lastGen /\ lastGen \in Int
    BY <1>1, Positions, SMTT(30) DEF GenInv, TypeOK, Gens
  <2>2. \A t \in Cpus : pending'[t] <= lastGen
    BY <1>3, <2>1, SMTT(30) DEF GenInv
  <2>3. \A d \in Cpus : pc'[d] \notin Secret /\ (pc'[d] \in Numbered => d = c)
    BY <1>1, <1>4, Positions
  <2> QED
    BY <1>2, <2>1, <2>2, <2>3 DEF GenInv, svcVars, frames
<1>7. TypeOK'
  BY <1>1, <1>2, <1>3 DEF TypeOK, svcVars, frames
<1>8. AckInv'
  BY <1>1, <1>2, <1>4, AckFrame, Positions DEF svcVars
<1>9. WaitInv'
  BY <1>1, <1>2, <1>4, WaitFrame, Positions
<1> QED
  BY <1>4, <1>5, <1>6, <1>7, <1>8, <1>9

\* start flushes its own CPU.
LEMMA LocalFlushStep ==
  ASSUME IInv, NEW c \in Cpus, LocalFlush(c)
  PROVE  IInv'
<1> USE DEF IInv
<1>1. /\ pc[c] = "publish" /\ pc'[c] = "wait" /\ pc' \in [Cpus -> Pcs]
      /\ \A d \in Cpus : d # c => pc'[d] = pc[d]
  BY Moves, Positions DEF LocalFlush, MainAt
<1>2. UNCHANGED <<domain, mapped, gen, arg, waiting, todo, svcVars, frames, hotplugs>>
  BY DEF LocalFlush
<1>3. /\ tlb' \in [Cpus -> SUBSET Pages] /\ tlb'[c] = tlb[c] \ arg[c]
      /\ \A t \in Cpus : tlb'[t] \subseteq tlb[t]
  BY DEF LocalFlush, TypeOK
<1>4. /\ Calm /\ SlotExact' /\ UnmappedInv' /\ FrameReuseSafe' /\ TokenInv'
      /\ \A d \in Cpus : pc[d] \in Holders \/ pc'[d] \in Holders => d = c
  BY <1>1, <1>2, <1>3, InsideFrame, Positions DEF domain, frames
<1>5. CountInv' /\ GenInv' /\ SeqInv' /\ ReqInv'
  BY <1>1, <1>2, Positions, CountFrame, GenFrame, SeqFrame, ReqFrame DEF domain, svcVars, frames
<1>6. TypeOK'
  BY <1>1, <1>2, <1>3 DEF TypeOK, domain, svcVars, frames
<1>7. AckInv'
  BY <1>1, <1>2, <1>4, AckFrame, Positions DEF domain, svcVars
<1>8. WaitInv'
  <2>1. \A t \in Cpus : Flushed(c, t) => Flushed(c, t)'
    BY <1>1, <1>2, <1>4, FlushedFrame, Positions
  <2>2. \A t \in Cpus \ {c} : t \in waiting'[c] \/ Flushed(c, t)'
    BY <1>1, <1>2, <2>1, Positions DEF WaitInv
  <2>3. Flushed(c, c)'
    BY <1>2, <1>3 DEF Flushed, CleanOn
  <2> QED
    BY <1>1, <1>4, <2>2, <2>3, Positions, ZenonT(30) DEF WaitInv
<1> QED
  BY <1>4, <1>5, <1>6, <1>7, <1>8

\* wait sees the acknowledgement of a target, or that it is off line.
LEMMA CollectStep ==
  ASSUME IInv, NEW c \in Cpus, Collect(c)
  PROVE  IInv'
<1> USE DEF IInv
<1>1. pc[c] = "wait" /\ UNCHANGED <<domain, mapped, tlb, pc, gen, arg, todo, svcVars, frames, hotplugs>>
  BY DEF Collect, MainAt
<1>2. PICK s \in waiting[c] : /\ acked[s] = gen[c] \/ ~online[s]
                              /\ waiting' = [waiting EXCEPT ![c] = @ \ {s}]
  BY DEF Collect
<1>3. waiting' \in [Cpus -> SUBSET Cpus] /\ waiting'[c] = waiting[c] \ {s} /\ s \in Cpus
  BY <1>2 DEF TypeOK
<1>4. /\ Calm /\ SlotExact' /\ UnmappedInv' /\ FrameReuseSafe' /\ TokenInv'
      /\ \A d \in Cpus : pc[d] \in Holders \/ pc'[d] \in Holders => d = c
  BY <1>1, InsideFrame, Positions DEF domain, frames
<1>5. CountInv' /\ GenInv' /\ SeqInv' /\ ReqInv'
  BY <1>1, CountFrame, GenFrame, SeqFrame, ReqFrame DEF domain, svcVars, frames
<1>6. TypeOK'
  BY <1>1, <1>3 DEF TypeOK, domain, svcVars, frames
<1>7. AckInv'
  BY <1>1, <1>4, AckFrame DEF domain, svcVars
<1>8. WaitInv'
  <2>1. \A t \in Cpus : Flushed(c, t) => Flushed(c, t)'
    BY <1>1, <1>4, FlushedFrame, Positions
  <2>2. Flushed(c, s)
    BY <1>1, <1>2, <1>3, OfflineFlushed, Positions DEF AckInv
  <2>3. \A t \in Cpus \ {c} : t \in waiting'[c] \/ Flushed(c, t)'
    BY <1>1, <1>3, <2>1, <2>2, Positions, ZenonT(30) DEF WaitInv
  <2>4. Flushed(c, c)'
    BY <1>1, <2>1 DEF WaitInv
  <2> QED
    BY <1>1, <1>4, <2>3, <2>4, Positions, ZenonT(30) DEF WaitInv
<1> QED
  BY <1>4, <1>5, <1>6, <1>7, <1>8

\* wait returns its token when it waits for nobody.
LEMMA CompleteStep ==
  ASSUME IInv, NEW c \in Cpus, Complete(c)
  PROVE  IInv'
<1> USE DEF IInv
<1> DEFINE token == [cpu |-> c, gen |-> gen[c], req |-> arg[c]]
<1>1. /\ pc[c] = "wait" /\ pc'[c] = "drop" /\ pc' \in [Cpus -> Pcs]
      /\ \A d \in Cpus : d # c => pc'[d] = pc[d]
  BY Moves, Positions DEF Complete, MainAt
<1>2. /\ UNCHANGED <<domain, mapped, tlb, gen, arg, waiting, todo, svcVars, retired, released, hotplugs>>
      /\ tokens' = tokens \cup {token} /\ waiting[c] = {}
  BY DEF Complete
<1>3. /\ Calm /\ SlotExact' /\ UnmappedInv' /\ FrameReuseSafe'
      /\ \A d \in Cpus : pc[d] \in Holders \/ pc'[d] \in Holders => d = c
  BY <1>1, <1>2, InsideFrame, Positions DEF domain
<1>4. CountInv' /\ SeqInv' /\ ReqInv'
  BY <1>1, <1>2, Positions, CountFrame, SeqFrame, ReqFrame DEF domain
<1>5. GenInv'
  <2>1. gen[c] = lastGen /\ lastGen \in Int
    BY <1>1, Positions, SMTT(30) DEF GenInv, TypeOK, Gens
  <2>2. \A t \in tokens' : t.gen <= lastGen
    BY <1>2, <2>1, SMTT(30) DEF GenInv
  <2>3. \A d \in Cpus : pc'[d] \notin Secret /\ (pc'[d] \in Numbered => d = c)
    BY <1>1, <1>3, Positions
  <2> QED
    BY <1>2, <2>1, <2>2, <2>3 DEF GenInv, domain, svcVars
<1>6. TypeOK'
  <2>1. token \in [cpu : Cpus, gen : Gens, req : SUBSET Pages]
    BY DEF TypeOK
  <2> QED
    BY <1>1, <1>2, <2>1 DEF TypeOK, domain, svcVars
<1>7. AckInv' /\ WaitInv'
  <2>1. \A d \in Cpus : pc'[d] \notin {"scan"} \cup Public
    BY <1>1, <1>3, Positions
  <2> QED
    BY <2>1, Positions DEF AckInv, WaitInv
<1>8. TokenInv'
  <2>1. \A t \in Cpus : Flushed(c, t)
    BY <1>1, <1>2, Positions DEF WaitInv
  <2>2. \A p \in Pages, d \in Cpus : CleanOn(p, d) => CleanOn(p, d)'
    BY <1>1, <1>2 DEF CleanOn
  <2> SUFFICES ASSUME NEW p \in Pages, NEW t \in tokens', NEW d \in Cpus,
                      retired[p] # None, t.gen > retired[p].after, p \in t.req
               PROVE  CleanOn(p, d)
    BY <1>2, <2>2 DEF TokenInv
  <2>3. CASE t \in tokens
    BY <2>3 DEF TokenInv
  <2>4. CASE t = token
    <3>1. p \in arg[c] /\ gen[c] > retired[p].after
      BY <2>4
    <3>2. gen[c] \in Int /\ retired[p].after \in Int
      BY SMTT(30) DEF TypeOK, Gens
    <3> QED
      BY <2>1, <3>1, <3>2 DEF Flushed
  <2> QED
    BY <1>2, <2>3, <2>4
<1> QED
  BY <1>3, <1>4, <1>5, <1>6, <1>7, <1>8

----------------------------------------------------------------------------
(* The theorems.                                                           *)

\* The invariant holds when the domain is created.
LEMMA InitIInv == Init => IInv
<1> SUFFICES ASSUME Init PROVE IInv
  OBVIOUS
<1>1. 0 \in Gens /\ Gens \subseteq Nat /\ MaxGen \in Nat
  BY ShootdownAssumption, SMTT(30) DEF Gens
<1>2. \A c \in Cpus : pc[c] = "off"
  BY DEF Init
<1>3. TypeOK
  <2>1. reg \in [ServiceCtx -> [pending : Gens, seq : Nat, gen : Gens, req : SUBSET Pages]]
    BY <1>1 DEF Init
  <2>2. seq \in 0..2 * MaxGen /\ hotplugs \in 0..MaxHotplug
    BY <1>1, ShootdownAssumption, SMTT(30) DEF Init
  <2> QED
    BY <1>1, <2>1, <2>2, Positions DEF Init, TypeOK
<1>4. SlotExact
  <2>1. \A c \in Cpus : pc[c] \notin Holders /\ pc[c] \notin Initiators
    BY <1>2, Positions
  <2>2. (\E c \in Cpus : pc[c] \in Holders) = FALSE /\ \A c \in Cpus : (pc[c] \in Initiators) = FALSE
    BY <2>1, SMTT(30)
  <2>3. busy = FALSE /\ \A c \in Cpus : initiating[c] = FALSE
    BY DEF Init
  <2> QED
    BY <2>1, <2>2, <2>3 DEF SlotExact
<1>5. CountInv
  <2>1. Asking = {}
    BY <1>2 DEF Asking
  <2>2. Cardinality(Asking) = 0
    BY <2>1, FS_EmptySet
  <2> QED
    BY <1>1, <2>2, SMTT(30) DEF Init, CountInv
<1>6. GenInv /\ SeqInv /\ ReqInv /\ AckInv /\ WaitInv
  BY <1>2, Positions, SMTT(30) DEF Init, GenInv, SeqInv, ReqInv, AckInv, WaitInv
<1>7. TokenInv /\ UnmappedInv /\ FrameReuseSafe
  BY <1>2 DEF Init, TokenInv, UnmappedInv, FrameReuseSafe
<1> QED
  BY <1>3, <1>4, <1>5, <1>6, <1>7 DEF IInv

\* Every access of the domain, every use of a translation and every frame given
\* back preserves the invariant.
LEMMA NextIInv == IInv /\ [Next]_vars => IInv'
<1> SUFFICES ASSUME IInv, [Next]_vars PROVE IInv'
  OBVIOUS
<1>1. ASSUME NEW c \in Cpus, Progress(c) PROVE IInv'
  BY <1>1, OnlineFlushStep, OfflineStep, RetireStep, AcquireStep, NextGenStep, WriteStep, SeqEvenStep,
     ScanStep, PublishStep, LocalFlushStep, CollectStep, CompleteStep, DropBusyStep, DropInitiatingStep
     DEF Progress
<1>2. ASSUME NEW c \in Cpus, Main(c) PROVE IInv'
  BY <1>1, <1>2, MarkOnlineStep, MarkOfflineStep, UnmapStep, StartStep, SlotTimeoutStep, AbandonStep DEF Main
<1>3. ASSUME NEW x \in ServiceCtx, Service(x) PROVE IInv'
  BY <1>3, SvcReadStep, SvcReqStep, SvcFlushStep, SvcAckStep DEF Service
<1>4. CASE Next
  BY <1>2, <1>3, <1>4, FillStep, ServiceEntryStep, ReleaseStep DEF Next
<1>5. CASE UNCHANGED vars
  <2> USE DEF vars, domain, mainVars, svcVars, frames
  <2>1. TypeOK' /\ Calm
    BY <1>5, CalmBy DEF TypeOK, IInv
  <2>2. SlotExact' /\ CountInv' /\ GenInv' /\ SeqInv' /\ ReqInv' /\ UnmappedInv'
    BY <1>5, SlotFrame, CountFrame, GenFrame, SeqFrame, ReqFrame, UnmappedFrame DEF IInv
  <2>3. AckInv' /\ WaitInv' /\ TokenInv' /\ FrameReuseSafe'
    BY <1>5, <2>1, AckFrame, WaitFrame, TokenFrame, ReuseFrame DEF IInv
  <2> QED
    BY <2>1, <2>2, <2>3 DEF IInv
<1> QED
  BY <1>4, <1>5

\* The invariant holds in every state of every behaviour of the protocol.
LEMMA Invariance == Spec => []IInv
BY InitIInv, NextIInv, PTL DEF Spec

\* RetiredFrame::release gives a frame back only when no CPU can reach it, for
\* any number of CPUs, any requests, and whatever times out, answers late or goes
\* off line.
THEOREM FramesAreSafe == Spec => []FrameReuseSafe
<1>1. IInv => FrameReuseSafe
  BY DEF IInv
<1> QED
  BY <1>1, Invariance, PTL

\* The slot has exactly one owner, and the slot and the initiating flags are given
\* back on every path of start, wait and InFlight::drop.
THEOREM SlotIsSound == Spec => []SlotSound
<1>1. IInv => SlotSound
  BY DEF IInv, SlotSound
<1> QED
  BY <1>1, Invariance, PTL
=============================================================================
