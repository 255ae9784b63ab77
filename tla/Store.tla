------------------------------- MODULE Store -------------------------------
(***************************************************************************)
(* nxstore v1 (lib/store.c): copy-on-write generations over a block device *)
(* with a volatile write cache.  Blocks 0 and 1 are the superblock slots;  *)
(* every other block holds the root of a generation or a block of object   *)
(* data.  A transaction builds a new root in memory (work); st_put writes  *)
(* the data at once, into free blocks; st_commit writes the root, flushes, *)
(* writes the superblock into the slot the current generation is not in,   *)
(* and flushes again.  st_mount picks the newest generation that verifies. *)
(*                                                                         *)
(* A checksum verifies iff the bytes are the ones it was computed from.    *)
(* The crc of a root is the serial number of the commit that built it: its *)
(* label and boot_id differ from those of every other commit.  The crc of  *)
(* an object is its payload.                                               *)
(*                                                                         *)
(* A definition marked BROKEN is a wrong variant of the one that follows   *)
(* it, like the ST_TEST_* variants of the source; no specification uses    *)
(* it.                                                                     *)
(***************************************************************************)
EXTENDS BlockDev, Sequences, FiniteSets

CONSTANTS
    Names,          \* object names
    PinNames,       \* pin names
    Payloads,       \* object contents
    NBlk,           \* NBlk[p]: blocks payload p takes (nblk_for of its length)
    Retain,         \* generations whose content is kept (st_format)
    ObjMax,         \* ST_OBJ_MAX
    PinMax,         \* ST_PIN_MAX
    Reserve,        \* ST_RESERVE_BLOCKS
    MaxCommits,     \* bound: roots built, format included
    MaxTxOps,       \* bound: calls within one transaction
    Faults,         \* device faults considered: subset of FaultKinds
    MaxFaults,      \* bound: number of faults
    MaxCrashes      \* bound: number of power losses

FaultKinds == {"read", "write", "flush", "rot"}
RetainMin == 2      \* ST_RETAIN_MIN

ASSUME StoreAssumption ==
    /\ NBlk \in [Payloads -> Nat]
    /\ Retain \in Nat /\ Retain >= RetainMin
    /\ ObjMax \in Nat /\ PinMax \in Nat /\ Reserve \in Nat
    /\ MaxCommits \in Nat /\ MaxTxOps \in Nat /\ MaxFaults \in Nat /\ MaxCrashes \in Nat
    /\ Faults \subseteq FaultKinds
    /\ IsFiniteSet(Names) /\ IsFiniteSet(PinNames)

VARIABLES
    up,             \* the power is on
    pc,             \* where the running st_format or st_commit is
    mounted, inTx, cur, curBlk, curSlot, maxGen, used,      \* struct store
    work, txused, txPrune, txReserve,                       \* its open transaction
    txOps,          \* calls made in it
    newBlk,         \* st_commit: the block allocated for the root
    commits,        \* roots built so far
    faults, crashes,
    saved, doubt    \* history: the last root reported saved; the roots whose
                    \* superblock was written since, reported or not

storeVars == <<mounted, inTx, cur, curBlk, curSlot, maxGen, used>>
txVars == <<work, txused, txPrune, txReserve, newBlk, txOps>>
history == <<saved, doubt>>
vars == <<devVars, up, pc, storeVars, txVars, commits, faults, crashes, history>>
----------------------------------------------------------------------------
DataBlocks == 2 .. NBlocks - 1

NoRoot == [t |-> "none"]

Absent == [t |-> "absent"]      \* no entry in the object or pin table
Objs(root) == {n \in Names : root.obj[n] # Absent}
PinsOf(root) == {q \in PinNames : root.pin[q] # Absent}

\* The three kinds of block the store writes.
Super(root, blk) == [t |-> "super", gen |-> root.gen, blk |-> blk, crc |-> root.crc]
Data(p, i) == [t |-> "data", val |-> p, part |-> i]
FirstRoot(crc) == [t |-> "root", gen |-> 1, parent |-> 0, crc |-> crc, nextOid |-> 1,
                   obj |-> [n \in Names |-> Absent], hist |-> << >>,
                   pin |-> [q \in PinNames |-> Absent]]

Extent(o) == {o.blk + i : i \in 0 .. o.nblk - 1}
Refs(root) == {root.hist[i] : i \in DOMAIN root.hist} \cup {root.pin[q] : q \in PinsOf(root)}

\* root_sane: the structural rules a root must satisfy to be accepted.
RootSane(r) ==
    /\ r.gen > 0 /\ r.parent < r.gen /\ r.nextOid > 0
    /\ Cardinality(Objs(r)) <= ObjMax /\ Cardinality(PinsOf(r)) <= PinMax
    /\ \A i \in DOMAIN r.hist :
          /\ r.hist[i].gen < (IF i = 1 THEN r.gen ELSE r.hist[i - 1].gen)
          /\ r.hist[i].gen > 0 /\ r.hist[i].blk \in DataBlocks
    /\ \A q \in PinsOf(r) : r.pin[q].gen \in 1 .. r.gen - 1 /\ r.pin[q].blk \in DataBlocks
    /\ \A n \in Objs(r) :
          LET o == r.obj[n]
          IN  /\ o.oid \in 1 .. r.nextOid - 1
              /\ o.version > 0 /\ o.modGen \in 1 .. r.gen /\ o.nblk = NBlk[o.val]
              /\ Extent(o) \subseteq DataBlocks
              /\ o.nblk = 0 => o.blk = 0
              /\ \A m \in Objs(r) \ {n} :
                    /\ r.obj[m].oid # o.oid
                    /\ Extent(r.obj[m]) \cap Extent(o) = {}

(***************************************************************************)
(* Reading.  d is what the device returns, by block.                       *)
(***************************************************************************)
LoadRoot(d, ref) ==
    /\ ref.blk \in DataBlocks
    /\ d[ref.blk].t = "root"
    /\ d[ref.blk].gen = ref.gen /\ d[ref.blk].crc = ref.crc
    /\ RootSane(d[ref.blk])

VerifyExtent(d, o) == \A i \in 0 .. o.nblk - 1 : d[o.blk + i] = Data(o.val, i)

\* BROKEN (ST_TEST_NO_VERIFY): the extents are not verified.
TrySlotNoVerify(d, i) == d[i].t = "super" /\ LoadRoot(d, d[i])

TrySlot(d, i) ==
    /\ d[i].t = "super"
    /\ LoadRoot(d, d[i])
    /\ \A n \in Objs(d[d[i].blk]) : VerifyExtent(d, d[d[i].blk].obj[n])

\* The slot st_mount mounts: the newest that verifies, slot A on a tie.
MountSlots(d) ==
    {i \in {0, 1} :
        /\ TrySlot(d, i)
        /\ \A j \in {0, 1} : TrySlot(d, j) =>
              d[j].gen < d[i].gen \/ (d[j].gen = d[i].gen /\ i <= j)}

\* max_gen: the largest generation of a superblock with a valid checksum.
SlotGen(d, i) == IF d[i].t = "super" THEN d[i].gen ELSE 0
\* BROKEN: a generation that does not verify is not counted.
MaxSlotGenVerified(d) ==
    LET g(i) == IF TrySlot(d, i) THEN d[i].gen ELSE 0
    IN  IF g(0) > g(1) THEN g(0) ELSE g(1)

MaxSlotGen(d) == IF SlotGen(d, 0) > SlotGen(d, 1) THEN SlotGen(d, 0) ELSE SlotGen(d, 1)

\* BROKEN: the extents of the objects are not marked.
MarkRootOnly(root, blk) == {blk}

MarkRoot(root, blk) == {blk} \cup UNION {Extent(root.obj[n]) : n \in Objs(root)}

\* BROKEN: the pinned generations are forgotten.
RecomputeUsedNoPins(d, root, blk) ==
    {0, 1} \cup MarkRoot(root, blk)
           \cup UNION {IF LoadRoot(d, root.hist[i])
                       THEN MarkRoot(d[root.hist[i].blk], root.hist[i].blk)
                       ELSE {root.hist[i].blk} : i \in DOMAIN root.hist}

\* recompute_used: a retained root that does not load keeps only its own block.
RecomputeUsed(d, root, blk) ==
    {0, 1} \cup MarkRoot(root, blk)
           \cup UNION {IF LoadRoot(d, ref) THEN MarkRoot(d[ref.blk], ref.blk) ELSE {ref.blk}
                       : ref \in Refs(root)}

(***************************************************************************)
(* alloc: first fit of n blocks free in both maps (no element: no space).  *)
(***************************************************************************)
Free == DataBlocks \ (used \cup txused)
Fits(n) == {b \in Free : \A i \in 0 .. n - 1 : b + i \in Free}
Alloc(n, reserveOk) ==
    {b \in Fits(n) : /\ reserveOk \/ Cardinality(Free) - n >= Reserve
                     /\ \A c \in Fits(n) : b <= c}

\* find_ref: a generation retained by the durable current root.
FindRef(gen) ==
    {r \in {[gen |-> cur.gen, blk |-> curBlk, crc |-> cur.crc]} \cup Refs(cur) : r.gen = gen}
----------------------------------------------------------------------------
CanFault(kind) == kind \in Faults /\ faults < MaxFaults

\* What the reads of one mount or recompute return: a block whose read fails
\* is as good as a torn one.
Reads ==
    {vol} \cup (IF CanFault("read") THEN {[vol EXCEPT ![b] = Torn] : b \in Blocks} ELSE {})
FaultsAfter(d) == IF d = vol THEN faults ELSE faults + 1

Init ==
    /\ DevInit
    /\ up = TRUE /\ pc = "idle"
    /\ mounted = FALSE /\ inTx = FALSE
    /\ cur = NoRoot /\ curBlk = 0 /\ curSlot = 0 /\ maxGen = 0 /\ used = {}
    /\ work = NoRoot /\ txused = {} /\ txPrune = FALSE /\ txReserve = FALSE
    /\ newBlk = 0 /\ txOps = 0
    /\ commits = 0 /\ faults = 0 /\ crashes = 0
    /\ saved = NoRoot /\ doubt = {}

(***************************************************************************)
(* st_format, on a device that holds no store: the root and an empty slot  *)
(* B, flush, the superblock in slot A, flush.  A device error ends it.     *)
(***************************************************************************)
FormatWrites == [b \in {1, 2} |-> IF b = 2 THEN FirstRoot(commits + 1) ELSE Blank]

FormatRoot ==
    /\ up /\ pc = "idle" /\ ~mounted /\ saved = NoRoot
    /\ Unsettled = {} /\ MountSlots(vol) = {}
    /\ commits < MaxCommits /\ commits' = commits + 1
    /\ \/ DevWrite(FormatWrites) /\ pc' = "fmt_root" /\ UNCHANGED faults
       \/ CanFault("write") /\ DevWriteError(FormatWrites) /\ faults' = faults + 1 /\ pc' = "idle"
    /\ UNCHANGED <<up, storeVars, txVars, crashes, history>>

FormatBarrier ==
    /\ up /\ pc = "fmt_root"
    /\ \/ DevFlush /\ pc' = "fmt_barrier" /\ UNCHANGED faults
       \/ CanFault("flush") /\ DevFlushError /\ faults' = faults + 1 /\ pc' = "idle"
    /\ UNCHANGED <<up, storeVars, txVars, commits, crashes, history>>

FormatSuper ==
    LET root == FirstRoot(commits)
        W == [b \in {0} |-> Super(root, 2)]
    IN  /\ up /\ pc = "fmt_barrier"
        /\ \/ DevWrite(W) /\ pc' = "fmt_super" /\ UNCHANGED faults
           \/ CanFault("write") /\ DevWriteError(W) /\ faults' = faults + 1 /\ pc' = "idle"
        /\ doubt' = doubt \cup {root}
        /\ UNCHANGED <<up, storeVars, txVars, commits, crashes, saved>>

FormatFlush ==
    /\ up /\ pc = "fmt_super" /\ pc' = "idle"
    /\ \/ DevFlush /\ saved' = FirstRoot(commits) /\ doubt' = {} /\ UNCHANGED faults
       \/ CanFault("flush") /\ DevFlushError /\ faults' = faults + 1 /\ UNCHANGED history
    /\ UNCHANGED <<up, storeVars, txVars, commits, crashes>>
----------------------------------------------------------------------------
\* st_abort: the transaction is dropped.  (work is dead outside a transaction.)
TxReset ==
    /\ inTx' = FALSE /\ work' = NoRoot /\ txused' = {}
    /\ txPrune' = FALSE /\ txReserve' = FALSE /\ newBlk' = 0 /\ txOps' = 0

StoreZero ==
    /\ mounted' = FALSE /\ cur' = NoRoot /\ curBlk' = 0 /\ curSlot' = 0
    /\ maxGen' = 0 /\ used' = {}

(***************************************************************************)
(* st_mount: reads both slots, mounts the newest generation that verifies. *)
(***************************************************************************)
Mount ==
    /\ up /\ pc = "idle" /\ ~mounted
    /\ \E d \in Reads :
          /\ faults' = FaultsAfter(d)
          /\ \/ /\ MountSlots(d) = {}
                /\ mounted' = FALSE /\ cur' = NoRoot /\ curBlk' = 0 /\ curSlot' = 0
                /\ maxGen' = MaxSlotGen(d) /\ used' = {}       \* ST_E_NOROOT
             \/ \E i \in MountSlots(d) :
                /\ mounted' = TRUE
                /\ cur' = d[d[i].blk] /\ curBlk' = d[i].blk /\ curSlot' = i
                /\ maxGen' = MaxSlotGen(d)
                /\ used' = RecomputeUsed(d, cur', curBlk')
    /\ TxReset
    /\ UNCHANGED <<devVars, up, pc, commits, crashes, history>>

InTx == up /\ pc = "idle" /\ mounted /\ inTx

\* BROKEN: a transaction may begin on a store that is not mounted.
BeginUnmounted ==
    /\ up /\ pc = "idle" /\ ~inTx
    /\ commits < MaxCommits
    /\ inTx' = TRUE /\ work' = cur /\ txused' = {} /\ txPrune' = FALSE /\ txReserve' = FALSE
    /\ txOps' = 0
    /\ UNCHANGED <<devVars, up, pc, mounted, cur, curBlk, curSlot, maxGen, used, newBlk,
                   commits, faults, crashes, history>>

Begin ==
    /\ up /\ pc = "idle" /\ mounted /\ ~inTx
    /\ commits < MaxCommits
    /\ inTx' = TRUE /\ work' = cur /\ txused' = {} /\ txPrune' = FALSE /\ txReserve' = FALSE
    /\ txOps' = 0
    /\ UNCHANGED <<devVars, up, pc, mounted, cur, curBlk, curSlot, maxGen, used, newBlk,
                   commits, faults, crashes, history>>

\* st_abort, and st_commit with a malformed label.
Abort ==
    /\ InTx
    /\ TxReset
    /\ UNCHANGED <<devVars, up, pc, mounted, cur, curBlk, curSlot, maxGen, used,
                   commits, faults, crashes, history>>

\* A call of the open transaction that changes nothing but the transaction.
TxCall ==
    /\ InTx /\ txOps < MaxTxOps /\ txOps' = txOps + 1
    /\ UNCHANGED <<up, pc, storeVars, newBlk, commits, crashes, history>>

\* The root w after object `name` is given payload p at block blk.
PutObj(w, name, p, blk) ==
    LET old == name \in Objs(w)
        o == [oid |-> IF old THEN w.obj[name].oid ELSE w.nextOid,
              version |-> IF old THEN w.obj[name].version + 1 ELSE 1,
              modGen |-> maxGen + 1, val |-> p, blk |-> blk, nblk |-> NBlk[p]]
    IN  [w EXCEPT !.obj = [@ EXCEPT ![name] = o], !.nextOid = IF old THEN @ ELSE @ + 1]

\* st_put.  The blocks of a failed write stay allocated to the transaction.
Put(name, p) ==
    /\ TxCall
    /\ name \in Objs(work) \/ Cardinality(Objs(work)) < ObjMax
    /\ \/ /\ NBlk[p] = 0
          /\ work' = PutObj(work, name, p, 0)
          /\ UNCHANGED <<devVars, txused, faults>>
       \/ /\ NBlk[p] > 0
          /\ \E blk \in Alloc(NBlk[p], txReserve) :
                LET W == [b \in blk .. blk + NBlk[p] - 1 |-> Data(p, b - blk)]
                IN  /\ txused' = txused \cup DOMAIN W
                    /\ \/ /\ DevWrite(W) /\ UNCHANGED faults
                          /\ work' = PutObj(work, name, p, blk)
                       \/ /\ CanFault("write") /\ DevWriteError(W) /\ faults' = faults + 1
                          /\ UNCHANGED work
    /\ UNCHANGED <<txPrune, txReserve>>

Del(name) ==
    /\ TxCall
    /\ name \in Objs(work)
    /\ work' = [work EXCEPT !.obj = [@ EXCEPT ![name] = Absent]]
    /\ UNCHANGED <<devVars, txused, txPrune, txReserve, faults>>

Pin(pin, gen) ==
    /\ TxCall
    /\ pin \notin PinsOf(work) /\ Cardinality(PinsOf(work)) < PinMax
    /\ \E ref \in FindRef(gen) : work' = [work EXCEPT !.pin = [@ EXCEPT ![pin] = ref]]
    /\ UNCHANGED <<devVars, txused, txPrune, txReserve, faults>>

Unpin(pin) ==
    /\ TxCall
    /\ pin \in PinsOf(work)
    /\ work' = [work EXCEPT !.pin = [@ EXCEPT ![pin] = Absent]]
    /\ UNCHANGED <<devVars, txused, txPrune, txReserve, faults>>

Prune ==
    /\ TxCall /\ ~txPrune /\ txPrune' = TRUE
    /\ UNCHANGED <<devVars, work, txused, txReserve, faults>>

AllowReserve ==
    /\ TxCall /\ ~txReserve /\ txReserve' = TRUE
    /\ UNCHANGED <<devVars, work, txused, txPrune, faults>>
----------------------------------------------------------------------------
(***************************************************************************)
(* st_commit.                                                              *)
(***************************************************************************)
\* BROKEN: one generation too few is retained.
KeepOneLess == (IF txPrune THEN RetainMin ELSE Retain) - 2

Keep == (IF txPrune THEN RetainMin ELSE Retain) - 1

\* The history of the new root: the current generation, then as many of its
\* own retained generations as the policy allows.
NewHist ==
    LET all == <<[gen |-> cur.gen, blk |-> curBlk, crc |-> cur.crc]>> \o cur.hist
    IN  SubSeq(all, 1, IF Keep < Len(all) THEN Keep ELSE Len(all))

NewRoot == [t |-> "root", gen |-> maxGen + 1, parent |-> cur.gen, crc |-> commits + 1,
            nextOid |-> work.nextOid, obj |-> work.obj, hist |-> NewHist, pin |-> work.pin]

\* Step 1: the root goes into a free block; no space or a device error aborts.
CommitRoot ==
    /\ InTx
    /\ commits < MaxCommits /\ commits' = commits + 1
    /\ \/ /\ Alloc(1, TRUE) = {}
          /\ TxReset /\ UNCHANGED <<devVars, pc, faults>>
       \/ \E blk \in Alloc(1, TRUE) :
          /\ DevWrite([b \in {blk} |-> NewRoot])
          /\ pc' = "root" /\ work' = NewRoot /\ newBlk' = blk /\ txused' = txused \cup {blk}
          /\ UNCHANGED <<inTx, txPrune, txReserve, txOps, faults>>
       \/ \E blk \in Alloc(1, TRUE) :
          /\ CanFault("write") /\ DevWriteError([b \in {blk} |-> NewRoot])
          /\ faults' = faults + 1
          /\ TxReset /\ UNCHANGED pc
    /\ UNCHANGED <<up, mounted, cur, curBlk, curSlot, maxGen, used, crashes, history>>

\* Step 2: barrier; a failed flush aborts.
CommitBarrier ==
    /\ up /\ pc = "root"
    /\ \/ /\ DevFlush /\ pc' = "barrier"
          /\ UNCHANGED <<inTx, txVars, faults>>
       \/ /\ CanFault("flush") /\ DevFlushError /\ faults' = faults + 1
          /\ pc' = "idle" /\ TxReset
    /\ UNCHANGED <<up, mounted, cur, curBlk, curSlot, maxGen, used, commits, crashes, history>>

\* BROKEN (ST_TEST_SAME_SLOT): the superblock always goes to slot A.
CommitSuperSameSlot ==
    /\ up /\ pc = "barrier" /\ pc' = "super"
    /\ DevWrite([b \in {0} |-> Super(work, newBlk)])
    /\ doubt' = doubt \cup {work}
    /\ UNCHANGED <<up, storeVars, txVars, commits, faults, crashes, saved>>

\* Step 3: the superblock, into the slot that does not hold the current
\* generation; an error leaves the outcome unknown and unmounts the store.
CommitSuper ==
    LET W == [b \in {1 - curSlot} |-> Super(work, newBlk)]
    IN  /\ up /\ pc = "barrier"
        /\ \/ /\ DevWrite(W) /\ pc' = "super"
              /\ UNCHANGED <<mounted, inTx, txVars, faults>>
           \/ /\ CanFault("write") /\ DevWriteError(W) /\ faults' = faults + 1
              /\ pc' = "idle" /\ TxReset /\ mounted' = FALSE
        /\ doubt' = doubt \cup {work}
        /\ UNCHANGED <<up, cur, curBlk, curSlot, maxGen, used, commits, crashes, saved>>

\* BROKEN (ST_TEST_NO_FINAL_FLUSH): reported saved before the flush.
CommitFlushNone ==
    /\ up /\ pc = "super" /\ pc' = "idle"
    /\ mounted' = TRUE /\ cur' = work /\ curBlk' = newBlk /\ curSlot' = 1 - curSlot
    /\ maxGen' = work.gen /\ used' = RecomputeUsed(vol, work, newBlk)
    /\ saved' = work /\ doubt' = {}
    /\ TxReset
    /\ UNCHANGED <<devVars, up, commits, faults, crashes>>

\* Step 4: only now is the generation reported saved.
CommitFlush ==
    /\ up /\ pc = "super" /\ pc' = "idle"
    /\ \/ /\ DevFlush
          /\ mounted' = TRUE /\ cur' = work /\ curBlk' = newBlk /\ curSlot' = 1 - curSlot
          /\ maxGen' = work.gen
          /\ \E d \in Reads : /\ used' = RecomputeUsed(d, work, newBlk)
                              /\ faults' = FaultsAfter(d)
          /\ saved' = work /\ doubt' = {}
       \/ /\ CanFault("flush") /\ DevFlushError /\ faults' = faults + 1
          /\ mounted' = FALSE
          /\ UNCHANGED <<cur, curBlk, curSlot, maxGen, used, history>>
    /\ TxReset
    /\ UNCHANGED <<up, commits, crashes>>
----------------------------------------------------------------------------
(***************************************************************************)
(* Power loss at any point, the outcome of every unflushed write, damage   *)
(* of the medium at rest, and the next boot.  What the medium holds then   *)
(* is what has been saved.  A commit of unknown outcome stays in doubt     *)
(* while a slot holds its superblock and st_mount rejects it: the extent   *)
(* it lacks may be written again, by a transaction that puts the same      *)
(* payload in the same block.                                              *)
(***************************************************************************)
Recovered(d) == IF MountSlots(d) = {} THEN NoRoot
                ELSE LET i == CHOOSE j \in MountSlots(d) : TRUE IN d[d[i].blk]

\* The slots st_mount turns down, and the generation of a root.
Rejected(d) == {i \in {0, 1} : d[i].t = "super" /\ ~TrySlot(d, i)}
GenOf(root) == IF root = NoRoot THEN 0 ELSE root.gen

PowerLoss ==
    /\ up /\ crashes < MaxCrashes /\ crashes' = crashes + 1
    /\ up' = FALSE /\ pc' = "idle"
    /\ DevPowerLoss /\ StoreZero /\ TxReset
    /\ UNCHANGED <<commits, faults, history>>

Settle ==
    /\ ~up /\ DevSettle
    /\ UNCHANGED <<up, pc, storeVars, txVars, commits, faults, crashes, history>>

Rot ==
    /\ ~up /\ Unsettled = {} /\ CanFault("rot") /\ faults' = faults + 1
    /\ \E b \in Blocks : vol[b] \notin {Torn, Blank} /\ DevRot(b)
    /\ UNCHANGED <<up, pc, storeVars, txVars, commits, crashes, history>>

Boot ==
    /\ ~up /\ Unsettled = {} /\ up' = TRUE
    /\ saved' = Recovered(vol)
    /\ doubt' = {r \in doubt : r.gen > GenOf(saved') /\ \E i \in Rejected(vol) :
                                  vol[i] = Super(r, vol[i].blk)}
    /\ UNCHANGED <<devVars, pc, storeVars, txVars, commits, faults, crashes>>
----------------------------------------------------------------------------
Next ==
    \/ FormatRoot \/ FormatBarrier \/ FormatSuper \/ FormatFlush
    \/ Mount \/ Begin \/ Abort
    \/ \E n \in Names : Del(n) \/ \E p \in Payloads : Put(n, p)
    \/ \E q \in PinNames : Unpin(q) \/ \E g \in 1 .. MaxCommits : Pin(q, g)
    \/ Prune \/ AllowReserve
    \/ CommitRoot \/ CommitBarrier \/ CommitSuper \/ CommitFlush
    \/ PowerLoss \/ Settle \/ Rot \/ Boot

Spec == Init /\ [][Next]_vars
----------------------------------------------------------------------------
(***************************************************************************)
(* Properties.                                                             *)
(***************************************************************************)
Ref == [gen : Nat, blk : Nat, crc : Nat]
Obj == [oid : Nat, version : Nat, modGen : Nat, val : Payloads, blk : Nat, nblk : Nat]
Root == [t : {"root"}, gen : Nat, parent : Nat, crc : Nat, nextOid : Nat,
         obj : [Names -> Obj \cup {Absent}], hist : Seq(Ref),
         pin : [PinNames -> Ref \cup {Absent}]]
Content == Root \cup [t : {"super"}, gen : Nat, blk : Nat, crc : Nat]
                \cup [t : {"data"}, val : Payloads, part : Nat] \cup {Torn, Blank}
CommitSteps == {"root", "barrier", "super"}
FormatSteps == {"fmt_root", "fmt_barrier", "fmt_super"}

\* Every variable has its type; a transaction needs a mounted store, a running
\* commit needs a transaction (the state checks of st_begin and st_commit).
TypeOK ==
    /\ vol \in [Blocks -> Content]
    /\ media \in [Blocks -> SUBSET Content]
    /\ pc \in {"idle"} \cup CommitSteps \cup FormatSteps
    /\ up \in BOOLEAN /\ mounted \in BOOLEAN /\ inTx \in BOOLEAN
    /\ txPrune \in BOOLEAN /\ txReserve \in BOOLEAN
    /\ cur \in Root \cup {NoRoot} /\ work \in Root \cup {NoRoot}
    /\ curBlk \in Nat /\ curSlot \in {0, 1} /\ maxGen \in Nat /\ newBlk \in Nat
    /\ used \subseteq Nat /\ txused \subseteq DataBlocks
    /\ commits \in Nat /\ faults \in Nat /\ crashes \in Nat /\ txOps \in Nat
    /\ saved \in Root \cup {NoRoot} /\ doubt \subseteq Root
    /\ mounted => up /\ cur \in Root
    /\ inTx => mounted /\ work \in Root
    /\ pc \in CommitSteps => inTx
    /\ pc \in FormatSteps => up /\ ~mounted

\* The generation the store has mounted is complete on the device: its root is
\* the one in memory and every extent verifies.  Puts, aborted commits, failed
\* writes and read errors never touch a block of it (I1, and I5 at mount).
CurrentIntact ==
    mounted => /\ curBlk \in DataBlocks /\ vol[curBlk] = cur
               /\ \A n \in Objs(cur) : VerifyExtent(vol, cur.obj[n])

\* A retained generation can be read back: st_root_of, then st_read of every
\* object, succeed.
Readable(d, ref) ==
    LoadRoot(d, ref) /\ \A n \in Objs(d[ref.blk]) : VerifyExtent(d, d[ref.blk].obj[n])

\* Every generation the mounted one retains, in its history or by a pin, can be
\* read back: a block is reused only after the commit that drops the last
\* reference to it is durable.
RetainedReadable == mounted => \A ref \in Refs(cur) : Readable(vol, ref)

\* st_check finds no problem between commits: the superblock in the current
\* slot points to the root in memory, every retained generation verifies,
\* distinct extents do not overlap, the map of used blocks is exact.
Referenced == {<<curBlk, 1, "root">>}
              \cup {<<ref.blk, 1, "root">> : ref \in Refs(cur)}
              \cup {<<o.blk, o.nblk, o.oid>> : o \in
                      UNION {{vol[b].obj[n] : n \in Objs(vol[b])}
                             : b \in {curBlk} \cup {ref.blk : ref \in Refs(cur)}}}
ExtentOf(e) == {e[1] + i : i \in 0 .. e[2] - 1}
CheckClean ==
    mounted /\ pc = "idle" =>
        /\ vol[curSlot] = Super(cur, curBlk)
        /\ CurrentIntact /\ RetainedReadable
        /\ \A e, f \in Referenced : e # f => ExtentOf(e) \cap ExtentOf(f) = {}
        /\ used = {0, 1} \cup UNION {ExtentOf(e) : e \in Referenced}

\* I6: whenever the other slot holds a superblock, its generation verifies in
\* full, so that falling back to it never finds reused blocks.
FallbackReady ==
    mounted /\ pc = "idle" => \A i \in {0, 1} : vol[i].t = "super" => TrySlot(vol, i)

\* A store that was ever saved can be mounted at any later time: whatever a
\* transaction or a failed commit wrote, one slot still verifies.
AlwaysMountable == saved # NoRoot /\ Unsettled = {} => MountSlots(vol) # {}

\* Recovery has somewhere to go: a saved store mounts at any moment, and between
\* commits both slots that hold a superblock verify in full (st_mount, I6).
Recoverable == AlwaysMountable /\ FallbackReady

\* A generation that could be read back stays readable as long as the store
\* retains it without interruption.
RetainedStable ==
    [][mounted /\ mounted' =>
         \A ref \in Refs(cur) \cap Refs(cur)' : Readable(vol, ref) => Readable(vol, ref)']_vars

\* The superblock a commit writes has a larger generation than both slots hold
\* with a valid checksum, even after falling back from a damaged generation
\* (max_gen counts rejected superblocks too), so it is the one mounted next.
FreshGeneration ==
    [][pc = "barrier" /\ pc' = "super" => work.gen > SlotGen(vol, 0) /\ work.gen > SlotGen(vol, 1)]_vars
=============================================================================
