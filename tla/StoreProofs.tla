---------------------------- MODULE StoreProofs ----------------------------
(***************************************************************************)
(* Proofs about Store, for every device size, retention policy, set of     *)
(* payloads, and any number of device faults and power losses: types, that *)
(* the mounted generation stays intact, and that generation numbers are    *)
(* fresh; then what a superblock slot and a saved root say of the medium.  *)
(***************************************************************************)
EXTENDS Store, TLAPS

USE Zenon

\* What makes CurrentIntact inductive.  The blocks of the mounted generation
\* are in use, the objects of the open transaction are complete on the device
\* in blocks that are in use or belong to the transaction, and from step 1 of a
\* commit on the new root is where newBlk says.  Every write goes to a free
\* block or to a superblock slot, so it touches none of these.
Placed(d, root, blocks) ==
    \A n \in Objs(root) : /\ Extent(root.obj[n]) \subseteq blocks \cap DataBlocks
                          /\ VerifyExtent(d, root.obj[n])

CurrentPlaced == mounted => /\ curBlk \in DataBlocks \cap used /\ vol[curBlk] = cur
                            /\ Placed(vol, cur, used)

WorkPlaced == inTx => Placed(vol, work, used \cup txused)

RootWritten == pc \in CommitSteps => newBlk \in DataBlocks \cap txused /\ vol[newBlk] = work

Intact == CurrentPlaced /\ WorkPlaced /\ RootWritten
----------------------------------------------------------------------------
(***************************************************************************)
(* Types of what the actions compute.                                      *)
(***************************************************************************)
\* A block whose tag is "root" holds a root.
LEMMA ContentRoot == ASSUME NEW c \in Content, c.t = "root" PROVE c \in Root
BY SMTT(30) DEF Content, Root, Torn, Blank

\* A block whose tag is "super" holds a superblock.
LEMMA ContentSuper ==
    ASSUME NEW c \in Content, c.t = "super" PROVE c.gen \in Nat /\ c.blk \in Nat /\ c.crc \in Nat
BY SMTT(30) DEF Content, Root, Torn, Blank

\* A retained generation's reference is well typed.
LEMMA RefsType == ASSUME NEW r \in Root, NEW ref \in Refs(r) PROVE ref \in Ref
<1>1. \A i \in DOMAIN r.hist : r.hist[i] \in Ref
  BY SMTT(30) DEF Root
<1>2. \A q \in PinsOf(r) : r.pin[q] \in Ref
  BY DEF Root, PinsOf
<1> QED
  BY <1>1, <1>2 DEF Refs

\* recompute_used covers the generation it is given.
LEMMA RecomputeUsedCovers ==
    ASSUME NEW d, NEW r, NEW blk
    PROVE  MarkRoot(r, blk) \subseteq RecomputeUsed(d, r, blk)
BY DEF RecomputeUsed

\* What a read returns is a device content that differs from vol in torn blocks
\* only.
LEMMA ReadsType ==
    ASSUME vol \in [Blocks -> Content], NEW d \in Reads
    PROVE  /\ d \in [Blocks -> Content]
           /\ \A b \in Blocks : d[b] = Torn \/ d[b] = vol[b]
<1>1. Torn \in Content
  BY DEF Content
<1>2. CASE d = vol
  BY <1>2
<1>3. CASE \E b \in Blocks : d = [vol EXCEPT ![b] = Torn]
  BY <1>1, <1>3
<1> QED
  BY <1>2, <1>3 DEF Reads

\* alloc returns a run of free blocks.
LEMMA AllocFree ==
    ASSUME NEW n \in Nat, NEW ok, NEW blk \in Alloc(n, ok)
    PROVE  /\ blk \in DataBlocks \ (used \cup txused)
           /\ \A i \in 0 .. n - 1 : blk + i \in DataBlocks \ (used \cup txused)
BY DEF Alloc, Fits, Free

----------------------------------------------------------------------------
(***************************************************************************)
(* Type correctness.                                                       *)
(***************************************************************************)
\* The initial root is a root.
LEMMA FirstRootType == ASSUME NEW crc \in Nat PROVE FirstRoot(crc) \in Root
<1>1. << >> \in Seq(Ref)
  BY SMTT(30)
<1> QED
  BY <1>1 DEF FirstRoot, Root

\* st_mount takes its root from a data block.
LEMMA MountSlotRoot ==
    ASSUME NEW d \in [Blocks -> Content], NEW i \in MountSlots(d)
    PROVE  /\ i \in {0, 1} /\ d[i].t = "super" /\ d[i].blk \in DataBlocks
           /\ d[d[i].blk].t = "root" /\ d[d[i].blk] \in Root
           /\ RootSane(d[d[i].blk])
           /\ \A n \in Objs(d[d[i].blk]) : VerifyExtent(d, d[d[i].blk].obj[n])
<1>1. i \in {0, 1} /\ TrySlot(d, i)
  BY DEF MountSlots
<1>2. DataBlocks \subseteq Blocks
  BY NBlocksAssumption, SMTT(30) DEF DataBlocks, Blocks
<1>3. d[d[i].blk] \in Content /\ d[d[i].blk].t = "root"
  BY <1>1, <1>2 DEF TrySlot, LoadRoot
<1> QED
  BY <1>1, <1>3, ContentRoot DEF TrySlot, LoadRoot

\* A fresh disk and a store not yet mounted have their types.
LEMMA TypeInit == Init => TypeOK
<1> SUFFICES ASSUME Init PROVE TypeOK
  OBVIOUS
<1>1. Blank \in Content
  BY DEF Content
<1>2. vol \in [Blocks -> Content] /\ media \in [Blocks -> SUBSET Content]
  BY <1>1 DEF Init, DevInit
<1> QED
  BY <1>2 DEF Init, TypeOK, CommitSteps, FormatSteps

\* What st_put leaves alone.
LEMMA PutFrame ==
    ASSUME NEW n \in Names, NEW p \in Payloads, Put(n, p)
    PROVE  /\ up /\ pc = "idle" /\ mounted /\ inTx /\ txOps' = txOps + 1
           /\ UNCHANGED <<up, pc, storeVars, newBlk, commits, crashes, history, txPrune, txReserve>>
BY DEF Put, TxCall, InTx

\* st_put of an empty object writes nothing.
LEMMA PutEmpty ==
    ASSUME NEW n \in Names, NEW p \in Payloads, Put(n, p), NBlk[p] = 0
    PROVE  work' = PutObj(work, n, p, 0) /\ UNCHANGED <<devVars, txused, faults>>
<1>1. ~(NBlk[p] > 0)
  BY SMTT(30)
<1> QED
  BY <1>1 DEF Put

\* st_put of any other object writes newly allocated blocks.
LEMMA PutBlocks ==
    ASSUME NEW n \in Names, NEW p \in Payloads, Put(n, p), NBlk[p] > 0
    PROVE  \E blk \in Alloc(NBlk[p], txReserve) :
             LET W == [b \in blk .. blk + NBlk[p] - 1 |-> Data(p, b - blk)]
             IN  /\ txused' = txused \cup DOMAIN W
                 /\ \/ DevWrite(W) /\ UNCHANGED faults /\ work' = PutObj(work, n, p, blk)
                    \/ CanFault("write") /\ DevWriteError(W) /\ faults' = faults + 1 /\ UNCHANGED work
<1>1. NBlk[p] # 0
  BY SMTT(30)
<1> QED
  BY <1>1 DEF Put

\* Every call of the store and every event of the device preserves the types.
LEMMA TypeStep == ASSUME TypeOK, [Next]_vars PROVE TypeOK'
\* A write of well-typed contents keeps the device well typed, whether it
\* succeeds or fails half way.
<1>DevWriteType.
    ASSUME vol \in [Blocks -> Content], media \in [Blocks -> SUBSET Content],
           NEW W, \A b \in DOMAIN W : W[b] \in Content,
           DevWrite(W) \/ DevWriteError(W)
    PROVE  vol' \in [Blocks -> Content] /\ media' \in [Blocks -> SUBSET Content]
  <2> USE <1>DevWriteType
  <2>1. Torn \in Content
    BY DEF Content
  <2>2. CASE DevWrite(W)
    BY <2>1, <2>2 DEF DevWrite
  <2>3. CASE DevWriteError(W)
    <3>1. media' \in [Blocks -> SUBSET Content]
      BY <2>1, <2>3, SMTT(30) DEF DevWriteError
    <3>2. PICK done \in [DOMAIN W -> {"old", "new", "torn"}] :
            vol' = [b \in Blocks |->
                      IF b \notin DOMAIN W THEN vol[b]
                      ELSE CASE done[b] = "old"  -> vol[b]
                             [] done[b] = "new"  -> W[b]
                             [] done[b] = "torn" -> Torn]
      BY <2>3 DEF DevWriteError
    <3> QED
      BY <2>1, <3>1, <3>2
  <2> QED
    BY <2>2, <2>3
\* The blocks of a root are natural numbers.
<1>MarkRootType. ASSUME NEW r \in Root, NEW blk \in Nat PROVE MarkRoot(r, blk) \subseteq Nat
  <2> USE <1>MarkRootType
  <2>1. ASSUME NEW n \in Objs(r), NEW b \in Extent(r.obj[n]) PROVE b \in Nat
    <3>1. r.obj[n] \in Obj
      BY DEF Objs, Root
    <3> QED
      BY <2>1, <3>1, SMTT(30) DEF Extent, Obj
  <2> QED
    BY <2>1 DEF MarkRoot
\* recompute_used yields block numbers, whatever the reads return.
<1>RecomputeUsedType.
    ASSUME NEW d \in [Blocks -> Content], NEW r \in Root, NEW blk \in Nat
    PROVE  RecomputeUsed(d, r, blk) \subseteq Nat
  <2> USE <1>RecomputeUsedType
  <2>1. MarkRoot(r, blk) \subseteq Nat
    BY <1>MarkRootType
  <2>2. ASSUME NEW ref \in Refs(r)
        PROVE  (IF LoadRoot(d, ref) THEN MarkRoot(d[ref.blk], ref.blk) ELSE {ref.blk}) \subseteq Nat
    <3>1. ref.blk \in Nat
      BY RefsType DEF Ref
    <3>2. LoadRoot(d, ref) => d[ref.blk] \in Root
      <4>1. DataBlocks \subseteq Blocks
        BY NBlocksAssumption, SMTT(30) DEF DataBlocks, Blocks
      <4> QED
        BY <4>1, ContentRoot DEF LoadRoot
    <3>3. CASE LoadRoot(d, ref)
      BY <3>1, <3>2, <3>3, <1>MarkRootType
    <3>4. CASE ~LoadRoot(d, ref)
      BY <3>1, <3>4
    <3> QED
      BY <3>3, <3>4
  <2> QED
    BY <2>1, <2>2, SMTT(30) DEF RecomputeUsed
\* A superblock is a content.
<1>SuperType. ASSUME NEW r \in Root, NEW blk \in Nat PROVE Super(r, blk) \in Content
  BY <1>SuperType DEF Super, Root, Content
\* st_abort leaves a well-typed transaction, closed.
<1>TxResetType.
    ASSUME TxReset
    PROVE  /\ inTx' = FALSE /\ work' = NoRoot /\ txused' \subseteq DataBlocks
           /\ txPrune' = FALSE /\ txReserve' = FALSE /\ newBlk' \in Nat /\ txOps' \in Nat
  BY <1>TxResetType DEF TxReset
\* Nothing of the device and the mounted store changes in a call that only
\* prepares the next root.
<1>TypeTxCalls.
    ASSUME \/ Abort \/ Prune \/ AllowReserve \/ Begin
           \/ \E n \in Names : Del(n) \/ \E p \in Payloads : Put(n, p)
           \/ \E q \in PinNames : Unpin(q) \/ \E g \in 1 .. MaxCommits : Pin(q, g)
    PROVE  TypeOK'
  <2> USE <1>TypeTxCalls
  \* st_put makes a root of a root.
  <2>PutObjType.
      ASSUME NEW w \in Root, NEW name \in Names, NEW p \in Payloads, NEW blk \in Nat, maxGen \in Nat
      PROVE  PutObj(w, name, p, blk) \in Root
    <3> USE <2>PutObjType
    <3>1. NBlk[p] \in Nat
      BY StoreAssumption
    <3>2. name \in Objs(w) => w.obj[name] \in Obj
      BY DEF Objs, Root
    <3> DEFINE o == [oid |-> IF name \in Objs(w) THEN w.obj[name].oid ELSE w.nextOid,
                     version |-> IF name \in Objs(w) THEN w.obj[name].version + 1 ELSE 1,
                     modGen |-> maxGen + 1, val |-> p, blk |-> blk, nblk |-> NBlk[p]]
    <3>3. o \in Obj
      BY <3>1, <3>2, SMTT(30) DEF Obj, Root
    <3> HIDE DEF o
    <3>4. [w.obj EXCEPT ![name] = o] \in [Names -> Obj \cup {Absent}]
      BY <3>3 DEF Root
    <3>5. (IF name \in Objs(w) THEN w.nextOid ELSE w.nextOid + 1) \in Nat
      BY SMTT(30) DEF Root
    <3>6. ASSUME NEW f \in [Names -> Obj \cup {Absent}], NEW k \in Nat
          PROVE  [w EXCEPT !.obj = f, !.nextOid = k] \in Root
      BY <3>6 DEF Root
    <3> QED
      BY <3>4, <3>5, <3>6 DEF PutObj, o
  <2> USE DEF TypeOK, CommitSteps, FormatSteps, devVars, storeVars, history
  <2>1. CASE Abort
    BY <2>1 DEF Abort, InTx, TxReset
  <2>2. CASE Prune
    BY <2>2, SMTT(30) DEF Prune, TxCall, InTx
  <2>3. CASE AllowReserve
    BY <2>3, SMTT(30) DEF AllowReserve, TxCall, InTx
  <2>4. CASE Begin
    BY <2>4 DEF Begin
  <2>5. ASSUME NEW n \in Names, Del(n) PROVE TypeOK'
    <3>1. work' \in Root
      BY <2>5 DEF Del, TxCall, InTx, Root
    <3> QED
      BY <2>5, <3>1, SMTT(30) DEF Del, TxCall, InTx
  <2>6. ASSUME NEW n \in Names, NEW p \in Payloads, Put(n, p) PROVE TypeOK'
    <3>1. NBlk[p] \in Nat
      BY StoreAssumption
    <3>4. /\ up /\ pc = "idle" /\ mounted /\ inTx
          /\ UNCHANGED <<up, pc, storeVars, newBlk, commits, crashes, history, txPrune, txReserve>>
      BY <2>6, PutFrame
    <3>5. txOps' \in Nat
      BY <2>6, PutFrame, SMTT(30)
    <3>6. work \in Root /\ maxGen \in Nat
      BY <3>4
    <3>2. CASE NBlk[p] = 0
      <4>1. work' = PutObj(work, n, p, 0) /\ UNCHANGED <<devVars, txused, faults>>
        BY <2>6, <3>2, PutEmpty
      <4>2. work' \in Root
        BY <3>6, <4>1, <2>PutObjType
      <4> QED
        BY <3>4, <3>5, <4>1, <4>2
    <3>3. CASE NBlk[p] > 0
      <4> DEFINE W(blk) == [b \in blk .. blk + NBlk[p] - 1 |-> Data(p, b - blk)]
      <4>1. PICK blk \in Alloc(NBlk[p], txReserve) :
               /\ txused' = txused \cup DOMAIN W(blk)
               /\ \/ DevWrite(W(blk)) /\ UNCHANGED faults /\ work' = PutObj(work, n, p, blk)
                  \/ CanFault("write") /\ DevWriteError(W(blk)) /\ faults' = faults + 1 /\ UNCHANGED work
        BY <2>6, <3>3, PutBlocks
      <4>2. blk \in Nat /\ DOMAIN W(blk) \subseteq DataBlocks
        <5>1. blk \in DataBlocks /\ \A i \in 0 .. NBlk[p] - 1 : blk + i \in DataBlocks
          BY <3>1, <4>1, AllocFree
        <5>2. blk \in Nat
          BY <5>1, NBlocksAssumption, SMTT(30) DEF DataBlocks
        <5>3. ASSUME NEW b \in blk .. blk + NBlk[p] - 1 PROVE b \in DataBlocks
          <6>1. b - blk \in 0 .. NBlk[p] - 1 /\ b = blk + (b - blk)
            BY <3>1, <5>2, SMTT(30)
          <6> QED
            BY <5>1, <6>1
        <5> QED
          BY <5>2, <5>3
      <4>3. \A b \in DOMAIN W(blk) : W(blk)[b] \in Content
        BY <4>2, <3>1, SMTT(30) DEF Data, Content
      <4> HIDE DEF W
      <4>4. vol' \in [Blocks -> Content] /\ media' \in [Blocks -> SUBSET Content]
        BY <4>1, <4>3, <1>DevWriteType
      <4>5. work' \in Root
        <5>1. PutObj(work, n, p, blk) \in Root
          BY <3>6, <4>2, <2>PutObjType
        <5> QED
          BY <3>6, <4>1, <5>1
      <4>6. faults' \in Nat
        <5>1. faults' = faults \/ faults' = faults + 1
          BY <4>1
        <5> QED
          BY <5>1, SMTT(30)
      <4>7. txused' \subseteq DataBlocks
        BY <4>1, <4>2
      <4> QED
        BY <3>4, <3>5, <4>4, <4>5, <4>6, <4>7
    <3> QED
      BY <3>1, <3>2, <3>3, SMTT(30)
  <2>7. ASSUME NEW q \in PinNames, Unpin(q) PROVE TypeOK'
    <3>1. work' \in Root
      BY <2>7 DEF Unpin, TxCall, InTx, Root
    <3> QED
      BY <2>7, <3>1, SMTT(30) DEF Unpin, TxCall, InTx
  <2>8. ASSUME NEW q \in PinNames, NEW g \in 1 .. MaxCommits, Pin(q, g) PROVE TypeOK'
    <3>1. PICK ref \in FindRef(g) : work' = [work EXCEPT !.pin = [@ EXCEPT ![q] = ref]]
      BY <2>8 DEF Pin
    <3>2. ref \in Ref
      <4>1. [gen |-> cur.gen, blk |-> curBlk, crc |-> cur.crc] \in Ref
        BY <2>8 DEF Pin, TxCall, InTx, Root, Ref
      <4> QED
        BY <2>8, <3>1, <4>1, RefsType DEF FindRef, Pin, TxCall, InTx
    <3>3. work' \in Root
      BY <2>8, <3>1, <3>2 DEF Pin, TxCall, InTx, Root
    <3> QED
      BY <2>8, <3>3, SMTT(30) DEF Pin, TxCall, InTx
  <2> QED
    BY <2>1, <2>2, <2>3, <2>4, <2>5, <2>6, <2>7, <2>8
\* The steps of st_format.
<1>TypeFormat.
    ASSUME FormatRoot \/ FormatBarrier \/ FormatSuper \/ FormatFlush PROVE TypeOK'
  <2> USE <1>TypeFormat
  <2> USE DEF TypeOK, CommitSteps, FormatSteps, devVars, storeVars, txVars, history
  <2>1. CASE FormatRoot
    <3>1. \A b \in DOMAIN FormatWrites : FormatWrites[b] \in Content
      <4>1. FirstRoot(commits + 1) \in Root
        BY FirstRootType, SMTT(30)
      <4> QED
        BY <4>1 DEF FormatWrites, Content
    <3>2. vol' \in [Blocks -> Content] /\ media' \in [Blocks -> SUBSET Content]
      BY <2>1, <3>1, <1>DevWriteType DEF FormatRoot
    <3> QED
      BY <2>1, <3>2, SMTT(30) DEF FormatRoot
  <2>2. CASE FormatBarrier
    <3>1. vol' \in [Blocks -> Content] /\ media' \in [Blocks -> SUBSET Content]
      BY <2>2, SMTT(30) DEF FormatBarrier, DevFlush, DevFlushError
    <3> QED
      BY <2>2, <3>1, SMTT(30) DEF FormatBarrier
  <2>3. CASE FormatSuper
    <3> DEFINE W == [b \in {0} |-> Super(FirstRoot(commits), 2)]
    <3>1. FirstRoot(commits) \in Root
      BY FirstRootType
    <3>2. \A b \in DOMAIN W : W[b] \in Content
      BY <3>1, <1>SuperType
    <3>3. DevWrite(W) \/ DevWriteError(W)
      BY <2>3 DEF FormatSuper
    <3> HIDE DEF W
    <3>4. vol' \in [Blocks -> Content] /\ media' \in [Blocks -> SUBSET Content]
      BY <3>2, <3>3, <1>DevWriteType
    <3> QED
      BY <2>3, <3>1, <3>4, SMTT(30) DEF FormatSuper
  <2>4. CASE FormatFlush
    <3>1. vol' \in [Blocks -> Content] /\ media' \in [Blocks -> SUBSET Content]
      BY <2>4, SMTT(30) DEF FormatFlush, DevFlush, DevFlushError
    <3>2. FirstRoot(commits) \in Root
      BY FirstRootType
    <3> QED
      BY <2>4, <3>1, <3>2, SMTT(30) DEF FormatFlush
  <2> QED
    BY <2>1, <2>2, <2>3, <2>4
\* st_mount.
<1>TypeMount. ASSUME Mount PROVE TypeOK'
  <2> USE <1>TypeMount
  \* max_gen, as st_mount computes it from the two slots, is a number.
  <2>MaxSlotGenType. ASSUME NEW d \in [Blocks -> Content] PROVE MaxSlotGen(d) \in Nat
    <3> USE <2>MaxSlotGenType
    <3>1. 0 \in Blocks /\ 1 \in Blocks
      BY NBlocksAssumption, SMTT(30) DEF Blocks
    <3>2. ASSUME NEW i \in {0, 1} PROVE SlotGen(d, i) \in Nat
      BY <3>1, ContentSuper DEF SlotGen
    <3> QED
      BY <3>2 DEF MaxSlotGen
  <2> USE DEF TypeOK, CommitSteps, FormatSteps, devVars, history
  <2>1. PICK d \in Reads :
          /\ faults' = FaultsAfter(d)
          /\ \/ /\ MountSlots(d) = {}
                /\ mounted' = FALSE /\ cur' = NoRoot /\ curBlk' = 0 /\ curSlot' = 0
                /\ maxGen' = MaxSlotGen(d) /\ used' = {}
             \/ \E i \in MountSlots(d) :
                /\ mounted' = TRUE
                /\ cur' = d[d[i].blk] /\ curBlk' = d[i].blk /\ curSlot' = i
                /\ maxGen' = MaxSlotGen(d)
                /\ used' = RecomputeUsed(d, cur', curBlk')
    BY DEF Mount
  <2>2. d \in [Blocks -> Content]
    BY ReadsType
  <2>0. up /\ pc = "idle" /\ TxReset /\ UNCHANGED <<devVars, up, pc, commits, crashes, history>>
    BY DEF Mount
  <2>3. faults' \in Nat /\ maxGen' \in Nat
    BY <2>1, <2>2, <2>MaxSlotGenType, SMTT(30) DEF FaultsAfter
  <2>4. CASE MountSlots(d) = {}
    <3>1. mounted' = FALSE /\ cur' = NoRoot /\ curBlk' = 0 /\ curSlot' = 0 /\ used' = {}
      BY <2>1, <2>4
    <3> QED
      BY <2>0, <2>3, <3>1 DEF TxReset
  <2>5. CASE MountSlots(d) # {}
    <3>0. PICK i \in MountSlots(d) :
            /\ mounted' = TRUE
            /\ cur' = d[d[i].blk] /\ curBlk' = d[i].blk /\ curSlot' = i
            /\ used' = RecomputeUsed(d, cur', curBlk')
      BY <2>1, <2>5
    <3>1. i \in {0, 1} /\ d[i].blk \in DataBlocks /\ d[d[i].blk] \in Root
      BY <2>2, MountSlotRoot
    <3>2. d[i].blk \in Nat
      BY <3>1, NBlocksAssumption, SMTT(30) DEF DataBlocks
    <3>3. used' \subseteq Nat
      BY <2>2, <3>0, <3>1, <3>2, <1>RecomputeUsedType
    <3> QED
      BY <2>0, <2>3, <3>0, <3>1, <3>2, <3>3 DEF TxReset
  <2> QED
    BY <2>4, <2>5
\* The steps of st_commit.
<1>TypeCommit.
    ASSUME CommitRoot \/ CommitBarrier \/ CommitSuper \/ CommitFlush PROVE TypeOK'
  <2> USE <1>TypeCommit
  \* A flush, done or failed, keeps the types.
  <2>DevFlushType.
      ASSUME vol \in [Blocks -> Content], media \in [Blocks -> SUBSET Content],
             DevFlush \/ DevFlushError
      PROVE  vol' \in [Blocks -> Content] /\ media' \in [Blocks -> SUBSET Content]
    BY <2>DevFlushType, SMTT(30) DEF DevFlush, DevFlushError, devVars
  \* st_commit builds a root.
  <2>NewRootType.
      ASSUME cur \in Root, work \in Root, curBlk \in Nat, maxGen \in Nat, commits \in Nat
      PROVE  NewRoot \in Root
    <3> USE <2>NewRootType
    <3>1. [gen |-> cur.gen, blk |-> curBlk, crc |-> cur.crc] \in Ref
      BY DEF Ref, Root
    <3> DEFINE all == <<[gen |-> cur.gen, blk |-> curBlk, crc |-> cur.crc]>> \o cur.hist
    <3>2. all \in Seq(Ref)
      <4>1. cur.hist \in Seq(Ref)
        BY DEF Root
      <4> QED
        BY <3>1, <4>1, SMTT(30)
    <3>3. Keep \in Nat
      BY StoreAssumption, SMTT(30) DEF Keep, RetainMin
    <3> HIDE DEF all
    <3>4. Len(all) \in Nat
      BY <3>2, SMTT(30)
    <3> DEFINE k == IF Keep < Len(all) THEN Keep ELSE Len(all)
    <3>5. k \in 0 .. Len(all)
      BY <3>3, <3>4, SMTT(30)
    <3> HIDE DEF k
    <3>6. SubSeq(all, 1, k) \in Seq(Ref)
      BY <3>2, <3>4, <3>5, SMTT(30)
    <3>7. NewHist \in Seq(Ref)
      BY <3>6 DEF NewHist, all, k
    <3> QED
      BY <3>7, SMTT(30) DEF NewRoot, Root
  <2> USE DEF TypeOK, CommitSteps, FormatSteps, devVars, storeVars, txVars, history
  <2>1. CASE CommitRoot
    <3>1. NewRoot \in Root
      BY <2>1, <2>NewRootType DEF CommitRoot, InTx
    <3>2. ASSUME NEW blk \in Alloc(1, TRUE) PROVE blk \in DataBlocks /\ blk \in Nat
      <4>1. blk \in DataBlocks
        BY AllocFree
      <4> QED
        BY <4>1, NBlocksAssumption, SMTT(30) DEF DataBlocks
    <3>3. ASSUME NEW blk \in Alloc(1, TRUE),
                 DevWrite([b \in {blk} |-> NewRoot]) \/ DevWriteError([b \in {blk} |-> NewRoot])
          PROVE  vol' \in [Blocks -> Content] /\ media' \in [Blocks -> SUBSET Content]
      <4> DEFINE W == [b \in {blk} |-> NewRoot]
      <4>1. \A b \in DOMAIN W : W[b] \in Content
        BY <3>1 DEF Content
      <4>2. DevWrite(W) \/ DevWriteError(W)
        BY <3>3
      <4> HIDE DEF W
      <4> QED
        BY <4>1, <4>2, <1>DevWriteType
    <3>a. /\ up /\ pc = "idle" /\ mounted /\ inTx /\ commits' = commits + 1
          /\ UNCHANGED <<up, mounted, cur, curBlk, curSlot, maxGen, used, crashes, history>>
      BY <2>1 DEF CommitRoot, InTx
    <3>b. commits' \in Nat
      BY <3>a, SMTT(30)
    <3>0. /\ up /\ pc = "idle" /\ mounted /\ inTx /\ commits' \in Nat
          /\ UNCHANGED <<up, mounted, cur, curBlk, curSlot, maxGen, used, crashes, history>>
      BY <3>a, <3>b
    <3>4. CASE TxReset /\ UNCHANGED <<devVars, pc, faults>>
      BY <3>0, <3>4, <1>TxResetType
    <3>5. CASE \E blk \in Alloc(1, TRUE) :
                 /\ DevWrite([b \in {blk} |-> NewRoot])
                 /\ pc' = "root" /\ work' = NewRoot /\ newBlk' = blk /\ txused' = txused \cup {blk}
                 /\ UNCHANGED <<inTx, txPrune, txReserve, txOps, faults>>
      BY <3>0, <3>1, <3>2, <3>3, <3>5
    <3>6. CASE \E blk \in Alloc(1, TRUE) :
                 /\ CanFault("write") /\ DevWriteError([b \in {blk} |-> NewRoot])
                 /\ faults' = faults + 1
                 /\ TxReset /\ UNCHANGED pc
      <4>1. faults' \in Nat /\ TxReset /\ pc' = pc
        BY <3>6, SMTT(30)
      <4>2. vol' \in [Blocks -> Content] /\ media' \in [Blocks -> SUBSET Content]
        BY <3>3, <3>6
      <4> QED
        BY <3>0, <4>1, <4>2, <1>TxResetType
    <3> QED
      BY <2>1, <3>4, <3>5, <3>6 DEF CommitRoot
  <2>2. CASE CommitBarrier
    <3>1. /\ up /\ pc = "root" /\ mounted /\ inTx
          /\ UNCHANGED <<up, mounted, cur, curBlk, curSlot, maxGen, used, commits, crashes, history>>
      BY <2>2 DEF CommitBarrier
    <3>2. CASE DevFlush /\ pc' = "barrier" /\ UNCHANGED <<inTx, txVars, faults>>
      BY <3>1, <3>2 DEF DevFlush
    <3>3. CASE DevFlushError /\ faults' = faults + 1 /\ pc' = "idle" /\ TxReset
      <4>1. faults' \in Nat
        BY <3>3, SMTT(30)
      <4> QED
        BY <3>1, <3>3, <4>1, <1>TxResetType DEF DevFlushError
    <3> QED
      BY <2>2, <3>2, <3>3 DEF CommitBarrier
  <2>3. CASE CommitSuper
    <3> DEFINE W == [b \in {1 - curSlot} |-> Super(work, newBlk)]
    <3>1. work \in Root
      BY <2>3 DEF CommitSuper
    <3>2. \A b \in DOMAIN W : W[b] \in Content
      BY <3>1, <1>SuperType
    <3>3. DevWrite(W) \/ DevWriteError(W)
      BY <2>3 DEF CommitSuper
    <3> HIDE DEF W
    <3>4. vol' \in [Blocks -> Content] /\ media' \in [Blocks -> SUBSET Content]
      BY <3>2, <3>3, <1>DevWriteType
    <3>5. /\ up /\ pc = "barrier" /\ mounted /\ inTx /\ doubt' = doubt \cup {work}
          /\ UNCHANGED <<up, cur, curBlk, curSlot, maxGen, used, commits, crashes, saved>>
      BY <2>3 DEF CommitSuper
    <3>6. CASE pc' = "super" /\ UNCHANGED <<mounted, inTx, txVars, faults>>
      BY <3>1, <3>4, <3>5, <3>6
    <3>7. CASE faults' = faults + 1 /\ pc' = "idle" /\ TxReset /\ mounted' = FALSE
      <4>1. faults' \in Nat
        BY <3>7, SMTT(30)
      <4> QED
        BY <3>1, <3>4, <3>5, <3>7, <4>1, <1>TxResetType
    <3> QED
      BY <2>3, <3>6, <3>7 DEF CommitSuper
  <2>4. CASE CommitFlush
    <3>1. vol' \in [Blocks -> Content] /\ media' \in [Blocks -> SUBSET Content]
      <4>1. DevFlush \/ DevFlushError
        BY <2>4 DEF CommitFlush
      <4>2. vol \in [Blocks -> Content] /\ media \in [Blocks -> SUBSET Content]
        OBVIOUS
      <4> QED
        BY <4>1, <4>2, <2>DevFlushType
    <3>2. work \in Root
      BY <2>4 DEF CommitFlush
    <3>3. work.gen \in Nat
      BY <3>2 DEF Root
    <3>4. /\ up /\ pc = "super" /\ mounted /\ pc' = "idle" /\ TxReset
          /\ UNCHANGED <<up, commits, crashes>>
      BY <2>4 DEF CommitFlush
    <3>5. CASE /\ mounted' = TRUE /\ cur' = work /\ curBlk' = newBlk /\ curSlot' = 1 - curSlot
               /\ maxGen' = work.gen
               /\ \E d \in Reads : used' = RecomputeUsed(d, work, newBlk) /\ faults' = FaultsAfter(d)
               /\ saved' = work /\ doubt' = {}
      <4>1. PICK d \in Reads : used' = RecomputeUsed(d, work, newBlk) /\ faults' = FaultsAfter(d)
        BY <3>5
      <4>2. used' \subseteq Nat
        BY <3>2, <4>1, ReadsType, <1>RecomputeUsedType
      <4>3. faults' \in Nat
        BY <4>1, SMTT(30) DEF FaultsAfter
      <4>4. curSlot' \in {0, 1}
        BY <3>5, SMTT(30)
      <4> QED
        BY <3>1, <3>2, <3>3, <3>4, <3>5, <4>2, <4>3, <4>4, <1>TxResetType
    <3>6. CASE /\ faults' = faults + 1 /\ mounted' = FALSE
               /\ UNCHANGED <<cur, curBlk, curSlot, maxGen, used, history>>
      <4>1. faults' \in Nat
        BY <3>6, SMTT(30)
      <4> QED
        BY <3>1, <3>4, <3>6, <4>1, <1>TxResetType
    <3> QED
      BY <2>4, <3>5, <3>6 DEF CommitFlush
  <2> QED
    BY <2>1, <2>2, <2>3, <2>4
\* Power loss and what follows it.
<1>TypePower. ASSUME PowerLoss \/ Settle \/ Rot \/ Boot PROVE TypeOK'
  <2> USE <1>TypePower
  \* So does settling one block on a content.
  <2>BlockSetType.
      ASSUME vol \in [Blocks -> Content], media \in [Blocks -> SUBSET Content],
             NEW b \in Blocks, NEW x \in Content,
             vol' = [vol EXCEPT ![b] = x], media' = [media EXCEPT ![b] = {x}]
      PROVE  vol' \in [Blocks -> Content] /\ media' \in [Blocks -> SUBSET Content]
    BY <2>BlockSetType
  <2> USE DEF TypeOK, CommitSteps, FormatSteps, devVars, storeVars, txVars, history
  <2>1. Blank \in Content /\ Torn \in Content
    BY DEF Content
  <2>2. CASE PowerLoss
    <3>1. vol' \in [Blocks -> Content] /\ media' \in [Blocks -> SUBSET Content]
      BY <2>1, <2>2 DEF PowerLoss, DevPowerLoss
    <3>2. crashes' \in Nat /\ curBlk' \in Nat /\ maxGen' \in Nat /\ curSlot' \in {0, 1}
      <4>1. crashes' = crashes + 1 /\ curBlk' = 0 /\ maxGen' = 0 /\ curSlot' = 0
        BY <2>2 DEF PowerLoss, StoreZero
      <4> QED
        BY <4>1, SMTT(30)
    <3> QED
      BY <2>2, <3>1, <3>2, <1>TxResetType DEF PowerLoss, StoreZero
  <2>3. CASE Settle
    <3>1. vol' \in [Blocks -> Content] /\ media' \in [Blocks -> SUBSET Content]
      <4>1. PICK b \in Unsettled, x \in Content :
               /\ b \in Blocks
               /\ vol' = [vol EXCEPT ![b] = x] /\ media' = [media EXCEPT ![b] = {x}]
        <5>1. PICK b \in Unsettled : \E x \in media[b] :
                 vol' = [vol EXCEPT ![b] = x] /\ media' = [media EXCEPT ![b] = {x}]
          BY <2>3 DEF Settle, DevSettle
        <5>2. b \in Blocks /\ media[b] \subseteq Content
          BY DEF Unsettled
        <5> QED
          BY <5>1, <5>2
      <4>2. vol \in [Blocks -> Content] /\ media \in [Blocks -> SUBSET Content]
        OBVIOUS
      <4> QED
        BY <4>1, <4>2, <2>BlockSetType
    <3> QED
      BY <2>3, <3>1 DEF Settle
  <2>4. CASE Rot
    <3>1. vol' \in [Blocks -> Content] /\ media' \in [Blocks -> SUBSET Content]
      <4>1. PICK b \in Blocks :
               vol' = [vol EXCEPT ![b] = Torn] /\ media' = [media EXCEPT ![b] = {Torn}]
        BY <2>4 DEF Rot, DevRot
      <4>2. vol \in [Blocks -> Content] /\ media \in [Blocks -> SUBSET Content]
        OBVIOUS
      <4> QED
        BY <2>1, <4>1, <4>2, <2>BlockSetType
    <3>2. faults' \in Nat
      <4>1. faults' = faults + 1
        BY <2>4 DEF Rot
      <4> QED
        BY <4>1, SMTT(30)
    <3>3. ~up /\ UNCHANGED <<up, pc, storeVars, txVars, commits, crashes, history>>
      BY <2>4 DEF Rot
    <3> QED
      BY <3>1, <3>2, <3>3
  <2>5. CASE Boot
    <3>1. Recovered(vol) \in Root \cup {NoRoot}
      <4>1. CASE MountSlots(vol) = {}
        BY <4>1 DEF Recovered
      <4>2. CASE MountSlots(vol) # {}
        <5>1. (CHOOSE j \in MountSlots(vol) : TRUE) \in MountSlots(vol)
          BY <4>2
        <5> QED
          BY <4>2, <5>1, MountSlotRoot DEF Recovered
      <4> QED
        BY <4>1, <4>2
    <3> QED
      BY <2>5, <3>1 DEF Boot
  <2> QED
    BY <2>2, <2>3, <2>4, <2>5
<1>1. CASE UNCHANGED vars
  BY <1>1 DEF TypeOK, vars, devVars, storeVars, txVars, history
<1> QED
  BY <1>1, <1>TypeTxCalls, <1>TypeFormat, <1>TypeMount, <1>TypeCommit, <1>TypePower DEF Next

\* Every variable keeps its type, a transaction is open only on a mounted store
\* and a commit runs only in a transaction (the state checks of st_begin,
\* st_put and st_commit).
THEOREM TypeCorrect == Spec => []TypeOK
<1>1. Init => TypeOK
  BY TypeInit
<1>2. TypeOK /\ [Next]_vars => TypeOK'
  BY TypeStep
<1> QED
  BY <1>1, <1>2, PTL DEF Spec
----------------------------------------------------------------------------
(***************************************************************************)
(* The mounted generation stays intact.                                    *)
(***************************************************************************)
\* The objects of a root stay in place when no block of theirs changes.
LEMMA PlacedFrame ==
    ASSUME NEW d, NEW e, NEW r, NEW s, s.obj = r.obj,
           NEW B, NEW C, B \cap DataBlocks \subseteq C,
           \A b \in B \cap DataBlocks : e[b] = d[b],
           Placed(d, r, B)
    PROVE  Placed(e, s, C)
<1> SUFFICES ASSUME NEW n \in Objs(r)
             PROVE  /\ Extent(r.obj[n]) \subseteq C \cap DataBlocks
                    /\ VerifyExtent(e, r.obj[n])
  BY DEF Placed, Objs
<1>1. Extent(r.obj[n]) \subseteq B \cap DataBlocks /\ VerifyExtent(d, r.obj[n])
  BY DEF Placed
<1>2. VerifyExtent(e, r.obj[n])
  BY <1>1 DEF VerifyExtent, Extent
<1> QED
  BY <1>1, <1>2

\* Every call of the store and every event of the device preserves Intact.
LEMMA IntactStep == ASSUME TypeOK, Intact, [Next]_vars PROVE Intact'
\* A write changes no block it does not name.
<1>DevWriteFrame.
    ASSUME NEW W, DevWrite(W) \/ DevWriteError(W), NEW b \in Blocks, b \notin DOMAIN W
    PROVE  vol'[b] = vol[b]
  BY <1>DevWriteFrame DEF DevWrite, DevWriteError
\* An unmounted store has nothing to keep.
<1>Unmounted. ASSUME ~mounted', ~inTx', pc' \notin CommitSteps PROVE Intact'
  BY <1>Unmounted DEF Intact, CurrentPlaced, WorkPlaced, RootWritten
\* A step that leaves the blocks in use alone keeps the mounted generation.
<1>CurrentFrame.
    ASSUME CurrentPlaced, UNCHANGED <<mounted, cur, curBlk, used>>,
           \A b \in used \cap DataBlocks : vol'[b] = vol[b]
    PROVE  CurrentPlaced'
  <2> USE <1>CurrentFrame
  <2> SUFFICES ASSUME mounted' PROVE CurrentPlaced'
    BY DEF CurrentPlaced
  <2>1. curBlk \in DataBlocks \cap used /\ vol[curBlk] = cur /\ Placed(vol, cur, used)
    BY DEF CurrentPlaced
  <2>2. Placed(vol', cur, used)
    BY <2>1, PlacedFrame
  <2> QED
    BY <2>1, <2>2 DEF CurrentPlaced
\* A step that also leaves the blocks of the transaction alone keeps its objects.
<1>WorkFrame.
    ASSUME WorkPlaced, inTx, used' = used, txused \subseteq txused', work'.obj = work.obj,
           \A b \in (used \cup txused) \cap DataBlocks : vol'[b] = vol[b]
    PROVE  WorkPlaced'
  <2> USE <1>WorkFrame
  <2>1. Placed(vol, work, used \cup txused)
    BY DEF WorkPlaced
  <2>2. Placed(vol', work', used' \cup txused')
    BY <2>1, PlacedFrame
  <2> QED
    BY <2>2 DEF WorkPlaced
\* st_mount: what it read was read from blocks that are not torn.
<1>IntactMount. ASSUME Mount PROVE Intact'
  <2> USE <1>IntactMount
  \* A block of object data is not a torn one.
  <2>DataNotTorn. ASSUME NEW p, NEW i PROVE Data(p, i) # Torn
    BY <2>DataNotTorn DEF Data, Torn
  <2>1. up /\ pc' = "idle" /\ inTx' = FALSE /\ vol' = vol
    BY DEF Mount, TxReset, devVars
  <2>2. CASE mounted' = FALSE
    BY <2>1, <2>2, <1>Unmounted DEF CommitSteps
  <2>3. CASE \E d \in Reads : \E i \in MountSlots(d) :
               /\ mounted' = TRUE
               /\ cur' = d[d[i].blk] /\ curBlk' = d[i].blk /\ curSlot' = i
               /\ used' = RecomputeUsed(d, cur', curBlk')
    <3>0. PICK d \in Reads : \E i \in MountSlots(d) :
            cur' = d[d[i].blk] /\ curBlk' = d[i].blk /\ used' = RecomputeUsed(d, cur', curBlk')
      BY <2>3
    <3>1. PICK i \in MountSlots(d) :
            cur' = d[d[i].blk] /\ curBlk' = d[i].blk /\ used' = RecomputeUsed(d, cur', curBlk')
      BY <3>0
    <3>2. d \in [Blocks -> Content] /\ \A b \in Blocks : d[b] = Torn \/ d[b] = vol[b]
      BY ReadsType DEF TypeOK
    <3>3. /\ curBlk' \in DataBlocks /\ cur'.t = "root" /\ RootSane(cur')
          /\ \A n \in Objs(cur') : VerifyExtent(d, cur'.obj[n])
      <4> DEFINE r == d[d[i].blk]
      <4>1. /\ d[i].blk \in DataBlocks /\ r.t = "root" /\ RootSane(r)
            /\ \A n \in Objs(r) : VerifyExtent(d, r.obj[n])
        <5>1. d \in [Blocks -> Content]
          BY <3>2
        <5> QED
          BY <5>1, MountSlotRoot
      <4>2. cur' = r /\ curBlk' = d[i].blk
        BY <3>1
      <4> HIDE DEF r
      <4> QED
        BY <4>1, <4>2
    <3>4. DataBlocks \subseteq Blocks
      BY NBlocksAssumption, SMTT(30) DEF DataBlocks, Blocks
    <3>5. vol[curBlk'] = cur'
      BY <3>1, <3>2, <3>3, <3>4, SMTT(30) DEF Torn
    <3>6. MarkRoot(cur', curBlk') \subseteq used'
      BY <3>1, RecomputeUsedCovers
    <3>7. ASSUME NEW n \in Objs(cur')
          PROVE  /\ Extent(cur'.obj[n]) \subseteq used' \cap DataBlocks
                 /\ VerifyExtent(vol, cur'.obj[n])
      <4>1. Extent(cur'.obj[n]) \subseteq DataBlocks
        BY <3>3 DEF RootSane
      <4>2. Extent(cur'.obj[n]) \subseteq used'
        BY <3>6 DEF MarkRoot
      <4>3. ASSUME NEW k \in 0 .. cur'.obj[n].nblk - 1
            PROVE  vol[cur'.obj[n].blk + k] = Data(cur'.obj[n].val, k)
        <5>1. cur'.obj[n].blk + k \in Blocks
          BY <3>4, <4>1 DEF Extent
        <5>2. d[cur'.obj[n].blk + k] = Data(cur'.obj[n].val, k)
          BY <3>3 DEF VerifyExtent
        <5>3. d[cur'.obj[n].blk + k] # Torn
          BY <5>2, <2>DataNotTorn
        <5> QED
          BY <3>2, <5>1, <5>2, <5>3
      <4> QED
        BY <4>1, <4>2, <4>3 DEF VerifyExtent
    <3>8. Placed(vol, cur', used')
      BY <3>7 DEF Placed
    <3>9. curBlk' \in used'
      BY <3>6 DEF MarkRoot
    <3> QED
      BY <2>1, <3>3, <3>5, <3>8, <3>9
         DEF Intact, CurrentPlaced, WorkPlaced, RootWritten, CommitSteps
  <2> QED
    BY <2>2, <2>3 DEF Mount
\* A call in the open transaction, or its end, that writes nothing.
<1>IntactTxCalls.
    ASSUME \/ Begin \/ Abort \/ Prune \/ AllowReserve
           \/ \E n \in Names : Del(n)
           \/ \E q \in PinNames : Unpin(q) \/ \E g \in 1 .. MaxCommits : Pin(q, g)
    PROVE  Intact'
  <2> USE <1>IntactTxCalls
  <2> USE DEF Intact, CommitSteps
  <2>1. /\ UNCHANGED <<vol, mounted, cur, curBlk, used>> /\ pc' = "idle" /\ mounted
    BY DEF Begin, Abort, Prune, AllowReserve, Del, Unpin, Pin, TxCall, InTx, devVars, storeVars
  <2>2. CurrentPlaced'
    BY <2>1, <1>CurrentFrame
  <2>3. RootWritten'
    BY <2>1 DEF RootWritten
  <2>4. CASE Begin
    <3>1. Placed(vol, cur, used) /\ work' = cur /\ txused' = {}
      BY <2>1, <2>4 DEF CurrentPlaced, Begin
    <3>2. Placed(vol', work', used' \cup txused')
      BY <2>1, <3>1, PlacedFrame
    <3> QED
      BY <2>2, <2>3, <3>2 DEF WorkPlaced
  <2>5. CASE Abort
    BY <2>2, <2>3, <2>5 DEF Abort, TxReset, WorkPlaced
  <2>6. CASE Prune \/ AllowReserve
    <3>1. inTx /\ work' = work /\ txused' = txused
      BY <2>6 DEF Prune, AllowReserve, TxCall, InTx
    <3> QED
      BY <2>1, <2>2, <2>3, <3>1, <1>WorkFrame
  <2>7. ASSUME NEW n \in Names, Del(n) PROVE Intact'
    <3>1. inTx /\ work \in Root /\ txused' = txused
          /\ work' = [work EXCEPT !.obj = [@ EXCEPT ![n] = Absent]]
      BY <2>7 DEF Del, TxCall, InTx, TypeOK
    <3>2. \A m \in Objs(work') : m \in Objs(work) /\ work'.obj[m] = work.obj[m]
      BY <3>1 DEF Root, Objs
    <3>3. Placed(vol, work, used \cup txused)
      BY <3>1 DEF WorkPlaced
    <3>4. Placed(vol', work', used' \cup txused')
      BY <2>1, <3>1, <3>2, <3>3 DEF Placed
    <3> QED
      BY <2>2, <2>3, <3>4 DEF WorkPlaced
  <2>8. ASSUME NEW q \in PinNames, NEW x, work' = [work EXCEPT !.pin = x],
               inTx, txused' = txused
        PROVE  Intact'
    <3>1. work'.obj = work.obj
      BY <2>8 DEF TypeOK, Root
    <3> QED
      BY <2>1, <2>2, <2>3, <2>8, <3>1, <1>WorkFrame
  <2>9. ASSUME NEW q \in PinNames, Unpin(q) \/ \E g \in 1 .. MaxCommits : Pin(q, g)
        PROVE  Intact'
    BY <2>8, <2>9 DEF Unpin, Pin, TxCall, InTx
  <2> QED
    BY <2>4, <2>5, <2>6, <2>7, <2>9
\* st_put writes only blocks that were free, and the new object verifies.
<1>IntactPut. ASSUME NEW n \in Names, NEW p \in Payloads, Put(n, p) PROVE Intact'
  <2> USE <1>IntactPut
  <2> USE DEF Intact, CommitSteps
  <2>1. /\ inTx /\ inTx' = inTx /\ pc' = "idle" /\ work \in Root
        /\ UNCHANGED <<mounted, cur, curBlk, used>>
    BY DEF Put, TxCall, InTx, storeVars, TypeOK
  <2>2. RootWritten'
    BY <2>1 DEF RootWritten
  <2>3. NBlk[p] \in Nat
    BY StoreAssumption
  <2>4. Placed(vol, work, used \cup txused)
    BY <2>1 DEF WorkPlaced
  <2>5. ASSUME NEW blk PROVE
          LET w == PutObj(work, n, p, blk)
          IN  /\ \A m \in Objs(w) : m = n \/ (m \in Objs(work) /\ w.obj[m] = work.obj[m])
              /\ w.obj[n].blk = blk /\ w.obj[n].nblk = NBlk[p] /\ w.obj[n].val = p
    BY <2>1 DEF PutObj, Objs, Root
  <2>6. CASE NBlk[p] = 0
    <3>1. work' = PutObj(work, n, p, 0) /\ vol' = vol /\ txused' = txused
      BY <2>6, PutEmpty DEF devVars
    <3>2. CurrentPlaced'
      BY <2>1, <3>1, <1>CurrentFrame
    <3>3. /\ work'.obj[n].nblk = 0
          /\ \A m \in Objs(work') : m = n \/ (m \in Objs(work) /\ work'.obj[m] = work.obj[m])
      <4>1. work'.obj[n].nblk = NBlk[p]
        BY <2>5, <3>1
      <4>2. \A m \in Objs(work') : m = n \/ (m \in Objs(work) /\ work'.obj[m] = work.obj[m])
        BY <2>5, <3>1
      <4> QED
        BY <2>6, <4>1, <4>2
    <3>4. Extent(work'.obj[n]) = {} /\ VerifyExtent(vol', work'.obj[n])
      <4>1. 0 .. 0 - 1 = {}
        BY SMTT(30)
      <4>2. 0 .. work'.obj[n].nblk - 1 = {}
        BY <3>3, <4>1
      <4>3. Extent(work'.obj[n]) = {}
        BY <4>2 DEF Extent
      <4> QED
        BY <4>2, <4>3 DEF VerifyExtent
    <3>5. ASSUME NEW m \in Objs(work')
          PROVE  /\ Extent(work'.obj[m]) \subseteq (used' \cup txused') \cap DataBlocks
                 /\ VerifyExtent(vol', work'.obj[m])
      <4>1. CASE m = n
        BY <3>4, <4>1
      <4>2. CASE m \in Objs(work) /\ work'.obj[m] = work.obj[m]
        BY <2>1, <2>4, <3>1, <4>2 DEF Placed
      <4> QED
        BY <3>3, <4>1, <4>2
    <3>6. Placed(vol', work', used' \cup txused')
      BY <3>5 DEF Placed
    <3> QED
      BY <2>2, <3>2, <3>6 DEF WorkPlaced
  <2>7. CASE NBlk[p] > 0
    <3> DEFINE W(blk) == [b \in blk .. blk + NBlk[p] - 1 |-> Data(p, b - blk)]
    <3>1. PICK blk \in Alloc(NBlk[p], txReserve) :
             /\ txused' = txused \cup DOMAIN W(blk)
             /\ \/ DevWrite(W(blk)) /\ work' = PutObj(work, n, p, blk)
                \/ DevWriteError(W(blk)) /\ work' = work
      BY <2>7, PutBlocks
    <3>2. /\ blk \in DataBlocks /\ blk \in Nat
          /\ \A i \in 0 .. NBlk[p] - 1 : blk + i \in DataBlocks \ (used \cup txused)
      <4>1. /\ blk \in DataBlocks
            /\ \A i \in 0 .. NBlk[p] - 1 : blk + i \in DataBlocks \ (used \cup txused)
        BY <2>3, AllocFree
      <4>2. blk \in Nat
        BY <4>1, NBlocksAssumption, SMTT(30) DEF DataBlocks
      <4> QED
        BY <4>1, <4>2
    <3>3. ASSUME NEW b \in DOMAIN W(blk) PROVE b \in DataBlocks \ (used \cup txused)
      <4>1. b - blk \in 0 .. NBlk[p] - 1 /\ b = blk + (b - blk)
        BY <2>3, <3>2, SMTT(30)
      <4> QED
        BY <3>2, <4>1
    <3>4. DataBlocks \subseteq Blocks
      BY NBlocksAssumption, SMTT(30) DEF DataBlocks, Blocks
    <3>5. \A b \in (used \cup txused) \cap DataBlocks : vol'[b] = vol[b]
      <4> HIDE DEF W
      <4> QED
        BY <3>1, <3>3, <3>4, <1>DevWriteFrame
    <3>6. CurrentPlaced'
      BY <2>1, <3>5, <1>CurrentFrame
    <3>7. CASE work' = work
      <4>1. WorkPlaced'
        BY <2>1, <3>1, <3>5, <3>7, <1>WorkFrame
      <4> QED
        BY <2>2, <3>6, <4>1
    <3>8. CASE DevWrite(W(blk)) /\ work' = PutObj(work, n, p, blk)
      <4>1. ASSUME NEW i \in 0 .. NBlk[p] - 1
            PROVE  /\ blk + i \in DataBlocks /\ blk + i \in txused'
                   /\ vol'[blk + i] = Data(p, i)
        <5>1. blk + i \in DOMAIN W(blk) /\ W(blk)[blk + i] = Data(p, i)
          BY <2>3, <3>2, SMTT(30)
        <5>2. blk + i \in DataBlocks /\ blk + i \in Blocks
          BY <3>2, <3>4
        <5> HIDE DEF W
        <5> QED
          BY <3>1, <3>8, <5>1, <5>2 DEF DevWrite
      <4>2. /\ Extent(work'.obj[n]) \subseteq txused' \cap DataBlocks
            /\ VerifyExtent(vol', work'.obj[n])
        BY <2>5, <3>8, <4>1 DEF Extent, VerifyExtent
      <4>3. ASSUME NEW m \in Objs(work') , m # n
            PROVE  /\ Extent(work'.obj[m]) \subseteq (used \cup txused) \cap DataBlocks
                   /\ VerifyExtent(vol', work'.obj[m])
        <5>1. m \in Objs(work) /\ work'.obj[m] = work.obj[m]
          BY <2>5, <3>8, <4>3
        <5>2. /\ Extent(work.obj[m]) \subseteq (used \cup txused) \cap DataBlocks
              /\ VerifyExtent(vol, work.obj[m])
          BY <2>4, <5>1 DEF Placed
        <5> QED
          BY <3>5, <5>1, <5>2 DEF VerifyExtent, Extent
      <4>4. Placed(vol', work', used' \cup txused')
        BY <2>1, <3>1, <4>2, <4>3 DEF Placed
      <4> QED
        BY <2>2, <3>6, <4>4 DEF WorkPlaced
    <3> QED
      BY <3>1, <3>7, <3>8
  <2> QED
    BY <2>3, <2>6, <2>7, SMTT(30)
\* The steps of st_commit: the root goes to a free block, the superblock to a
\* slot, and what becomes current is the transaction's root, in place.
<1>IntactCommit.
    ASSUME CommitRoot \/ CommitBarrier \/ CommitSuper \/ CommitFlush PROVE Intact'
  <2> USE <1>IntactCommit
  <2> USE DEF Intact, CommitSteps
  <2>0. DataBlocks \subseteq Blocks /\ 0 \notin DataBlocks /\ 1 \notin DataBlocks
    BY NBlocksAssumption, SMTT(30) DEF DataBlocks, Blocks
  <2>1. CASE CommitRoot
    <3>1. /\ inTx /\ mounted /\ pc = "idle" /\ UNCHANGED <<mounted, cur, curBlk, used>>
      BY <2>1 DEF CommitRoot, InTx
    <3>2. ASSUME NEW blk \in Alloc(1, TRUE),
                 DevWrite([b \in {blk} |-> NewRoot]) \/ DevWriteError([b \in {blk} |-> NewRoot])
          PROVE  /\ blk \in DataBlocks
                 /\ \A b \in (used \cup txused) \cap DataBlocks : vol'[b] = vol[b]
      <4>1. blk \in DataBlocks \ (used \cup txused)
        BY AllocFree
      <4> DEFINE W == [b \in {blk} |-> NewRoot]
      <4>2. DOMAIN W = {blk} /\ (DevWrite(W) \/ DevWriteError(W))
        BY <3>2
      <4> HIDE DEF W
      <4> QED
        BY <2>0, <4>1, <4>2, <1>DevWriteFrame
    <3>3. CASE TxReset /\ UNCHANGED <<devVars, pc, faults>>
      <4>1. CurrentPlaced'
        BY <3>1, <3>3, <1>CurrentFrame DEF devVars
      <4> QED
        BY <3>1, <3>3, <4>1 DEF TxReset, WorkPlaced, RootWritten
    <3>4. ASSUME NEW blk \in Alloc(1, TRUE), DevWrite([b \in {blk} |-> NewRoot]),
                 work' = NewRoot, newBlk' = blk, txused' = txused \cup {blk}
          PROVE  Intact'
      <4>1. blk \in DataBlocks /\ \A b \in (used \cup txused) \cap DataBlocks : vol'[b] = vol[b]
        BY <3>2, <3>4
      <4>2. CurrentPlaced'
        BY <3>1, <4>1, <1>CurrentFrame
      <4>3. WorkPlaced'
        <5>1. work'.obj = work.obj
          BY <3>4 DEF NewRoot
        <5> QED
          BY <3>1, <3>4, <4>1, <5>1, <1>WorkFrame
      <4>4. vol'[blk] = NewRoot
        BY <2>0, <3>4, <4>1 DEF DevWrite
      <4> QED
        BY <3>4, <4>1, <4>2, <4>3, <4>4 DEF RootWritten
    <3>5. ASSUME NEW blk \in Alloc(1, TRUE), DevWriteError([b \in {blk} |-> NewRoot]),
                 TxReset, UNCHANGED pc
          PROVE  Intact'
      <4>1. \A b \in (used \cup txused) \cap DataBlocks : vol'[b] = vol[b]
        BY <3>2, <3>5
      <4>2. CurrentPlaced'
        BY <3>1, <4>1, <1>CurrentFrame
      <4> QED
        BY <3>1, <3>5, <4>2 DEF TxReset, WorkPlaced, RootWritten
    <3> QED
      BY <2>1, <3>3, <3>4, <3>5 DEF CommitRoot
  <2>2. CASE CommitBarrier
    <3>1. vol' = vol /\ inTx /\ UNCHANGED <<mounted, cur, curBlk, used>>
      BY <2>2 DEF CommitBarrier, DevFlush, DevFlushError, devVars, TypeOK
    <3>2. CurrentPlaced'
      BY <3>1, <1>CurrentFrame
    <3>3. CASE pc' = "barrier" /\ UNCHANGED <<inTx, txVars>>
      <4>1. WorkPlaced' /\ RootWritten'
        BY <2>2, <3>1, <3>3 DEF CommitBarrier, txVars, WorkPlaced, RootWritten
      <4> QED
        BY <3>2, <4>1
    <3>4. CASE pc' = "idle" /\ TxReset
      BY <3>2, <3>4 DEF TxReset, WorkPlaced, RootWritten
    <3> QED
      BY <2>2, <3>3, <3>4 DEF CommitBarrier
  <2>3. CASE CommitSuper
    <3> DEFINE W == [b \in {1 - curSlot} |-> Super(work, newBlk)]
    <3>1. /\ DevWrite(W) \/ DevWriteError(W)
          /\ inTx /\ pc = "barrier" /\ UNCHANGED <<cur, curBlk, used>>
      BY <2>3 DEF CommitSuper, TypeOK
    <3>2. \A b \in DataBlocks : b \notin DOMAIN W
      <4>1. 1 - curSlot \in {0, 1}
        BY SMTT(30) DEF TypeOK
      <4>2. DOMAIN W = {1 - curSlot}
        OBVIOUS
      <4> HIDE DEF W
      <4> QED
        BY <2>0, <4>1, <4>2
    <3> HIDE DEF W
    <3>3. \A b \in DataBlocks : vol'[b] = vol[b]
      BY <2>0, <3>1, <3>2, <1>DevWriteFrame
    <3>4. CASE pc' = "super" /\ UNCHANGED <<mounted, inTx, txVars, faults>>
      <4>1. CurrentPlaced'
        BY <3>1, <3>3, <3>4, <1>CurrentFrame
      <4>2. WorkPlaced'
        BY <3>1, <3>3, <3>4, <1>WorkFrame DEF txVars
      <4>3. RootWritten'
        BY <3>1, <3>3, <3>4 DEF RootWritten, txVars
      <4> QED
        BY <4>1, <4>2, <4>3
    <3>5. CASE pc' = "idle" /\ TxReset /\ mounted' = FALSE
      BY <3>5, <1>Unmounted DEF TxReset
    <3> QED
      BY <2>3, <3>4, <3>5 DEF CommitSuper
  <2>4. CASE CommitFlush
    <3>1. vol' = vol /\ inTx /\ pc = "super" /\ pc' = "idle" /\ TxReset
      BY <2>4 DEF CommitFlush, DevFlush, DevFlushError, devVars, TypeOK
    <3>2. CASE mounted' = FALSE
      BY <3>1, <3>2, <1>Unmounted DEF TxReset
    <3>3. ASSUME NEW d, cur' = work, curBlk' = newBlk, used' = RecomputeUsed(d, work, newBlk)
          PROVE  Intact'
      <4>1. newBlk \in DataBlocks /\ vol[newBlk] = work /\ Placed(vol, work, used \cup txused)
        BY <3>1 DEF RootWritten, WorkPlaced
      <4>2. MarkRoot(work, newBlk) \subseteq used'
        BY <3>3, RecomputeUsedCovers
      <4>3. Placed(vol, work, used')
        BY <4>1, <4>2 DEF Placed, MarkRoot
      <4>4. newBlk \in used'
        BY <4>2 DEF MarkRoot
      <4> QED
        BY <3>1, <3>3, <4>1, <4>3, <4>4 DEF TxReset, CurrentPlaced, WorkPlaced, RootWritten
    <3> QED
      BY <2>4, <3>2, <3>3 DEF CommitFlush
  <2> QED
    BY <2>1, <2>2, <2>3, <2>4
<1>1. CASE UNCHANGED vars
  BY <1>1 DEF Intact, CurrentPlaced, WorkPlaced, RootWritten, vars, devVars, storeVars, txVars
<1>2. CASE FormatRoot \/ FormatBarrier \/ FormatSuper \/ FormatFlush
  <2>1. /\ (pc = "idle" /\ ~mounted) \/ pc \in FormatSteps
        /\ pc' \in {"idle"} \cup FormatSteps /\ UNCHANGED <<mounted, inTx>>
    <3>1. CASE FormatRoot
      BY <3>1 DEF FormatRoot, storeVars, FormatSteps
    <3>2. CASE FormatBarrier
      BY <3>2 DEF FormatBarrier, storeVars, FormatSteps
    <3>3. CASE FormatSuper
      BY <3>3 DEF FormatSuper, storeVars, FormatSteps
    <3>4. CASE FormatFlush
      BY <3>4 DEF FormatFlush, storeVars, FormatSteps
    <3> QED
      BY <1>2, <3>1, <3>2, <3>3, <3>4
  <2>2. ~mounted /\ ~inTx
    BY <2>1 DEF TypeOK
  <2>3. pc' \notin CommitSteps
    BY <2>1 DEF CommitSteps, FormatSteps
  <2> QED
    BY <2>1, <2>2, <2>3, <1>Unmounted
<1>3. CASE PowerLoss
  BY <1>3, <1>Unmounted DEF PowerLoss, StoreZero, TxReset, CommitSteps
<1>4. CASE Settle \/ Rot \/ Boot
  <2>1. ~mounted' /\ ~inTx' /\ pc' \notin CommitSteps
    <3>1. ~up /\ UNCHANGED <<pc, mounted, inTx>>
      BY <1>4 DEF Settle, Rot, Boot, storeVars
    <3>2. ~mounted /\ ~inTx /\ pc \notin CommitSteps
      BY <3>1 DEF TypeOK
    <3> QED
      BY <3>1, <3>2
  <2> QED
    BY <2>1, <1>Unmounted
<1> QED
  BY <1>1, <1>2, <1>3, <1>4, <1>IntactMount, <1>IntactTxCalls, <1>IntactPut, <1>IntactCommit DEF Next

\* The mounted generation is complete on the device at every moment: no write
\* of a transaction or commit, finished, aborted or failed half way, and no read
\* error while the blocks in use are computed, ever touches a block of it (I1).
\* For every device size and retention policy, and any number of faults.
THEOREM CurrentStaysIntact == Spec => []CurrentIntact
<1>1. Init => Intact
  BY DEF Init, Intact, CurrentPlaced, WorkPlaced, RootWritten, CommitSteps
<1>2. Intact => CurrentIntact
  BY DEF Intact, CurrentPlaced, CurrentIntact, Placed
<1>3. TypeOK /\ Intact /\ [Next]_vars => Intact'
  BY IntactStep
<1> QED
  BY <1>1, <1>2, <1>3, TypeCorrect, PTL DEF Spec

----------------------------------------------------------------------------
(***************************************************************************)
(* The device, the two superblock slots and the generation numbers.        *)
(***************************************************************************)
IsSuper(c) == c.t = "super"
RefTo(r, b) == [gen |-> r.gen, blk |-> b, crc |-> r.crc]

\* The roots a caller was told of, or may find after a power loss.
Known == doubt \cup ({saved} \ {NoRoot})

\* What a read returns is one of the contents the medium may have; after a
\* power loss a block without an unflushed write holds what it held.
DevInv ==
    /\ up => \A b \in Blocks : vol[b] \in media[b]
    /\ ~up => \A b \in Blocks : b \notin Unsettled => media[b] = {vol[b]}
    /\ \A b \in Blocks : media[b] # {}

\* The mounted slot names the mounted generation, no valid superblock is newer
\* than maxGen but the one a commit has just written, and that commit is newer.
SlotInv ==
    /\ mounted => /\ vol[curSlot] = Super(cur, curBlk)
                  /\ \A i \in {0, 1} : SlotGen(vol, i) <= maxGen \/ (pc = "super" /\ i = 1 - curSlot)
    /\ pc \in CommitSteps => /\ work.gen = maxGen + 1 /\ work.parent = cur.gen
                             /\ 1 \in DOMAIN work.hist /\ work.hist[1] = RefTo(cur, curBlk)
    /\ pc = "super" => vol[1 - curSlot] = Super(work, newBlk) /\ work \in doubt
----------------------------------------------------------------------------
(***************************************************************************)
(* What the steps do to the device.                                        *)
(***************************************************************************)
\* A write to the blocks S of contents from C, done in full, in part or not.
Touches(S, C) ==
    /\ \A b \in Blocks : b \notin S => vol'[b] = vol[b] /\ media'[b] = media[b]
    /\ \A b \in Blocks : b \in S =>
          /\ vol'[b] \in {vol[b], Torn} \cup C
          /\ media[b] \subseteq media'[b] /\ media'[b] \subseteq media[b] \cup {Torn} \cup C
          /\ vol[b] \in media[b] => vol'[b] \in media'[b]

LEMMA BlockFacts ==
    /\ 0 \in Blocks /\ 1 \in Blocks /\ 2 \in Blocks /\ 2 \in DataBlocks
    /\ DataBlocks \subseteq Blocks /\ 0 \notin DataBlocks /\ 1 \notin DataBlocks
BY NBlocksAssumption, SMTT(30) DEF Blocks, DataBlocks

\* A request to the device, with or without an error, touches only its blocks.
LEMMA WriteTouches ==
    ASSUME vol \in [Blocks -> Content], NEW W, NEW C, \A b \in DOMAIN W : W[b] \in C,
           DevWrite(W) \/ DevWriteError(W)
    PROVE  Touches(DOMAIN W, C)
<1>1. media' = [b \in Blocks |-> IF b \in DOMAIN W THEN media[b] \cup {W[b], Torn} ELSE media[b]]
  BY DEF DevWrite, DevWriteError
<1>2. ASSUME NEW b \in Blocks
      PROVE  IF b \in DOMAIN W THEN vol'[b] \in {vol[b], Torn, W[b]} ELSE vol'[b] = vol[b]
  <2>1. CASE DevWrite(W)
    BY <2>1 DEF DevWrite
  <2>2. CASE DevWriteError(W)
    <3>1. PICK done \in [DOMAIN W -> {"old", "new", "torn"}] :
             vol' = [x \in Blocks |->
                       IF x \notin DOMAIN W THEN vol[x]
                       ELSE CASE done[x] = "old"  -> vol[x]
                              [] done[x] = "new"  -> W[x]
                              [] done[x] = "torn" -> Torn]
      BY <2>2 DEF DevWriteError
    <3>2. vol'[b] = IF b \notin DOMAIN W THEN vol[b]
                    ELSE CASE done[b] = "old"  -> vol[b]
                           [] done[b] = "new"  -> W[b]
                           [] done[b] = "torn" -> Torn
      BY <3>1
    <3>3. CASE b \in DOMAIN W
      <4>1. done[b] \in {"old", "new", "torn"}
        BY <3>3
      <4> QED
        BY <3>2, <3>3, <4>1
    <3> QED
      BY <3>2, <3>3
  <2> QED
    BY <2>1, <2>2
<1> QED
  BY <1>1, <1>2 DEF Touches

\* The calls of a transaction, and the first step of its commit.
TxCalls ==
    \/ Begin \/ Abort \/ Prune \/ AllowReserve \/ CommitRoot
    \/ \E n \in Names : Del(n) \/ \E p \in Payloads : Put(n, p)
    \/ \E q \in PinNames : Unpin(q) \/ \E g \in 1 .. MaxCommits : Pin(q, g)

TxWrite(S, C) ==
    /\ S \subseteq DataBlocks \ (used \cup txused)
    /\ Touches(S, C)
    /\ \A c \in C : c.t = "data" \/ (c = NewRoot /\ commits' = commits + 1)

\* They write data, or the new root, to free blocks and leave the mounted
\* generation as it is.
LEMMA TxEffect ==
    ASSUME TypeOK, TxCalls
    PROVE  /\ up /\ mounted /\ pc = "idle" /\ pc' \in {"idle", "root"}
           /\ commits' \in {commits, commits + 1}
           /\ UNCHANGED <<up, mounted, cur, curBlk, curSlot, maxGen, used, saved, doubt>>
           /\ pc' = "root" => work' = NewRoot /\ commits' = commits + 1
           /\ \E S, C : TxWrite(S, C)
<1>QuietWrite. ASSUME UNCHANGED devVars PROVE TxWrite({}, {})
  BY <1>QuietWrite DEF TxWrite, Touches, devVars
<1>1. CASE \/ Begin \/ Abort \/ Prune \/ AllowReserve \/ \E n \in Names : Del(n)
           \/ \E q \in PinNames : Unpin(q) \/ \E g \in 1 .. MaxCommits : Pin(q, g)
  <2>1. /\ UNCHANGED devVars /\ up /\ mounted /\ pc = "idle" /\ pc' = "idle" /\ commits' = commits
        /\ UNCHANGED <<up, mounted, cur, curBlk, curSlot, maxGen, used, saved, doubt>>
    <3>1. CASE Begin
      BY <3>1 DEF Begin, history
    <3>2. CASE Abort
      BY <3>2 DEF Abort, InTx, history
    <3>3. CASE Prune \/ AllowReserve
      BY <3>3 DEF Prune, AllowReserve, TxCall, InTx, storeVars, history
    <3>4. CASE \E n \in Names : Del(n)
      BY <3>4 DEF Del, TxCall, InTx, storeVars, history
    <3>5. CASE \E q \in PinNames : Unpin(q) \/ \E g \in 1 .. MaxCommits : Pin(q, g)
      BY <3>5 DEF Unpin, Pin, TxCall, InTx, storeVars, history
    <3> QED
      BY <1>1, <3>1, <3>2, <3>3, <3>4, <3>5
  <2>2. \E S, C : TxWrite(S, C)
    BY <2>1, <1>QuietWrite
  <2> QED
    BY <2>1, <2>2
<1>2. ASSUME NEW n \in Names, NEW p \in Payloads, Put(n, p)
      PROVE  /\ up /\ mounted /\ pc = "idle" /\ pc' = "idle" /\ commits' = commits
             /\ UNCHANGED <<up, mounted, cur, curBlk, curSlot, maxGen, used, saved, doubt>>
             /\ \E S, C : TxWrite(S, C)
  <2>1. /\ up /\ mounted /\ pc = "idle" /\ pc' = "idle" /\ commits' = commits
        /\ UNCHANGED <<up, mounted, cur, curBlk, curSlot, maxGen, used, saved, doubt>>
    BY <1>2, PutFrame DEF storeVars, history
  <2>2. NBlk[p] \in Nat
    BY StoreAssumption
  <2>3. CASE NBlk[p] = 0
    <3>1. UNCHANGED devVars
      BY <1>2, <2>3, PutEmpty
    <3> QED
      BY <2>1, <3>1, <1>QuietWrite
  <2>4. CASE NBlk[p] > 0
    <3> DEFINE W(blk) == [b \in blk .. blk + NBlk[p] - 1 |-> Data(p, b - blk)]
    <3>1. PICK blk \in Alloc(NBlk[p], txReserve) : DevWrite(W(blk)) \/ DevWriteError(W(blk))
      BY <1>2, <2>4, PutBlocks
    <3>2. /\ blk \in DataBlocks
          /\ \A i \in 0 .. NBlk[p] - 1 : blk + i \in DataBlocks \ (used \cup txused)
      BY <2>2, AllocFree
    <3>3. DOMAIN W(blk) \subseteq DataBlocks \ (used \cup txused)
      <4>1. SUFFICES ASSUME NEW b \in DOMAIN W(blk) PROVE b \in DataBlocks \ (used \cup txused)
        OBVIOUS
      <4>2. blk \in Nat
        BY <3>2, NBlocksAssumption, SMTT(30) DEF DataBlocks
      <4>3. b - blk \in 0 .. NBlk[p] - 1 /\ b = blk + (b - blk)
        BY <2>2, <4>2, SMTT(30)
      <4> QED
        BY <3>2, <4>3
    <3> DEFINE C == {Data(p, j) : j \in Int}
    <3>4. \A b \in DOMAIN W(blk) : W(blk)[b] \in C
      BY <2>2, <3>2, NBlocksAssumption, SMTT(30) DEF DataBlocks
    <3>5. \A c \in C : c.t = "data"
      BY SMTT(30) DEF Data
    <3>6. vol \in [Blocks -> Content]
      BY DEF TypeOK
    <3> HIDE DEF W, C
    <3>7. Touches(DOMAIN W(blk), C)
      BY <3>1, <3>4, <3>6, WriteTouches
    <3>8. TxWrite(DOMAIN W(blk), C)
      BY <3>3, <3>5, <3>7 DEF TxWrite
    <3> QED
      BY <2>1, <3>8
  <2> QED
    BY <2>2, <2>3, <2>4, SMTT(30)
<1>3. CASE CommitRoot
  <2>1. /\ up /\ mounted /\ pc = "idle" /\ commits' = commits + 1
        /\ UNCHANGED <<up, mounted, cur, curBlk, curSlot, maxGen, used, saved, doubt>>
    BY <1>3 DEF CommitRoot, InTx, history
  <2>2. /\ pc' \in {"idle", "root"}
        /\ pc' = "root" => work' = NewRoot
        /\ \/ UNCHANGED devVars
           \/ \E blk \in Alloc(1, TRUE) : \/ DevWrite([b \in {blk} |-> NewRoot])
                                          \/ DevWriteError([b \in {blk} |-> NewRoot])
    BY <1>3, <2>1 DEF CommitRoot
  <2>3. ASSUME NEW blk \in Alloc(1, TRUE),
               DevWrite([b \in {blk} |-> NewRoot]) \/ DevWriteError([b \in {blk} |-> NewRoot])
        PROVE  TxWrite({blk}, {NewRoot})
    <3>1. blk \in DataBlocks \ (used \cup txused)
      BY AllocFree
    <3> DEFINE W == [b \in {blk} |-> NewRoot]
    <3>2. DOMAIN W = {blk} /\ (DevWrite(W) \/ DevWriteError(W)) /\ \A b \in DOMAIN W : W[b] \in {NewRoot}
      BY <2>3
    <3>3. vol \in [Blocks -> Content]
      BY DEF TypeOK
    <3> HIDE DEF W
    <3>4. Touches({blk}, {NewRoot})
      BY <3>2, <3>3, WriteTouches
    <3> QED
      BY <2>1, <3>1, <3>4 DEF TxWrite
  <2>4. \E S, C : TxWrite(S, C)
    BY <2>2, <2>3, <1>QuietWrite
  <2> QED
    BY <2>1, <2>2, <2>4
<1> QED
  BY <1>1, <1>2, <1>3 DEF TxCalls

\* The other writes: st_format's root and its superblock, st_commit's superblock.
LEMMA FormatRootTouches ==
    ASSUME TypeOK, FormatRoot PROVE Touches({1, 2}, {FirstRoot(commits + 1), Blank})
<1>1. /\ DevWrite(FormatWrites) \/ DevWriteError(FormatWrites)
      /\ vol \in [Blocks -> Content]
  BY DEF FormatRoot, TypeOK
<1>2. /\ DOMAIN FormatWrites = {1, 2}
      /\ \A b \in {1, 2} : FormatWrites[b] \in {FirstRoot(commits + 1), Blank}
  BY DEF FormatWrites
<1> QED
  BY <1>1, <1>2, WriteTouches

LEMMA FormatSuperTouches ==
    ASSUME TypeOK, FormatSuper PROVE Touches({0}, {Super(FirstRoot(commits), 2)})
<1> DEFINE W == [b \in {0} |-> Super(FirstRoot(commits), 2)]
<1>1. /\ DevWrite(W) \/ DevWriteError(W)
      /\ vol \in [Blocks -> Content]
  BY DEF FormatSuper, TypeOK
<1>2. DOMAIN W = {0} /\ \A b \in {0} : W[b] \in {Super(FirstRoot(commits), 2)}
  OBVIOUS
<1> HIDE DEF W
<1> QED
  BY <1>1, <1>2, WriteTouches

LEMMA CommitSuperTouches ==
    ASSUME TypeOK, CommitSuper
    PROVE  Touches({1 - curSlot}, {Super(work, newBlk)})
<1> DEFINE W == [b \in {1 - curSlot} |-> Super(work, newBlk)]
<1>1. /\ DevWrite(W) \/ DevWriteError(W)
      /\ vol \in [Blocks -> Content]
  BY DEF CommitSuper, TypeOK
<1>2. DOMAIN W = {1 - curSlot} /\ \A b \in {1 - curSlot} : W[b] \in {Super(work, newBlk)}
  OBVIOUS
<1> HIDE DEF W
<1> QED
  BY <1>1, <1>2, WriteTouches

\* Every step of the store is one of these.
LEMMA StepCases ==
    ASSUME [Next]_vars
    PROVE  \/ UNCHANGED vars \/ TxCalls
           \/ FormatRoot \/ FormatBarrier \/ FormatSuper \/ FormatFlush
           \/ Mount \/ CommitBarrier \/ CommitSuper \/ CommitFlush
           \/ PowerLoss \/ Settle \/ Rot \/ Boot
BY DEF Next, TxCalls
----------------------------------------------------------------------------
(***************************************************************************)
(* The device.                                                             *)
(***************************************************************************)
LEMMA DevInvStep == ASSUME TypeOK, DevInv, [Next]_vars PROVE DevInv'
<1>DevInvTouches. ASSUME up, up', NEW S, NEW C, Touches(S, C) PROVE DevInv'
  <2> USE <1>DevInvTouches
  <2>1. ASSUME NEW b \in Blocks PROVE vol'[b] \in media'[b]
    BY DEF DevInv, Touches
  <2> QED
    BY <2>1 DEF DevInv
<1>DevInvFlush. ASSUME up, up', DevFlush \/ DevFlushError PROVE DevInv'
  <2> USE <1>DevInvFlush
  <2>1. ASSUME NEW b \in Blocks PROVE vol'[b] \in media'[b]
    BY DEF DevInv, DevFlush, DevFlushError, devVars
  <2> QED
    BY <2>1 DEF DevInv
<1>DevInvSame. ASSUME UNCHANGED <<up, devVars>> PROVE DevInv'
  BY <1>DevInvSame DEF DevInv, devVars, Unsettled
\* Power loss, the outcome of an unflushed write, and the boot.
<1>DevInvPower. ASSUME PowerLoss \/ Settle \/ Rot \/ Boot PROVE DevInv'
  <2> USE <1>DevInvPower
  <2>1. CASE PowerLoss
    <3>1. ASSUME NEW b \in Blocks, b \notin Unsettled' PROVE media'[b] = {vol'[b]}
      <4>1. media' = media /\ vol' = [x \in Blocks |-> IF x \in Unsettled THEN Blank ELSE vol[x]] /\ up
        BY <2>1 DEF PowerLoss, DevPowerLoss
      <4>2. b \notin Unsettled
        BY <3>1, <4>1 DEF Unsettled
      <4>3. vol[b] \in media[b]
        BY <4>1 DEF DevInv
      <4>4. \A c, d \in media[b] : c = d
        BY <4>2 DEF Unsettled
      <4>5. vol'[b] = vol[b]
        BY <4>1, <4>2
      <4>6. media[b] = {vol[b]}
        BY <4>3, <4>4
      <4> QED
        BY <4>1, <4>5, <4>6
    <3>2. media' = media /\ ~up'
      BY <2>1 DEF PowerLoss, DevPowerLoss
    <3> QED
      BY <3>1, <3>2 DEF DevInv
  <2>2. CASE Settle
    <3>1. PICK b \in Blocks : b \in Unsettled /\
             \E c \in media[b] : vol' = [vol EXCEPT ![b] = c] /\ media' = [media EXCEPT ![b] = {c}]
      BY <2>2 DEF Settle, DevSettle, Unsettled
    <3>2. PICK c \in media[b] : vol' = [vol EXCEPT ![b] = c] /\ media' = [media EXCEPT ![b] = {c}]
      BY <3>1
    <3>3. ~up /\ ~up' /\ vol \in [Blocks -> Content] /\ media \in [Blocks -> SUBSET Content]
      BY <2>2 DEF Settle, TypeOK
    <3>4. ASSUME NEW x \in Blocks, x \notin Unsettled' PROVE media'[x] = {vol'[x]}
      <4>1. CASE x = b
        BY <3>2, <3>3, <4>1
      <4>2. CASE x # b
        <5>1. media'[x] = media[x] /\ vol'[x] = vol[x]
          BY <3>2, <3>3, <4>2
        <5>2. x \notin Unsettled
          BY <3>4, <5>1 DEF Unsettled
        <5> QED
          BY <3>3, <5>1, <5>2 DEF DevInv
      <4> QED
        BY <4>1, <4>2
    <3>5. \A x \in Blocks : media'[x] # {}
      BY <3>2, <3>3 DEF DevInv
    <3> QED
      BY <3>3, <3>4, <3>5 DEF DevInv
  <2>3. CASE Rot
    <3>1. PICK b \in Blocks : vol' = [vol EXCEPT ![b] = Torn] /\ media' = [media EXCEPT ![b] = {Torn}]
      BY <2>3 DEF Rot, DevRot
    <3>2. /\ ~up /\ ~up' /\ vol \in [Blocks -> Content] /\ media \in [Blocks -> SUBSET Content]
          /\ Unsettled = {}
      BY <2>3 DEF Rot, TypeOK
    <3>3. \A x \in Blocks : media'[x] = {vol'[x]}
      BY <3>1, <3>2 DEF DevInv
    <3> QED
      BY <3>2, <3>3 DEF DevInv
  <2>4. CASE Boot
    <3>1. UNCHANGED devVars /\ ~up /\ Unsettled = {} /\ up'
      BY <2>4 DEF Boot
    <3>2. \A x \in Blocks : media'[x] = {vol'[x]}
      BY <3>1 DEF DevInv, devVars
    <3> QED
      BY <3>1, <3>2 DEF DevInv
  <2> QED
    BY <2>1, <2>2, <2>3, <2>4
<1>1. CASE UNCHANGED vars
  BY <1>1, <1>DevInvSame DEF vars
<1>2. CASE TxCalls
  BY <1>2, TxEffect, <1>DevInvTouches, SMTT(30) DEF TxWrite
<1>3. CASE FormatRoot
  BY <1>3, FormatRootTouches, <1>DevInvTouches DEF FormatRoot
<1>4. CASE FormatSuper
  BY <1>4, FormatSuperTouches, <1>DevInvTouches DEF FormatSuper
<1>5. CASE CommitSuper
  BY <1>5, CommitSuperTouches, <1>DevInvTouches DEF CommitSuper
<1>6. CASE FormatBarrier
  BY <1>6, <1>DevInvFlush DEF FormatBarrier
<1>7. CASE FormatFlush
  BY <1>7, <1>DevInvFlush DEF FormatFlush
<1>8. CASE CommitBarrier
  BY <1>8, <1>DevInvFlush DEF CommitBarrier
<1>9. CASE CommitFlush
  BY <1>9, <1>DevInvFlush DEF CommitFlush
<1>10. CASE Mount
  BY <1>10, <1>DevInvSame DEF Mount
<1> QED
  BY <1>1, <1>2, <1>3, <1>4, <1>5, <1>6, <1>7, <1>8, <1>9, <1>10, <1>DevInvPower, StepCases

----------------------------------------------------------------------------
(***************************************************************************)
(* Generations.                                                            *)
(***************************************************************************)
\* The mounted generation heads the history of the next: one is always kept.
LEMMA NewHistShape ==
    ASSUME cur \in Root, curBlk \in Nat
    PROVE  /\ NewHist \in Seq(Ref) /\ 1 \in DOMAIN NewHist
           /\ NewHist[1] = RefTo(cur, curBlk)
           /\ \A i \in DOMAIN NewHist : i = 1 \/ (i - 1 \in DOMAIN cur.hist /\ NewHist[i] = cur.hist[i - 1])
<1>1. PICK h \in Seq(Ref) : h = cur.hist
  BY DEF Root
<1>2. PICK x \in Ref : x = RefTo(cur, curBlk)
  BY DEF Root, Ref, RefTo
<1> DEFINE all == <<x>> \o h
<1>3. all \in Seq(Ref) /\ Len(all) = 1 + Len(h) /\ Len(h) \in Nat /\ all[1] = x
  BY SMTT(30)
<1>4. ASSUME NEW i \in 2 .. 1 + Len(h) PROVE all[i] = h[i - 1]
  BY SMTT(30)
<1>5. Keep \in Nat /\ Keep >= 1
  BY StoreAssumption, SMTT(30) DEF Keep, RetainMin
<1> HIDE DEF all
<1>6. PICK n \in 1 .. Len(all) : NewHist = SubSeq(all, 1, n)
  <2>1. NewHist = SubSeq(all, 1, IF Keep < Len(all) THEN Keep ELSE Len(all))
    BY <1>1, <1>2 DEF NewHist, RefTo, all
  <2>2. (IF Keep < Len(all) THEN Keep ELSE Len(all)) \in 1 .. Len(all)
    BY <1>3, <1>5, SMTT(30)
  <2> QED
    BY <2>1, <2>2
<1>7. NewHist \in Seq(Ref) /\ Len(NewHist) = n /\ \A i \in 1 .. n : NewHist[i] = all[i]
  BY <1>3, <1>6, SMTT(30)
<1>8. DOMAIN NewHist = 1 .. n /\ n \in Nat /\ n >= 1 /\ n <= 1 + Len(h) /\ DOMAIN h = 1 .. Len(h)
  BY <1>3, <1>6, <1>7, SMTT(30)
<1>9. ASSUME NEW i \in 1 .. n, i # 1 PROVE i - 1 \in DOMAIN h /\ NewHist[i] = h[i - 1]
  BY <1>3, <1>4, <1>7, <1>8, <1>9, SMTT(30)
<1> QED
  BY <1>1, <1>2, <1>3, <1>7, <1>8, <1>9, SMTT(30)

LEMMA OneRead == ASSUME "read" \notin Faults PROVE Reads = {vol} /\ FaultsAfter(vol) = faults
BY DEF Reads, FaultsAfter, CanFault

\* What a successful mount sets.
LEMMA MountSets ==
    ASSUME TypeOK, Mount, mounted', "read" \notin Faults
    PROVE  \E i \in MountSlots(vol) :
              /\ cur' = vol[vol[i].blk] /\ curBlk' = vol[i].blk /\ curSlot' = i
              /\ maxGen' = MaxSlotGen(vol) /\ used' = RecomputeUsed(vol, cur', curBlk')
BY OneRead DEF Mount

LEMMA SlotInvStep ==
    ASSUME TypeOK, SlotInv, [Next]_vars, "read" \notin Faults PROVE SlotInv'
\* A step of a mounted store that writes no slot and moves no commit.
<1>SlotInvIdle.
    ASSUME UNCHANGED <<mounted, cur, curBlk, curSlot, maxGen>>, vol'[0] = vol[0],
           vol'[1] = vol[1], pc # "super", pc' = "idle"
    PROVE  SlotInv'
  <2> USE <1>SlotInvIdle
  <2>1. curSlot \in {0, 1}
    BY DEF TypeOK
  <2> QED
    BY <2>1 DEF SlotInv, CommitSteps, SlotGen
<1>SlotInvUnmounted. ASSUME ~mounted', pc' \notin CommitSteps PROVE SlotInv'
  BY <1>SlotInvUnmounted DEF SlotInv, CommitSteps
<1>SlotInvMount. ASSUME Mount PROVE SlotInv'
  <2> USE <1>SlotInvMount
  <2>MaxSlotGenBound.
      ASSUME NEW d \in [Blocks -> Content], NEW i \in {0, 1} PROVE SlotGen(d, i) <= MaxSlotGen(d)
    <3> USE <2>MaxSlotGenBound
    <3>1. d[0] \in Content /\ d[1] \in Content
      BY BlockFacts
    <3>2. SlotGen(d, 0) \in Nat /\ SlotGen(d, 1) \in Nat
      BY <3>1, ContentSuper DEF SlotGen
    <3> QED
      BY <3>2, SMTT(30) DEF MaxSlotGen
  <2>1. pc' = "idle" /\ vol' = vol /\ vol \in [Blocks -> Content]
    BY DEF Mount, devVars, TypeOK
  <2>2. CASE ~mounted'
    BY <2>1, <2>2, <1>SlotInvUnmounted DEF CommitSteps
  <2>3. CASE mounted'
    <3>1. PICK i \in MountSlots(vol) :
                /\ cur' = vol[vol[i].blk] /\ curBlk' = vol[i].blk /\ curSlot' = i
                /\ maxGen' = MaxSlotGen(vol)
      BY <2>3, MountSets
    <3>2. i \in {0, 1} /\ vol[i].t = "super" /\ LoadRoot(vol, vol[i])
      BY DEF MountSlots, TrySlot
    <3>3. vol[i] \in [t : {"super"}, gen : Nat, blk : Nat, crc : Nat]
      <4>1. vol[i] \in Content
        BY <2>1, <3>2, BlockFacts
      <4> QED
        BY <3>2, <4>1, SMTT(30) DEF Content, Root, Torn, Blank
    <3>4. vol[i] = Super(cur', curBlk')
      BY <3>1, <3>2, <3>3 DEF LoadRoot, Super
    <3>5. \A j \in {0, 1} : SlotGen(vol, j) <= maxGen'
      BY <2>1, <3>1, <2>MaxSlotGenBound
    <3> QED
      BY <2>1, <3>1, <3>4, <3>5 DEF SlotInv, CommitSteps
  <2> QED
    BY <2>2, <2>3
<1>SlotInvTx. ASSUME TxCalls PROVE SlotInv'
  <2> USE <1>SlotInvTx
  <2>1. /\ pc = "idle" /\ pc' \in {"idle", "root"} /\ mounted
        /\ UNCHANGED <<mounted, cur, curBlk, curSlot, maxGen>>
        /\ pc' = "root" => work' = NewRoot
    BY TxEffect
  <2>2. vol'[0] = vol[0] /\ vol'[1] = vol[1]
    BY TxEffect, BlockFacts DEF TxWrite, Touches
  <2>3. CASE pc' = "idle"
    BY <2>1, <2>2, <2>3, <1>SlotInvIdle
  <2>4. CASE pc' = "root"
    <3>1. cur \in Root /\ curBlk \in Nat /\ curSlot \in {0, 1}
      BY <2>1 DEF TypeOK
    <3>2. /\ work'.gen = maxGen + 1 /\ work'.parent = cur.gen /\ work'.hist = NewHist
      BY <2>1, <2>4, SMTT(30) DEF NewRoot
    <3>3. 1 \in DOMAIN work'.hist /\ work'.hist[1] = RefTo(cur, curBlk)
      BY <3>1, <3>2, NewHistShape
    <3>4. mounted' /\ vol'[curSlot'] = Super(cur', curBlk')
      BY <2>1, <2>2, <3>1 DEF SlotInv
    <3>5. \A i \in {0, 1} : SlotGen(vol', i) <= maxGen'
      BY <2>1, <2>2 DEF SlotInv, SlotGen
    <3>6. RefTo(cur', curBlk') = RefTo(cur, curBlk)
      BY <2>1
    <3> QED
      BY <2>1, <2>4, <3>2, <3>3, <3>4, <3>5, <3>6 DEF SlotInv
  <2> QED
    BY <2>1, <2>3, <2>4
<1>SlotInvBarrier. ASSUME CommitBarrier PROVE SlotInv'
  <2> USE <1>SlotInvBarrier
  <2>1. /\ pc = "root" /\ vol' = vol /\ UNCHANGED <<mounted, cur, curBlk, curSlot, maxGen, doubt>>
        /\ pc' = "idle" \/ (pc' = "barrier" /\ work' = work)
    BY DEF CommitBarrier, DevFlush, DevFlushError, devVars, history, txVars
  <2>2. CASE pc' = "idle"
    BY <2>1, <2>2, <1>SlotInvIdle
  <2>3. CASE pc' = "barrier" /\ work' = work
    <3>1. pc \in CommitSteps
      BY <2>1 DEF CommitSteps
    <3> QED
      BY <2>1, <2>3, <3>1 DEF SlotInv
  <2> QED
    BY <2>1, <2>2, <2>3
<1>SlotInvSuper. ASSUME CommitSuper PROVE SlotInv'
  <2> USE <1>SlotInvSuper
  <2> DEFINE W == [b \in {1 - curSlot} |-> Super(work, newBlk)]
  <2>1. /\ pc = "barrier" /\ UNCHANGED <<cur, curBlk, curSlot, maxGen>>
        /\ \/ (pc' = "idle" /\ ~mounted')
           \/ (pc' = "super" /\ DevWrite(W) /\ UNCHANGED <<mounted, work, newBlk>>)
        /\ work \in doubt'
    BY DEF CommitSuper, txVars
  <2>2. CASE pc' = "idle" /\ ~mounted'
    BY <2>2, <1>SlotInvUnmounted DEF CommitSteps
  <2>3. CASE pc' = "super" /\ DevWrite(W) /\ UNCHANGED <<mounted, work, newBlk>>
    <3>1. curSlot \in {0, 1} /\ 1 - curSlot \in {0, 1} /\ 1 - curSlot # curSlot /\ mounted
      BY <2>1, SMTT(30) DEF TypeOK, CommitSteps
    <3>2. vol'[1 - curSlot] = Super(work, newBlk) /\ vol'[curSlot] = vol[curSlot]
      <4>1. 1 - curSlot \in Blocks /\ curSlot \in Blocks
        BY <3>1, BlockFacts
      <4>2. curSlot \notin DOMAIN W /\ 1 - curSlot \in DOMAIN W /\ W[1 - curSlot] = Super(work, newBlk)
        BY <3>1
      <4> HIDE DEF W
      <4> QED
        BY <2>3, <4>1, <4>2 DEF DevWrite
    <3>3. pc \in CommitSteps
      BY <2>1 DEF CommitSteps
    <3>4. vol[curSlot] = Super(cur, curBlk) /\ SlotGen(vol, curSlot) <= maxGen
      BY <2>1, <3>1 DEF SlotInv
    <3>5. SlotGen(vol', curSlot) <= maxGen
      BY <3>2, <3>4 DEF SlotGen
    <3>6. \A i \in {0, 1} : i = curSlot \/ i = 1 - curSlot
      BY <3>1
    <3> QED
      BY <2>1, <2>3, <3>1, <3>2, <3>3, <3>4, <3>5, <3>6 DEF SlotInv
  <2> QED
    BY <2>1, <2>2, <2>3
<1>SlotInvFlush. ASSUME CommitFlush PROVE SlotInv'
  <2> USE <1>SlotInvFlush
  <2>1. pc = "super" /\ pc' = "idle" /\ vol' = vol
    BY DEF CommitFlush, DevFlush, DevFlushError, devVars
  <2>2. CASE ~mounted'
    BY <2>1, <2>2, <1>SlotInvUnmounted DEF CommitSteps
  <2>3. CASE cur' = work /\ curBlk' = newBlk /\ curSlot' = 1 - curSlot /\ maxGen' = work.gen
    <3>1. curSlot \in {0, 1} /\ 1 - curSlot \in {0, 1} /\ 1 - (1 - curSlot) = curSlot
          /\ mounted /\ work \in Root /\ maxGen \in Nat
      BY <2>1, SMTT(30) DEF TypeOK, CommitSteps
    <3>2. vol[1 - curSlot] = Super(work, newBlk) /\ work.gen = maxGen + 1
          /\ SlotGen(vol, curSlot) <= maxGen
      BY <2>1, <3>1, SMTT(30) DEF SlotInv, CommitSteps
    <3>3. SlotGen(vol, curSlot) <= work.gen
      <4>1. vol[curSlot] \in Content
        BY <3>1, BlockFacts DEF TypeOK
      <4>2. SlotGen(vol, curSlot) \in Nat
        BY <4>1, ContentSuper DEF SlotGen
      <4> QED
        BY <3>1, <3>2, <4>2, SMTT(30)
    <3>4. SlotGen(vol, 1 - curSlot) = work.gen /\ work.gen <= work.gen
      BY <3>1, <3>2, SMTT(30) DEF SlotGen, Super
    <3>5. \A i \in {0, 1} : i = curSlot \/ i = 1 - curSlot
      BY <3>1, SMTT(30)
    <3>6. \A i \in {0, 1} : SlotGen(vol, i) <= work.gen
      BY <3>3, <3>4, <3>5
    <3> QED
      BY <2>1, <2>3, <3>1, <3>2, <3>6 DEF SlotInv, CommitSteps
  <2> QED
    BY <2>2, <2>3 DEF CommitFlush
<1>1. CASE UNCHANGED vars
  BY <1>1 DEF SlotInv, vars, devVars, storeVars, txVars, history
<1>2. CASE FormatRoot \/ FormatBarrier \/ FormatSuper \/ FormatFlush
  <2>1. /\ (pc = "idle" /\ ~mounted) \/ pc \in FormatSteps
        /\ pc' \in {"idle"} \cup FormatSteps /\ UNCHANGED mounted
    <3>1. CASE FormatRoot
      BY <3>1 DEF FormatRoot, storeVars, FormatSteps
    <3>2. CASE FormatBarrier
      BY <3>2 DEF FormatBarrier, storeVars, FormatSteps
    <3>3. CASE FormatSuper
      BY <3>3 DEF FormatSuper, storeVars, FormatSteps
    <3>4. CASE FormatFlush
      BY <3>4 DEF FormatFlush, storeVars, FormatSteps
    <3> QED
      BY <1>2, <3>1, <3>2, <3>3, <3>4
  <2>2. ~mounted
    BY <2>1 DEF TypeOK
  <2>3. pc' \notin CommitSteps
    BY <2>1 DEF CommitSteps, FormatSteps
  <2> QED
    BY <2>1, <2>2, <2>3, <1>SlotInvUnmounted
<1>3. CASE PowerLoss
  BY <1>3, <1>SlotInvUnmounted DEF PowerLoss, StoreZero, CommitSteps
<1>4. CASE Settle \/ Rot \/ Boot
  <2>1. ~up /\ UNCHANGED <<pc, mounted>>
    BY <1>4 DEF Settle, Rot, Boot, storeVars
  <2>2. ~mounted /\ pc \notin CommitSteps
    BY <2>1 DEF TypeOK
  <2>3. ~mounted' /\ pc' \notin CommitSteps
    BY <2>1, <2>2
  <2> QED
    BY <2>3, <1>SlotInvUnmounted
<1> QED
  BY <1>1, <1>2, <1>3, <1>4, StepCases, <1>SlotInvTx, <1>SlotInvMount, <1>SlotInvBarrier, <1>SlotInvSuper,
     <1>SlotInvFlush

\* A commit never reuses the number of a generation a slot holds with a valid
\* checksum, nor a smaller one: st_next_gen goes past every superblock st_mount
\* has seen, the rejected ones included, however the medium has decayed.  A
\* failed read is the exception: it hides a superblock from st_mount.
THEOREM GenerationsAreFresh ==
    ASSUME "read" \notin Faults PROVE Spec => FreshGeneration
<1>1. Init => SlotInv
  BY DEF Init, SlotInv, CommitSteps
<1>2. TypeOK /\ SlotInv /\ [Next]_vars => SlotInv'
  BY SlotInvStep
<1>3. TypeOK /\ SlotInv =>
        (pc = "barrier" /\ pc' = "super" => work.gen > SlotGen(vol, 0) /\ work.gen > SlotGen(vol, 1))
  <2> SUFFICES ASSUME TypeOK, SlotInv, pc = "barrier"
               PROVE  work.gen > SlotGen(vol, 0) /\ work.gen > SlotGen(vol, 1)
    OBVIOUS
  <2>1. mounted /\ maxGen \in Nat /\ work.gen = maxGen + 1
    BY DEF TypeOK, SlotInv, CommitSteps
  <2>2. SlotGen(vol, 0) <= maxGen /\ SlotGen(vol, 1) <= maxGen
    BY <2>1 DEF SlotInv
  <2>3. SlotGen(vol, 0) \in Nat /\ SlotGen(vol, 1) \in Nat
    <3>1. vol[0] \in Content /\ vol[1] \in Content
      BY BlockFacts DEF TypeOK
    <3> QED
      BY <3>1, ContentSuper DEF SlotGen
  <2> QED
    BY <2>1, <2>2, <2>3, SMTT(30)
<1> QED
  BY <1>1, <1>2, <1>3, TypeCorrect, PTL DEF Spec, FreshGeneration
----------------------------------------------------------------------------
(***************************************************************************)
(* Every root st_commit writes is one root_sane accepts.                   *)
(***************************************************************************)
\* The rules of root_sane on objects and on pins, in a root of generation g.
ObjsSane(w, g) ==
    /\ w.nextOid > 0 /\ Cardinality(Objs(w)) <= ObjMax
    /\ \A n \in Objs(w) :
          /\ w.obj[n].oid \in 1 .. w.nextOid - 1
          /\ w.obj[n].version > 0 /\ w.obj[n].modGen \in 1 .. g
          /\ w.obj[n].nblk = NBlk[w.obj[n].val]
          /\ Extent(w.obj[n]) \subseteq DataBlocks
          /\ w.obj[n].nblk = 0 => w.obj[n].blk = 0
    /\ \A n \in Objs(w) : \A m \in Objs(w) \ {n} :
          /\ w.obj[m].oid # w.obj[n].oid
          /\ Extent(w.obj[m]) \cap Extent(w.obj[n]) = {}
PinsSane(w, g) ==
    /\ Cardinality(PinsOf(w)) <= PinMax
    /\ \A q \in PinsOf(w) : w.pin[q].gen \in 1 .. g - 1 /\ w.pin[q].blk \in DataBlocks
HistSane(w) ==
    \A i \in DOMAIN w.hist :
       /\ w.hist[i].gen < (IF i = 1 THEN w.gen ELSE w.hist[i - 1].gen)
       /\ w.hist[i].gen > 0 /\ w.hist[i].blk \in DataBlocks

\* The mounted root, the root of the transaction and the one being committed.
SaneInv ==
    /\ mounted => RootSane(cur)
    /\ inTx => ObjsSane(work, maxGen + 1) /\ PinsSane(work, maxGen + 1)
    /\ pc \in CommitSteps => RootSane(work)

----------------------------------------------------------------------------
(***************************************************************************)
(* What a power loss leaves.  Once the store has been saved, one slot is   *)
(* the anchor: its superblock and the generation it names are the only     *)
(* contents the medium can have, whatever becomes of the unflushed writes. *)
(* The other slot is older, or holds the superblock of a commit of unknown *)
(* outcome whose history starts with the anchored generation; so the store *)
(* keeps the anchored blocks in use even when it has that commit mounted.  *)
(* The flush of the next barrier makes the mounted slot the anchor, before *)
(* the superblock goes to the other one.                                   *)
(***************************************************************************)
Durable(r, b) ==
    /\ b \in DataBlocks /\ media[b] = {r} /\ RootSane(r)
    /\ \A n \in Objs(r) : \A i \in 0 .. r.obj[n].nblk - 1 :
          media[r.obj[n].blk + i] = {Data(r.obj[n].val, i)}

Behind(r, b, c) ==
    \/ c.gen < r.gen
    \/ \E s \in doubt : /\ c = Super(s, c.blk) /\ s.gen > r.gen
                        /\ 1 \in DOMAIN s.hist /\ s.hist[1] = RefTo(r, b)

Anchor(a, r, b) ==
    /\ media[a] = {Super(r, b)} /\ GenOf(saved) <= r.gen /\ Durable(r, b)
    /\ \A c \in media[1 - a] : IsSuper(c) => Behind(r, b, c)
    /\ mounted => /\ MarkRoot(r, b) \subseteq used
                  /\ curSlot = a \/ (pc \in {"idle", "root"} /\ cur.gen > r.gen)

Anchored ==
    /\ pc \notin FormatSteps
    /\ \E a \in {0, 1}, r \in Known, b \in DataBlocks : Anchor(a, r, b)

\* The root st_format writes is one that st_mount accepts.
FirstIsSane == \A k \in Nat : RootSane(FirstRoot(k))

\* Before that, slot A at most holds the superblock st_format has written, over
\* the root it made durable first.
Fresh ==
    /\ FirstIsSane /\ saved = NoRoot
    /\ \A c \in media[1] : ~IsSuper(c)
    /\ \A c \in media[0] : IsSuper(c) =>
          \E k \in Nat : FirstRoot(k) \in doubt /\ c = Super(FirstRoot(k), 2) /\ media[2] = {FirstRoot(k)}
    /\ mounted => curSlot = 0 /\ curBlk = 2 /\ pc \in {"idle", "root"}
    /\ pc \in FormatSteps => vol[2] = FirstRoot(commits)
    /\ pc \in {"fmt_root", "fmt_barrier"} => \A c \in media[0] : ~IsSuper(c)
    /\ pc \in {"fmt_barrier", "fmt_super"} => media[2] = {FirstRoot(commits)}
    /\ pc = "fmt_super" => vol[0] = Super(FirstRoot(commits), 2) /\ FirstRoot(commits) \in doubt

Durability == Fresh \/ Anchored

\* The mounted generation is one that was saved or is in doubt.
CurKnown == mounted => cur \in Known

\* A checksum tells the roots apart: a block with the checksum of a root that
\* matters holds that root.
Tracked == Known \cup {r \in {work} : pc \in CommitSteps}
                 \cup {r \in {FirstRoot(commits)} : pc \in FormatSteps}
CrcInv ==
    /\ \A r \in Tracked : r.crc <= commits
    /\ \A b \in Blocks : \A c \in media[b] : c.t = "root" =>
          c.crc <= commits /\ \A r \in Tracked : c.crc = r.crc => c = r

LEMMA KnownRoot == ASSUME TypeOK PROVE Known \subseteq Root
BY DEF TypeOK, Known

LEMMA SuperFields ==
    ASSUME NEW r, NEW b
    PROVE  /\ Super(r, b).t = "super" /\ Super(r, b).gen = r.gen
           /\ Super(r, b).blk = b /\ Super(r, b).crc = r.crc
BY DEF Super

LEMMA SuperOf ==
    ASSUME NEW c, NEW r, NEW b, c = Super(r, b)
    PROVE  /\ c.t = "super" /\ c.gen = r.gen /\ c.blk = b /\ c.crc = r.crc
           /\ c = Super(r, c.blk)
BY SuperFields

\* There are two slots.
LEMMA OtherSlot ==
    \A a \in {0, 1} : /\ 1 - a \in {0, 1} /\ 1 - a # a /\ 1 - (1 - a) = a
                      /\ \A i \in {0, 1} : i = a \/ i = 1 - a
BY SMTT(30)

\* Every root has a generation.
LEMMA GenOfRoot ==
    \A r \in Root : r # NoRoot /\ r.gen \in Nat /\ GenOf(r) = r.gen /\ GenOf(r) <= r.gen
BY SMTT(30) DEF GenOf, Root, NoRoot

\* Neither a torn block nor a root passes for a superblock.
LEMMA NotSuper == ~IsSuper(Torn) /\ ~IsSuper(Blank) /\ \A k : ~IsSuper(FirstRoot(k))
BY SMTT(30) DEF IsSuper, Torn, Blank, FirstRoot

\* The extents of a sane root, and so all its blocks, are data blocks.
LEMMA SaneExtent ==
    ASSUME NEW r, RootSane(r), NEW n \in Objs(r), NEW i \in 0 .. r.obj[n].nblk - 1
    PROVE  r.obj[n].blk + i \in DataBlocks
BY SMTT(30) DEF RootSane, Extent

LEMMA AnchorMarks ==
    ASSUME NEW a, NEW r, NEW b, Anchor(a, r, b)
    PROVE  MarkRoot(r, b) \subseteq DataBlocks
BY SMTT(30) DEF MarkRoot, Anchor, Durable, RootSane

\* A verifying slot can be mounted.
LEMMA SomeSlot ==
    ASSUME NEW d \in [Blocks -> Content], NEW a \in {0, 1}, TrySlot(d, a)
    PROVE  /\ MountSlots(d) # {}
           /\ \A i \in MountSlots(d) : /\ i \in {0, 1} /\ TrySlot(d, i)
                                       /\ i = a \/ d[i].gen >= d[a].gen
<1>1. d[0] \in Content /\ d[1] \in Content
  BY BlockFacts
<1>2. \A i \in {0, 1} : TrySlot(d, i) => d[i].gen \in Nat
  BY <1>1, ContentSuper DEF TrySlot
<1>3. MountSlots(d) # {}
  <2>1. CASE TrySlot(d, 0) /\ (TrySlot(d, 1) => d[1].gen <= d[0].gen)
    <3>1. 0 \in MountSlots(d)
      BY <1>2, <2>1, SMTT(30) DEF MountSlots
    <3> QED
      BY <3>1
  <2>2. CASE TrySlot(d, 1) /\ (TrySlot(d, 0) => d[0].gen < d[1].gen)
    <3>1. 1 \in MountSlots(d)
      BY <1>2, <2>2, SMTT(30) DEF MountSlots
    <3> QED
      BY <3>1
  <2> QED
    BY <1>2, <2>1, <2>2, SMTT(30)
<1>4. ASSUME NEW i \in MountSlots(d)
      PROVE  i \in {0, 1} /\ TrySlot(d, i) /\ (i = a \/ d[i].gen >= d[a].gen)
  <2>1. i \in {0, 1} /\ TrySlot(d, i) /\ (d[a].gen < d[i].gen \/ d[a].gen = d[i].gen)
    BY DEF MountSlots
  <2>2. d[i].gen \in Nat /\ d[a].gen \in Nat
    BY <1>2, <2>1
  <2> QED
    BY <2>1, <2>2, SMTT(30)
<1> QED
  BY <1>3, <1>4

\* Whatever the medium holds, the anchor verifies.
LEMMA AnchorReads ==
    ASSUME NEW a \in {0, 1}, NEW r \in Root, NEW b, Anchor(a, r, b),
           NEW d \in [Blocks -> Content], \A x \in Blocks : d[x] \in media[x]
    PROVE  d[a] = Super(r, b) /\ d[b] = r /\ TrySlot(d, a) /\ LoadRoot(d, RefTo(r, b))
<1>1. a \in Blocks /\ b \in Blocks /\ b \in DataBlocks
  BY BlockFacts DEF Anchor, Durable
<1>2. d[a] = Super(r, b) /\ d[b] = r
  <2>1. d[a] \in media[a] /\ d[b] \in media[b]
    BY <1>1
  <2> QED
    BY <2>1 DEF Anchor, Durable
<1>3. r.t = "root" /\ RootSane(r)
  BY DEF Root, Anchor, Durable
<1>4. LoadRoot(d, d[a]) /\ LoadRoot(d, RefTo(r, b))
  BY <1>1, <1>2, <1>3, SuperFields, SMTT(30) DEF LoadRoot, RefTo
<1>5. ASSUME NEW n \in Objs(r), NEW i \in 0 .. r.obj[n].nblk - 1
      PROVE  d[r.obj[n].blk + i] = Data(r.obj[n].val, i)
  <2>1. r.obj[n].blk + i \in Extent(r.obj[n])
    BY DEF Extent
  <2>2. r.obj[n].blk + i \in Blocks
    BY <1>3, <2>1, BlockFacts DEF RootSane
  <2>3. d[r.obj[n].blk + i] \in media[r.obj[n].blk + i]
    BY <2>2
  <2>4. media[r.obj[n].blk + i] = {Data(r.obj[n].val, i)}
    BY DEF Anchor, Durable
  <2> QED
    BY <2>3, <2>4
<1>6. \A n \in Objs(r) : VerifyExtent(d, r.obj[n])
  BY <1>5 DEF VerifyExtent
<1>7. d[a].t = "super" /\ d[d[a].blk] = r
  BY <1>2, SuperFields, SMTT(30)
<1> QED
  BY <1>2, <1>4, <1>6, <1>7 DEF TrySlot

\* A superblock of a root that matters leads to that root or does not verify.
LEMMA SlotRoot ==
    ASSUME CrcInv, NEW d \in [Blocks -> Content], \A x \in Blocks : d[x] \in media[x],
           NEW i \in {0, 1}, TrySlot(d, i), NEW s \in Tracked, d[i] = Super(s, d[i].blk)
    PROVE  d[d[i].blk] = s /\ d[i].blk \in DataBlocks
<1>1. /\ d[i].blk \in DataBlocks /\ d[d[i].blk].t = "root" /\ d[d[i].blk].crc = d[i].crc
  BY DEF TrySlot, LoadRoot
<1>2. d[i].crc = s.crc
  BY SuperFields, SMTT(30)
<1>3. d[i].blk \in Blocks
  BY <1>1, BlockFacts
<1>4. d[d[i].blk] \in media[d[i].blk]
  BY <1>3
<1> QED
  BY <1>1, <1>2, <1>3, <1>4 DEF CrcInv

\* What st_mount finds on an anchored medium.
LEMMA AnchorPick ==
    ASSUME TypeOK, CrcInv, NEW a \in {0, 1}, NEW r \in Known, NEW b, Anchor(a, r, b),
           NEW d \in [Blocks -> Content], \A x \in Blocks : d[x] \in media[x],
           NEW i \in MountSlots(d)
    PROVE  \/ i = a /\ d[i].blk = b /\ d[d[i].blk] = r
           \/ /\ i = 1 - a
              /\ \E s \in doubt : /\ d[i] = Super(s, d[i].blk) /\ d[d[i].blk] = s /\ s.gen > r.gen
                                  /\ 1 \in DOMAIN s.hist /\ s.hist[1] = RefTo(r, b)
<1>1. r \in Root /\ r.gen \in Nat
  BY KnownRoot DEF Root
<1>2. d[a] = Super(r, b) /\ d[b] = r /\ TrySlot(d, a)
  BY <1>1, AnchorReads, SMTT(30)
<1>3. i \in {0, 1} /\ TrySlot(d, i) /\ (i = a \/ d[i].gen >= d[a].gen)
  BY <1>2, SomeSlot
<1>4. CASE i = a
  BY <1>2, <1>4, SuperFields, SMTT(30)
<1>5. CASE i # a
  <2>1. i = 1 - a /\ i \in Blocks
    BY <1>3, <1>5, BlockFacts, SMTT(30)
  <2>2. d[i] \in media[1 - a] /\ IsSuper(d[i])
    BY <1>3, <2>1 DEF IsSuper, TrySlot
  <2>3. Behind(r, b, d[i])
    BY <2>2 DEF Anchor
  <2>4. ~(d[i].gen < r.gen)
    <3>1. d[i].gen \in Nat
      BY <1>3, <2>1, ContentSuper DEF TrySlot
    <3>2. d[i].gen >= r.gen
      BY <1>2, <1>3, <1>5, SuperFields, SMTT(30)
    <3> QED
      BY <1>1, <3>1, <3>2, SMTT(30)
  <2>5. PICK s \in doubt : /\ d[i] = Super(s, d[i].blk) /\ s.gen > r.gen
                           /\ 1 \in DOMAIN s.hist /\ s.hist[1] = RefTo(r, b)
    BY <2>3, <2>4 DEF Behind
  <2>6. s \in Tracked
    BY DEF Tracked, Known
  <2>7. d[d[i].blk] = s
    BY <1>3, <2>5, <2>6, SlotRoot, SMTT(30)
  <2> QED
    BY <2>1, <2>5, <2>7
<1> QED
  BY <1>4, <1>5

\* The root of an empty store is sane.
LEMMA FirstEmpty == ASSUME NEW k \in Nat PROVE Objs(FirstRoot(k)) = {}
BY DEF FirstRoot, Objs

\* What st_mount finds on a fresh medium.
LEMMA FreshReads ==
    ASSUME Fresh, NEW d \in [Blocks -> Content], \A x \in Blocks : d[x] \in media[x], d[0].t = "super"
    PROVE  \E k \in Nat : /\ FirstRoot(k) \in doubt /\ d[0] = Super(FirstRoot(k), 2)
                          /\ d[2] = FirstRoot(k) /\ media[2] = {FirstRoot(k)} /\ TrySlot(d, 0)
<1>1. d[0] \in media[0] /\ d[2] \in media[2]
  BY BlockFacts
<1>2. PICK k \in Nat : FirstRoot(k) \in doubt /\ d[0] = Super(FirstRoot(k), 2) /\ media[2] = {FirstRoot(k)}
  BY <1>1 DEF Fresh, IsSuper
<1>3. d[2] = FirstRoot(k) /\ d[0].blk = 2 /\ d[0].gen = FirstRoot(k).gen /\ d[0].crc = FirstRoot(k).crc
  BY <1>1, <1>2, SuperFields, SMTT(30)
<1>4. FirstRoot(k).t = "root" /\ RootSane(FirstRoot(k))
  BY DEF FirstRoot, Fresh, FirstIsSane
<1>5. LoadRoot(d, d[0])
  BY <1>3, <1>4, BlockFacts DEF LoadRoot
<1>6. TrySlot(d, 0)
  BY <1>3, <1>5, FirstEmpty DEF TrySlot
<1> QED
  BY <1>2, <1>3, <1>6

LEMMA FreshPick ==
    ASSUME Fresh, NEW d \in [Blocks -> Content], \A x \in Blocks : d[x] \in media[x],
           NEW i \in MountSlots(d)
    PROVE  /\ i = 0
           /\ \E k \in Nat : /\ FirstRoot(k) \in doubt /\ d[0] = Super(FirstRoot(k), 2)
                             /\ d[2] = FirstRoot(k) /\ media[2] = {FirstRoot(k)}
<1>1. i \in {0, 1} /\ d[i].t = "super"
  BY DEF MountSlots, TrySlot
<1>2. i # 1
  BY <1>1, BlockFacts DEF Fresh, IsSuper
<1> QED
  BY <1>1, <1>2, FreshReads

LEMMA MountedGens ==
    ASSUME TypeOK, SlotInv, mounted
    PROVE  cur \in Root /\ cur.gen \in Nat /\ maxGen \in Nat /\ cur.gen <= maxGen
<1>1. cur \in Root /\ curSlot \in {0, 1} /\ maxGen \in Nat
  BY DEF TypeOK
<1>2. vol[curSlot] = Super(cur, curBlk) /\ SlotGen(vol, curSlot) <= maxGen
  BY <1>1, SMTT(30) DEF SlotInv
<1> QED
  BY <1>1, <1>2, SMTT(30) DEF SlotGen, Super, Root

\* What the next boot finds.
LEMMA RecoveredSlot ==
    ASSUME NEW d, MountSlots(d) # {}
    PROVE  \E i \in MountSlots(d) : Recovered(d) = d[d[i].blk]
BY DEF Recovered

----------------------------------------------------------------------------
(***************************************************************************)
(* Checksums tell the roots apart.                                         *)
(***************************************************************************)
\* A device with an anchor can be mounted.
LEMMA AnchorMounts ==
    ASSUME TypeOK, Anchored, \A x \in Blocks : vol[x] \in media[x] PROVE MountSlots(vol) # {}
<1>1. PICK a \in {0, 1}, r \in Known, b \in DataBlocks : Anchor(a, r, b)
  BY DEF Anchored
<1>2. r \in Root /\ vol \in [Blocks -> Content]
  BY KnownRoot DEF TypeOK
<1>3. TrySlot(vol, a)
  BY <1>1, <1>2, AnchorReads
<1> QED
  BY <1>2, <1>3, SomeSlot

\* The next boot finds the saved generation or one in doubt.
LEMMA RecoveredKnown ==
    ASSUME TypeOK, DevInv, CrcInv, Durability, Boot
    PROVE  saved' \in {saved} \cup doubt
<1>1. saved' = Recovered(vol) /\ vol \in [Blocks -> Content] /\ \A x \in Blocks : vol[x] \in media[x]
  BY DEF Boot, TypeOK, DevInv
<1>2. CASE MountSlots(vol) = {}
  <2>1. saved' = NoRoot
    BY <1>1, <1>2 DEF Recovered
  <2>2. CASE Anchored
    BY <1>1, <1>2, <2>2, AnchorMounts
  <2> QED
    BY <2>1, <2>2 DEF Durability, Fresh
<1>3. CASE MountSlots(vol) # {}
  <2>1. PICK i \in MountSlots(vol) : saved' = vol[vol[i].blk]
    BY <1>1, <1>3, RecoveredSlot
  <2>2. CASE Fresh
    <3>1. i = 0
      BY <1>1, <2>2, FreshPick
    <3>2. PICK k \in Nat : FirstRoot(k) \in doubt /\ vol[0] = Super(FirstRoot(k), 2) /\ vol[2] = FirstRoot(k)
      BY <1>1, <2>2, FreshPick
    <3> QED
      BY <2>1, <3>1, <3>2, SuperFields, SMTT(30) DEF Known
  <2>3. CASE Anchored
    <3>1. PICK a \in {0, 1}, r \in Known, b \in DataBlocks : Anchor(a, r, b)
      BY <2>3 DEF Anchored
    <3>2. vol[vol[i].blk] = r \/ vol[vol[i].blk] \in doubt
      BY <1>1, <3>1, AnchorPick, SMTT(30)
    <3> QED
      BY <2>1, <3>2 DEF Known
  <2> QED
    BY <2>2, <2>3 DEF Durability
<1> QED
  BY <1>2, <1>3

LEMMA CrcStep ==
    ASSUME TypeOK, Intact, DevInv, Durability, CrcInv, [Next]_vars PROVE CrcInv'
\* A step after which no new root is on the medium or matters.
<1>CrcFrame.
    ASSUME commits' = commits, \A r \in Tracked' : r \in Tracked,
           \A b \in Blocks : \A c \in media'[b] : c.t = "root" => \E x \in Blocks : c \in media[x]
    PROVE  CrcInv'
  BY <1>CrcFrame DEF CrcInv
\* A step that may write the root n, of the next checksum.
<1>CrcNew.
    ASSUME commits' = commits + 1, NEW n, n.crc = commits + 1,
           \A r \in Tracked' : r \in Tracked \/ r = n,
           \A b \in Blocks : \A c \in media'[b] : c.t = "root" => c = n \/ \E x \in Blocks : c \in media[x]
    PROVE  CrcInv'
  <2> USE <1>CrcNew
  <2>1. commits \in Nat /\ \A x \in Blocks : media[x] \subseteq Content
    BY DEF TypeOK
  <2>2. \A r \in Tracked : r.crc \in Nat
    <3>1. \A r \in Tracked : r \in Root
      BY KnownRoot, <2>1, FirstRootType DEF TypeOK, Tracked
    <3> QED
      BY <3>1 DEF Root
  <2>3. \A x \in Blocks : \A c \in media[x] : c.t = "root" => c.crc \in Nat
    BY <2>1, ContentRoot DEF Root
  <2>4. \A r \in Tracked' : r.crc <= commits'
    BY <2>1, <2>2, SMTT(30) DEF CrcInv
  <2>5. ASSUME NEW b \in Blocks, NEW c \in media'[b], c.t = "root"
        PROVE  c.crc <= commits' /\ \A r \in Tracked' : c.crc = r.crc => c = r
    <3>1. CASE c = n
      <4>1. \A r \in Tracked : r.crc # n.crc
        BY <2>1, <2>2, SMTT(30) DEF CrcInv
      <4> QED
        BY <2>1, <3>1, <4>1, SMTT(30)
    <3>2. CASE \E x \in Blocks : c \in media[x]
      <4>1. c.crc <= commits /\ c.crc \in Nat /\ \A r \in Tracked : c.crc = r.crc => c = r
        BY <2>3, <2>5, <3>2 DEF CrcInv
      <4> QED
        BY <2>1, <4>1, SMTT(30)
    <3> QED
      BY <2>5, <3>1, <3>2
  <2> QED
    BY <2>4, <2>5 DEF CrcInv
<1>0. \A c : c = Torn \/ c = Blank \/ (\E r, b : c = Super(r, b)) \/ c.t = "data" => c.t # "root"
  BY SMTT(30) DEF Torn, Blank, Super
<1>1. CASE UNCHANGED vars
  BY <1>1, SMTT(30) DEF vars, devVars, storeVars, txVars, history, CrcInv, Tracked, Known
<1>2. CASE TxCalls
  <2>1. /\ pc = "idle" /\ pc' \in {"idle", "root"} /\ commits' \in {commits, commits + 1}
        /\ UNCHANGED <<saved, doubt>> /\ (pc' = "root" => work' = NewRoot /\ commits' = commits + 1)
    BY <1>2, TxEffect
  <2>2. PICK S, C : TxWrite(S, C)
    BY <1>2, TxEffect
  <2>3. \A b \in Blocks : \A c \in media'[b] : c \in media[b] \/ c = Torn \/ c \in C
    BY <2>2 DEF TxWrite, Touches
  <2>4. \A c \in C : c.t = "data" \/ (c = NewRoot /\ commits' = commits + 1)
    BY <2>2 DEF TxWrite
  <2>5. CASE commits' = commits
    <3>1. \A r \in Tracked' : r \in Tracked
      BY <2>1, <2>5, SMTT(30) DEF Tracked, Known, CommitSteps, FormatSteps, TypeOK
    <3>2. \A b \in Blocks : \A c \in media'[b] : c.t = "root" => \E x \in Blocks : c \in media[x]
      BY <1>0, <2>3, <2>4, <2>5, SMTT(30) DEF TypeOK
    <3> QED
      BY <2>5, <3>1, <3>2, <1>CrcFrame
  <2>6. CASE commits' = commits + 1
    <3>1. \A r \in Tracked' : r \in Tracked \/ r = NewRoot
      BY <2>1 DEF Tracked, Known, CommitSteps, FormatSteps
    <3>2. \A b \in Blocks : \A c \in media'[b] : c.t = "root" => c = NewRoot \/ \E x \in Blocks : c \in media[x]
      BY <1>0, <2>3, <2>4
    <3>3. NewRoot.crc = commits + 1
      BY DEF NewRoot
    <3> QED
      BY <2>6, <3>1, <3>2, <3>3, <1>CrcNew
  <2> QED
    BY <2>1, <2>5, <2>6
<1>3. CASE FormatRoot
  <2>1. /\ pc = "idle" /\ pc' \in {"fmt_root", "idle"} /\ commits' = commits + 1
        /\ UNCHANGED <<saved, doubt>>
    BY <1>3 DEF FormatRoot, history
  <2>2. Touches({1, 2}, {FirstRoot(commits + 1), Blank})
    BY <1>3, FormatRootTouches
  <2>3. \A r \in Tracked' : r \in Tracked \/ r = FirstRoot(commits + 1)
    BY <2>1 DEF Tracked, Known, CommitSteps, FormatSteps
  <2>4. \A b \in Blocks : \A c \in media'[b] :
           c.t = "root" => c = FirstRoot(commits + 1) \/ \E x \in Blocks : c \in media[x]
    BY <1>0, <2>2 DEF Touches
  <2>5. FirstRoot(commits + 1).crc = commits + 1
    BY DEF FirstRoot
  <2> QED
    BY <2>1, <2>3, <2>4, <2>5, <1>CrcNew
<1>4. CASE FormatSuper \/ CommitSuper
  <2>1. commits' = commits /\ \A r \in Tracked' : r \in Tracked
    <3>1. CASE FormatSuper
      BY <3>1 DEF FormatSuper, txVars, Tracked, Known, CommitSteps, FormatSteps
    <3>2. CASE CommitSuper
      BY <3>2 DEF CommitSuper, txVars, Tracked, Known, CommitSteps, FormatSteps
    <3> QED
      BY <1>4, <3>1, <3>2
  <2>2. \E S, r, b : Touches(S, {Super(r, b)})
    BY <1>4, FormatSuperTouches, CommitSuperTouches
  <2>3. \A b \in Blocks : \A c \in media'[b] : c.t = "root" => \E x \in Blocks : c \in media[x]
    BY <1>0, <2>2 DEF Touches
  <2> QED
    BY <2>1, <2>3, <1>CrcFrame
<1>5. CASE FormatBarrier \/ FormatFlush \/ CommitBarrier \/ CommitFlush
  <2>1. commits' = commits /\ \A r \in Tracked' : r \in Tracked
    <3>1. CASE FormatBarrier
      BY <3>1 DEF FormatBarrier, txVars, history, Tracked, Known, CommitSteps, FormatSteps
    <3>2. CASE FormatFlush
      BY <3>2 DEF FormatFlush, txVars, history, Tracked, Known, CommitSteps, FormatSteps
    <3>3. CASE CommitBarrier
      BY <3>3 DEF CommitBarrier, txVars, history, Tracked, Known, CommitSteps, FormatSteps
    <3>4. CASE CommitFlush
      BY <3>4 DEF CommitFlush, txVars, history, Tracked, Known, CommitSteps, FormatSteps
    <3> QED
      BY <1>5, <3>1, <3>2, <3>3, <3>4
  <2>2. up /\ (DevFlush \/ DevFlushError)
    BY <1>5 DEF FormatBarrier, FormatFlush, CommitBarrier, CommitFlush
  <2>3. \A b \in Blocks : \A c \in media'[b] : c \in media[b]
    BY <2>2 DEF DevFlush, DevFlushError, devVars, DevInv
  <2> QED
    BY <2>1, <2>3, <1>CrcFrame
<1>6. CASE Mount \/ PowerLoss
  <2>1. commits' = commits /\ \A r \in Tracked' : r \in Tracked
    BY <1>6 DEF Mount, PowerLoss, history, Tracked, Known, CommitSteps, FormatSteps
  <2>2. media' = media
    BY <1>6 DEF Mount, PowerLoss, devVars, DevPowerLoss
  <2> QED
    BY <2>1, <2>2, <1>CrcFrame
<1>7. CASE Settle \/ Rot
  <2>1. commits' = commits /\ \A r \in Tracked' : r \in Tracked
    BY <1>7 DEF Settle, Rot, history, txVars, Tracked, Known
  <2>2. PICK b \in Blocks : \E c \in media[b] \cup {Torn} : media' = [media EXCEPT ![b] = {c}]
    BY <1>7 DEF Settle, Rot, DevSettle, DevRot, Unsettled
  <2>3. \A x \in Blocks : \A c \in media'[x] : c \in media[x] \/ c = Torn
    BY <2>2 DEF TypeOK
  <2> QED
    BY <1>0, <2>1, <2>3, <1>CrcFrame
<1>8. CASE Boot
  <2>1. commits' = commits /\ UNCHANGED <<work, pc, media>> /\ doubt' \subseteq doubt
    BY <1>8 DEF Boot, txVars, devVars
  <2>2. \A r \in Tracked' : r \in Tracked
    BY <1>8, <2>1, RecoveredKnown DEF Tracked, Known
  <2> QED
    BY <2>1, <2>2, <1>CrcFrame
<1> QED
  BY <1>1, <1>2, <1>3, <1>4, <1>5, <1>6, <1>7, <1>8, StepCases
=============================================================================
