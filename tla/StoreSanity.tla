---------------------------- MODULE StoreSanity ----------------------------
(***************************************************************************)
(* The roots the store writes are roots st_mount accepts, and what follows *)
(* for the whole store: it implements DurableStore, a saved store can      *)
(* always be mounted, and on a device that does not fail st_check finds    *)
(* nothing wrong.  StoreDurability takes the sanity of the roots as a      *)
(* hypothesis; this module proves it, with the theorems on                 *)
(* finite sets and on the well-founded order of the naturals, and combines *)
(* the invariants.                                                         *)
(***************************************************************************)
EXTENDS StoreDurability, StorePromise, FiniteSetTheorems, WellFoundedInduction

USE Zenon

\* The root st_format writes is sane.
LEMMA FirstSane == FirstIsSane
<1> SUFFICES ASSUME NEW k \in Nat PROVE RootSane(FirstRoot(k))
  BY DEF FirstIsSane
<1> DEFINE r == FirstRoot(k)
<1>1. /\ r.gen = 1 /\ r.parent = 0 /\ r.nextOid = 1 /\ r.hist = << >>
      /\ \A n \in Names : r.obj[n] = Absent
      /\ \A q \in PinNames : r.pin[q] = Absent
  BY DEF FirstRoot
<1> HIDE DEF r
<1>2. Objs(r) = {} /\ PinsOf(r) = {}
  BY <1>1 DEF Objs, PinsOf
<1>3. Cardinality({}) = 0 /\ ObjMax \in Nat /\ PinMax \in Nat
  BY FS_EmptySet, StoreAssumption
<1>4. DOMAIN r.hist = {}
  BY <1>1, SMTT(30)
<1>5. RootSane(r)
  BY <1>1, <1>2, <1>3, <1>4, SMTT(30) DEF RootSane
<1> QED
  BY <1>5 DEF r

LEMMA RootSaneParts ==
    ASSUME NEW r
    PROVE  RootSane(r) <=> /\ r.gen > 0 /\ r.parent < r.gen
                           /\ ObjsSane(r, r.gen) /\ PinsSane(r, r.gen) /\ HistSane(r)
BY DEF RootSane, ObjsSane, PinsSane, HistSane

LEMMA SubsetCard ==
    ASSUME NEW S, IsFiniteSet(S), NEW T \in SUBSET S, NEW U \in SUBSET T
    PROVE  Cardinality(U) <= Cardinality(T) /\ Cardinality(T) \in Nat /\ Cardinality(U) \in Nat
<1>1. IsFiniteSet(T)
  BY FS_Subset
<1>2. IsFiniteSet(U)
  BY <1>1, FS_Subset
<1> QED
  BY <1>1, <1>2, FS_Subset, FS_CardinalityType

LEMMA AddCard ==
    ASSUME NEW S, IsFiniteSet(S), NEW T \in SUBSET S, NEW x \in S, NEW n \in Nat, Cardinality(T) < n
    PROVE  Cardinality(T \cup {x}) <= n
<1>1. IsFiniteSet(T)
  BY FS_Subset
<1>2. Cardinality(T) \in Nat
  BY <1>1, FS_CardinalityType
<1>3. Cardinality(T \cup {x}) = IF x \in T THEN Cardinality(T) ELSE Cardinality(T) + 1
  BY <1>1, FS_AddElement
<1> QED
  BY <1>2, <1>3, SMTT(30)

\* The generations in the history of a sane root are all older than the root.
LEMMA HistBelow ==
    ASSUME NEW r \in Root, RootSane(r), NEW i \in DOMAIN r.hist PROVE r.hist[i].gen < r.gen
\* A set of numbers has a least element: induction, as a fact about sets.
<1>LeastNat. ASSUME NEW T \in SUBSET Nat, T # {} PROVE \E x \in T : \A y \in T : x <= y
  <2> USE <1>LeastNat
  <2> DEFINE R == OpToRel(<, Nat)
  <2>1. \A x, y \in Nat : x < y => <<x, y>> \in R
    BY DEF OpToRel
  <2>2. IsWellFoundedOn(R, Nat)
    BY NatLessThanWellFounded
  <2> HIDE DEF R
  <2>3. PICK x \in T : \A y \in T : ~(<<y, x>> \in R)
    BY <2>2, WFMin
  <2>4. ASSUME NEW y \in T PROVE x <= y
    <3>1. x \in Nat /\ y \in Nat
      OBVIOUS
    <3>2. ~(y < x)
      BY <2>1, <2>3, <3>1
    <3> QED
      BY <3>1, <3>2, SMTT(30)
  <2> QED
    BY <2>4
<1>1. r.hist \in Seq(Ref) /\ r.gen \in Nat /\ DOMAIN r.hist = 1 .. Len(r.hist) /\ Len(r.hist) \in Nat
  BY SMTT(30) DEF Root
<1>2. \A k \in DOMAIN r.hist : r.hist[k].gen \in Nat
  <2>1. \A k \in 1 .. Len(r.hist) : r.hist[k] \in Ref
    BY <1>1, SMTT(30)
  <2> QED
    BY <1>1, <2>1 DEF Ref
<1> DEFINE T == {k \in DOMAIN r.hist : ~(r.hist[k].gen < r.gen)}
<1> SUFFICES ASSUME T # {} PROVE FALSE
  OBVIOUS
<1>3. T \in SUBSET Nat
  BY <1>1, SMTT(30)
<1>4. PICK x \in T : \A y \in T : x <= y
  BY <1>3, <1>LeastNat
<1>5. x \in DOMAIN r.hist /\ r.hist[x].gen < (IF x = 1 THEN r.gen ELSE r.hist[x - 1].gen)
  BY DEF RootSane
<1>6. x # 1
  BY <1>5
<1>7. x - 1 \in DOMAIN r.hist /\ ~(x <= x - 1)
  BY <1>1, <1>5, <1>6, SMTT(30)
<1>8. x - 1 \notin T
  BY <1>4, <1>7
<1>9. r.hist[x - 1].gen < r.gen
  BY <1>7, <1>8
<1>10. r.hist[x].gen < r.gen
  BY <1>1, <1>2, <1>5, <1>6, <1>7, <1>9, SMTT(30)
<1> QED
  BY <1>10

LEMMA SaneStep ==
    ASSUME TypeOK, Intact, SlotInv, SaneInv, [Next]_vars, "read" \notin Faults PROVE SaneInv'
<1>SaneUnmounted. ASSUME ~mounted', ~inTx', pc' \notin CommitSteps PROVE SaneInv'
  BY <1>SaneUnmounted DEF SaneInv
\* A call that changes only the transaction's root keeps the rest sane.
<1>SaneWork.
    ASSUME UNCHANGED <<mounted, cur, maxGen>>, pc' \notin CommitSteps,
           inTx' => ObjsSane(work', maxGen + 1) /\ PinsSane(work', maxGen + 1)
    PROVE  SaneInv'
  BY <1>SaneWork DEF SaneInv
<1>SaneTx. ASSUME TxCalls PROVE SaneInv'
  <2> USE <1>SaneTx
  \* A root stays sane when its generation number grows.
  <2>SaneLater.
      ASSUME NEW w \in Root, NEW g \in Nat, NEW h \in Nat, g <= h, ObjsSane(w, g), PinsSane(w, g)
      PROVE  ObjsSane(w, h) /\ PinsSane(w, h)
    <3> USE <2>SaneLater
    <3>1. ASSUME NEW x \in 1 .. g PROVE x \in 1 .. h
      BY SMTT(30)
    <3>2. ASSUME NEW x \in 1 .. g - 1 PROVE x \in 1 .. h - 1
      BY SMTT(30)
    <3>3. ObjsSane(w, h)
      BY <3>1 DEF ObjsSane
    <3>4. PinsSane(w, h)
      BY <3>2 DEF PinsSane
    <3> QED
      BY <3>3, <3>4
  \* st_commit: the history, pins and objects of the new root pass root_sane.
  <2>NewRootSane.
      ASSUME CurrentPlaced, inTx, pc = "idle"
      PROVE  /\ RootSane(NewRoot)
             /\ ObjsSane(NewRoot, maxGen + 1) /\ PinsSane(NewRoot, maxGen + 1)
    <3> USE <2>NewRootSane
    <3>1. /\ mounted /\ cur \in Root /\ work \in Root /\ curBlk \in Nat /\ maxGen \in Nat
          /\ cur.gen \in Nat /\ curSlot \in {0, 1}
      BY DEF TypeOK, Root
    <3>2. RootSane(cur) /\ ObjsSane(work, maxGen + 1) /\ PinsSane(work, maxGen + 1)
      BY <3>1 DEF SaneInv
    <3>3. cur.gen <= maxGen /\ cur.gen > 0
      <4>1. SlotGen(vol, curSlot) <= maxGen /\ vol[curSlot] = Super(cur, curBlk)
        BY <3>1 DEF SlotInv
      <4>2. SlotGen(vol, curSlot) = cur.gen
        BY <4>1, SMTT(30) DEF SlotGen, Super
      <4> QED
        BY <3>2, <4>1, <4>2 DEF RootSane
    <3> DEFINE r == NewRoot
    <3>4. /\ r.gen = maxGen + 1 /\ r.parent = cur.gen /\ r.nextOid = work.nextOid
          /\ r.obj = work.obj /\ r.hist = NewHist /\ r.pin = work.pin
      BY DEF NewRoot
    <3> HIDE DEF r
    <3>5. ObjsSane(r, maxGen + 1)
      BY <3>2, <3>4 DEF ObjsSane, Objs
    <3>6. PinsSane(r, maxGen + 1)
      BY <3>2, <3>4 DEF PinsSane, PinsOf
    <3>7. curBlk \in DataBlocks => HistSane(r)
      <4> SUFFICES ASSUME curBlk \in DataBlocks, NEW i \in DOMAIN NewHist
                   PROVE  /\ NewHist[i].gen < (IF i = 1 THEN maxGen + 1 ELSE NewHist[i - 1].gen)
                          /\ NewHist[i].gen > 0 /\ NewHist[i].blk \in DataBlocks
        BY <3>4 DEF HistSane
      <4>1. /\ NewHist \in Seq(Ref) /\ NewHist[1] = RefTo(cur, curBlk)
            /\ \A k \in DOMAIN NewHist : k = 1 \/ (k - 1 \in DOMAIN cur.hist /\ NewHist[k] = cur.hist[k - 1])
        BY <3>1, NewHistShape
      <4>2. CASE i = 1
        BY <3>1, <3>3, <4>1, <4>2, SMTT(30) DEF RefTo
      <4>3. CASE i # 1
        <5>1. i - 1 \in DOMAIN cur.hist /\ NewHist[i] = cur.hist[i - 1]
          BY <4>1, <4>3
        <5>2. /\ cur.hist[i - 1].gen < (IF i - 1 = 1 THEN cur.gen ELSE cur.hist[i - 1 - 1].gen)
              /\ cur.hist[i - 1].gen > 0 /\ cur.hist[i - 1].blk \in DataBlocks
          BY <3>2, <5>1 DEF RootSane
        <5>3. i \in Nat /\ i - 1 \in DOMAIN NewHist /\ i \in 2 .. Len(NewHist)
          BY <4>1, <4>3, SMTT(30)
        <5>4. CASE i - 1 = 1
          BY <4>1, <4>3, <5>1, <5>2, <5>4, SMTT(30) DEF RefTo
        <5>5. CASE i - 1 # 1
          <6>1. NewHist[i - 1] = cur.hist[i - 1 - 1]
            BY <4>1, <5>3, <5>5
          <6> QED
            BY <4>3, <5>1, <5>2, <5>5, <6>1
        <5> QED
          BY <5>4, <5>5
      <4> QED
        BY <4>2, <4>3
    <3>8. HistSane(r)
      BY <3>1, <3>7 DEF CurrentPlaced
    <3>9. r.gen > 0 /\ r.parent < r.gen
      BY <3>1, <3>3, <3>4, SMTT(30)
    <3>10. RootSane(r)
      BY <3>4, <3>5, <3>6, <3>8, <3>9, RootSaneParts
    <3> QED
      BY <3>5, <3>6, <3>10 DEF r
  \* st_put of payload p at the free blocks from blk on.
  <2>PutSane.
      ASSUME WorkPlaced, inTx, NEW n \in Names, NEW p \in Payloads, NEW blk \in Nat,
             n \in Objs(work) \/ Cardinality(Objs(work)) < ObjMax,
             \A i \in 0 .. NBlk[p] - 1 : blk + i \in DataBlocks \ (used \cup txused),
             NBlk[p] = 0 => blk = 0
      PROVE  ObjsSane(PutObj(work, n, p, blk), maxGen + 1) /\ PinsSane(PutObj(work, n, p, blk), maxGen + 1)
    <3> USE <2>PutSane
    <3> DEFINE w == PutObj(work, n, p, blk)
               g == maxGen + 1
    <3>1. /\ work \in Root /\ maxGen \in Nat /\ ObjsSane(work, g) /\ PinsSane(work, g)
          /\ Placed(vol, work, used \cup txused)
      BY DEF TypeOK, SaneInv, WorkPlaced
    <3>2. NBlk[p] \in Nat /\ IsFiniteSet(Names) /\ ObjMax \in Nat
      BY StoreAssumption
    <3>3. /\ w.pin = work.pin
          /\ \A m \in Names : m # n => w.obj[m] = work.obj[m]
          /\ w.obj[n].blk = blk /\ w.obj[n].nblk = NBlk[p] /\ w.obj[n].val = p /\ w.obj[n].modGen = g
          /\ w.obj[n].oid = IF n \in Objs(work) THEN work.obj[n].oid ELSE work.nextOid
          /\ w.obj[n].version = IF n \in Objs(work) THEN work.obj[n].version + 1 ELSE 1
          /\ w.nextOid = IF n \in Objs(work) THEN work.nextOid ELSE work.nextOid + 1
      BY <3>1 DEF PutObj, Root
    <3>4. PinsSane(w, g)
      BY <3>1, <3>3 DEF PinsSane, PinsOf
    <3>5. /\ n \notin Objs(work) => Objs(w) \subseteq Objs(work) \cup {n}
          /\ n \in Objs(work) => Objs(w) \subseteq Objs(work)
      BY <3>3 DEF Objs
    <3>6. Objs(work) \subseteq Names /\ Objs(w) \subseteq Names
      BY DEF Objs
    <3>7. work.nextOid \in Nat /\ work.nextOid > 0 /\ Cardinality(Objs(work)) <= ObjMax
      BY <3>1 DEF ObjsSane, Root
    <3> HIDE DEF w
    <3>8. Cardinality(Objs(w)) <= ObjMax
      <4>1. CASE n \in Objs(work)
        <5>1. Cardinality(Objs(w)) <= Cardinality(Objs(work)) /\ Cardinality(Objs(work)) \in Nat
              /\ Cardinality(Objs(w)) \in Nat
          BY <3>2, <3>5, <3>6, <4>1, SubsetCard
        <5> QED
          BY <3>2, <3>7, <5>1, SMTT(30)
      <4>2. CASE n \notin Objs(work)
        <5>1. Cardinality(Objs(work) \cup {n}) <= ObjMax
          BY <3>2, <3>6, <4>2, AddCard
        <5>2. Objs(work) \cup {n} \in SUBSET Names /\ Objs(w) \in SUBSET (Objs(work) \cup {n})
          BY <3>5, <3>6, <4>2
        <5>3. /\ Cardinality(Objs(w)) <= Cardinality(Objs(work) \cup {n})
              /\ Cardinality(Objs(w)) \in Nat /\ Cardinality(Objs(work) \cup {n}) \in Nat
          BY <3>2, <5>2, SubsetCard
        <5> QED
          BY <3>2, <5>1, <5>3, SMTT(30)
      <4> QED
        BY <4>1, <4>2
    <3>9. ASSUME NEW m \in Objs(w), m # n
          PROVE  m \in Objs(work) /\ w.obj[m] = work.obj[m] /\ m \in Names
      BY <3>3, <3>9 DEF Objs
    <3>10. ASSUME NEW m \in Objs(work)
           PROVE  /\ work.obj[m].oid \in 1 .. work.nextOid - 1
                  /\ work.obj[m].version > 0 /\ work.obj[m].modGen \in 1 .. g
                  /\ work.obj[m].nblk = NBlk[work.obj[m].val]
                  /\ Extent(work.obj[m]) \subseteq DataBlocks
                  /\ work.obj[m].nblk = 0 => work.obj[m].blk = 0
                  /\ work.obj[m].oid \in Nat /\ work.obj[m].version \in Nat
      BY <3>1 DEF ObjsSane, Objs, Root, Obj
    <3>11. Extent(w.obj[n]) \subseteq DataBlocks \ (used \cup txused)
      BY <3>3 DEF Extent
    <3>12. /\ w.obj[n].oid \in 1 .. w.nextOid - 1
           /\ w.obj[n].version > 0 /\ w.obj[n].modGen \in 1 .. g
           /\ w.obj[n].nblk = NBlk[w.obj[n].val]
           /\ Extent(w.obj[n]) \subseteq DataBlocks
           /\ w.obj[n].nblk = 0 => w.obj[n].blk = 0
      <4>1. w.obj[n].oid \in 1 .. w.nextOid - 1 /\ w.obj[n].version > 0
        BY <3>3, <3>7, <3>10, SMTT(30)
      <4>2. w.obj[n].modGen \in 1 .. g
        BY <3>1, <3>3, SMTT(30)
      <4> QED
        BY <3>3, <3>11, <4>1, <4>2
    <3>13. ASSUME NEW m \in Objs(w), m # n
           PROVE  /\ w.obj[m].oid \in 1 .. w.nextOid - 1
                  /\ w.obj[m].version > 0 /\ w.obj[m].modGen \in 1 .. g
                  /\ w.obj[m].nblk = NBlk[w.obj[m].val]
                  /\ Extent(w.obj[m]) \subseteq DataBlocks
                  /\ w.obj[m].nblk = 0 => w.obj[m].blk = 0
      <4>1. m \in Objs(work) /\ w.obj[m] = work.obj[m]
        BY <3>9, <3>13
      <4>2. work.obj[m].oid \in 1 .. w.nextOid - 1
        BY <3>3, <3>7, <3>10, <4>1, SMTT(30)
      <4> QED
        BY <3>10, <4>1, <4>2
    <3>14. ASSUME NEW m \in Objs(w), m # n
           PROVE  w.obj[m].oid # w.obj[n].oid /\ Extent(w.obj[m]) \cap Extent(w.obj[n]) = {}
      <4>1. m \in Objs(work) /\ w.obj[m] = work.obj[m]
        BY <3>9, <3>14
      <4>2. Extent(work.obj[m]) \subseteq used \cup txused
        BY <3>1, <4>1 DEF Placed
      <4>3. work.obj[m].oid # w.obj[n].oid
        <5>1. CASE n \in Objs(work)
          BY <3>1, <3>3, <3>14, <4>1, <5>1, ZenonT(30) DEF ObjsSane
        <5>2. CASE n \notin Objs(work)
          BY <3>3, <3>7, <3>10, <4>1, <5>2, SMTT(30)
        <5> QED
          BY <5>1, <5>2
      <4> QED
        BY <3>11, <4>1, <4>2, <4>3
    <3>15. ASSUME NEW k \in Objs(w), NEW m \in Objs(w) \ {k}
           PROVE  w.obj[m].oid # w.obj[k].oid /\ Extent(w.obj[m]) \cap Extent(w.obj[k]) = {}
      <4>1. CASE k = n
        BY <3>14, <4>1
      <4>2. CASE m = n
        <5>1. w.obj[k].oid # w.obj[n].oid /\ Extent(w.obj[k]) \cap Extent(w.obj[n]) = {}
          BY <3>14, <4>2
        <5> QED
          BY <4>2, <5>1
      <4>3. CASE k # n /\ m # n
        <5>1. k \in Objs(work) /\ m \in Objs(work) \ {k} /\ w.obj[k] = work.obj[k] /\ w.obj[m] = work.obj[m]
          BY <3>9, <4>3
        <5> QED
          BY <3>1, <5>1 DEF ObjsSane
      <4> QED
        BY <4>1, <4>2, <4>3
    <3>16. w.nextOid > 0
      BY <3>3, <3>7, SMTT(30)
    <3>17. ObjsSane(w, g)
      <4>1. \A k \in Objs(w) : /\ w.obj[k].oid \in 1 .. w.nextOid - 1
                               /\ w.obj[k].version > 0 /\ w.obj[k].modGen \in 1 .. g
                               /\ w.obj[k].nblk = NBlk[w.obj[k].val]
                               /\ Extent(w.obj[k]) \subseteq DataBlocks
                               /\ w.obj[k].nblk = 0 => w.obj[k].blk = 0
        BY <3>12, <3>13
      <4> HIDE DEF g
      <4> QED
        BY <3>8, <3>15, <3>16, <4>1 DEF ObjsSane
    <3> QED
      BY <3>4, <3>17 DEF w
  <2>SanePut. ASSUME NEW n \in Names, NEW p \in Payloads, Put(n, p) PROVE SaneInv'
    <3> USE <2>SanePut
    <3>1. /\ inTx /\ pc' = "idle" /\ UNCHANGED <<mounted, cur, maxGen, inTx>>
      BY PutFrame DEF storeVars
    <3>2. n \in Objs(work) \/ Cardinality(Objs(work)) < ObjMax
      BY DEF Put
    <3>3. NBlk[p] \in Nat /\ WorkPlaced
      BY StoreAssumption DEF Intact
    <3>4. ObjsSane(work, maxGen + 1) /\ PinsSane(work, maxGen + 1)
      BY <3>1 DEF SaneInv
    <3>5. ObjsSane(work', maxGen + 1) /\ PinsSane(work', maxGen + 1)
      <4>1. CASE NBlk[p] = 0
        <5>1. work' = PutObj(work, n, p, 0)
          BY <4>1, PutEmpty
        <5>2. \A i \in 0 .. NBlk[p] - 1 : 0 + i \in DataBlocks \ (used \cup txused)
          BY <4>1, SMTT(30)
        <5>3. ObjsSane(PutObj(work, n, p, 0), maxGen + 1) /\ PinsSane(PutObj(work, n, p, 0), maxGen + 1)
          BY <3>1, <3>2, <3>3, <5>2, <2>PutSane
        <5> QED
          BY <5>1, <5>3
      <4>2. CASE NBlk[p] > 0
        <5>1. PICK blk \in Alloc(NBlk[p], txReserve) : work' = PutObj(work, n, p, blk) \/ work' = work
          BY <4>2, PutBlocks
        <5>2. /\ blk \in DataBlocks
              /\ \A i \in 0 .. NBlk[p] - 1 : blk + i \in DataBlocks \ (used \cup txused)
          BY <3>3, AllocFree
        <5>3. blk \in Nat
          BY <5>2, NBlocksAssumption, SMTT(30) DEF DataBlocks
        <5>4. ObjsSane(PutObj(work, n, p, blk), maxGen + 1) /\ PinsSane(PutObj(work, n, p, blk), maxGen + 1)
          BY <3>1, <3>2, <3>3, <4>2, <5>2, <5>3, <2>PutSane, SMTT(30)
        <5> QED
          BY <3>4, <5>1, <5>4
      <4> QED
        BY <3>3, <4>1, <4>2, SMTT(30)
    <3> QED
      BY <3>1, <3>5, <1>SaneWork DEF CommitSteps
  \* st_pin: the pinned generation is retained, so it is older than the next.
  <2>SanePin. ASSUME NEW q \in PinNames, NEW gen, Pin(q, gen) PROVE SaneInv'
    <3> USE <2>SanePin
    <3>1. /\ inTx /\ mounted /\ pc = "idle" /\ pc' = "idle" /\ UNCHANGED <<mounted, cur, maxGen, inTx>>
          /\ q \notin PinsOf(work) /\ Cardinality(PinsOf(work)) < PinMax
      BY DEF Pin, TxCall, InTx, storeVars
    <3>2. PICK ref \in FindRef(gen) : work' = [work EXCEPT !.pin = [@ EXCEPT ![q] = ref]]
      BY DEF Pin
    <3>3. /\ work \in Root /\ cur \in Root /\ maxGen \in Nat /\ curSlot \in {0, 1}
          /\ ObjsSane(work, maxGen + 1) /\ PinsSane(work, maxGen + 1)
          /\ RootSane(cur) /\ curBlk \in DataBlocks
      BY <3>1 DEF TypeOK, SaneInv, Intact, CurrentPlaced
    <3>4. /\ work'.obj = work.obj /\ work'.nextOid = work.nextOid /\ work'.pin[q] = ref
          /\ \A x \in PinNames : x # q => work'.pin[x] = work.pin[x]
      BY <3>2, <3>3 DEF Root
    <3>5. cur.gen \in Nat /\ cur.gen > 0 /\ cur.gen <= maxGen
      <4>1. SlotGen(vol, curSlot) <= maxGen /\ vol[curSlot] = Super(cur, curBlk)
        BY <3>1, <3>3 DEF SlotInv
      <4>2. SlotGen(vol, curSlot) = cur.gen
        BY <4>1, SMTT(30) DEF SlotGen, Super
      <4> QED
        BY <3>3, <4>1, <4>2 DEF RootSane, Root
    <3>6. ref.gen \in 1 .. (maxGen + 1) - 1 /\ ref.blk \in DataBlocks
      <4>1. CASE ref = [gen |-> cur.gen, blk |-> curBlk, crc |-> cur.crc]
        BY <3>3, <3>5, <4>1, SMTT(30)
      <4>2. CASE ref \in Refs(cur)
        <5>1. CASE \E x \in PinsOf(cur) : ref = cur.pin[x]
          <6>1. ref.gen \in 1 .. cur.gen - 1 /\ ref.blk \in DataBlocks
            BY <3>3, <5>1 DEF RootSane
          <6> QED
            BY <3>3, <3>5, <6>1, SMTT(30)
        <5>2. CASE \E i \in DOMAIN cur.hist : ref = cur.hist[i]
          <6>1. PICK i \in DOMAIN cur.hist : ref = cur.hist[i]
            BY <5>2
          <6>2. ref.gen > 0 /\ ref.blk \in DataBlocks /\ ref.gen \in Nat
            BY <3>3, <4>2, <6>1, RefsType, SMTT(30) DEF RootSane, Ref
          <6>3. ref.gen < cur.gen
            BY <6>1, HistBelow, <3>3
          <6> QED
            BY <3>3, <3>5, <6>2, <6>3, SMTT(30)
        <5> QED
          BY <4>2, <5>1, <5>2 DEF Refs
      <4> QED
        BY <4>1, <4>2 DEF FindRef
    <3>7. ObjsSane(work', maxGen + 1)
      <4> DEFINE v == work'
      <4>1. v.obj = work.obj /\ v.nextOid = work.nextOid
        BY <3>4
      <4> HIDE DEF v
      <4>2. ObjsSane(v, maxGen + 1)
        BY <3>3, <4>1 DEF ObjsSane, Objs
      <4> QED
        BY <4>2 DEF v
    <3>8. PinsSane(work', maxGen + 1)
      <4>1. PinsOf(work') \subseteq PinsOf(work) \cup {q}
        BY <3>4 DEF PinsOf
      <4>2. IsFiniteSet(PinNames) /\ PinMax \in Nat /\ PinsOf(work) \in SUBSET PinNames
        BY StoreAssumption DEF PinsOf
      <4>3. Cardinality(PinsOf(work) \cup {q}) <= PinMax
        BY <3>1, <4>2, AddCard
      <4>4. /\ Cardinality(PinsOf(work')) <= Cardinality(PinsOf(work) \cup {q})
            /\ Cardinality(PinsOf(work')) \in Nat /\ Cardinality(PinsOf(work) \cup {q}) \in Nat
        <5>1. PinsOf(work) \cup {q} \in SUBSET PinNames
          BY <4>2
        <5> QED
          BY <4>1, <4>2, <5>1, SubsetCard
      <4>5. Cardinality(PinsOf(work')) <= PinMax
        BY <4>2, <4>3, <4>4, SMTT(30)
      <4>6. ASSUME NEW x \in PinsOf(work')
            PROVE  work'.pin[x].gen \in 1 .. (maxGen + 1) - 1 /\ work'.pin[x].blk \in DataBlocks
        <5>1. CASE x = q
          BY <3>4, <3>6, <5>1
        <5>2. CASE x # q
          <6>1. x \in PinsOf(work) /\ work'.pin[x] = work.pin[x]
            BY <3>4, <5>2 DEF PinsOf
          <6> QED
            BY <3>3, <6>1 DEF PinsSane
        <5> QED
          BY <5>1, <5>2
      <4> DEFINE v == work'
                 g == maxGen + 1
      <4>7. \A x \in PinsOf(v) : v.pin[x].gen \in 1 .. g - 1 /\ v.pin[x].blk \in DataBlocks
        BY <4>6
      <4>8. Cardinality(PinsOf(v)) <= PinMax
        BY <4>5
      <4> HIDE DEF v, g
      <4>9. PinsSane(v, g)
        BY <4>7, <4>8 DEF PinsSane
      <4> QED
        BY <4>9 DEF v, g
    <3> QED
      BY <3>1, <3>7, <3>8, <1>SaneWork DEF CommitSteps
  <2>SaneDelUnpin.
      ASSUME (\E n \in Names : Del(n)) \/ (\E q \in PinNames : Unpin(q)) PROVE SaneInv'
    <3> USE <2>SaneDelUnpin
    \* st_del, st_unpin: what is left of a sane table is sane.
    <3>SaneFewer.
        ASSUME NEW w, NEW v, NEW g, ObjsSane(w, g), PinsSane(w, g), v.nextOid = w.nextOid,
               Objs(v) \subseteq Objs(w), \A n \in Objs(v) : v.obj[n] = w.obj[n],
               PinsOf(v) \subseteq PinsOf(w), \A q \in PinsOf(v) : v.pin[q] = w.pin[q]
        PROVE  ObjsSane(v, g) /\ PinsSane(v, g)
      <4> USE <3>SaneFewer
      <4>1. IsFiniteSet(Names) /\ IsFiniteSet(PinNames) /\ ObjMax \in Nat /\ PinMax \in Nat
        BY StoreAssumption
      <4>2. Objs(w) \in SUBSET Names /\ PinsOf(w) \in SUBSET PinNames
        BY DEF Objs, PinsOf
      <4>3. Cardinality(Objs(v)) <= ObjMax
        <5>1. /\ Cardinality(Objs(v)) <= Cardinality(Objs(w))
              /\ Cardinality(Objs(v)) \in Nat /\ Cardinality(Objs(w)) \in Nat
          BY <4>1, <4>2, SubsetCard
        <5>2. Cardinality(Objs(w)) <= ObjMax
          BY DEF ObjsSane
        <5> QED
          BY <4>1, <5>1, <5>2, SMTT(30)
      <4>4. Cardinality(PinsOf(v)) <= PinMax
        <5>1. /\ Cardinality(PinsOf(v)) <= Cardinality(PinsOf(w))
              /\ Cardinality(PinsOf(v)) \in Nat /\ Cardinality(PinsOf(w)) \in Nat
          BY <4>1, <4>2, SubsetCard
        <5>2. Cardinality(PinsOf(w)) <= PinMax
          BY DEF PinsSane
        <5> QED
          BY <4>1, <5>1, <5>2, SMTT(30)
      <4>5. ObjsSane(v, g)
        BY <4>3, ZenonT(30) DEF ObjsSane
      <4>6. PinsSane(v, g)
        BY <4>4 DEF PinsSane
      <4> QED
        BY <4>5, <4>6
    <3>1. /\ inTx /\ pc' = "idle" /\ UNCHANGED <<mounted, cur, maxGen, inTx>>
      BY DEF Del, Unpin, TxCall, InTx, storeVars
    <3>2. /\ work \in Root /\ ObjsSane(work, maxGen + 1) /\ PinsSane(work, maxGen + 1)
      BY <3>1 DEF TypeOK, SaneInv
    <3> DEFINE v == work'
    <3>3. /\ v.nextOid = work.nextOid
          /\ Objs(v) \subseteq Objs(work) /\ \A n \in Objs(v) : v.obj[n] = work.obj[n]
          /\ PinsOf(v) \subseteq PinsOf(work) /\ \A q \in PinsOf(v) : v.pin[q] = work.pin[q]
      <4>1. ASSUME NEW n \in Names, Del(n)
            PROVE  /\ v.nextOid = work.nextOid /\ v.pin = work.pin /\ v.obj[n] = Absent
                   /\ \A m \in Names : m # n => v.obj[m] = work.obj[m]
        BY <3>2, <4>1 DEF Del, Root
      <4>2. ASSUME NEW q \in PinNames, Unpin(q)
            PROVE  /\ v.nextOid = work.nextOid /\ v.obj = work.obj /\ v.pin[q] = Absent
                   /\ \A m \in PinNames : m # q => v.pin[m] = work.pin[m]
        BY <3>2, <4>2 DEF Unpin, Root
      <4> HIDE DEF v
      <4> QED
        BY <4>1, <4>2 DEF Objs, PinsOf
    <3> HIDE DEF v
    <3>4. ObjsSane(v, maxGen + 1) /\ PinsSane(v, maxGen + 1)
      BY <3>2, <3>3, <3>SaneFewer, SMTT(30)
    <3> QED
      BY <3>1, <3>4, <1>SaneWork DEF CommitSteps, v
  <2>1. CASE Begin
    <3>1. /\ mounted /\ work' = cur /\ pc' = "idle" /\ UNCHANGED <<mounted, cur, maxGen>>
      BY <2>1 DEF Begin
    <3>2. cur \in Root /\ RootSane(cur) /\ maxGen \in Nat /\ curSlot \in {0, 1}
      BY <3>1 DEF TypeOK, SaneInv
    <3>3. cur.gen \in Nat /\ cur.gen <= maxGen + 1
      <4>1. SlotGen(vol, curSlot) <= maxGen /\ vol[curSlot] = Super(cur, curBlk)
        BY <2>1, <3>1, <3>2 DEF SlotInv, Begin
      <4>2. SlotGen(vol, curSlot) = cur.gen
        BY <4>1, SMTT(30) DEF SlotGen, Super
      <4>3. cur.gen \in Nat
        BY <3>2 DEF Root
      <4> QED
        BY <3>2, <4>1, <4>2, <4>3, SMTT(30)
    <3>4. ObjsSane(cur, cur.gen) /\ PinsSane(cur, cur.gen)
      BY <3>2, RootSaneParts
    <3>5. ObjsSane(cur, maxGen + 1) /\ PinsSane(cur, maxGen + 1)
      BY <3>2, <3>3, <3>4, <2>SaneLater, SMTT(30)
    <3> QED
      BY <3>1, <3>5, <1>SaneWork DEF CommitSteps
  <2>2. CASE Abort
    <3>1. ~inTx' /\ pc' = "idle" /\ UNCHANGED <<mounted, cur, maxGen>>
      BY <2>2 DEF Abort, InTx, TxReset
    <3> QED
      BY <3>1, <1>SaneWork DEF CommitSteps
  <2>3. CASE Prune \/ AllowReserve
    <3>1. inTx /\ pc' = "idle" /\ UNCHANGED <<mounted, cur, maxGen, work>>
      BY <2>3 DEF Prune, AllowReserve, TxCall, InTx, storeVars
    <3>2. ObjsSane(work', maxGen + 1) /\ PinsSane(work', maxGen + 1)
      BY <3>1 DEF SaneInv
    <3> QED
      BY <3>1, <3>2, <1>SaneWork DEF CommitSteps
  <2>4. CASE CommitRoot
    <3>1. inTx /\ pc = "idle" /\ UNCHANGED <<mounted, cur, maxGen>>
      BY <2>4 DEF CommitRoot, InTx
    <3>2. CASE ~inTx' /\ pc' = "idle"
      BY <3>1, <3>2, <1>SaneWork DEF CommitSteps
    <3>3. CASE work' = NewRoot
      <4>1. CurrentPlaced
        BY DEF Intact
      <4>2. RootSane(NewRoot) /\ ObjsSane(NewRoot, maxGen + 1) /\ PinsSane(NewRoot, maxGen + 1)
        BY <3>1, <4>1, <2>NewRootSane
      <4> QED
        BY <3>1, <3>3, <4>2 DEF SaneInv
    <3> QED
      BY <2>4, <3>1, <3>2, <3>3 DEF CommitRoot, TxReset
  <2>5. ASSUME NEW n \in Names, NEW p \in Payloads, Put(n, p) PROVE SaneInv'
    BY <2>5, <2>SanePut
  <2>6. ASSUME NEW q \in PinNames, NEW g \in 1 .. MaxCommits, Pin(q, g) PROVE SaneInv'
    BY <2>6, <2>SanePin
  <2> QED
    BY <2>1, <2>2, <2>3, <2>4, <2>5, <2>6, <2>SaneDelUnpin DEF TxCalls
<1>SaneCommit. ASSUME CommitBarrier \/ CommitSuper \/ CommitFlush PROVE SaneInv'
  <2> USE <1>SaneCommit
  <2>1. CASE CommitBarrier
    <3>1. pc = "root" /\ inTx /\ UNCHANGED <<mounted, cur, maxGen>>
      BY <2>1 DEF CommitBarrier, TypeOK, CommitSteps
    <3>2. CASE ~inTx' /\ pc' = "idle"
      BY <3>1, <3>2, <1>SaneWork DEF CommitSteps
    <3>3. CASE pc' = "barrier" /\ UNCHANGED <<inTx, work>>
      BY <3>1, <3>3 DEF SaneInv, CommitSteps
    <3> QED
      BY <2>1, <3>2, <3>3 DEF CommitBarrier, TxReset, txVars
  <2>2. CASE CommitSuper
    <3>1. pc = "barrier" /\ UNCHANGED <<cur, maxGen>>
      BY <2>2 DEF CommitSuper
    <3>2. CASE ~inTx' /\ ~mounted' /\ pc' = "idle"
      BY <3>2, <1>SaneUnmounted DEF CommitSteps
    <3>3. CASE pc' = "super" /\ UNCHANGED <<mounted, inTx, work>>
      BY <3>1, <3>3 DEF SaneInv, CommitSteps
    <3> QED
      BY <2>2, <3>2, <3>3 DEF CommitSuper, TxReset, txVars
  <2>3. CASE CommitFlush
    <3>1. pc = "super" /\ pc' = "idle" /\ ~inTx'
      BY <2>3 DEF CommitFlush, TxReset
    <3>2. CASE ~mounted'
      BY <3>1, <3>2, <1>SaneUnmounted DEF CommitSteps
    <3>3. CASE cur' = work
      BY <3>1, <3>3 DEF SaneInv, CommitSteps
    <3> QED
      BY <2>3, <3>2, <3>3 DEF CommitFlush
  <2> QED
    BY <2>1, <2>2, <2>3
<1>SaneMount. ASSUME Mount PROVE SaneInv'
  <2> USE <1>SaneMount
  <2>1. pc' = "idle" /\ ~inTx' /\ vol \in [Blocks -> Content]
    BY DEF Mount, TxReset, TypeOK
  <2>2. CASE ~mounted'
    BY <2>1, <2>2, <1>SaneUnmounted DEF CommitSteps
  <2>3. CASE mounted'
    <3>1. PICK i \in MountSlots(vol) : cur' = vol[vol[i].blk]
      BY <2>3, MountSets
    <3>2. RootSane(cur')
      BY <2>1, <3>1, MountSlotRoot
    <3> QED
      BY <2>1, <3>2 DEF SaneInv, CommitSteps
  <2> QED
    BY <2>2, <2>3
<1>1. CASE UNCHANGED vars
  BY <1>1 DEF SaneInv, vars, storeVars, txVars
<1>2. CASE FormatRoot \/ FormatBarrier \/ FormatSuper \/ FormatFlush
  <2>1. /\ (pc = "idle" /\ ~mounted) \/ pc \in FormatSteps
        /\ pc' \in {"idle"} \cup FormatSteps /\ UNCHANGED <<mounted, inTx>>
    <3>1. CASE FormatRoot
      BY <3>1 DEF FormatRoot, storeVars, FormatSteps
    <3>2. CASE FormatBarrier
      BY <3>2 DEF FormatBarrier, storeVars, FormatSteps
    <3>3. CASE FormatSuper
      BY <3>3 DEF FormatSuper, storeVars, FormatSteps
    <3>4. CASE FormatFlush
      BY <3>4 DEF FormatFlush, storeVars, FormatSteps
    <3> QED
      BY <1>2, <3>1, <3>2, <3>3, <3>4
  <2>2. ~mounted /\ ~inTx
    BY <2>1 DEF TypeOK
  <2>3. pc' \notin CommitSteps
    BY <2>1 DEF CommitSteps, FormatSteps
  <2> QED
    BY <2>1, <2>2, <2>3, <1>SaneUnmounted
<1>3. CASE PowerLoss
  BY <1>3, <1>SaneUnmounted DEF PowerLoss, StoreZero, TxReset, CommitSteps
<1>4. CASE Settle \/ Rot \/ Boot
  <2>1. ~up /\ UNCHANGED <<pc, mounted, inTx>>
    BY <1>4 DEF Settle, Rot, Boot, storeVars
  <2>2. ~mounted /\ ~inTx /\ pc \notin CommitSteps
    BY <2>1 DEF TypeOK
  <2>3. ~mounted' /\ ~inTx' /\ pc' \notin CommitSteps
    BY <2>1, <2>2
  <2> QED
    BY <2>3, <1>SaneUnmounted
<1> QED
  BY <1>1, <1>2, <1>3, <1>4, StepCases, <1>SaneTx, <1>SaneMount, <1>SaneCommit

----------------------------------------------------------------------------
(***************************************************************************)
(* The store implements DurableStore.                                      *)
(***************************************************************************)
View == IF mounted THEN Seen(cur) ELSE NoRoot

LEMMA PromiseStep ==
    ASSUME DurInv, DurInv', [Next]_vars, Faults \subseteq {"write", "flush"}
    PROVE  [Promise!Next]_Promise!vars
<1>SeenFields.
    ASSUME NEW r \in Root
    PROVE  r # NoRoot /\ Seen(r) # NoRoot /\ Seen(r).gen = r.gen /\ Seen(r).parent = r.parent
  <2> USE <1>SeenFields
  <2>1. r # NoRoot
    BY SMTT(30) DEF Root, NoRoot
  <2>2. Seen(r) = [gen |-> r.gen, parent |-> r.parent, obj |-> [n \in Objs(r) |-> r.obj[n].val]]
    BY <2>1 DEF Seen
  <2>3. DOMAIN Seen(r) = {"gen", "parent", "obj"} /\ DOMAIN NoRoot = {"t"}
    BY <2>2 DEF NoRoot
  <2>4. "t" \notin DOMAIN Seen(r) /\ "t" \in DOMAIN NoRoot
    BY <2>3
  <2> QED
    BY <2>1, <2>2, <2>4, SMTT(30)
<1>SeenGen. ASSUME NEW r \in Root \cup {NoRoot} PROVE Promise!GenOf(Seen(r)) = GenOf(r)
  BY <1>SeenGen, <1>SeenFields DEF Seen, GenOf, Promise!GenOf
\* The generation mounted is at least as new as the one saved.
<1>SavedBehind. ASSUME mounted PROVE GenOf(saved) <= cur.gen /\ GenOf(saved) \in Nat
  <2> USE <1>SavedBehind
  <2>1. up /\ cur \in Root /\ cur.gen \in Nat
    BY DEF DurInv, TypeOK, Root
  <2>2. CASE Fresh
    BY <2>1, <2>2, SMTT(30) DEF Fresh, GenOf
  <2>3. CASE Anchored
    <3>1. PICK a \in {0, 1}, r \in Known, b \in DataBlocks : Anchor(a, r, b)
      BY <2>3 DEF Anchored
    <3>2. r.gen \in Nat /\ GenOf(saved) \in Nat /\ GenOf(saved) <= r.gen
      BY <3>1, KnownRoot DEF DurInv, TypeOK, Root, GenOf, Anchor
    <3>3. CASE curSlot # a
      BY <2>1, <3>1, <3>2, <3>3, SMTT(30) DEF Anchor
    <3>4. CASE curSlot = a
      <4>1. vol[a] = Super(r, b) /\ vol[a] = Super(cur, curBlk)
        BY <2>1, <3>1, <3>4, BlockFacts DEF DurInv, DevInv, SlotInv, Anchor
      <4>2. Super(r, b).gen = r.gen /\ Super(cur, curBlk).gen = cur.gen
        BY SuperFields
      <4> QED
        BY <3>2, <4>1, <4>2
    <3> QED
      BY <3>3, <3>4
  <2> QED
    BY <2>2, <2>3 DEF DurInv, Durability
\* A commit writes its superblock: the state it carries becomes possible.
<1>TryStep.
    ASSUME NEW s \in Root, doubt' = doubt \cup {s}, saved' = saved, View' \in {View, NoRoot},
           s.gen > GenOf(saved), s.gen > Promise!GenOf(View), s.parent = Promise!GenOf(View)
    PROVE  Promise!Try
  <2> USE <1>TryStep
  <2>1. Seen(s) \in {Seen(r) : r \in doubt'} /\ {Seen(r) : r \in doubt'} = {Seen(r) : r \in doubt} \cup {Seen(s)}
    OBVIOUS
  <2>2. Seen(s).gen > Promise!GenOf(Seen(saved))
    BY <1>SeenGen, <1>SeenFields DEF DurInv, TypeOK
  <2>3. Seen(s).gen > Promise!GenOf(View) /\ Seen(s).parent = Promise!GenOf(View)
    BY <1>SeenFields
  <2> QED
    BY <2>1, <2>2, <2>3 DEF Promise!Try, View
<1>0. ASSUME UNCHANGED <<mounted, cur, saved, doubt>> PROVE UNCHANGED Promise!vars
  BY <1>0 DEF Promise!vars
<1>1. CASE UNCHANGED vars
  BY <1>0, <1>1 DEF vars, storeVars, history
<1>2. CASE TxCalls
  BY <1>0, <1>2, TxEffect DEF DurInv
<1>3. CASE FormatRoot \/ FormatBarrier
  BY <1>0, <1>3 DEF FormatRoot, FormatBarrier, storeVars, history
<1>4. CASE FormatSuper
  <2>1. /\ ~mounted /\ ~mounted' /\ doubt' = doubt \cup {FirstRoot(commits)} /\ saved' = saved
        /\ saved = NoRoot /\ commits \in Nat
    BY <1>4 DEF FormatSuper, storeVars, DurInv, TypeOK, FormatSteps, Durability, Anchored, Fresh
  <2>2. /\ View = NoRoot /\ View' = NoRoot /\ Promise!GenOf(View) = 0 /\ GenOf(saved) = 0
        /\ FirstRoot(commits).gen = 1 /\ FirstRoot(commits).parent = 0
    BY <2>1 DEF View, Promise!GenOf, GenOf, FirstRoot
  <2>3. FirstRoot(commits) \in Root
    BY <2>1, FirstRootType
  <2> QED
    BY <2>1, <2>2, <2>3, <1>TryStep, SMTT(30) DEF Promise!Next
<1>5. CASE FormatFlush
  <2>1. pc = "fmt_super" /\ ~mounted /\ ~mounted'
    BY <1>5 DEF FormatFlush, storeVars, DurInv, TypeOK, FormatSteps
  <2>2. CASE UNCHANGED history
    BY <1>0, <1>5, <2>2 DEF FormatFlush, storeVars, history
  <2>3. CASE saved' = FirstRoot(commits) /\ doubt' = {}
    <3>1. FirstRoot(commits) \in doubt
      BY <2>1 DEF DurInv, Durability, Anchored, Fresh, FormatSteps
    <3> QED
      BY <2>1, <2>3, <3>1 DEF Promise!Next, Promise!Save
  <2> QED
    BY <1>5, <2>2, <2>3 DEF FormatFlush
<1>6. CASE Mount
  <2>1. ~mounted /\ UNCHANGED <<saved, doubt>>
    BY <1>6 DEF Mount, history
  <2>2. CASE ~mounted'
    BY <2>1, <2>2 DEF Promise!vars
  <2>3. CASE mounted'
    <3>1. cur' \in {saved} \cup doubt
      BY <2>1, <2>3 DEF DurInv, CurKnown, Known
    <3> QED
      BY <2>1, <2>3, <3>1 DEF Promise!Next, Promise!Mount
  <2> QED
    BY <2>2, <2>3
<1>7. CASE CommitBarrier
  BY <1>0, <1>7 DEF CommitBarrier, history
<1>8. CASE CommitSuper
  <2>1. /\ pc = "barrier" /\ mounted /\ inTx /\ pc \in CommitSteps /\ cur' = cur
        /\ doubt' = doubt \cup {work} /\ saved' = saved /\ mounted' \in {mounted, FALSE}
    BY <1>8 DEF CommitSuper, DurInv, TypeOK, CommitSteps
  <2>2. work \in Root /\ work.gen \in Nat /\ cur \in Root /\ cur.gen \in Nat
    BY <2>1 DEF DurInv, TypeOK, Root
  <2>3. work.gen > cur.gen /\ work.parent = cur.gen
    BY <2>1, MountedGens, SMTT(30) DEF DurInv, SlotInv
  <2>4. GenOf(saved) <= cur.gen /\ GenOf(saved) \in Nat
    BY <2>1, <1>SavedBehind
  <2>5. View = Seen(cur) /\ View' \in {View, NoRoot}
    BY <2>1 DEF View
  <2>6. Promise!GenOf(View) = cur.gen
    BY <2>2, <2>5, <1>SeenFields DEF Promise!GenOf
  <2>7. work.gen > GenOf(saved)
    BY <2>2, <2>3, <2>4, SMTT(30)
  <2> QED
    BY <2>1, <2>2, <2>3, <2>5, <2>6, <2>7, <1>TryStep DEF Promise!Next
<1>9. CASE CommitFlush
  <2>1. CASE ~mounted' /\ UNCHANGED history
    BY <2>1 DEF history, Promise!Next, Promise!Unmount
  <2>2. CASE mounted' /\ cur' = work /\ saved' = work /\ doubt' = {}
    <3>1. work \in doubt
      BY <1>9 DEF CommitFlush, DurInv, SlotInv
    <3> QED
      BY <2>2, <3>1 DEF Promise!Next, Promise!Save
  <2> QED
    BY <1>9, <2>1, <2>2 DEF CommitFlush
<1>10. CASE PowerLoss
  BY <1>10 DEF PowerLoss, StoreZero, history, Promise!Next, Promise!Unmount
<1>11. CASE Settle
  BY <1>0, <1>11 DEF Settle, storeVars, history
<1>12. CASE Boot
  <2>1. /\ ~mounted /\ ~mounted'
        /\ \A r \in doubt' : r \in doubt /\ r.gen > GenOf(saved')
    BY <1>12 DEF Boot, storeVars, DurInv, TypeOK
  <2>2. saved' \in {saved} \cup doubt
    BY <1>12, RecoveredKnown DEF DurInv
  <2>3. Promise!GenOf(Seen(saved)') = GenOf(saved')
    BY <1>SeenGen DEF DurInv, TypeOK
  <2>4. \A r \in doubt' : Seen(r).gen = r.gen
    BY <1>SeenFields DEF DurInv, TypeOK
  <2>5. {Seen(r) : r \in doubt'} \subseteq
           {s \in {Seen(r) : r \in doubt} : s.gen > Promise!GenOf(Seen(saved)')}
    BY <2>1, <2>3, <2>4
  <2> QED
    BY <2>1, <2>2, <2>5 DEF Promise!Next, Promise!Reboot
<1> QED
  BY <1>1, <1>2, <1>3, <1>4, <1>5, <1>6, <1>7, <1>8, <1>9, <1>10, <1>11, <1>12,
     StepCases, NoOtherFaults

----------------------------------------------------------------------------
(* The theorems.                                                           *)
\* The invariants of StoreDurability and StoreRetention, with the hypothesis
\* discharged.
LEMMA DurKept ==
    ASSUME DurInv, [Next]_vars, Faults \subseteq {"write", "flush"} PROVE DurInv'
<1>1. SaneInv'
  BY NoOtherFaults, SaneStep DEF DurInv
<1> QED
  BY <1>1, DurInvStep

LEMMA RetKept == ASSUME RetInv, [Next]_vars, Faults = {} PROVE RetInv'
<1>1. SaneInv'
  BY NoFaults, NoOtherFaults, SaneStep DEF RetInv, DurInv
<1>2. HistoryOlder
  BY HistBelow DEF HistoryOlder
<1> QED
  BY <1>1, <1>2, RetStep

\* A store that was saved once can be mounted at any later time: whatever the
\* transactions, the failed writes and flushes of st_commit and the power
\* losses have left on the device, one of its two slots verifies in full.
THEOREM SavedStoreMounts ==
    ASSUME Faults \subseteq {"write", "flush"} PROVE Spec => []AlwaysMountable
<1>1. Init => DurInv
  BY DurInit, FirstSane
<1>2. DurInv /\ [Next]_vars => DurInv'
  BY DurKept
<1>3. DurInv => AlwaysMountable
  BY DurMountable
<1> QED
  BY <1>1, <1>2, <1>3, PTL DEF Spec

\* st_format, st_commit and st_mount keep the promise of DurableStore: a commit
\* happens whole or not at all, and a generation reported saved is the one found
\* after any number of power losses, or a newer one whose commit was under way.
THEOREM StoreKeepsItsPromise ==
    ASSUME Faults \subseteq {"write", "flush"} PROVE Spec => ImplementsPromise
<1>1. Init => DurInv
  BY DurInit, FirstSane
<1>2. DurInv /\ [Next]_vars => DurInv'
  BY DurKept
<1>3. Init => Promise!Init
  BY DEF Init, Promise!Init, Seen
<1>4. DurInv /\ DurInv' /\ [Next]_vars => [Promise!Next]_Promise!vars
  BY PromiseStep
<1> QED
  BY <1>1, <1>2, <1>3, <1>4, PTL DEF Spec, ImplementsPromise, Promise!Spec

\* On a device that does not fail, st_check finds nothing wrong between commits,
\* after any number of transactions, prunes, pins and power losses: the current
\* and all retained generations verify, no two extents overlap unless they are
\* the same, and the map of used blocks is exact (no block is leaked).
THEOREM CheckFindsNothing == ASSUME Faults = {} PROVE Spec => []CheckClean
<1>1. Init => RetInv
  BY RetInit, FirstSane
<1>2. RetInv /\ [Next]_vars => RetInv'
  BY RetKept
<1>3. RetInv => CheckClean
  BY RetClean
<1> QED
  BY <1>1, <1>2, <1>3, PTL DEF Spec

\* On such a device a saved store can be mounted at any moment, and between
\* commits the generation in the other slot verifies in full, so that st_mount
\* may fall back to it (I6).
THEOREM StoreIsRecoverable == ASSUME Faults = {} PROVE Spec => []Recoverable
<1>1. Init => RetInv
  BY RetInit, FirstSane
<1>2. RetInv /\ [Next]_vars => RetInv'
  BY RetKept
<1>3. RetInv => Recoverable
  BY DurMountable, RetFallback DEF Recoverable, RetInv
<1> QED
  BY <1>1, <1>2, <1>3, PTL DEF Spec
=============================================================================
