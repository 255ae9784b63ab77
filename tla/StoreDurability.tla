-------------------------- MODULE StoreDurability --------------------------
(***************************************************************************)
(* What is saved stays saved.  First the lemmas that a saved store can be  *)
(* mounted after any power loss, then the proof that a retained generation *)
(* stays readable while it is retained, and the lemmas that st_check finds *)
(* nothing wrong between commits.  They hold for every device size,        *)
(* retention policy and set of payloads, and any number of failed writes,  *)
(* failed flushes and power losses, as far as each says; reads must not    *)
(* fail and the medium must not decay, for each of these can cost a saved  *)
(* generation.                                                             *)
(***************************************************************************)
EXTENDS StoreProofs

USE Zenon

(***************************************************************************)
(* The inductive invariant, and what follows from it.                      *)
(***************************************************************************)
DurInv == /\ TypeOK /\ Intact /\ DevInv /\ SlotInv /\ SaneInv
          /\ CrcInv /\ CurKnown /\ Durability

LEMMA DurInit == ASSUME FirstIsSane, Init PROVE DurInv
<1>1. TypeOK
  BY TypeInit
<1>2. /\ pc = "idle" /\ ~mounted /\ ~inTx /\ up /\ saved = NoRoot /\ doubt = {} /\ commits = 0
      /\ vol = [b \in Blocks |-> Blank] /\ media = [b \in Blocks |-> {Blank}]
      /\ pc \notin CommitSteps /\ pc \notin FormatSteps
  BY DEF Init, DevInit, CommitSteps, FormatSteps
<1>3. Blank.t # "root" /\ ~IsSuper(Blank)
  BY DEF Blank, IsSuper
<1>4. Intact /\ SlotInv /\ SaneInv /\ CurKnown
  BY <1>2 DEF Intact, CurrentPlaced, WorkPlaced, RootWritten, SlotInv, SaneInv, CurKnown
<1>5. DevInv /\ CrcInv
  BY <1>2, <1>3 DEF DevInv, CrcInv, Tracked, Known
<1>6. Durability
  BY <1>2, <1>3, BlockFacts DEF Durability, Fresh, FormatSteps
<1> QED
  BY <1>1, <1>4, <1>5, <1>6 DEF DurInv

LEMMA NoOtherFaults ==
    ASSUME Faults \subseteq {"write", "flush"} PROVE "read" \notin Faults /\ ~Rot
BY DEF Rot, CanFault

LEMMA DurStep ==
    ASSUME TypeOK, Intact, DevInv, SlotInv, SaneInv, CrcInv, CurKnown, Durability, [Next]_vars,
           Faults \subseteq {"write", "flush"}
    PROVE  Durability' /\ CurKnown'
\* A step that keeps the anchored blocks and adds no superblock keeps the anchor.
<1>AnchorFrame.
    ASSUME NEW a \in {0, 1}, NEW r, NEW b, Anchor(a, r, b),
           media'[a] = media[a], \A x \in MarkRoot(r, b) : media'[x] = media[x],
           \A c \in media'[1 - a] : IsSuper(c) => c \in media[1 - a],
           saved' = saved, doubt \subseteq doubt',
           mounted' => /\ MarkRoot(r, b) \subseteq used'
                       /\ curSlot' = a \/ (pc' \in {"idle", "root"} /\ cur'.gen > r.gen)
    PROVE  Anchor(a, r, b)'
  <2> USE <1>AnchorFrame
  <2>1. media'[a] = {Super(r, b)} /\ GenOf(saved') <= r.gen
    BY DEF Anchor, GenOf
  <2>2. Durable(r, b)'
    <3>1. b \in MarkRoot(r, b) /\ \A n \in Objs(r) : Extent(r.obj[n]) \subseteq MarkRoot(r, b)
      BY DEF MarkRoot
    <3>2. b \in DataBlocks /\ media'[b] = {r} /\ RootSane(r)
      BY <3>1 DEF Anchor, Durable
    <3>3. ASSUME NEW n \in Objs(r), NEW i \in 0 .. r.obj[n].nblk - 1
          PROVE  media'[r.obj[n].blk + i] = {Data(r.obj[n].val, i)}
      <4>1. r.obj[n].blk + i \in MarkRoot(r, b)
        BY <3>1 DEF Extent
      <4> QED
        BY <4>1 DEF Anchor, Durable
    <3> QED
      BY <3>2, <3>3 DEF Durable
  <2>3. ASSUME NEW c \in media'[1 - a], IsSuper(c) PROVE Behind(r, b, c)'
    <3>1. Behind(r, b, c)
      BY <2>3 DEF Anchor
    <3> QED
      BY <3>1 DEF Behind
  <2> QED
    BY <2>1, <2>2, <2>3 DEF Anchor, GenOf
<1>AnchoredFrame.
    ASSUME NEW a \in {0, 1}, NEW r \in Known, NEW b \in DataBlocks, Anchor(a, r, b)',
           saved' = saved, doubt \subseteq doubt', pc' \notin FormatSteps
    PROVE  Durability'
  <2> USE <1>AnchoredFrame
  <2>1. r \in Known'
    BY DEF Known
  <2> QED
    BY <2>1 DEF Durability, Anchored
\* An anchor with a saved root, or with one in doubt, whatever the mapping was.
<1>AnchoredNew.
    ASSUME NEW a \in {0, 1}, NEW r \in Root, NEW b \in DataBlocks, Anchor(a, r, b)',
           saved' = r \/ r \in doubt', pc' \notin FormatSteps
    PROVE  Durability'
  <2> USE <1>AnchoredNew
  <2>1. r # NoRoot
    BY SMTT(30) DEF Root, NoRoot
  <2>2. r \in Known'
    BY <2>1 DEF Known
  <2> QED
    BY <2>2 DEF Durability, Anchored
<1>DurTx. ASSUME TxCalls PROVE Durability'
  <2> USE <1>DurTx
  <2>1. /\ mounted /\ pc = "idle" /\ pc' \in {"idle", "root"} /\ pc' \notin FormatSteps
        /\ UNCHANGED <<up, mounted, cur, curBlk, curSlot, maxGen, used, saved, doubt>>
    BY TxEffect DEF FormatSteps
  <2>2. PICK S, C : TxWrite(S, C)
    BY TxEffect
  <2>3. \A x \in Blocks : x \notin S => media'[x] = media[x] /\ vol'[x] = vol[x]
    BY <2>2 DEF TxWrite, Touches
  <2>4. media'[0] = media[0] /\ media'[1] = media[1] /\ vol'[0] = vol[0]
    BY <2>2, <2>3, BlockFacts DEF TxWrite
  <2>5. S \cap used = {}
    BY <2>2 DEF TxWrite
  <2>6. CASE Fresh
    <3>1. curBlk = 2 /\ curBlk \in used
      BY <2>1, <2>6 DEF Fresh, Intact, CurrentPlaced
    <3>2. media'[2] = media[2]
      BY <2>3, <2>5, <3>1, BlockFacts
    <3>3. pc' \notin {"fmt_root", "fmt_barrier", "fmt_super"}
      BY <2>1
    <3> QED
      BY <2>1, <2>4, <2>6, <3>2, <3>3, ZenonT(30) DEF Fresh, Durability
  <2>7. CASE Anchored
    <3>1. PICK a \in {0, 1}, r \in Known, b \in DataBlocks : Anchor(a, r, b)
      BY <2>7 DEF Anchored
    <3>2. MarkRoot(r, b) \subseteq used /\ (curSlot = a \/ cur.gen > r.gen)
      BY <2>1, <3>1 DEF Anchor
    <3>3. \A x \in MarkRoot(r, b) : media'[x] = media[x]
      <4>1. MarkRoot(r, b) \subseteq Blocks
        BY <3>1, BlockFacts, AnchorMarks
      <4> QED
        BY <2>3, <2>5, <3>2, <4>1
    <3>4. media'[a] = media[a] /\ media'[1 - a] = media[1 - a]
      BY <2>4, OtherSlot
    <3>5. Anchor(a, r, b)'
      BY <2>1, <3>1, <3>2, <3>3, <3>4, <1>AnchorFrame
    <3> QED
      BY <2>1, <3>5, <1>AnchoredFrame
  <2> QED
    BY <2>6, <2>7 DEF Durability
\* A step that changes neither the device nor what was promised, and leaves the
\* store unmounted.
<1>DurUnmounted.
    ASSUME ~mounted', UNCHANGED <<media, saved, doubt>>, pc' = "idle"
    PROVE  Durability'
  <2> USE <1>DurUnmounted
  <2>0. pc' \notin FormatSteps /\ pc' \notin {"fmt_root", "fmt_barrier", "fmt_super"}
    BY DEF FormatSteps
  <2>1. CASE Fresh
    BY <2>0, <2>1 DEF Durability, Fresh
  <2>2. CASE Anchored
    <3>1. PICK a \in {0, 1}, r \in Known, b \in DataBlocks : Anchor(a, r, b)
      BY <2>2 DEF Anchored
    <3>2. Anchor(a, r, b)'
      BY <3>1, <1>AnchorFrame
    <3> QED
      BY <2>0, <3>2, <1>AnchoredFrame
  <2> QED
    BY <2>1, <2>2 DEF Durability
\* st_mount: the generation it picks, and the blocks it puts in use.
<1>DurMount. ASSUME Mount, "read" \notin Faults PROVE Durability' /\ CurKnown'
  <2> USE <1>DurMount
  <2>1. /\ up /\ pc = "idle" /\ pc' = "idle" /\ UNCHANGED <<vol, media, saved, doubt>>
        /\ pc' \notin FormatSteps
    BY DEF Mount, devVars, history, FormatSteps
  <2>2. vol \in [Blocks -> Content] /\ \A x \in Blocks : vol[x] \in media[x]
    BY <2>1 DEF TypeOK, DevInv
  <2>3. CASE ~mounted'
    BY <2>1, <2>3, <1>DurUnmounted DEF CurKnown
  <2>4. CASE mounted'
    <3>1. PICK i \in MountSlots(vol) :
                /\ cur' = vol[vol[i].blk] /\ curBlk' = vol[i].blk /\ curSlot' = i
                /\ used' = RecomputeUsed(vol, cur', curBlk')
      BY <2>4, MountSets
    <3>2. CASE Fresh
      <4>1. i = 0
        BY <2>2, <3>2, FreshPick
      <4>2. PICK k \in Nat : FirstRoot(k) \in doubt /\ vol[0] = Super(FirstRoot(k), 2) /\ vol[2] = FirstRoot(k)
        BY <2>2, <3>2, FreshPick
      <4>3. curSlot' = 0 /\ curBlk' = 2 /\ cur' = FirstRoot(k)
        BY <3>1, <4>1, <4>2, SuperFields, SMTT(30)
      <4>4. pc' \notin {"fmt_root", "fmt_barrier", "fmt_super"}
        BY <2>1
      <4>5. Durability'
        BY <2>1, <3>2, <4>3, <4>4 DEF Durability, Fresh
      <4>6. CurKnown'
        BY <2>1, <4>2, <4>3 DEF CurKnown, Known
      <4> QED
        BY <4>5, <4>6
    <3>3. CASE Anchored
      <4>1. PICK a \in {0, 1}, r \in Known, b \in DataBlocks : Anchor(a, r, b)
        BY <3>3 DEF Anchored
      <4>2. CASE i = a /\ vol[i].blk = b /\ vol[vol[i].blk] = r
        <5>1. cur' = r /\ curBlk' = b /\ curSlot' = a
          BY <3>1, <4>2
        <5>2. MarkRoot(r, b) \subseteq used'
          BY <3>1, <5>1, RecomputeUsedCovers
        <5>3. Anchor(a, r, b)'
          BY <2>1, <4>1, <5>1, <5>2, <1>AnchorFrame
        <5>4. CurKnown'
          BY <2>1, <5>1 DEF CurKnown, Known
        <5> QED
          BY <2>1, <5>3, <5>4, <1>AnchoredFrame
      <4>3. ASSUME i = 1 - a, NEW s \in doubt, vol[vol[i].blk] = s, s.gen > r.gen,
                   1 \in DOMAIN s.hist, s.hist[1] = RefTo(r, b)
            PROVE  Durability' /\ CurKnown'
        <5>1. cur' = s /\ curSlot' = 1 - a
          BY <3>1, <4>3
        <5>2. r \in Root
          BY KnownRoot
        <5>3. vol[b] = r /\ LoadRoot(vol, RefTo(r, b))
          BY <2>2, <4>1, <5>2, AnchorReads
        <5>4. RefTo(r, b) \in Refs(s) /\ RefTo(r, b).blk = b
          BY <4>3 DEF Refs, RefTo
        <5>5. MarkRoot(r, b) \subseteq RecomputeUsed(vol, s, curBlk')
          BY <5>3, <5>4 DEF RecomputeUsed
        <5>6. Anchor(a, r, b)'
          BY <2>1, <3>1, <4>1, <4>3, <5>1, <5>5, <1>AnchorFrame
        <5>7. CurKnown'
          BY <2>1, <5>1 DEF CurKnown, Known
        <5> QED
          BY <2>1, <5>6, <5>7, <1>AnchoredFrame
      <4> QED
        BY <2>2, <4>1, <4>2, <4>3, AnchorPick, OtherSlot, SMTT(30)
    <3> QED
      BY <3>2, <3>3 DEF Durability
  <2> QED
    BY <2>3, <2>4
\* Step 2 of a commit: the flush anchors the mounted generation.
<1>DurBarrier. ASSUME CommitBarrier PROVE Durability'
  <2> USE <1>DurBarrier
  <2>1. /\ up /\ pc = "root" /\ inTx /\ mounted
        /\ UNCHANGED <<mounted, cur, curBlk, curSlot, used, saved, doubt, vol>>
        /\ pc' \in {"idle", "barrier"} /\ pc' \notin FormatSteps
    BY DEF CommitBarrier, TypeOK, CommitSteps, history, DevFlush, DevFlushError, devVars, FormatSteps
  <2>2. CASE UNCHANGED media /\ pc' = "idle"
    <3>1. CASE Fresh
      BY <2>1, <2>2, <3>1 DEF Durability, Fresh, FormatSteps
    <3>2. CASE Anchored
      <4>1. PICK a \in {0, 1}, r \in Known, b \in DataBlocks : Anchor(a, r, b)
        BY <3>2 DEF Anchored
      <4>2. Anchor(a, r, b)'
        <5>1. MarkRoot(r, b) \subseteq used /\ (curSlot = a \/ cur.gen > r.gen)
          BY <2>1, <4>1 DEF Anchor
        <5> QED
          BY <2>1, <2>2, <4>1, <5>1, <1>AnchorFrame
      <4> QED
        BY <2>1, <4>2, <1>AnchoredFrame
    <3> QED
      BY <3>1, <3>2 DEF Durability
  <2>3. CASE DevFlush /\ pc' = "barrier"
    <3>1. \A x \in Blocks : media'[x] = {vol[x]} /\ vol[x] \in media[x]
      BY <2>1, <2>3 DEF DevFlush, DevInv
    <3>2. /\ cur \in Root /\ curSlot \in {0, 1} /\ curSlot \in Blocks /\ 1 - curSlot \in Blocks
          /\ 1 - curSlot \in {0, 1} /\ 1 - (1 - curSlot) = curSlot /\ cur \in Known
      BY <2>1, BlockFacts, SMTT(30) DEF TypeOK, CurKnown
    <3>3. /\ vol[curSlot] = Super(cur, curBlk) /\ RootSane(cur)
          /\ curBlk \in DataBlocks \cap used /\ vol[curBlk] = cur /\ Placed(vol, cur, used)
      BY <2>1 DEF SlotInv, SaneInv, Intact, CurrentPlaced
    <3>4. media'[curSlot] = {Super(cur, curBlk)}
      BY <3>1, <3>2, <3>3
    <3>5. Durable(cur, curBlk)'
      <4>1. ASSUME NEW n \in Objs(cur), NEW j \in 0 .. cur.obj[n].nblk - 1
            PROVE  media'[cur.obj[n].blk + j] = {Data(cur.obj[n].val, j)}
        <5>1. cur.obj[n].blk + j \in Blocks
          BY <3>3, BlockFacts DEF Placed, Extent
        <5>2. vol[cur.obj[n].blk + j] = Data(cur.obj[n].val, j)
          BY <3>3 DEF Placed, VerifyExtent
        <5> QED
          BY <3>1, <5>1, <5>2
      <4>2. media'[curBlk] = {cur}
        BY <3>1, <3>3, BlockFacts
      <4> QED
        BY <2>1, <3>3, <4>1, <4>2, SMTT(30) DEF Durable
    <3>6. MarkRoot(cur, curBlk) \subseteq used
      BY <3>3 DEF MarkRoot, Placed
    <3>7. /\ GenOf(saved) <= cur.gen
          /\ \A c \in media'[1 - curSlot] : IsSuper(c) => Behind(cur, curBlk, c)
      <4>1. cur.gen \in Nat
        BY <3>2 DEF Root
      <4>2. CASE Fresh
        <5>1. GenOf(saved) = 0 /\ curSlot = 0
          BY <2>1, <4>2 DEF Fresh, GenOf
        <5>2. ~IsSuper(vol[1])
          BY <3>1, <4>2, BlockFacts DEF Fresh
        <5> QED
          BY <3>1, <3>2, <4>1, <5>1, <5>2, SMTT(30)
      <4>3. CASE Anchored
        <5>1. PICK a \in {0, 1}, r \in Known, b \in DataBlocks : Anchor(a, r, b)
          BY <4>3 DEF Anchored
        <5>2. r \in Root /\ r.gen \in Nat /\ GenOf(saved) <= r.gen /\ GenOf(saved) \in Nat
          BY <5>1, KnownRoot DEF Anchor, Root, GenOf, TypeOK
        <5>3. vol[a] = Super(r, b) /\ vol[b] = r
          BY <3>1, <5>1, BlockFacts DEF Anchor, Durable
        <5>4. CASE curSlot = a
          <6>1. curBlk = b /\ cur = r
            BY <3>3, <5>3, <5>4, SuperFields, SMTT(30)
          <6>2. vol[1 - curSlot] \in media[1 - a]
            BY <3>1, <3>2, <5>4
          <6> QED
            BY <3>1, <3>2, <5>1, <5>2, <6>1, <6>2, ZenonT(30) DEF Anchor
        <5>5. CASE curSlot # a
          <6>1. cur.gen > r.gen /\ a = 1 - curSlot
            BY <2>1, <3>2, <5>1, <5>5, OtherSlot DEF Anchor
          <6>2. Behind(cur, curBlk, vol[1 - curSlot])
            BY <4>1, <5>2, <5>3, <6>1, SuperFields, SMTT(30) DEF Behind
          <6> QED
            BY <3>1, <3>2, <4>1, <5>2, <6>1, <6>2, OtherSlot, SMTT(30)
        <5> QED
          BY <5>4, <5>5
      <4> QED
        BY <4>2, <4>3 DEF Durability
    <3>8. ASSUME NEW a \in {0, 1}, NEW r \in Root, NEW b \in DataBlocks,
                 a = curSlot, r = cur, b = curBlk
          PROVE  Durability'
      <4>1. media'[a] = {Super(r, b)} /\ GenOf(saved') <= r.gen
        BY <2>1, <3>4, <3>7, <3>8
      <4>2. Durable(r, b)'
        BY <2>1, <3>5, <3>8, SMTT(30) DEF Durable
      <4>3. \A c \in media'[1 - a] : IsSuper(c) => Behind(r, b, c)'
        BY <2>1, <3>7, <3>8 DEF Behind
      <4>4. mounted' => MarkRoot(r, b) \subseteq used' /\ curSlot' = a
        BY <2>1, <3>6, <3>8
      <4>5. Anchor(a, r, b)'
        BY <4>1, <4>2, <4>3, <4>4 DEF Anchor
      <4>6. saved' = r \/ r \in doubt'
        BY <2>1, <3>2, <3>8 DEF Known
      <4> QED
        BY <2>1, <4>5, <4>6, <1>AnchoredNew
    <3> QED
      BY <3>2, <3>3, <3>8
  <2> QED
    BY <2>2, <2>3 DEF CommitBarrier, DevFlushError, devVars
\* Step 3: the superblock goes to the slot that is not the anchor.
<1>DurSuper. ASSUME CommitSuper PROVE Durability'
  <2> USE <1>DurSuper
  <2>1. /\ up /\ pc = "barrier" /\ inTx /\ mounted /\ pc \in CommitSteps
        /\ UNCHANGED <<cur, curBlk, curSlot, used, saved>> /\ doubt' = doubt \cup {work}
        /\ pc' \in {"idle", "super"} /\ pc' \notin FormatSteps
    BY DEF CommitSuper, TypeOK, CommitSteps, FormatSteps
  <2>0. Anchored
    BY <2>1 DEF Durability, Fresh
  <2>2. PICK a \in {0, 1}, r \in Known, b \in DataBlocks : Anchor(a, r, b)
    BY <2>0 DEF Anchored
  <2>3. curSlot = a /\ MarkRoot(r, b) \subseteq used
    BY <2>1, <2>2 DEF Anchor
  <2>4. vol[a] = Super(r, b) /\ vol[b] = r
    BY <2>1, <2>2, BlockFacts DEF DevInv, Anchor, Durable
  <2>5. vol[a] = Super(cur, curBlk) /\ vol[curBlk] = cur
    BY <2>1, <2>3 DEF SlotInv, Intact, CurrentPlaced
  <2>6. cur = r /\ curBlk = b
    <3>1. Super(r, b).blk = b /\ Super(cur, curBlk).blk = curBlk
      BY SuperFields, SMTT(30)
    <3> QED
      BY <2>4, <2>5, <3>1
  <2>7. work.gen > r.gen /\ 1 \in DOMAIN work.hist /\ work.hist[1] = RefTo(r, b)
    BY <2>1, <2>6, MountedGens, SMTT(30) DEF SlotInv
  <2>8. Touches({1 - a}, {Super(work, newBlk)})
    BY <2>3, CommitSuperTouches
  <2>9. a \in Blocks /\ 1 - a \in Blocks /\ a # 1 - a
    BY BlockFacts, SMTT(30)
  <2>10. media'[a] = media[a]
    BY <2>8, <2>9 DEF Touches
  <2>11. MarkRoot(r, b) \subseteq DataBlocks
    BY <2>2, AnchorMarks
  <2>12. \A x \in MarkRoot(r, b) : media'[x] = media[x]
    BY <2>8, <2>11, BlockFacts, SMTT(30) DEF Touches
  <2>13. Durable(r, b)'
    <3>1. b \in MarkRoot(r, b) /\ \A n \in Objs(r) : Extent(r.obj[n]) \subseteq MarkRoot(r, b)
      BY DEF MarkRoot
    <3>2. b \in DataBlocks /\ media'[b] = {r} /\ RootSane(r)
      BY <2>2, <2>12, <3>1 DEF Anchor, Durable
    <3>3. ASSUME NEW n \in Objs(r), NEW i \in 0 .. r.obj[n].nblk - 1
          PROVE  media'[r.obj[n].blk + i] = {Data(r.obj[n].val, i)}
      <4>1. r.obj[n].blk + i \in MarkRoot(r, b)
        BY <3>1 DEF Extent
      <4> QED
        BY <2>2, <2>12, <4>1 DEF Anchor, Durable
    <3> QED
      BY <3>2, <3>3 DEF Durable
  <2>14. ASSUME NEW c \in media'[1 - a], IsSuper(c) PROVE Behind(r, b, c)'
    <3>1. c \in media[1 - a] \cup {Torn, Super(work, newBlk)}
      BY <2>8, <2>9 DEF Touches
    <3>2. c # Torn
      BY <2>14, NotSuper
    <3>3. CASE c \in media[1 - a]
      <4>1. Behind(r, b, c)
        BY <2>2, <2>14, <3>3 DEF Anchor
      <4> QED
        BY <2>1, <4>1 DEF Behind
    <3>4. CASE c = Super(work, newBlk)
      <4>1. c = Super(work, c.blk) /\ work \in doubt'
        BY <2>1, <3>4, SuperOf
      <4> QED
        BY <2>7, <4>1 DEF Behind
    <3> QED
      BY <3>1, <3>2, <3>3, <3>4
  <2>15. media'[a] = {Super(r, b)} /\ GenOf(saved') <= r.gen
    BY <2>1, <2>2, <2>10 DEF Anchor
  <2>16. Anchor(a, r, b)'
    BY <2>1, <2>3, <2>13, <2>14, <2>15 DEF Anchor
  <2> QED
    BY <2>1, <2>16, <1>AnchoredFrame
\* Step 4: the slot just written becomes the anchor.
<1>DurFlush. ASSUME CommitFlush PROVE Durability'
  <2> USE <1>DurFlush
  <2>1. /\ up /\ pc = "super" /\ inTx /\ mounted /\ pc \in CommitSteps /\ pc' = "idle"
        /\ pc' \notin FormatSteps
    BY DEF CommitFlush, TypeOK, CommitSteps, FormatSteps
  <2>2. CASE DevFlushError /\ ~mounted' /\ UNCHANGED history
    BY <2>1, <2>2, <1>DurUnmounted DEF DevFlushError, devVars, history
  <2>3. CASE /\ DevFlush /\ saved' = work /\ doubt' = {} /\ curSlot' = 1 - curSlot
             /\ \E d \in Reads : used' = RecomputeUsed(d, work, newBlk)
    <3>1. /\ work \in Root /\ newBlk \in DataBlocks /\ vol[newBlk] = work
          /\ RootSane(work) /\ Placed(vol, work, used \cup txused)
          /\ curSlot \in {0, 1} /\ 1 - curSlot \in {0, 1} /\ 1 - (1 - curSlot) = curSlot
      BY <2>1, OtherSlot DEF TypeOK, Intact, RootWritten, WorkPlaced, SaneInv
    <3>2. /\ vol[1 - curSlot] = Super(work, newBlk) /\ vol[curSlot] = Super(cur, curBlk)
          /\ work.gen > cur.gen /\ work.gen \in Nat /\ cur.gen \in Nat
      BY <2>1, MountedGens, SMTT(30) DEF SlotInv
    <3>3. MarkRoot(work, newBlk) \subseteq used'
      BY <2>3, RecomputeUsedCovers
    <3>4. \A x \in Blocks : media'[x] = {vol[x]}
      BY <2>3 DEF DevFlush
    <3>5. ASSUME NEW a \in {0, 1}, NEW r \in Root, NEW b \in DataBlocks,
                 a = 1 - curSlot, r = work, b = newBlk
          PROVE  Durability'
      <4>1. media'[a] = {Super(r, b)} /\ media'[1 - a] = {Super(cur, curBlk)}
        BY <3>1, <3>2, <3>4, <3>5, BlockFacts
      <4>2. GenOf(saved') <= r.gen
        BY <2>3, <3>2, <3>5, GenOfRoot
      <4>3. Durable(r, b)'
        <5>1. media'[b] = {r} /\ RootSane(r)
          BY <3>1, <3>4, <3>5, BlockFacts
        <5>2. ASSUME NEW n \in Objs(r), NEW i \in 0 .. r.obj[n].nblk - 1
              PROVE  media'[r.obj[n].blk + i] = {Data(r.obj[n].val, i)}
          <6>1. r.obj[n].blk + i \in Blocks
            BY <3>1, <3>5, BlockFacts DEF Placed, Extent
          <6>2. vol[r.obj[n].blk + i] = Data(r.obj[n].val, i)
            BY <3>1, <3>5 DEF Placed, VerifyExtent
          <6> QED
            BY <3>4, <6>1, <6>2
        <5> QED
          BY <5>1, <5>2 DEF Durable
      <4>4. \A c \in media'[1 - a] : Behind(r, b, c)'
        BY <3>2, <3>5, <4>1, SuperFields, SMTT(30) DEF Behind
      <4>5. MarkRoot(r, b) \subseteq used' /\ curSlot' = a
        BY <2>3, <3>3, <3>5
      <4>6. Anchor(a, r, b)'
        BY <4>1, <4>2, <4>3, <4>4, <4>5 DEF Anchor
      <4> QED
        BY <2>1, <2>3, <3>5, <4>6, <1>AnchoredNew
    <3> QED
      BY <3>1, <3>5
  <2> QED
    BY <2>2, <2>3 DEF CommitFlush
\* st_format keeps slot A free of superblocks until its root is durable.
<1>DurFormat.
    ASSUME FormatRoot \/ FormatBarrier \/ FormatSuper \/ FormatFlush PROVE Durability'
  <2> USE <1>DurFormat
  <2>1. up /\ ~mounted /\ ~mounted' /\ \A x \in Blocks : vol[x] \in media[x]
    BY SMTT(30) DEF FormatRoot, FormatBarrier, FormatSuper, FormatFlush, storeVars, TypeOK, FormatSteps, DevInv
  <2>2. \A c : c \in {Torn, Blank} \/ c = FirstRoot(commits + 1) => ~IsSuper(c)
    BY NotSuper
  <2>3. vol \in [Blocks -> Content] /\ commits \in Nat
    BY DEF TypeOK
  <2>4. CASE FormatRoot
    <3>1. /\ pc = "idle" /\ saved = NoRoot /\ Unsettled = {} /\ MountSlots(vol) = {}
          /\ commits' = commits + 1 /\ UNCHANGED <<saved, doubt>> /\ pc' \in {"fmt_root", "idle"}
          /\ pc' = "fmt_root" => DevWrite(FormatWrites)
      BY <2>4 DEF FormatRoot, history
    <3>2. \A i \in {0, 1} : ~TrySlot(vol, i)
      BY <2>3, <3>1, SomeSlot
    <3>3. Fresh
      <4>1. SUFFICES ASSUME Anchored PROVE FALSE
        BY DEF Durability
      <4>2. PICK a \in {0, 1}, r \in Known, b \in DataBlocks : Anchor(a, r, b)
        BY <4>1 DEF Anchored
      <4>3. r \in Root
        BY KnownRoot
      <4>4. TrySlot(vol, a)
        BY <2>1, <2>3, <4>2, <4>3, AnchorReads
      <4> QED
        BY <3>2, <4>4
    <3>4. ~IsSuper(vol[0])
      BY <2>1, <2>3, <3>2, <3>3, FreshReads DEF IsSuper
    <3>5. \A c \in media[0] : ~IsSuper(c)
      <4>1. \A c \in media[0] : c = vol[0]
        BY <2>1, <3>1, BlockFacts DEF Unsettled
      <4> QED
        BY <3>4, <4>1
    <3>6. Touches({1, 2}, {FirstRoot(commits + 1), Blank})
      BY <2>4, FormatRootTouches
    <3>7. media'[0] = media[0] /\ \A c \in media'[1] : ~IsSuper(c)
      BY <2>2, <3>3, <3>6, BlockFacts DEF Touches, Fresh
    <3>8. pc' = "fmt_root" => vol'[2] = FirstRoot(commits')
      BY <3>1, BlockFacts DEF DevWrite, FormatWrites
    <3>9. FirstIsSane
      BY <3>3 DEF Fresh
    <3> QED
      BY <2>1, <3>1, <3>5, <3>7, <3>8, <3>9 DEF Durability, Fresh, FormatSteps
  <2>5. CASE FormatBarrier
    <3>1. /\ pc = "fmt_root" /\ pc \in FormatSteps /\ UNCHANGED <<saved, doubt, vol, commits>>
          /\ \/ DevFlush /\ pc' = "fmt_barrier"
             \/ UNCHANGED media /\ pc' = "idle"
      BY <2>5 DEF FormatBarrier, history, FormatSteps, DevFlush, DevFlushError, devVars
    <3>2. Fresh
      BY <3>1 DEF Durability, Anchored
    <3>3. CASE UNCHANGED media /\ pc' = "idle"
      BY <2>1, <3>1, <3>2, <3>3 DEF Durability, Fresh, FormatSteps
    <3>4. CASE DevFlush /\ pc' = "fmt_barrier"
      <4>1. media'[0] = {vol[0]} /\ media'[1] = {vol[1]} /\ media'[2] = {vol[2]}
        BY <3>4, BlockFacts DEF DevFlush
      <4>2. vol[2] = FirstRoot(commits) /\ ~IsSuper(vol[0]) /\ ~IsSuper(vol[1])
        BY <2>1, <3>1, <3>2, BlockFacts DEF Fresh
      <4> QED
        BY <2>1, <3>1, <3>2, <3>4, <4>1, <4>2 DEF Durability, Fresh, FormatSteps
    <3> QED
      BY <3>1, <3>3, <3>4
  <2>6. CASE FormatSuper
    <3>1. /\ pc = "fmt_barrier" /\ pc \in FormatSteps /\ UNCHANGED <<saved, commits>>
          /\ doubt' = doubt \cup {FirstRoot(commits)} /\ pc' \in {"fmt_super", "idle"}
          /\ pc' = "fmt_super" => DevWrite([b \in {0} |-> Super(FirstRoot(commits), 2)])
      BY <2>6 DEF FormatSuper, FormatSteps
    <3>2. Fresh
      BY <3>1 DEF Durability, Anchored
    <3>3. Touches({0}, {Super(FirstRoot(commits), 2)})
      BY <2>6, FormatSuperTouches
    <3>4. media'[1] = media[1] /\ media'[2] = media[2] /\ vol'[2] = vol[2]
      BY <3>3, BlockFacts DEF Touches
    <3>5. media[2] = {FirstRoot(commits)} /\ vol[2] = FirstRoot(commits) /\ saved = NoRoot
      BY <3>1, <3>2 DEF Fresh
    <3>6. ASSUME NEW c \in media'[0], IsSuper(c) PROVE c = Super(FirstRoot(commits), 2)
      <4>1. c \in media[0] \cup {Torn, Super(FirstRoot(commits), 2)}
        BY <3>3, BlockFacts DEF Touches
      <4>2. c \notin media[0]
        BY <3>1, <3>2, <3>6 DEF Fresh
      <4> QED
        BY <2>2, <3>6, <4>1, <4>2
    <3>7. pc' = "fmt_super" => vol'[0] = Super(FirstRoot(commits), 2)
      BY <3>1, BlockFacts DEF DevWrite
    <3>8. \A c \in media'[1] : ~IsSuper(c)
      BY <3>2, <3>4 DEF Fresh
    <3>9. ASSUME NEW c \in media'[0], IsSuper(c)
          PROVE  \E k \in Nat : FirstRoot(k) \in doubt' /\ c = Super(FirstRoot(k), 2) /\ media'[2] = {FirstRoot(k)}
      BY <2>3, <3>1, <3>4, <3>5, <3>6, <3>9
    <3>10. FirstIsSane
      BY <3>2 DEF Fresh
    <3> QED
      BY <2>1, <3>1, <3>4, <3>5, <3>7, <3>8, <3>9, <3>10 DEF Durability, Fresh, FormatSteps
  <2>7. CASE FormatFlush
    <3>1. /\ pc = "fmt_super" /\ pc \in FormatSteps /\ UNCHANGED <<vol, commits>>
          /\ pc' = "idle" /\ pc' \notin FormatSteps
          /\ \/ DevFlush /\ saved' = FirstRoot(commits)
             \/ UNCHANGED <<media, saved, doubt>>
      BY <2>7 DEF FormatFlush, history, FormatSteps, DevFlush, DevFlushError, devVars
    <3>2. Fresh
      BY <3>1 DEF Durability, Anchored
    <3>3. CASE UNCHANGED <<media, saved, doubt>>
      BY <2>1, <3>1, <3>3, <1>DurUnmounted
    <3>4. CASE DevFlush /\ saved' = FirstRoot(commits)
      <4>1. media'[0] = {vol[0]} /\ media'[1] = {vol[1]} /\ media'[2] = {vol[2]}
        BY <3>4, BlockFacts DEF DevFlush
      <4>2. vol[2] = FirstRoot(commits) /\ vol[0] = Super(FirstRoot(commits), 2) /\ ~IsSuper(vol[1])
        BY <2>1, <3>1, <3>2, BlockFacts DEF Fresh
      <4>3. ASSUME NEW r \in Root, r = FirstRoot(commits) PROVE Durability'
        <5>1. RootSane(r) /\ Objs(r) = {}
          BY <2>3, <3>2, <4>3, FirstEmpty DEF Fresh, FirstIsSane
        <5>2. Durable(r, 2)'
          BY <4>1, <4>2, <4>3, <5>1, BlockFacts DEF Durable
        <5>3. GenOf(saved') <= r.gen
          BY <3>4, <4>3, GenOfRoot
        <5>4. Anchor(0, r, 2)'
          BY <2>1, <4>1, <4>2, <4>3, <5>2, <5>3, SMTT(30) DEF Anchor
        <5> QED
          BY <3>1, <3>4, <4>3, <5>4, <1>AnchoredNew, BlockFacts
      <4> QED
        BY <2>3, <4>3, FirstRootType
    <3> QED
      BY <3>1, <3>3, <3>4
  <2> QED
    BY <2>4, <2>5, <2>6, <2>7
\* After a power loss, while the outcomes of the unflushed writes are drawn.
<1>DurSettle. ASSUME Settle PROVE Durability'
  <2> USE <1>DurSettle
  <2>1. /\ ~up /\ ~mounted /\ ~mounted' /\ UNCHANGED <<saved, doubt, pc, commits>> /\ pc \notin FormatSteps
    BY DEF Settle, storeVars, history, TypeOK
  <2>2. PICK x \in Blocks : x \in Unsettled /\ \E c \in media[x] : media' = [media EXCEPT ![x] = {c}]
    BY DEF Settle, DevSettle, Unsettled
  <2>3. \A y \in Blocks : /\ media'[y] \subseteq media[y]
                          /\ \A e : media[y] = {e} => media'[y] = media[y]
    <3>1. DOMAIN media = Blocks
      BY DEF TypeOK
    <3>2. \A e : media[x] # {e}
      BY <2>2 DEF Unsettled
    <3> QED
      BY <2>2, <3>1, <3>2
  <2>4. CASE Fresh
    <3>1. ASSUME NEW e \in media'[0], IsSuper(e)
          PROVE  \E k \in Nat : FirstRoot(k) \in doubt' /\ e = Super(FirstRoot(k), 2) /\ media'[2] = {FirstRoot(k)}
      <4>1. PICK k \in Nat : FirstRoot(k) \in doubt /\ e = Super(FirstRoot(k), 2) /\ media[2] = {FirstRoot(k)}
        BY <2>3, <2>4, <3>1, BlockFacts DEF Fresh
      <4> QED
        BY <2>1, <2>3, <4>1, BlockFacts
    <3>2. \A e \in media'[1] : ~IsSuper(e)
      BY <2>3, <2>4, BlockFacts DEF Fresh
    <3> QED
      BY <2>1, <2>4, <3>1, <3>2 DEF Durability, Fresh, FormatSteps
  <2>5. CASE Anchored
    <3>1. PICK a \in {0, 1}, r \in Known, b \in DataBlocks : Anchor(a, r, b)
      BY <2>5 DEF Anchored
    <3>2. a \in Blocks /\ 1 - a \in Blocks
      BY BlockFacts, SMTT(30)
    <3>3. media'[a] = media[a] /\ media'[1 - a] \subseteq media[1 - a]
      BY <2>3, <3>1, <3>2 DEF Anchor
    <3>4. ASSUME NEW y \in MarkRoot(r, b) PROVE media'[y] = media[y]
      <4>1. CASE y = b
        BY <2>3, <3>1, <4>1, BlockFacts DEF Anchor, Durable
      <4>2. CASE y # b
        <5>1. PICK n \in Objs(r) : y \in Extent(r.obj[n])
          BY <4>2 DEF MarkRoot
        <5>2. PICK i \in 0 .. r.obj[n].nblk - 1 : y = r.obj[n].blk + i
          BY <5>1 DEF Extent
        <5>3. y \in Blocks
          BY <3>1, <5>1, BlockFacts DEF Anchor, Durable, RootSane
        <5>4. media[y] = {Data(r.obj[n].val, i)}
          BY <3>1, <5>1, <5>2 DEF Anchor, Durable
        <5> QED
          BY <2>3, <5>3, <5>4
      <4> QED
        BY <4>1, <4>2
    <3>5. Anchor(a, r, b)'
      BY <2>1, <3>1, <3>3, <3>4, <1>AnchorFrame
    <3> QED
      BY <2>1, <3>5, <1>AnchoredFrame
  <2> QED
    BY <2>4, <2>5 DEF Durability
<1>DurBoot. ASSUME Boot PROVE Durability'
  <2> USE <1>DurBoot
  \* A slot that verifies on a settled medium can be the anchor.
  <2>SlotAnchor.
      ASSUME NEW d \in [Blocks -> Content], \A x \in Blocks : media'[x] = {d[x]},
             NEW a \in {0, 1}, NEW r \in Root, NEW b, d[a] = Super(r, b), d[b] = r, TrySlot(d, a),
             IsSuper(d[1 - a]) => Behind(r, b, d[1 - a])', saved' = r,
             ~mounted', pc' \notin FormatSteps
      PROVE  Durability'
    <3> USE <2>SlotAnchor
    <3>1. d[a].blk = b
      BY SuperOf, SMTT(30)
    <3>2. b \in DataBlocks /\ RootSane(r) /\ \A n \in Objs(r) : VerifyExtent(d, r.obj[n])
      BY <3>1 DEF TrySlot, LoadRoot
    <3>3. a \in Blocks /\ 1 - a \in Blocks /\ b \in Blocks
      BY <3>2, BlockFacts, OtherSlot
    <3>4. Durable(r, b)'
      <4>1. ASSUME NEW n \in Objs(r), NEW i \in 0 .. r.obj[n].nblk - 1
            PROVE  media'[r.obj[n].blk + i] = {Data(r.obj[n].val, i)}
        <5>1. r.obj[n].blk + i \in Blocks
          BY <3>2, BlockFacts, SaneExtent
        <5>2. d[r.obj[n].blk + i] = Data(r.obj[n].val, i)
          BY <3>2 DEF VerifyExtent
        <5> QED
          BY <5>1, <5>2
      <4> QED
        BY <3>2, <3>3, <4>1 DEF Durable
    <3>5. GenOf(saved') <= r.gen
      BY GenOfRoot
    <3>6. media'[a] = {Super(r, b)} /\ \A c \in media'[1 - a] : IsSuper(c) => Behind(r, b, c)'
      BY <3>3
    <3>7. Anchor(a, r, b)'
      BY <3>4, <3>5, <3>6 DEF Anchor
    <3> QED
      BY <3>2, <3>7, <1>AnchoredNew
  <2>1. /\ ~mounted /\ ~mounted' /\ UNCHANGED <<media, pc, commits>>
        /\ pc' \notin FormatSteps /\ saved' = Recovered(vol) /\ vol \in [Blocks -> Content]
        /\ doubt' = {s \in doubt : s.gen > GenOf(saved') /\ \E i \in Rejected(vol) :
                                      vol[i] = Super(s, vol[i].blk)}
    BY DEF Boot, devVars, storeVars, TypeOK
  <2>2. \A x \in Blocks : media[x] = {vol[x]} /\ media'[x] = {vol[x]} /\ vol[x] \in media[x]
    BY <2>1 DEF Boot, DevInv
  <2>3. CASE Fresh
    <3>1. CASE MountSlots(vol) = {}
      <4>1. ~IsSuper(vol[0])
        BY <2>1, <2>2, <2>3, <3>1, FreshReads, SomeSlot DEF IsSuper
      <4>2. saved' = NoRoot
        BY <2>1, <3>1 DEF Recovered
      <4>3. (\A c \in media'[0] : ~IsSuper(c)) /\ (\A c \in media'[1] : ~IsSuper(c))
        BY <2>1, <2>2, <2>3, <4>1, BlockFacts, SMTT(30) DEF Fresh
      <4>4. FirstIsSane
        BY <2>3 DEF Fresh
      <4> QED
        BY <2>1, <4>2, <4>3, <4>4 DEF Durability, Fresh, FormatSteps
    <3>2. CASE MountSlots(vol) # {}
      <4>1. PICK i \in MountSlots(vol) : saved' = vol[vol[i].blk]
        BY <2>1, <3>2, RecoveredSlot
      <4>2. i = 0
        BY <2>1, <2>2, <2>3, FreshPick
      <4>3. PICK k \in Nat : vol[0] = Super(FirstRoot(k), 2) /\ vol[2] = FirstRoot(k)
        BY <2>1, <2>2, <2>3, FreshPick
      <4>4. saved' = FirstRoot(k)
        BY <4>1, <4>2, <4>3, SuperOf, SMTT(30)
      <4>5. TrySlot(vol, 0)
        BY <4>1, <4>2 DEF MountSlots
      <4>6. ~IsSuper(vol[1]) /\ FirstRoot(k) \in Root
        BY <2>2, <2>3, BlockFacts, FirstRootType DEF Fresh
      <4> QED
        BY <2>1, <2>2, <4>3, <4>4, <4>5, <4>6, <2>SlotAnchor, OtherSlot
    <3> QED
      BY <3>1, <3>2
  <2>4. CASE Anchored
    <3>1. PICK a \in {0, 1}, r \in Known, b \in DataBlocks : Anchor(a, r, b)
      BY <2>4 DEF Anchored
    <3>2. r \in Root /\ r.gen \in Nat
      BY KnownRoot DEF Root
    <3>3. vol[a] = Super(r, b) /\ vol[b] = r /\ TrySlot(vol, a)
      BY <2>1, <2>2, <3>1, <3>2, AnchorReads, OtherSlot, SMTT(30)
    <3>4. PICK i \in MountSlots(vol) : saved' = vol[vol[i].blk]
      BY <2>1, <3>3, RecoveredSlot, SomeSlot
    <3>5. CASE i = a /\ vol[i].blk = b /\ vol[vol[i].blk] = r
      <4>1. saved' = r
        BY <3>4, <3>5
      <4>2. GenOf(saved') = r.gen
        BY <3>2, <4>1, GenOfRoot
      <4>3. ASSUME NEW c, c = vol[1 - a], IsSuper(c) PROVE Behind(r, b, c)'
        <5>1. Behind(r, b, c)
          BY <2>2, <3>1, <4>3, BlockFacts, OtherSlot DEF Anchor
        <5>2. CASE c.gen < r.gen
          BY <5>2 DEF Behind
        <5>3. ASSUME NEW s \in doubt, c = Super(s, c.blk), s.gen > r.gen,
                     1 \in DOMAIN s.hist, s.hist[1] = RefTo(r, b)
              PROVE  Behind(r, b, c)'
          <6>1. vol[1 - a].gen = s.gen /\ vol[a].gen = r.gen /\ s.gen \in Nat /\ 1 - a \in {0, 1}
            <7>1. s \in Root
              BY <5>3 DEF TypeOK
            <7>2. s.gen \in Nat
              BY <7>1, SMTT(30) DEF Root
            <7>3. vol[1 - a].gen = s.gen /\ vol[a].gen = r.gen
              BY <3>3, <4>3, <5>3, SuperOf, OtherSlot, SMTT(30)
            <7>4. 1 - a \in {0, 1}
              BY <3>1, OtherSlot
            <7> QED
              BY <7>2, <7>3, <7>4
          <6>2. ~TrySlot(vol, 1 - a)
            BY <3>2, <3>5, <5>3, <6>1, OtherSlot, SMTT(30) DEF MountSlots
          <6>3. 1 - a \in Rejected(vol)
            BY <4>3, <6>1, <6>2 DEF Rejected, IsSuper
          <6>4. s \in doubt'
            BY <2>1, <4>2, <4>3, <5>3, <6>3
          <6> QED
            BY <5>3, <6>4 DEF Behind
        <5> QED
          BY <5>1, <5>2, <5>3 DEF Behind
      <4> QED
        BY <2>1, <2>2, <3>2, <3>3, <4>1, <4>3, <2>SlotAnchor
    <3>6. ASSUME i = 1 - a, NEW s \in doubt, vol[i] = Super(s, vol[i].blk), vol[vol[i].blk] = s,
                 s.gen > r.gen
          PROVE  Durability'
      <4>1. s \in Root /\ saved' = s /\ 1 - i = a /\ i \in {0, 1} /\ TrySlot(vol, i)
        BY <3>4, <3>6, OtherSlot DEF TypeOK, MountSlots
      <4>2. ASSUME NEW k, NEW c, c = vol[1 - i] PROVE Behind(s, k, c)'
        BY <3>3, <3>6, <4>1, <4>2, SuperFields, SMTT(30) DEF Behind
      <4> QED
        BY <2>1, <2>2, <3>6, <4>1, <4>2, <2>SlotAnchor
    <3> QED
      BY <2>1, <2>2, <3>1, <3>5, <3>6, AnchorPick, OtherSlot, SMTT(30)
  <2> QED
    BY <2>3, <2>4 DEF Durability
<1>AnchorStep. Durability'
  <2>1. CASE UNCHANGED vars
    <3>1. UNCHANGED <<vol, media, pc, mounted, cur, curBlk, curSlot, used, commits, saved, doubt>>
      BY <2>1 DEF vars, devVars, storeVars, history
    <3>2. CASE Fresh
      BY <3>1, <3>2 DEF Durability, Fresh
    <3>3. CASE Anchored
      <4>1. PICK a \in {0, 1}, r \in Known, b \in DataBlocks : Anchor(a, r, b)
        BY <3>3 DEF Anchored
      <4>2. Anchor(a, r, b)'
        <5>1. mounted => /\ MarkRoot(r, b) \subseteq used
                         /\ curSlot = a \/ (pc \in {"idle", "root"} /\ cur.gen > r.gen)
          BY <4>1 DEF Anchor
        <5> QED
          BY <3>1, <4>1, <5>1, <1>AnchorFrame
      <4> QED
        BY <3>1, <3>3, <4>2, <1>AnchoredFrame DEF Anchored
    <3> QED
      BY <3>2, <3>3 DEF Durability
  <2>2. CASE PowerLoss
    BY <2>2, <1>DurUnmounted DEF PowerLoss, StoreZero, DevPowerLoss, history
  <2> QED
    BY <2>1, <2>2, StepCases, NoOtherFaults, <1>DurTx, <1>DurMount, <1>DurBarrier, <1>DurSuper, <1>DurFlush,
       <1>DurFormat, <1>DurSettle, <1>DurBoot
<1>CurKnownStep. CurKnown'
  <2>1. CASE UNCHANGED vars
    BY <2>1 DEF vars, storeVars, history, CurKnown, Known
  <2>2. CASE TxCalls
    BY <2>2, TxEffect DEF CurKnown, Known
  <2>3. CASE FormatRoot \/ FormatBarrier \/ FormatSuper \/ FormatFlush
    BY <2>3 DEF FormatRoot, FormatBarrier, FormatSuper, FormatFlush, storeVars, TypeOK, FormatSteps,
                CurKnown
  <2>4. CASE CommitBarrier
    BY <2>4 DEF CommitBarrier, history, CurKnown, Known
  <2>5. CASE CommitSuper
    BY <2>5 DEF CommitSuper, CurKnown, Known, TypeOK, CommitSteps
  <2>6. CASE CommitFlush
    <3>1. work \in Root /\ work # NoRoot
      <4>1. work \in Root
        BY <2>6 DEF CommitFlush, TypeOK, CommitSteps
      <4> QED
        BY <4>1, GenOfRoot
    <3> QED
      BY <2>6, <3>1 DEF CommitFlush, CurKnown, Known
  <2>7. CASE PowerLoss \/ Settle \/ Boot
    BY <2>7 DEF PowerLoss, Settle, Boot, StoreZero, storeVars, TypeOK, CurKnown
  <2> QED
    BY <2>1, <2>2, <2>3, <2>4, <2>5, <2>6, <2>7, StepCases, NoOtherFaults, <1>DurMount
<1> QED
  BY <1>AnchorStep, <1>CurKnownStep

LEMMA DurInvStep ==
    ASSUME DurInv, SaneInv', [Next]_vars, Faults \subseteq {"write", "flush"} PROVE DurInv'
<1>1. TypeOK' /\ Intact' /\ DevInv' /\ SlotInv'
  BY NoOtherFaults, TypeStep, IntactStep, DevInvStep, SlotInvStep DEF DurInv
<1>2. CrcInv' /\ CurKnown' /\ Durability'
  BY CrcStep, DurStep DEF DurInv
<1> QED
  BY <1>1, <1>2 DEF DurInv

LEMMA DurMountable == DurInv => AlwaysMountable
<1> SUFFICES ASSUME DurInv, saved # NoRoot, Unsettled = {} PROVE MountSlots(vol) # {}
  BY DEF AlwaysMountable
<1>1. Anchored
  BY DEF DurInv, Durability, Fresh
<1>2. \A x \in Blocks : vol[x] \in media[x]
  BY DEF DurInv, DevInv
<1> QED
  BY <1>1, <1>2, AnchorMounts DEF DurInv

----------------------------------------------------------------------------
(* What the store retains.                                                 *)

\* The blocks of every retained generation that loads are in use: this is what
\* recompute_used is for.
Covered ==
    mounted => \A ref \in Refs(cur) :
                  /\ ref.blk \in used
                  /\ LoadRoot(vol, ref) => MarkRoot(vol[ref.blk], ref.blk) \subseteq used

\* While the store stays mounted, no step writes a block in use but the slots.
LEMMA UsedKept ==
    ASSUME TypeOK, mounted, mounted', [Next]_vars
    PROVE  \A x \in DataBlocks \cap used : vol'[x] = vol[x]
<1>1. CASE UNCHANGED vars
  BY <1>1 DEF vars, devVars
<1>2. CASE TxCalls
  <2>1. PICK S, C : TxWrite(S, C)
    BY <1>2, TxEffect
  <2> QED
    BY <2>1, BlockFacts DEF TxWrite, Touches
<1>3. CASE FormatRoot \/ FormatBarrier \/ FormatSuper \/ FormatFlush
  BY <1>3 DEF FormatRoot, FormatBarrier, FormatSuper, FormatFlush, TypeOK, FormatSteps
<1>4. CASE CommitBarrier \/ CommitFlush
  BY <1>4 DEF CommitBarrier, CommitFlush, DevFlush, DevFlushError, devVars
<1>5. CASE CommitSuper
  BY <1>5, CommitSuperTouches, BlockFacts, SMTT(30) DEF Touches, TypeOK
<1>6. CASE Mount \/ PowerLoss \/ Settle \/ Rot \/ Boot
  BY <1>6 DEF Mount, PowerLoss, StoreZero, Settle, Rot, Boot, TypeOK
<1> QED
  BY <1>1, <1>2, <1>3, <1>4, <1>5, <1>6, StepCases

LEMMA CoveredStep ==
    ASSUME TypeOK, Covered, [Next]_vars, "read" \notin Faults PROVE Covered'
\* The steps that give the store another generation recompute the map.
<1>CurKept.
    ASSUME mounted'
    PROVE  \/ mounted /\ UNCHANGED <<cur, used>>
           \/ UNCHANGED vol /\ used' = RecomputeUsed(vol, cur', curBlk')
  <2> USE <1>CurKept
  <2>1. CASE UNCHANGED vars
    BY <2>1 DEF vars, storeVars
  <2>2. CASE TxCalls
    BY <2>2, TxEffect
  <2>3. CASE FormatRoot \/ FormatBarrier \/ FormatSuper \/ FormatFlush
    BY <2>3 DEF FormatRoot, FormatBarrier, FormatSuper, FormatFlush, storeVars, TypeOK, FormatSteps
  <2>4. CASE CommitBarrier
    BY <2>4 DEF CommitBarrier
  <2>5. CASE CommitSuper
    BY <2>5 DEF CommitSuper, TypeOK, CommitSteps
  <2>6. CASE CommitFlush
    BY <2>6, OneRead DEF CommitFlush, DevFlush
  <2>7. CASE Mount
    BY <2>7, OneRead DEF Mount, devVars
  <2>8. CASE PowerLoss \/ Settle \/ Rot \/ Boot
    BY <2>8 DEF PowerLoss, StoreZero, Settle, Rot, Boot, storeVars, TypeOK
  <2> QED
    BY <2>1, <2>2, <2>3, <2>4, <2>5, <2>6, <2>7, <2>8, StepCases
<1> SUFFICES ASSUME mounted', NEW ref \in Refs(cur')
             PROVE  /\ ref.blk \in used'
                    /\ LoadRoot(vol', ref) => MarkRoot(vol'[ref.blk], ref.blk) \subseteq used'
  BY DEF Covered
<1>1. CASE mounted /\ UNCHANGED <<cur, used>>
  <2>1. ref.blk \in used /\ (LoadRoot(vol, ref) => MarkRoot(vol[ref.blk], ref.blk) \subseteq used)
    BY <1>1 DEF Covered
  <2>2. ref.blk \in DataBlocks => vol'[ref.blk] = vol[ref.blk]
    BY <1>1, <2>1, UsedKept
  <2>3. LoadRoot(vol', ref) => LoadRoot(vol, ref) /\ ref.blk \in DataBlocks
    BY <2>2 DEF LoadRoot
  <2> QED
    BY <1>1, <2>1, <2>2, <2>3
<1>2. CASE UNCHANGED vol /\ used' = RecomputeUsed(vol, cur', curBlk')
  <2>1. ref.blk \in MarkRoot(vol[ref.blk], ref.blk)
    BY DEF MarkRoot
  <2>2. (IF LoadRoot(vol, ref) THEN MarkRoot(vol[ref.blk], ref.blk) ELSE {ref.blk}) \subseteq used'
    BY <1>2 DEF RecomputeUsed
  <2> QED
    BY <1>2, <2>1, <2>2
<1> QED
  BY <1>1, <1>2, <1>CurKept

\* A generation that can be read back stays readable as long as the store is
\* mounted and retains it: no transaction, failed commit or superblock touches
\* its root or its extents.  This holds on a medium that has decayed, too; the
\* exception is a failed read, after which recompute_used may leave the extents
\* of a retained generation out of the map.
THEOREM RetainedStaysReadable ==
    ASSUME "read" \notin Faults PROVE Spec => RetainedStable
<1>1. Init => Covered
  BY DEF Init, Covered
<1>2. TypeOK /\ Covered /\ [Next]_vars => Covered'
  BY CoveredStep
<1>3. TypeOK /\ Covered /\ [Next]_vars =>
        (mounted /\ mounted' =>
           \A ref \in Refs(cur) \cap Refs(cur)' : Readable(vol, ref) => Readable(vol, ref)')
  <2> SUFFICES ASSUME TypeOK, Covered, [Next]_vars, mounted, mounted',
                      NEW ref \in Refs(cur), Readable(vol, ref)
               PROVE  Readable(vol', ref)
    OBVIOUS
  <2>1. \A x \in DataBlocks \cap used : vol'[x] = vol[x]
    BY UsedKept
  <2>2. LoadRoot(vol, ref) /\ ref.blk \in DataBlocks /\ RootSane(vol[ref.blk])
    BY DEF Readable, LoadRoot
  <2>3. ref.blk \in used /\ MarkRoot(vol[ref.blk], ref.blk) \subseteq used
    BY <2>2 DEF Covered
  <2>4. vol'[ref.blk] = vol[ref.blk]
    BY <2>1, <2>2, <2>3
  <2>5. LoadRoot(vol', ref)
    BY <2>2, <2>4 DEF LoadRoot
  <2>6. ASSUME NEW n \in Objs(vol[ref.blk]) PROVE VerifyExtent(vol', vol[ref.blk].obj[n])
    <3> DEFINE o == vol[ref.blk].obj[n]
    <3>1. VerifyExtent(vol, o)
      BY DEF Readable
    <3>2. Extent(o) \subseteq DataBlocks \cap used
      BY <2>2, <2>3, ZenonT(30) DEF MarkRoot, RootSane
    <3>3. \A i \in 0 .. o.nblk - 1 : o.blk + i \in DataBlocks \cap used
      BY <3>2 DEF Extent
    <3> HIDE DEF o
    <3>4. VerifyExtent(vol', o)
      BY <2>1, <3>1, <3>3 DEF VerifyExtent
    <3> QED
      BY <3>4 DEF o
  <2> QED
    BY <2>4, <2>5, <2>6 DEF Readable
<1> QED
  BY <1>1, <1>2, <1>3, TypeCorrect, PTL DEF Spec, RetainedStable

----------------------------------------------------------------------------
(***************************************************************************)
(* A device that does not fail.  d is a content the device may have; the   *)
(* generations a root needs are its own and the ones it retains.           *)
(***************************************************************************)
RootExtent(k) == <<k, 1, "root">>
ObjExtent(o) == <<o.blk, o.nblk, o.oid>>
GenBlocks(r, b) == {b} \cup {ref.blk : ref \in Refs(r)}
Extents(d, r, b) ==
    {RootExtent(k) : k \in GenBlocks(r, b)}
    \cup UNION {{ObjExtent(d[k].obj[n]) : n \in Objs(d[k])} : k \in GenBlocks(r, b)}
Disjoint(E) == \A e, f \in E : e # f => ExtentOf(e) \cap ExtentOf(f) = {}

Clean(d, r, b) ==
    /\ \A ref \in Refs(r) : Readable(d, ref)
    /\ Disjoint(Extents(d, r, b))

\* Slot i holds a clean generation, and the other slot one that it retains.
SlotRef(c) == [gen |-> c.gen, blk |-> c.blk, crc |-> c.crc]
GoodSlot(d, i) ==
    /\ TrySlot(d, i) /\ Clean(d, d[d[i].blk], d[i].blk)
    /\ IsSuper(d[1 - i]) => SlotRef(d[1 - i]) \in Refs(d[d[i].blk])
GoodDisk(d) == (\A i \in {0, 1} : ~IsSuper(d[i])) \/ \E i \in {0, 1} : GoodSlot(d, i)

\* What a superblock names is the generation it was written for.
LEMMA SuperRef ==
    ASSUME NEW r, NEW b
    PROVE  /\ SlotRef(Super(r, b)) = RefTo(r, b) /\ IsSuper(Super(r, b))
           /\ Super(r, b).blk = b
BY SMTT(30) DEF SlotRef, RefTo, Super, IsSuper

LEMMA ExtentBlocks ==
    /\ \A k \in Nat : ExtentOf(RootExtent(k)) = {k}
    /\ \A o : ExtentOf(ObjExtent(o)) = Extent(o)
<1>1. ASSUME NEW k \in Nat PROVE ExtentOf(RootExtent(k)) = {k}
  <2>1. ExtentOf(RootExtent(k)) = {k + i : i \in 0 .. 0}
    BY SMTT(30) DEF ExtentOf, RootExtent
  <2>2. 0 .. 0 = {0} /\ k + 0 = k
    BY SMTT(30)
  <2> QED
    BY <2>1, <2>2
<1>2. ASSUME NEW o PROVE ExtentOf(ObjExtent(o)) = Extent(o)
  BY DEF ExtentOf, ObjExtent, Extent
<1> QED
  BY <1>1, <1>2

\* A superblock verifies when the generation it refers to can be read back.
LEMMA SlotReadable ==
    ASSUME NEW d, NEW i PROVE TrySlot(d, i) <=> IsSuper(d[i]) /\ Readable(d, SlotRef(d[i]))
BY DEF TrySlot, Readable, LoadRoot, SlotRef, IsSuper

\* The history of a root st_mount accepts holds older generations only.
HistoryOlder ==
    \A r \in Root : RootSane(r) => \A i \in DOMAIN r.hist : r.hist[i].gen < r.gen

\* What a retained generation that can be read back keeps in use.
LEMMA RetainedUsed ==
    ASSUME NEW d, NEW r, NEW b, NEW ref \in Refs(r), Readable(d, ref)
    PROVE  /\ ref.blk \in DataBlocks
           /\ MarkRoot(d[ref.blk], ref.blk) \subseteq DataBlocks \cap RecomputeUsed(d, r, b)
           /\ ref.blk \in DataBlocks \cap RecomputeUsed(d, r, b)
<1>1. LoadRoot(d, ref) /\ ref.blk \in DataBlocks /\ RootSane(d[ref.blk])
  BY DEF Readable, LoadRoot
<1>2. MarkRoot(d[ref.blk], ref.blk) \subseteq DataBlocks
  <2>1. \A n \in Objs(d[ref.blk]) : Extent(d[ref.blk].obj[n]) \subseteq DataBlocks
    BY <1>1 DEF RootSane
  <2> QED
    BY <1>1, <2>1 DEF MarkRoot
<1>3. MarkRoot(d[ref.blk], ref.blk) \subseteq RecomputeUsed(d, r, b)
  BY <1>1 DEF RecomputeUsed
<1>4. ref.blk \in MarkRoot(d[ref.blk], ref.blk)
  BY DEF MarkRoot
<1> QED
  BY <1>1, <1>2, <1>3, <1>4

\* The extents of a clean generation are in use.
LEMMA ExtentsUsed ==
    ASSUME NEW d, NEW r, NEW b \in DataBlocks, d[b] = r, Clean(d, r, b), NEW e \in Extents(d, r, b)
    PROVE  ExtentOf(e) \subseteq RecomputeUsed(d, r, b)
<1>1. ASSUME NEW k \in GenBlocks(r, b) PROVE k \in Nat /\ MarkRoot(d[k], k) \subseteq RecomputeUsed(d, r, b)
  <2>1. CASE k = b
    BY <2>1, RecomputeUsedCovers, NBlocksAssumption, SMTT(30) DEF DataBlocks
  <2>2. CASE k # b
    <3>1. PICK ref \in Refs(r) : k = ref.blk
      BY <2>2 DEF GenBlocks
    <3>2. Readable(d, ref)
      BY DEF Clean
    <3>3. ref.blk \in DataBlocks /\ MarkRoot(d[ref.blk], ref.blk) \subseteq RecomputeUsed(d, r, b)
      BY <3>2, RetainedUsed
    <3> QED
      BY <3>1, <3>3, NBlocksAssumption, SMTT(30) DEF DataBlocks
  <2> QED
    BY <2>1, <2>2
<1>2. ASSUME NEW k \in GenBlocks(r, b), e = RootExtent(k) PROVE ExtentOf(e) \subseteq RecomputeUsed(d, r, b)
  BY <1>1, <1>2, ExtentBlocks DEF MarkRoot
<1>3. ASSUME NEW k \in GenBlocks(r, b), NEW n \in Objs(d[k]), e = ObjExtent(d[k].obj[n])
      PROVE  ExtentOf(e) \subseteq RecomputeUsed(d, r, b)
  <2>1. Extent(d[k].obj[n]) \subseteq MarkRoot(d[k], k)
    BY DEF MarkRoot
  <2>2. ExtentOf(e) = Extent(d[k].obj[n])
    BY <1>3, ExtentBlocks
  <2> QED
    BY <1>1, <2>1, <2>2
<1> QED
  BY <1>2, <1>3, SMTT(30) DEF Extents

\* A clean generation stays clean when no block in use changes.
LEMMA CleanFrame ==
    ASSUME NEW d, NEW e, NEW r, NEW b \in DataBlocks, d[b] = r, Clean(d, r, b),
           \A x \in DataBlocks \cap RecomputeUsed(d, r, b) : e[x] = d[x]
    PROVE  /\ e[b] = r /\ Clean(e, r, b) /\ Extents(e, r, b) = Extents(d, r, b)
           /\ RecomputeUsed(e, r, b) = RecomputeUsed(d, r, b)
<1>1. e[b] = r
  BY RecomputeUsedCovers DEF MarkRoot
<1>2. ASSUME NEW ref \in Refs(r) PROVE e[ref.blk] = d[ref.blk] /\ Readable(e, ref)
  <2>1. Readable(d, ref)
    BY DEF Clean
  <2>2. /\ ref.blk \in DataBlocks \cap RecomputeUsed(d, r, b)
        /\ MarkRoot(d[ref.blk], ref.blk) \subseteq DataBlocks \cap RecomputeUsed(d, r, b)
    BY <2>1, RetainedUsed
  <2>3. e[ref.blk] = d[ref.blk]
    BY <2>2
  <2>4. LoadRoot(e, ref)
    BY <2>1, <2>3 DEF Readable, LoadRoot
  <2>5. ASSUME NEW n \in Objs(d[ref.blk]) PROVE VerifyExtent(e, d[ref.blk].obj[n])
    <3>1. VerifyExtent(d, d[ref.blk].obj[n])
      BY <2>1 DEF Readable
    <3>2. Extent(d[ref.blk].obj[n]) \subseteq DataBlocks \cap RecomputeUsed(d, r, b)
      BY <2>2 DEF MarkRoot
    <3>3. \A i \in 0 .. d[ref.blk].obj[n].nblk - 1 :
             e[d[ref.blk].obj[n].blk + i] = d[d[ref.blk].obj[n].blk + i]
      BY <3>2 DEF Extent
    <3> QED
      BY <3>1, <3>3 DEF VerifyExtent
  <2> QED
    BY <2>3, <2>4, <2>5 DEF Readable
<1>3. \A k \in GenBlocks(r, b) : e[k] = d[k]
  BY <1>1, <1>2 DEF GenBlocks
<1>4. Extents(e, r, b) = Extents(d, r, b)
  BY <1>3, SMTT(30) DEF Extents
<1>5. RecomputeUsed(e, r, b) = RecomputeUsed(d, r, b)
  <2>1. \A ref \in Refs(r) : LoadRoot(d, ref) /\ LoadRoot(e, ref)
    BY <1>2 DEF Clean, Readable
  <2> QED
    BY <1>2, <2>1, SMTT(30) DEF RecomputeUsed
<1> QED
  BY <1>1, <1>2, <1>4, <1>5 DEF Clean

\* The contents the device may be found to have.
Possible == {d \in [Blocks -> Content] : \A x \in Blocks : d[x] \in media[x]}

\* With the store not mounted every one of them is good; while the machine runs
\* there is only one.
DiskGood == ~mounted => \A d \in Possible : GoodDisk(d)
Quiet == up /\ ~mounted /\ pc = "idle" => \A x \in Blocks : media[x] = {vol[x]}

\* The blocks in use by a mounted store are durable, and the map of them is the
\* one recompute_used would compute.  The other slot holds a generation that is
\* retained, until a commit writes its superblock there.
MountedClean ==
    mounted =>
      /\ Clean(vol, cur, curBlk) /\ used = RecomputeUsed(vol, cur, curBlk)
      /\ \A x \in (used \cap DataBlocks) \cup {curSlot} : media[x] = {vol[x]}
      /\ \A c \in media[1 - curSlot] : IsSuper(c) =>
            SlotRef(c) \in Refs(cur) \/ (pc = "super" /\ c = Super(work, newBlk))
      /\ pc \in {"barrier", "super"} => \A x \in DataBlocks : media[x] = {vol[x]}

\* A transaction retains only what the mounted generation retains, and that
\* generation; its objects are shared with those or lie outside all of them.
WorkClean ==
    /\ inTx => /\ \A q \in PinsOf(work) : work.pin[q] \in {RefTo(cur, curBlk)} \cup Refs(cur)
               /\ \A n \in Objs(work) : \/ ObjExtent(work.obj[n]) \in Extents(vol, cur, curBlk)
                                        \/ Extent(work.obj[n]) \cap used = {}
    /\ pc \in CommitSteps =>
          /\ Refs(work) \subseteq {RefTo(cur, curBlk)} \cup Refs(cur)
          /\ newBlk \notin used /\ \A n \in Objs(work) : newBlk \notin Extent(work.obj[n])

RetInv == DurInv /\ DiskGood /\ Quiet /\ MountedClean /\ WorkClean

\* The mounted generation can be read back from any content the device may have.
LEMMA CurReadable ==
    ASSUME DurInv, mounted, NEW e, \A x \in used \cap DataBlocks : e[x] = vol[x]
    PROVE  e[curBlk] = cur /\ Readable(e, RefTo(cur, curBlk))
<1>1. /\ curBlk \in DataBlocks \cap used /\ vol[curBlk] = cur /\ Placed(vol, cur, used)
      /\ RootSane(cur) /\ cur \in Root
  BY DEF DurInv, Intact, CurrentPlaced, SaneInv, TypeOK
<1>2. Placed(e, cur, used)
  BY <1>1, PlacedFrame
<1>3. e[curBlk] = cur
  BY <1>1
<1>4. LoadRoot(e, RefTo(cur, curBlk))
  BY <1>1, <1>3 DEF LoadRoot, RefTo, Root
<1> QED
  BY <1>2, <1>3, <1>4 DEF Readable, Placed, RefTo

\* The generation being committed is clean.
LEMMA WorkIsClean ==
    ASSUME DurInv, MountedClean, WorkClean, pc \in CommitSteps
    PROVE  Clean(vol, work, newBlk) /\ vol[newBlk] = work /\ newBlk \in DataBlocks
<1>1. /\ mounted /\ inTx /\ work \in Root /\ RootSane(work) /\ vol[newBlk] = work
      /\ newBlk \in DataBlocks /\ newBlk \in Nat
  BY NBlocksAssumption DEF DurInv, TypeOK, SaneInv, Intact, RootWritten, DataBlocks
<1>2. /\ Clean(vol, cur, curBlk) /\ used = RecomputeUsed(vol, cur, curBlk)
      /\ curBlk \in DataBlocks /\ vol[curBlk] = cur
  BY <1>1 DEF MountedClean, DurInv, Intact, CurrentPlaced
<1>3. /\ Refs(work) \subseteq {RefTo(cur, curBlk)} \cup Refs(cur)
      /\ newBlk \notin used /\ \A n \in Objs(work) : newBlk \notin Extent(work.obj[n])
      /\ \A n \in Objs(work) : \/ ObjExtent(work.obj[n]) \in Extents(vol, cur, curBlk)
                               \/ Extent(work.obj[n]) \cap used = {}
  BY <1>1 DEF WorkClean
<1>4. \A ref \in Refs(work) : Readable(vol, ref)
  BY <1>1, <1>2, <1>3, CurReadable DEF Clean
<1> DEFINE Old == Extents(vol, cur, curBlk)
           New == {RootExtent(newBlk)}
           Own == {ObjExtent(work.obj[n]) : n \in Objs(work)}
<1>5. Extents(vol, work, newBlk) \subseteq Old \cup New \cup Own
  <2>1. \A k \in GenBlocks(work, newBlk) : k = newBlk \/ k \in GenBlocks(cur, curBlk)
    BY <1>3, SMTT(30) DEF GenBlocks, RefTo
  <2>2. ASSUME NEW e \in Extents(vol, work, newBlk) PROVE e \in Old \cup New \cup Own
    <3>1. ASSUME NEW k \in GenBlocks(work, newBlk), e = RootExtent(k) PROVE e \in Old \cup New
      BY <2>1, <3>1 DEF Extents
    <3>2. ASSUME NEW k \in GenBlocks(work, newBlk), NEW n \in Objs(vol[k]), e = ObjExtent(vol[k].obj[n])
          PROVE  e \in Old \cup Own
      <4>1. CASE k = newBlk
        BY <1>1, <3>2, <4>1
      <4>2. CASE k \in GenBlocks(cur, curBlk)
        BY <3>2, <4>2, SMTT(30) DEF Extents
      <4> QED
        BY <2>1, <4>1, <4>2
    <3> QED
      BY <3>1, <3>2, SMTT(30) DEF Extents
  <2> QED
    BY <2>2
<1>6. /\ \A e \in Old : ExtentOf(e) \subseteq used
      /\ \A e, f \in Old : e # f => ExtentOf(e) \cap ExtentOf(f) = {}
  BY <1>2, ExtentsUsed DEF Clean, Disjoint
<1>7. \A e \in New : e = RootExtent(newBlk) /\ ExtentOf(e) = {newBlk}
  BY <1>1, ExtentBlocks
<1>8. \A e \in Own : e \in Old \/ (ExtentOf(e) \cap used = {} /\ newBlk \notin ExtentOf(e))
  <2>1. \A n \in Objs(work) : ExtentOf(ObjExtent(work.obj[n])) = Extent(work.obj[n])
    BY ExtentBlocks
  <2> QED
    BY <1>3, <2>1
<1>9. \A e, f \in Own : e # f => ExtentOf(e) \cap ExtentOf(f) = {}
  <2>1. ASSUME NEW n \in Objs(work), NEW m \in Objs(work), n # m
        PROVE  Extent(work.obj[n]) \cap Extent(work.obj[m]) = {}
    BY <1>1, <2>1 DEF RootSane
  <2>2. \A n \in Objs(work) : ExtentOf(ObjExtent(work.obj[n])) = Extent(work.obj[n])
    BY ExtentBlocks
  <2> QED
    BY <2>1, <2>2
<1> HIDE DEF Old, New, Own
<1>10. ASSUME NEW e \in Old \cup New \cup Own, NEW f \in Old \cup New \cup Own, e # f
       PROVE  ExtentOf(e) \cap ExtentOf(f) = {}
  <2>1. CASE e \in Old /\ f \in Old
    BY <1>6, <1>10, <2>1
  <2>2. CASE e \in New /\ f \in New
    BY <1>7, <1>10, <2>2
  <2>3. CASE e \in Own /\ f \in Own
    BY <1>9, <1>10, <2>3
  <2>4. CASE (e \in Old /\ f \in New) \/ (e \in New /\ f \in Old)
    BY <1>3, <1>6, <1>7, <2>4
  <2>5. CASE (e \in Old /\ f \in Own) \/ (e \in Own /\ f \in Old)
    BY <1>6, <1>8, <1>10, <2>5
  <2>6. CASE (e \in New /\ f \in Own) \/ (e \in Own /\ f \in New)
    BY <1>3, <1>6, <1>7, <1>8, <2>6, SMTT(30)
  <2>7. (e \in Old \/ e \in New \/ e \in Own) /\ (f \in Old \/ f \in New \/ f \in Own)
    BY <1>10
  <2> QED
    BY <2>1, <2>2, <2>3, <2>4, <2>5, <2>6, <2>7
<1>11. Disjoint(Extents(vol, work, newBlk))
  BY <1>5, <1>10 DEF Disjoint
<1> QED
  BY <1>1, <1>4, <1>11 DEF Clean

LEMMA FreshAllGood == Fresh => \A d \in Possible : GoodDisk(d)
\* So is a device on which st_format has not finished.
<1>FreshGood. ASSUME Fresh, NEW d \in Possible PROVE GoodDisk(d)
  <2> USE <1>FreshGood
  <2>1. d \in [Blocks -> Content] /\ \A x \in Blocks : d[x] \in media[x]
    BY DEF Possible
  <2>2. ~IsSuper(d[1])
    BY <2>1, BlockFacts DEF Fresh
  <2>3. CASE ~IsSuper(d[0])
    BY <2>2, <2>3 DEF GoodDisk
  <2>4. CASE IsSuper(d[0])
    <3>1. PICK k \in Nat : d[0] = Super(FirstRoot(k), 2) /\ d[2] = FirstRoot(k) /\ TrySlot(d, 0)
      BY <2>1, <2>4, FreshReads DEF IsSuper
    <3>2. Refs(FirstRoot(k)) = {} /\ Objs(FirstRoot(k)) = {} /\ d[0].blk = 2
      <4>1. FirstRoot(k).hist = << >> /\ DOMAIN FirstRoot(k).hist = {}
        BY SMTT(30) DEF FirstRoot
      <4>2. PinsOf(FirstRoot(k)) = {}
        BY DEF FirstRoot, PinsOf
      <4> QED
        BY <3>1, <4>1, <4>2, FirstEmpty, SuperFields, SMTT(30) DEF Refs
    <3>3. GenBlocks(FirstRoot(k), 2) = {2}
      BY <3>2 DEF GenBlocks
    <3>4. \A e \in Extents(d, FirstRoot(k), 2) : e = RootExtent(2)
      BY <3>1, <3>2, <3>3 DEF Extents
    <3>5. Clean(d, FirstRoot(k), 2)
      BY <3>2, <3>4 DEF Clean, Disjoint
    <3>6. GoodSlot(d, 0)
      BY <2>2, <3>1, <3>2, <3>5, SMTT(30) DEF GoodSlot
    <3> QED
      BY <3>6 DEF GoodDisk
  <2> QED
    BY <2>3, <2>4
<1> QED
  BY <1>FreshGood

LEMMA FreshGoodNext == (Fresh => \A d \in Possible : GoodDisk(d))'
BY FreshAllGood, PTL

LEMMA NoFaults == ASSUME Faults = {} PROVE /\ Faults \subseteq {"write", "flush"} /\ "read" \notin Faults
                                           /\ \A k : ~CanFault(k)
BY DEF CanFault

LEMMA RetInit == ASSUME FirstIsSane, Init PROVE RetInv
<1>1. DurInv
  BY DurInit
<1>2. /\ ~mounted /\ ~inTx /\ pc = "idle" /\ pc \notin CommitSteps
      /\ vol = [b \in Blocks |-> Blank] /\ media = [b \in Blocks |-> {Blank}] /\ ~IsSuper(Blank)
  BY DEF Init, DevInit, CommitSteps, IsSuper, Blank
<1>3. DiskGood
  <2>1. \A d \in Possible : d[0] = Blank /\ d[1] = Blank
    BY <1>2, BlockFacts DEF Possible
  <2> QED
    BY <1>2, <2>1 DEF DiskGood, GoodDisk
<1>4. Quiet /\ MountedClean /\ WorkClean
  BY <1>2 DEF Quiet, MountedClean, WorkClean
<1> QED
  BY <1>1, <1>3, <1>4 DEF RetInv

LEMMA RetStep ==
    ASSUME HistoryOlder, RetInv, SaneInv', [Next]_vars, Faults = {} PROVE RetInv'
\* A step of a mounted store that leaves the blocks in use and the mounted slot
\* alone.
<1>CleanKept.
    ASSUME DurInv, MountedClean, mounted, UNCHANGED <<mounted, cur, curBlk, curSlot, used>>,
           \A x \in (used \cap DataBlocks) \cup {curSlot} : vol'[x] = vol[x] /\ media'[x] = media[x]
    PROVE  /\ Clean(vol', cur, curBlk) /\ used' = RecomputeUsed(vol', cur, curBlk)
           /\ Extents(vol', cur, curBlk) = Extents(vol, cur, curBlk)
           /\ \A x \in (used' \cap DataBlocks) \cup {curSlot} : media'[x] = {vol'[x]}
  <2> USE <1>CleanKept
  <2>1. /\ Clean(vol, cur, curBlk) /\ used = RecomputeUsed(vol, cur, curBlk)
        /\ \A x \in (used \cap DataBlocks) \cup {curSlot} : media[x] = {vol[x]}
        /\ curBlk \in DataBlocks /\ vol[curBlk] = cur
    BY DEF MountedClean, DurInv, Intact, CurrentPlaced
  <2>2. \A x \in DataBlocks \cap RecomputeUsed(vol, cur, curBlk) : vol'[x] = vol[x]
    BY <2>1
  <2>3. /\ Clean(vol', cur, curBlk) /\ Extents(vol', cur, curBlk) = Extents(vol, cur, curBlk)
        /\ RecomputeUsed(vol', cur, curBlk) = RecomputeUsed(vol, cur, curBlk)
    BY <2>1, <2>2, CleanFrame, SMTT(30)
  <2> QED
    BY <2>1, <2>3
\* The transaction calls.
<1>TxClean.
    ASSUME TxCalls PROVE MountedClean' /\ Extents(vol', cur, curBlk) = Extents(vol, cur, curBlk)
  <2> USE <1>TxClean
  <2>1. /\ mounted /\ pc = "idle" /\ pc' \in {"idle", "root"}
        /\ UNCHANGED <<mounted, cur, curBlk, curSlot, used>>
    BY TxEffect DEF RetInv, DurInv
  <2>2. PICK S, C : TxWrite(S, C)
    BY TxEffect DEF RetInv, DurInv
  <2>3. \A x \in Blocks : x \in used \/ x \notin DataBlocks => vol'[x] = vol[x] /\ media'[x] = media[x]
    BY <2>2 DEF TxWrite, Touches
  <2>4. curSlot \in {0, 1} /\ 1 - curSlot \in {0, 1}
    BY SMTT(30) DEF RetInv, DurInv, TypeOK
  <2>5. /\ \A x \in (used \cap DataBlocks) \cup {curSlot} : vol'[x] = vol[x] /\ media'[x] = media[x]
        /\ media'[1 - curSlot] = media[1 - curSlot]
    BY <2>3, <2>4, BlockFacts
  <2>6. /\ Clean(vol', cur, curBlk) /\ used' = RecomputeUsed(vol', cur, curBlk)
        /\ Extents(vol', cur, curBlk) = Extents(vol, cur, curBlk)
        /\ \A x \in (used' \cap DataBlocks) \cup {curSlot} : media'[x] = {vol'[x]}
    BY <2>1, <2>5, <1>CleanKept DEF RetInv
  <2>7. \A c \in media'[1 - curSlot] : IsSuper(c) => SlotRef(c) \in Refs(cur)
    BY <2>1, <2>5 DEF RetInv, MountedClean
  <2>8. MountedClean'
    BY <2>1, <2>6, <2>7 DEF MountedClean
  <2> QED
    BY <2>6, <2>8
<1>RetUnmounted. ASSUME TypeOK', ~mounted' PROVE MountedClean' /\ WorkClean'
  <2> USE <1>RetUnmounted
  <2>1. ~inTx' /\ pc' \notin CommitSteps
    BY DEF TypeOK
  <2> QED
    BY <2>1 DEF MountedClean, WorkClean
\* Fewer contents, fewer to be good.
<1>GoodFewer.
    ASSUME DiskGood, ~mounted, \A x \in Blocks : media'[x] \subseteq media[x] PROVE DiskGood'
  <2> USE <1>GoodFewer
  <2>1. \A d \in Possible' : d \in Possible
    BY DEF Possible
  <2> QED
    BY <2>1 DEF DiskGood
<1>RetFormat.
    ASSUME DurInv', FormatRoot \/ FormatBarrier \/ FormatSuper \/ FormatFlush
    PROVE  RetInv'
  <2> USE <1>RetFormat
  <2>1. up /\ ~mounted /\ ~mounted'
    BY DEF FormatRoot, FormatBarrier, FormatSuper, FormatFlush, storeVars, RetInv, DurInv, TypeOK, FormatSteps
  <2>2. MountedClean' /\ WorkClean'
    BY <2>1, <1>RetUnmounted DEF DurInv
  <2>3. CASE FormatRoot \/ FormatBarrier \/ FormatSuper
    <3>1. pc' \in FormatSteps /\ pc' # "idle"
      BY <2>3, NoFaults DEF FormatRoot, FormatBarrier, FormatSuper, FormatSteps
    <3>2. Fresh'
      BY <3>1 DEF DurInv, Durability, Anchored
    <3>3. \A d \in Possible' : GoodDisk(d)
      BY <3>2, FreshGoodNext
    <3> QED
      BY <2>2, <3>1, <3>3 DEF RetInv, DiskGood, Quiet
  <2>4. CASE FormatFlush
    <3>1. DevFlush /\ \A x \in Blocks : media'[x] = {vol'[x]} /\ vol[x] \in media[x] /\ vol' = vol
      BY <2>1, <2>4, NoFaults DEF FormatFlush, DevFlush, RetInv, DurInv, DevInv
    <3>2. DiskGood'
      BY <2>1, <3>1, <1>GoodFewer DEF RetInv
    <3> QED
      BY <2>2, <3>1, <3>2 DEF RetInv, Quiet
  <2> QED
    BY <2>3, <2>4
<1>RetPower. ASSUME DurInv', PowerLoss \/ Settle \/ Boot PROVE RetInv'
  <2> USE <1>RetPower
  \* Whatever a power loss leaves of a mounted store is good.
  <2>MountedGood.
      ASSUME DurInv, MountedClean, WorkClean, mounted, NEW d \in Possible PROVE GoodDisk(d)
    <3> USE <2>MountedGood
    <3>1. /\ curSlot \in {0, 1} /\ 1 - curSlot \in {0, 1} /\ 1 - (1 - curSlot) = curSlot
          /\ curBlk \in DataBlocks /\ vol[curBlk] = cur /\ vol[curSlot] = Super(cur, curBlk)
      <4>1. curBlk \in DataBlocks /\ vol[curBlk] = cur /\ vol[curSlot] = Super(cur, curBlk)
        BY DEF DurInv, Intact, CurrentPlaced, SlotInv
      <4>2. curSlot \in {0, 1}
        BY DEF DurInv, TypeOK
      <4> QED
        BY <4>1, <4>2, OtherSlot
    <3>2. /\ Clean(vol, cur, curBlk) /\ used = RecomputeUsed(vol, cur, curBlk)
          /\ \A x \in (used \cap DataBlocks) \cup {curSlot} : media[x] = {vol[x]}
          /\ \A c \in media[1 - curSlot] : IsSuper(c) =>
                SlotRef(c) \in Refs(cur) \/ (pc = "super" /\ c = Super(work, newBlk))
      BY DEF MountedClean
    <3>3. \A x \in Blocks : d[x] \in media[x]
      BY DEF Possible
    <3>4. d[curSlot] = Super(cur, curBlk) /\ \A x \in used \cap DataBlocks : d[x] = vol[x]
      BY <3>1, <3>2, <3>3, BlockFacts
    <3>5. d[1 - curSlot] \in media[1 - curSlot]
      BY <3>1, <3>3, BlockFacts
    <3>6. SlotRef(d[curSlot]) = RefTo(cur, curBlk) /\ IsSuper(d[curSlot]) /\ d[curSlot].blk = curBlk
      BY <3>4, SuperRef, ZenonT(30)
    <3>7. CASE IsSuper(d[1 - curSlot]) => SlotRef(d[1 - curSlot]) \in Refs(cur)
      <4>1. d[curBlk] = cur /\ Clean(d, cur, curBlk)
        BY <3>1, <3>2, <3>4, CleanFrame, SMTT(30)
      <4>2. TrySlot(d, curSlot)
        BY <3>4, <3>6, CurReadable, SlotReadable
      <4> QED
        BY <3>1, <3>6, <3>7, <4>1, <4>2 DEF GoodDisk, GoodSlot
    <3>8. CASE pc = "super" /\ d[1 - curSlot] = Super(work, newBlk)
      <4>1. \A x \in DataBlocks : d[x] = vol[x]
        BY <3>3, <3>8, BlockFacts DEF MountedClean
      <4>2. pc \in CommitSteps
        BY <3>8 DEF CommitSteps
      <4>3. Clean(vol, work, newBlk) /\ vol[newBlk] = work /\ newBlk \in DataBlocks
        BY <4>2, WorkIsClean
      <4>4. d[newBlk] = work /\ Clean(d, work, newBlk)
        BY <4>1, <4>3, CleanFrame
      <4>5. d[1 - curSlot].blk = newBlk /\ IsSuper(d[1 - curSlot]) /\ d[1 - curSlot].gen = work.gen
            /\ d[1 - curSlot].crc = work.crc
        BY <3>8, SMTT(30) DEF Super, IsSuper
      <4>6. TrySlot(d, 1 - curSlot)
        <5>1. work \in Root /\ RootSane(work) /\ Placed(vol, work, used \cup txused)
          BY <4>2 DEF DurInv, TypeOK, SaneInv, Intact, WorkPlaced
        <5>2. Placed(d, work, used \cup txused)
          BY <4>1, <5>1, PlacedFrame, SMTT(30)
        <5>3. LoadRoot(d, d[1 - curSlot])
          BY <4>3, <4>4, <4>5, <5>1 DEF LoadRoot, Root
        <5> QED
          BY <4>4, <4>5, <5>2, <5>3 DEF TrySlot, Placed, IsSuper
      <4>7. RefTo(cur, curBlk) \in Refs(work)
        BY <4>2 DEF DurInv, SlotInv, Refs
      <4>8. GoodSlot(d, 1 - curSlot)
        BY <3>1, <3>6, <4>4, <4>5, <4>6, <4>7 DEF GoodSlot
      <4> QED
        BY <3>1, <4>8 DEF GoodDisk
    <3> QED
      BY <3>2, <3>5, <3>7, <3>8
  <2>1. ~mounted'
    BY DEF PowerLoss, StoreZero, Settle, Boot, storeVars, RetInv, DurInv, TypeOK
  <2>2. MountedClean' /\ WorkClean'
    BY <2>1, <1>RetUnmounted DEF DurInv
  <2>3. CASE PowerLoss
    <3>1. media' = media /\ ~up'
      BY <2>3 DEF PowerLoss, DevPowerLoss
    <3>2. \A d \in Possible : GoodDisk(d)
      BY <2>MountedGood DEF RetInv, DiskGood
    <3>3. DiskGood'
      BY <3>1, <3>2 DEF DiskGood, Possible
    <3> QED
      BY <2>2, <3>1, <3>3 DEF RetInv, Quiet
  <2>4. CASE Settle
    <3>1. ~mounted /\ ~up /\ ~up'
      BY <2>4 DEF Settle, RetInv, DurInv, TypeOK
    <3>2. PICK x \in Blocks : \E c \in media[x] : media' = [media EXCEPT ![x] = {c}]
      BY <2>4 DEF Settle, DevSettle, Unsettled
    <3>3. \A y \in Blocks : media'[y] \subseteq media[y]
      BY <3>2 DEF RetInv, DurInv, TypeOK
    <3>4. DiskGood'
      BY <3>1, <3>3, <1>GoodFewer DEF RetInv
    <3> QED
      BY <2>2, <3>1, <3>4 DEF RetInv, Quiet
  <2>5. CASE Boot
    <3>1. ~mounted /\ ~up /\ Unsettled = {} /\ UNCHANGED <<vol, media>>
      BY <2>5 DEF Boot, devVars, RetInv, DurInv, TypeOK
    <3>2. DiskGood'
      BY <3>1, <1>GoodFewer DEF RetInv
    <3>3. Quiet'
      BY <3>1 DEF RetInv, DurInv, DevInv, Quiet
    <3> QED
      BY <2>2, <3>2, <3>3 DEF RetInv
  <2> QED
    BY <2>3, <2>4, <2>5
<1>RetMount. ASSUME DurInv', Mount PROVE RetInv'
  <2> USE <1>RetMount
  \* The retained generations are older than the one that retains them.
  <2>RefsBelow.
      ASSUME NEW r \in Root, RootSane(r), NEW ref \in Refs(r)
      PROVE  ref.gen < r.gen /\ ref.blk \in DataBlocks
    <3> USE <2>RefsBelow
    <3>1. CASE \E i \in DOMAIN r.hist : ref = r.hist[i]
      BY <3>1 DEF HistoryOlder, RootSane
    <3>2. CASE \E q \in PinsOf(r) : ref = r.pin[q]
      <4>1. PICK q \in PinsOf(r) : ref = r.pin[q]
        BY <3>2
      <4>2. r.pin[q].gen \in 1 .. r.gen - 1 /\ r.pin[q].blk \in DataBlocks /\ r.gen \in Nat
        BY DEF RootSane, Root
      <4> QED
        BY <4>1, <4>2, SMTT(30)
    <3> QED
      BY <3>1, <3>2 DEF Refs
  \* st_mount takes the good slot, and both slots verify.
  <2>GoodSlotMounts.
      ASSUME NEW d \in [Blocks -> Content], NEW i \in {0, 1}, GoodSlot(d, i)
      PROVE  /\ MountSlots(d) # {} /\ \A j \in MountSlots(d) : j = i
             /\ IsSuper(d[1 - i]) => TrySlot(d, 1 - i)
    <3> USE <2>GoodSlotMounts
    <3>1. /\ TrySlot(d, i) /\ d[i] \in Content /\ d[1 - i] \in Content /\ 1 - i \in {0, 1}
          /\ d[i].t = "super" /\ LoadRoot(d, d[i])
      BY BlockFacts, SMTT(30) DEF GoodSlot, TrySlot
    <3> DEFINE r == d[d[i].blk]
    <3>2. r \in Root /\ RootSane(r) /\ r.gen = d[i].gen /\ d[i].gen \in Nat
      BY <3>1, ContentRoot, ContentSuper, BlockFacts DEF LoadRoot
    <3>3. ASSUME IsSuper(d[1 - i]) PROVE TrySlot(d, 1 - i) /\ d[1 - i].gen < d[i].gen
      <4>1. SlotRef(d[1 - i]) \in Refs(r) /\ SlotRef(d[1 - i]).gen = d[1 - i].gen
        BY <3>3 DEF GoodSlot, SlotRef
      <4>2. Readable(d, SlotRef(d[1 - i]))
        BY <4>1 DEF GoodSlot, Clean
      <4>3. d[1 - i].gen < r.gen
        BY <3>2, <4>1, <2>RefsBelow
      <4> QED
        BY <3>2, <3>3, <4>2, <4>3, SlotReadable
    <3>4. ASSUME NEW j \in MountSlots(d), j # i PROVE FALSE
      <4>1. j = 1 - i /\ TrySlot(d, j) /\ d[i].gen <= d[j].gen
        <5>1. j \in {0, 1} /\ TrySlot(d, j) /\ (d[i].gen < d[j].gen \/ d[i].gen = d[j].gen)
          BY <3>1, <3>4 DEF MountSlots
        <5>2. d[j].gen \in Nat
          BY <5>1, BlockFacts, ContentSuper DEF TrySlot
        <5> QED
          BY <3>2, <3>4, <5>1, <5>2, SMTT(30)
      <4>2. IsSuper(d[1 - i]) /\ d[1 - i].gen \in Nat
        BY <3>1, <4>1, ContentSuper DEF TrySlot, IsSuper
      <4> QED
        BY <3>2, <3>3, <4>1, <4>2, SMTT(30)
    <3> QED
      BY <3>1, <3>3, <3>4, SomeSlot
  <2>1. up /\ ~mounted /\ pc = "idle" /\ pc' = "idle" /\ UNCHANGED <<vol, media>> /\ ~inTx'
    BY DEF Mount, devVars, TxReset
  <2>2. \A x \in Blocks : media[x] = {vol[x]}
    BY <2>1 DEF RetInv, Quiet
  <2>3. CASE ~mounted'
    <3>1. DiskGood' /\ Quiet'
      BY <2>1, <2>2, <1>GoodFewer DEF RetInv, Quiet
    <3> QED
      BY <2>3, <3>1, <1>RetUnmounted DEF RetInv, DurInv
  <2>4. CASE mounted'
    <3>1. PICK i \in MountSlots(vol) :
                /\ cur' = vol[vol[i].blk] /\ curBlk' = vol[i].blk /\ curSlot' = i
                /\ used' = RecomputeUsed(vol, cur', curBlk')
      BY <2>4, NoFaults, MountSets DEF RetInv, DurInv
    <3>2. i \in {0, 1} /\ 1 - i \in {0, 1} /\ IsSuper(vol[i]) /\ vol \in [Blocks -> Content]
      BY SMTT(30) DEF MountSlots, TrySlot, IsSuper, RetInv, DurInv, TypeOK
    <3>3. vol \in Possible
      BY <2>2, <3>2 DEF Possible
    <3>4. GoodDisk(vol)
      BY <2>1, <3>3 DEF RetInv, DiskGood
    <3>5. GoodSlot(vol, i)
      BY <3>2, <3>4, <2>GoodSlotMounts DEF GoodDisk
    <3>6. Clean(vol, cur', curBlk') /\ (IsSuper(vol[1 - i]) => SlotRef(vol[1 - i]) \in Refs(cur'))
      BY <3>1, <3>5 DEF GoodSlot
    <3>7. \A x \in Blocks : media'[x] = {vol[x]}
      BY <2>1, <2>2
    <3>8. MountedClean'
      <4>1. vol' = vol /\ \A x \in DataBlocks \cup {curSlot'} : media'[x] = {vol'[x]}
        BY <2>1, <3>1, <3>2, <3>7, BlockFacts
      <4>2. media'[1 - curSlot'] = {vol[1 - i]}
        BY <3>1, <3>2, <3>7, BlockFacts
      <4>3. \A c \in media'[1 - curSlot'] : IsSuper(c) => SlotRef(c) \in Refs(cur')
        BY <3>6, <4>2
      <4> QED
        BY <3>1, <3>6, <4>1, <4>3 DEF MountedClean
    <3>9. WorkClean'
      BY <2>1 DEF WorkClean, CommitSteps
    <3> QED
      BY <2>4, <3>8, <3>9 DEF RetInv, DiskGood, Quiet
  <2> QED
    BY <2>3, <2>4
<1>RetTx. ASSUME DurInv', TxCalls
          PROVE  RetInv'
  <2> USE <1>RetTx
  <2>WorkCleanTx.
      ASSUME NEW v, work' = v, pc' \notin CommitSteps, UNCHANGED <<cur, curBlk, used>>,
             Extents(vol', cur, curBlk) = Extents(vol, cur, curBlk),
             \A q \in PinsOf(v) : v.pin[q] \in {RefTo(cur, curBlk)} \cup Refs(cur),
             \A n \in Objs(v) : \/ ObjExtent(v.obj[n]) \in Extents(vol, cur, curBlk)
                                \/ Extent(v.obj[n]) \cap used = {}
      PROVE  WorkClean'
    BY <2>WorkCleanTx DEF WorkClean
  <2>RetTxCalls.
      ASSUME \/ Begin \/ Abort \/ Prune \/ AllowReserve \/ \E n \in Names : Del(n)
             \/ \E q \in PinNames : Unpin(q) \/ \E g \in 1 .. MaxCommits : Pin(q, g)
      PROVE  WorkClean'
    <3> USE <2>RetTxCalls
    <3>0. /\ mounted /\ UNCHANGED <<cur, curBlk, used>> /\ Extents(vol', cur, curBlk) = Extents(vol, cur, curBlk)
          /\ cur \in Root /\ vol[curBlk] = cur
      BY TxEffect, <1>TxClean DEF RetInv, DurInv, TypeOK, Intact, CurrentPlaced
    <3>1. CASE Begin
      <4>1. work' = cur /\ pc' \notin CommitSteps
        BY <3>1 DEF Begin, CommitSteps
      <4>2. \A q \in PinsOf(cur) : cur.pin[q] \in Refs(cur)
        BY DEF Refs
      <4>3. \A n \in Objs(cur) : ObjExtent(cur.obj[n]) \in Extents(vol, cur, curBlk)
        BY <3>0, SMTT(30) DEF Extents, GenBlocks
      <4> QED
        BY <3>0, <4>1, <4>2, <4>3, <2>WorkCleanTx
    <3>2. CASE Abort
      BY <3>2 DEF Abort, InTx, TxReset, WorkClean, CommitSteps
    <3>3. ASSUME inTx, pc = "idle", pc' = "idle", NEW v, work' = v,
                 \A q \in PinsOf(v) : \/ v.pin[q] \in {RefTo(cur, curBlk)} \cup Refs(cur)
                                      \/ q \in PinsOf(work) /\ v.pin[q] = work.pin[q],
                 \A n \in Objs(v) : n \in Objs(work) /\ v.obj[n] = work.obj[n]
          PROVE  WorkClean'
      <4>1. /\ \A q \in PinsOf(work) : work.pin[q] \in {RefTo(cur, curBlk)} \cup Refs(cur)
            /\ \A n \in Objs(work) : \/ ObjExtent(work.obj[n]) \in Extents(vol, cur, curBlk)
                                     \/ Extent(work.obj[n]) \cap used = {}
        BY <3>3 DEF RetInv, WorkClean
      <4>2. \A q \in PinsOf(v) : v.pin[q] \in {RefTo(cur, curBlk)} \cup Refs(cur)
        BY <3>3, <4>1
      <4>3. \A n \in Objs(v) : \/ ObjExtent(v.obj[n]) \in Extents(vol, cur, curBlk)
                               \/ Extent(v.obj[n]) \cap used = {}
        BY <3>3, <4>1
      <4>4. pc' \notin CommitSteps
        BY <3>3 DEF CommitSteps
      <4> QED
        BY <3>0, <3>3, <4>2, <4>3, <4>4, <2>WorkCleanTx
    <3>4. CASE Prune \/ AllowReserve
      <4>1. inTx /\ pc = "idle" /\ pc' = "idle" /\ work' = work
        BY <3>4 DEF Prune, AllowReserve, TxCall, InTx
      <4> QED
        BY <3>3, <4>1
    <3>5. ASSUME NEW n \in Names, Del(n) PROVE WorkClean'
      <4>1. /\ inTx /\ pc = "idle" /\ pc' = "idle" /\ work \in Root
            /\ work' = [work EXCEPT !.obj = [@ EXCEPT ![n] = Absent]]
        BY <3>5 DEF Del, TxCall, InTx, RetInv, DurInv, TypeOK
      <4>2. PICK v : v = [work EXCEPT !.obj = [@ EXCEPT ![n] = Absent]]
        OBVIOUS
      <4>3. PinsOf(v) = PinsOf(work) /\ v.pin = work.pin
        BY <4>1, <4>2 DEF PinsOf, Root
      <4>4. \A m \in Objs(v) : m \in Objs(work) /\ v.obj[m] = work.obj[m]
        BY <4>1, <4>2 DEF Objs, Root
      <4> QED
        BY <3>3, <4>1, <4>2, <4>3, <4>4
    <3>6. ASSUME NEW q \in PinNames, Unpin(q) PROVE WorkClean'
      <4>1. /\ inTx /\ pc = "idle" /\ pc' = "idle" /\ work \in Root
            /\ work' = [work EXCEPT !.pin = [@ EXCEPT ![q] = Absent]]
        BY <3>6 DEF Unpin, TxCall, InTx, RetInv, DurInv, TypeOK
      <4>2. PICK v : v = [work EXCEPT !.pin = [@ EXCEPT ![q] = Absent]]
        OBVIOUS
      <4>3. Objs(v) = Objs(work) /\ v.obj = work.obj
        BY <4>1, <4>2 DEF Objs, Root
      <4>4. \A p \in PinsOf(v) : p \in PinsOf(work) /\ v.pin[p] = work.pin[p]
        BY <4>1, <4>2 DEF PinsOf, Root
      <4> QED
        BY <3>3, <4>1, <4>2, <4>3, <4>4
    <3>7. ASSUME NEW q \in PinNames, NEW g \in 1 .. MaxCommits, Pin(q, g) PROVE WorkClean'
      <4>1. /\ inTx /\ pc = "idle" /\ pc' = "idle" /\ work \in Root
        BY <3>7 DEF Pin, TxCall, InTx, RetInv, DurInv, TypeOK
      <4>2. PICK ref \in FindRef(g) : work' = [work EXCEPT !.pin = [@ EXCEPT ![q] = ref]]
        BY <3>7 DEF Pin
      <4>3. ref \in {RefTo(cur, curBlk)} \cup Refs(cur)
        BY DEF FindRef, RefTo
      <4>4. PICK v : v = [work EXCEPT !.pin = [@ EXCEPT ![q] = ref]]
        OBVIOUS
      <4>5. Objs(v) = Objs(work) /\ v.obj = work.obj
        BY <4>1, <4>4 DEF Objs, Root
      <4>6. \A p \in PinsOf(v) : v.pin[p] = ref \/ (p \in PinsOf(work) /\ v.pin[p] = work.pin[p])
        BY <4>1, <4>4 DEF PinsOf, Root
      <4> QED
        BY <3>3, <4>1, <4>2, <4>3, <4>4, <4>5, <4>6
    <3> QED
      BY <3>1, <3>2, <3>4, <3>5, <3>6, <3>7
  <2>RetPut. ASSUME NEW n \in Names, NEW p \in Payloads, Put(n, p) PROVE WorkClean'
    <3> USE <2>RetPut
    <3>0. /\ mounted /\ UNCHANGED <<cur, curBlk, used>> /\ Extents(vol', cur, curBlk) = Extents(vol, cur, curBlk)
      BY TxEffect, <1>TxClean DEF RetInv, DurInv
    <3>1. /\ inTx /\ pc' = "idle" /\ pc' \notin CommitSteps /\ work \in Root /\ NBlk[p] \in Nat
          /\ used \subseteq Nat
      BY PutFrame, StoreAssumption DEF RetInv, DurInv, TypeOK, CommitSteps
    <3>2. /\ \A q \in PinsOf(work) : work.pin[q] \in {RefTo(cur, curBlk)} \cup Refs(cur)
          /\ \A m \in Objs(work) : \/ ObjExtent(work.obj[m]) \in Extents(vol, cur, curBlk)
                                   \/ Extent(work.obj[m]) \cap used = {}
      BY <3>1 DEF RetInv, WorkClean
    <3>3. ASSUME NEW blk, work' = PutObj(work, n, p, blk), \A i \in 0 .. NBlk[p] - 1 : blk + i \notin used
          PROVE  WorkClean'
      <4>1. PICK v : v = PutObj(work, n, p, blk)
        OBVIOUS
      <4>2. /\ \A m \in Objs(v) : m = n \/ (m \in Objs(work) /\ v.obj[m] = work.obj[m])
            /\ v.obj[n].blk = blk /\ v.obj[n].nblk = NBlk[p]
        BY <3>1, <4>1 DEF PutObj, Objs, Root
      <4>3. PinsOf(v) = PinsOf(work) /\ v.pin = work.pin
        BY <3>1, <4>1 DEF PutObj, PinsOf, Root
      <4>4. Extent(v.obj[n]) \cap used = {}
        BY <3>3, <4>2 DEF Extent
      <4> QED
        BY <3>0, <3>1, <3>2, <3>3, <4>1, <4>2, <4>3, <4>4, <2>WorkCleanTx
    <3>4. CASE NBlk[p] = 0
      <4>1. work' = PutObj(work, n, p, 0)
        BY <3>4, PutEmpty
      <4> QED
        BY <3>3, <3>4, <4>1, SMTT(30)
    <3>5. CASE NBlk[p] > 0
      <4>1. PICK blk \in Alloc(NBlk[p], txReserve) : work' = PutObj(work, n, p, blk) \/ work' = work
        BY <3>5, PutBlocks
      <4>2. \A i \in 0 .. NBlk[p] - 1 : blk + i \notin used
        BY <3>1, AllocFree
      <4>3. CASE work' = work
        BY <3>0, <3>1, <3>2, <4>3, <2>WorkCleanTx
      <4> QED
        BY <3>3, <4>1, <4>2, <4>3
    <3> QED
      BY <3>1, <3>4, <3>5, SMTT(30)
  <2>RetCommitRoot. ASSUME CommitRoot PROVE WorkClean'
    <3> USE <2>RetCommitRoot
    <3>0. /\ mounted /\ UNCHANGED <<cur, curBlk, used>> /\ Extents(vol', cur, curBlk) = Extents(vol, cur, curBlk)
          /\ inTx /\ work \in Root /\ cur \in Root /\ curBlk \in Nat /\ pc = "idle"
      BY TxEffect, <1>TxClean DEF RetInv, DurInv, TypeOK, CommitRoot, InTx
    <3>1. CASE ~inTx' /\ pc' = pc
      BY <3>0, <3>1 DEF WorkClean, CommitSteps
    <3>2. ASSUME NEW blk \in Alloc(1, TRUE), work' = NewRoot, newBlk' = blk PROVE WorkClean'
      <4>1. PICK v : v = NewRoot
        OBVIOUS
      <4>2. /\ Objs(v) = Objs(work) /\ v.obj = work.obj /\ PinsOf(v) = PinsOf(work) /\ v.pin = work.pin
            /\ v.hist = NewHist
        BY <4>1 DEF NewRoot, Objs, PinsOf
      <4>3. /\ \A q \in PinsOf(work) : work.pin[q] \in {RefTo(cur, curBlk)} \cup Refs(cur)
            /\ \A m \in Objs(work) : \/ ObjExtent(work.obj[m]) \in Extents(vol, cur, curBlk)
                                     \/ Extent(work.obj[m]) \cap used = {}
        BY <3>0 DEF RetInv, WorkClean
      <4>4. \A i \in DOMAIN NewHist : NewHist[i] \in {RefTo(cur, curBlk)} \cup Refs(cur)
        BY <3>0, NewHistShape DEF Refs
      <4>5. Refs(v) \subseteq {RefTo(cur, curBlk)} \cup Refs(cur)
        BY <4>2, <4>3, <4>4 DEF Refs
      <4>6. blk \notin used /\ blk \notin txused
        BY AllocFree
      <4>7. \A m \in Objs(work) : blk \notin Extent(work.obj[m])
        BY <3>0, <4>6 DEF RetInv, DurInv, Intact, WorkPlaced, Placed
      <4>8. /\ \A q \in PinsOf(v) : v.pin[q] \in {RefTo(cur, curBlk)} \cup Refs(cur)
            /\ \A m \in Objs(v) : \/ ObjExtent(v.obj[m]) \in Extents(vol', cur, curBlk)
                                  \/ Extent(v.obj[m]) \cap used = {}
            /\ \A m \in Objs(v) : blk \notin Extent(v.obj[m])
        BY <3>0, <4>2, <4>3, <4>7
      <4> QED
        BY <3>0, <3>2, <4>1, <4>5, <4>6, <4>8 DEF WorkClean
    <3> QED
      BY <3>1, <3>2 DEF CommitRoot, TxReset
  <2>1. mounted' /\ MountedClean'
    BY TxEffect, <1>TxClean, SMTT(30) DEF RetInv, DurInv
  <2>2. WorkClean'
    <3>1. CASE CommitRoot
      BY <3>1, <2>RetCommitRoot
    <3>2. CASE \E n \in Names : \E p \in Payloads : Put(n, p)
      BY <3>2, <2>RetPut
    <3>3. CASE \/ Begin \/ Abort \/ Prune \/ AllowReserve \/ \E n \in Names : Del(n)
               \/ \E q \in PinNames : Unpin(q) \/ \E g \in 1 .. MaxCommits : Pin(q, g)
      BY <3>3, <2>RetTxCalls
    <3> QED
      BY <3>1, <3>2, <3>3 DEF TxCalls
  <2> QED
    BY <2>1, <2>2 DEF RetInv, DiskGood, Quiet
<1>RetBarrier. ASSUME DurInv', CommitBarrier PROVE RetInv'
  <2> USE <1>RetBarrier
  <2>1. /\ up /\ pc = "root" /\ pc' = "barrier" /\ mounted /\ pc \in CommitSteps
        /\ UNCHANGED <<mounted, inTx, cur, curBlk, curSlot, used, work, newBlk, vol>> /\ DevFlush
    BY NoFaults DEF CommitBarrier, txVars, DevFlush, RetInv, DurInv, TypeOK, CommitSteps
  <2>2. /\ \A x \in Blocks : media'[x] = {vol[x]} /\ vol[x] \in media[x]
        /\ curSlot \in {0, 1} /\ 1 - curSlot \in {0, 1}
    BY <2>1, SMTT(30) DEF DevFlush, RetInv, DurInv, DevInv, TypeOK
  <2>3. \A c \in media'[1 - curSlot] : IsSuper(c) => SlotRef(c) \in Refs(cur)
    <3>1. 1 - curSlot \in Blocks
      BY <2>2, BlockFacts
    <3>2. \A c \in media[1 - curSlot] : IsSuper(c) => SlotRef(c) \in Refs(cur)
      BY <2>1 DEF RetInv, MountedClean
    <3>3. media'[1 - curSlot] = {vol[1 - curSlot]} /\ vol[1 - curSlot] \in media[1 - curSlot]
      BY <3>1, <2>2
    <3> QED
      BY <3>2, <3>3
  <2>4. MountedClean'
    <3>1. Clean(vol', cur', curBlk') /\ used' = RecomputeUsed(vol', cur', curBlk')
      BY <2>1 DEF RetInv, MountedClean
    <3>2. \A x \in DataBlocks \cup {curSlot'} : media'[x] = {vol'[x]}
      BY <2>1, <2>2, BlockFacts
    <3>3. 1 - curSlot' = 1 - curSlot /\ cur' = cur
      BY <2>1
    <3> QED
      BY <3>1, <3>2, <3>3, <2>3 DEF MountedClean
  <2>5. WorkClean'
    BY <2>1 DEF RetInv, WorkClean, CommitSteps
  <2> QED
    BY <2>1, <2>4, <2>5 DEF RetInv, DiskGood, Quiet
<1>RetSuper. ASSUME DurInv', CommitSuper PROVE RetInv'
  <2> USE <1>RetSuper
  <2>1. /\ up /\ pc = "barrier" /\ pc' = "super" /\ mounted /\ pc \in CommitSteps
        /\ UNCHANGED <<mounted, inTx, cur, curBlk, curSlot, used, work, newBlk>>
    BY NoFaults DEF CommitSuper, txVars, RetInv, DurInv, TypeOK, CommitSteps
  <2>2. Touches({1 - curSlot}, {Super(work, newBlk)})
    BY CommitSuperTouches DEF RetInv, DurInv
  <2>3. curSlot \in {0, 1} /\ 1 - curSlot \in {0, 1} /\ curSlot # 1 - curSlot
    BY SMTT(30) DEF RetInv, DurInv, TypeOK
  <2>4. \A x \in DataBlocks \cup {curSlot} : vol'[x] = vol[x] /\ media'[x] = media[x]
    BY <2>2, <2>3, BlockFacts, ZenonT(30) DEF Touches
  <2>5. /\ Clean(vol', cur, curBlk) /\ used' = RecomputeUsed(vol', cur, curBlk)
        /\ Extents(vol', cur, curBlk) = Extents(vol, cur, curBlk)
        /\ \A x \in (used' \cap DataBlocks) \cup {curSlot} : media'[x] = {vol'[x]}
    BY <2>1, <2>4, <1>CleanKept DEF RetInv
  <2>6. ASSUME NEW c \in media'[1 - curSlot], IsSuper(c)
        PROVE  SlotRef(c) \in Refs(cur) \/ c = Super(work, newBlk)
    <3>1. c \in media[1 - curSlot] \cup {Torn, Super(work, newBlk)}
      BY <2>2, <2>3, BlockFacts DEF Touches
    <3>2. c # Torn
      BY <2>6, SMTT(30) DEF IsSuper, Torn
    <3> QED
      BY <2>1, <2>6, <3>1, <3>2 DEF RetInv, MountedClean
  <2>7. \A x \in DataBlocks : media'[x] = {vol'[x]}
    BY <2>1, <2>4 DEF RetInv, MountedClean
  <2>8. MountedClean'
    BY <2>1, <2>5, <2>6, <2>7 DEF MountedClean
  <2>9. WorkClean'
    BY <2>1, <2>5 DEF RetInv, WorkClean, CommitSteps
  <2> QED
    BY <2>1, <2>8, <2>9 DEF RetInv, DiskGood, Quiet
<1>RetFlush. ASSUME DurInv', CommitFlush PROVE RetInv'
  <2> USE <1>RetFlush
  <2>1. /\ up /\ pc = "super" /\ pc' = "idle" /\ mounted /\ pc \in CommitSteps
        /\ mounted' /\ cur' = work /\ curBlk' = newBlk /\ curSlot' = 1 - curSlot /\ ~inTx'
        /\ used' = RecomputeUsed(vol, work, newBlk) /\ DevFlush /\ vol' = vol
    BY NoFaults, OneRead DEF CommitFlush, TxReset, DevFlush, RetInv, DurInv, TypeOK, CommitSteps
  <2>2. \A x \in Blocks : media'[x] = {vol[x]}
    BY <2>1 DEF DevFlush
  <2>3. Clean(vol, work, newBlk)
    BY <2>1, WorkIsClean DEF RetInv
  <2>4. curSlot \in {0, 1} /\ 1 - curSlot \in {0, 1} /\ 1 - (1 - curSlot) = curSlot
    BY SMTT(30) DEF RetInv, DurInv, TypeOK
  <2>5. /\ vol[curSlot] = Super(cur, curBlk) /\ SlotRef(vol[curSlot]) = RefTo(cur, curBlk)
        /\ RefTo(cur, curBlk) \in Refs(work)
    <3>1. vol[curSlot] = Super(cur, curBlk)
      BY <2>1 DEF RetInv, DurInv, SlotInv
    <3>2. 1 \in DOMAIN work.hist /\ work.hist[1] = RefTo(cur, curBlk)
      BY <2>1 DEF RetInv, DurInv, SlotInv
    <3>3. RefTo(cur, curBlk) \in Refs(work)
      BY <3>2 DEF Refs
    <3> QED
      BY <3>1, <3>3, SuperRef
  <2>6. MountedClean'
    <3>1. Clean(vol', cur', curBlk') /\ used' = RecomputeUsed(vol', cur', curBlk')
      BY <2>1, <2>3
    <3>2. \A x \in DataBlocks \cup {curSlot'} : media'[x] = {vol'[x]}
      BY <2>1, <2>2, <2>4, BlockFacts
    <3>3. 1 - curSlot' = curSlot /\ media'[curSlot] = {vol[curSlot]}
      BY <2>1, <2>2, <2>4, BlockFacts
    <3>4. \A c \in media'[1 - curSlot'] : SlotRef(c) \in Refs(cur')
      BY <2>1, <2>5, <3>3
    <3> QED
      BY <3>1, <3>2, <3>4 DEF MountedClean
  <2>7. WorkClean'
    BY <2>1 DEF WorkClean, CommitSteps
  <2> QED
    BY <2>1, <2>6, <2>7 DEF RetInv, DiskGood, Quiet
<1>1. DurInv'
  BY NoFaults, DurInvStep DEF RetInv
<1>2. CASE UNCHANGED vars
  <2>1. UNCHANGED <<vol, media, up, pc, mounted, inTx, cur, curBlk, curSlot, used, work, newBlk>>
    BY <1>2 DEF vars, devVars, storeVars, txVars
  <2>2. DiskGood' /\ Quiet'
    BY <2>1 DEF RetInv, DiskGood, Possible, Quiet
  <2>3. MountedClean' /\ WorkClean'
    BY <2>1 DEF RetInv, MountedClean, WorkClean
  <2> QED
    BY <1>1, <2>2, <2>3 DEF RetInv
<1>3. ~Rot
  BY NoFaults, NoOtherFaults
<1> QED
  BY <1>1, <1>2, <1>3, StepCases, <1>RetFormat, <1>RetMount, <1>RetTx, <1>RetBarrier, <1>RetSuper, <1>RetFlush, <1>RetPower

LEMMA RetClean == RetInv => CheckClean
<1>ReferencedExtents. ASSUME vol[curBlk] = cur PROVE Referenced = Extents(vol, cur, curBlk)
  BY <1>ReferencedExtents, SMTT(30) DEF Referenced, Extents, GenBlocks, RootExtent, ObjExtent
\* The map of used blocks, as st_check computes it.
<1>UsedExact.
    ASSUME NEW d, NEW r, NEW b \in DataBlocks, d[b] = r, Clean(d, r, b)
    PROVE  RecomputeUsed(d, r, b) = {0, 1} \cup UNION {ExtentOf(e) : e \in Extents(d, r, b)}
  <2> USE <1>UsedExact
  <2>1. \A e \in Extents(d, r, b) : ExtentOf(e) \subseteq RecomputeUsed(d, r, b)
    BY ExtentsUsed
  <2>2. ASSUME NEW k \in GenBlocks(r, b), k \in Nat, NEW x \in MarkRoot(d[k], k)
        PROVE  \E e \in Extents(d, r, b) : x \in ExtentOf(e)
    <3>1. CASE x = k
      <4>1. RootExtent(k) \in Extents(d, r, b) /\ ExtentOf(RootExtent(k)) = {k}
        BY <2>2, ExtentBlocks DEF Extents
      <4> QED
        BY <3>1, <4>1
    <3>2. CASE x # k
      <4>1. PICK n \in Objs(d[k]) : x \in Extent(d[k].obj[n])
        BY <3>2 DEF MarkRoot
      <4>2. ObjExtent(d[k].obj[n]) \in Extents(d, r, b) /\ ExtentOf(ObjExtent(d[k].obj[n])) = Extent(d[k].obj[n])
        BY ExtentBlocks, SMTT(30) DEF Extents
      <4> QED
        BY <4>1, <4>2
    <3> QED
      BY <3>1, <3>2
  <2>3. ASSUME NEW x \in RecomputeUsed(d, r, b), x \notin {0, 1}
        PROVE  \E e \in Extents(d, r, b) : x \in ExtentOf(e)
    <3>1. CASE x \in MarkRoot(r, b)
      <4>1. b \in GenBlocks(r, b) /\ b \in Nat
        BY NBlocksAssumption, SMTT(30) DEF GenBlocks, DataBlocks
      <4> QED
        BY <2>2, <3>1, <4>1
    <3>2. ASSUME NEW ref \in Refs(r),
                 x \in (IF LoadRoot(d, ref) THEN MarkRoot(d[ref.blk], ref.blk) ELSE {ref.blk})
          PROVE  \E e \in Extents(d, r, b) : x \in ExtentOf(e)
      <4>1. LoadRoot(d, ref) /\ ref.blk \in DataBlocks
        BY DEF Clean, Readable, LoadRoot
      <4>2. ref.blk \in GenBlocks(r, b) /\ ref.blk \in Nat
        BY <4>1, NBlocksAssumption, SMTT(30) DEF GenBlocks, DataBlocks
      <4> QED
        BY <2>2, <3>2, <4>1, <4>2
    <3> QED
      BY <2>3, <3>1, <3>2 DEF RecomputeUsed
  <2>4. {0, 1} \subseteq RecomputeUsed(d, r, b)
    BY DEF RecomputeUsed
  <2> QED
    BY <2>1, <2>3, <2>4
<1> SUFFICES ASSUME RetInv, mounted, pc = "idle" PROVE CheckClean
  BY DEF CheckClean
<1>1. /\ Clean(vol, cur, curBlk) /\ used = RecomputeUsed(vol, cur, curBlk)
      /\ curBlk \in DataBlocks /\ vol[curBlk] = cur /\ vol[curSlot] = Super(cur, curBlk)
  BY DEF RetInv, MountedClean, DurInv, Intact, CurrentPlaced, SlotInv
<1>2. CurrentIntact
  BY <1>1 DEF CurrentIntact, RetInv, DurInv, Intact, CurrentPlaced, Placed
<1>3. Referenced = Extents(vol, cur, curBlk)
  BY <1>1, <1>ReferencedExtents
<1>4. RetainedReadable /\ \A e, f \in Referenced : e # f => ExtentOf(e) \cap ExtentOf(f) = {}
  BY <1>1, <1>3 DEF RetainedReadable, Clean, Disjoint
<1>5. used = {0, 1} \cup UNION {ExtentOf(e) : e \in Referenced}
  BY <1>1, <1>3, <1>UsedExact
<1> QED
  BY <1>1, <1>2, <1>4, <1>5 DEF CheckClean

LEMMA RetFallback == RetInv => FallbackReady
<1> SUFFICES ASSUME RetInv, mounted, pc = "idle", NEW i \in {0, 1}, vol[i].t = "super"
             PROVE  TrySlot(vol, i)
  BY DEF FallbackReady
<1>1. curSlot \in {0, 1} /\ vol[curSlot] = Super(cur, curBlk) /\ (i = curSlot \/ i = 1 - curSlot)
  BY SMTT(30) DEF RetInv, DurInv, TypeOK, SlotInv
<1>2. CASE i = curSlot
  <2>1. SlotRef(vol[i]) = RefTo(cur, curBlk) /\ IsSuper(vol[i])
    BY <1>1, <1>2, SuperRef
  <2>2. Readable(vol, RefTo(cur, curBlk))
    BY CurReadable DEF RetInv
  <2> QED
    BY <2>1, <2>2, SlotReadable
<1>3. CASE i = 1 - curSlot
  <2>1. IsSuper(vol[i]) /\ vol[i] \in media[i]
    BY BlockFacts DEF IsSuper, RetInv, DurInv, DevInv, TypeOK
  <2>2. SlotRef(vol[i]) \in Refs(cur)
    BY <1>3, <2>1 DEF RetInv, MountedClean
  <2>3. Readable(vol, SlotRef(vol[i]))
    BY <2>2 DEF RetInv, MountedClean, Clean
  <2> QED
    BY <2>1, <2>3, SlotReadable
<1> QED
  BY <1>1, <1>2, <1>3
=============================================================================
