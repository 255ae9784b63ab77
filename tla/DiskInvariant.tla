--------------------------- MODULE DiskInvariant ---------------------------
(***************************************************************************)
(* The inductive invariant of the kernel's block device, and the lemmas on *)
(* what its steps are made of: the cache of the crash-test layer, a call   *)
(* that returns or waits, a block put in the cache or written back, and    *)
(* a crash point.                                                          *)
(***************************************************************************)
EXTENDS Disk, SequenceTheorems, WellFoundedInduction, TLAPS

USE Zenon

Contents == Data \cup {Blank, Torn}
CacheEntry == [blk : Blocks, val : Data]
Reqs == [type : {"none", "in", "out", "half", "flush"}, blk : Nat,
         data : {s \in Seq(Contents) : Len(s) <= IoMax}]
Calls == [op : {"none", "read", "write", "flush", "sync", "crash", "stop"},
          pc : {"ret", "wait", "put", "crash", "off"}, blk : Blocks, data : Seq(Contents), i : Nat,
          res : {"none", "ok", "eio"}, was : [Blocks -> SUBSET Contents]]

Typed ==
  /\ dsc \in Scenarios /\ dcache \in Seq(CacheEntry) /\ dcall \in Calls
  /\ dq \in [req : Reqs, page : [1..IoMax -> Contents], status : {"ff", "ok", "ioerr"}, avail : 0..Wrap - 1]
  /\ dseen \in 0..Wrap - 1
  /\ dhw \in [disk : [Blocks -> Contents], may : [Blocks -> SUBSET Contents], got : Reqs,
              taken : 0..Wrap - 1, used : 0..Wrap - 1]
  /\ dack \in [Blocks -> Contents \cup {Unknown}]
  /\ dlim \in [calls : Nat, errors : Nat, late : Nat]

\* How far a call can be, and what it was given.
CallShape ==
  /\ dcall.op \in {"read", "write"} => /\ Len(dcall.data) \in 1..IoMax
                                       /\ dcall.blk + Len(dcall.data) <= NBlocks
  /\ dcall.op = "write" => dcall.data \in Seq(Data)
  /\ dcall.pc = "put" => dcall.op = "write" /\ dsc.cache /\ dcall.i \in 1 .. Len(dcall.data) + 1
  /\ dcall.pc \in {"crash", "off"} => dcall.op \in {"crash", "stop"}
  /\ dcall.op \in {"crash", "stop"} => dcall.pc \in {"wait", "crash", "off"} /\ dcall.i <= Len(dcache)
  /\ dcall.op = "sync" => dcall.pc = "wait"
  /\ dcall.op = "stop" => dcall.i = Len(dcache)
  /\ dcall.op = "none" => dcall.pc = "ret"
  /\ ~dsc.cache => dcache = <<>>
  /\ Len(dcache) <= dsc.pages

\* The request a waiting call has made.
Writes1(type, k) == dq.req = [type |-> type, blk |-> dcache[k].blk, data |-> <<dcache[k].val>>]
Asked ==
  dcall.pc = "wait" =>
    /\ dcall.op = "read" => dq.req.type = "in" /\ dq.req.blk = dcall.blk /\ Len(dq.req.data) = Len(dcall.data)
    /\ dcall.op = "write" /\ dsc.cache =>
         Len(dcache) = dsc.pages /\ dcall.i \in 1..Len(dcall.data) /\ Writes1("out", 1)
    /\ dcall.op = "write" /\ ~dsc.cache => dq.req = [type |-> "out", blk |-> dcall.blk, data |-> dcall.data]
    /\ dcall.op = "flush" => dcall.i \in 1..Len(dcache) /\ Writes1("out", dcall.i)
    /\ dcall.op = "crash" => dcall.i \in 1..Len(dcache) /\ (Writes1("out", dcall.i) \/ Writes1("half", dcall.i))
    /\ dcall.op \in {"sync", "stop"} => dq.req = [type |-> "flush", blk |-> 0, data |-> <<>>]
    /\ dcall.op = "sync" => dcache = <<>>
    /\ dq.req.type \in {"out", "half"} => \A k \in 1..Len(dq.req.data) : dq.page[k] = dq.req.data[k]

\* Until a request times out there is at most one, made available, taken or
\* answered; after that the device answers no more.
Quiescent == dhw.taken = dq.avail /\ dhw.got = NoReq /\ dhw.used = dseen
Ring ==
  /\ dlim.late > 0 => dhw.used = dseen
  /\ dlim.late = 0 /\ dcall.pc # "wait" => Quiescent
  /\ dlim.late = 0 /\ dcall.pc = "wait" =>
       \/ dhw.got = NoReq /\ dhw.taken # dq.avail /\ (dhw.taken + 1) % Wrap = dq.avail /\ dhw.used = dseen
       \/ dhw.got # NoReq /\ dhw.taken = dq.avail /\ dhw.used = dseen
       \/ dhw.got = NoReq /\ dhw.taken = dq.avail /\ dhw.used # dseen /\ (dseen + 1) % Wrap = dhw.used
  /\ dcall.pc = "wait" => (dhw.used = dseen <=> dq.status = "ff")

\* The device has the request that is being waited for.
Got == dlim.late = 0 /\ dhw.got # NoReq =>
         /\ dhw.got.type = dq.req.type /\ dhw.got.blk = dq.req.blk /\ Len(dhw.got.data) = Len(dq.req.data)
         /\ dq.req.type \in {"out", "half"} => dhw.got.data = dq.req.data

\* What an answer says about the disk.
Done ==
  /\ dcall.pc = "wait" /\ dq.status # "ff" /\ dq.req.type = "out" =>
       \A b \in Of(dq.req) : {dq.req.data[b - dq.req.blk + 1], Torn} \subseteq dhw.may[b]
  /\ dcall.pc = "wait" /\ dq.status = "ok" =>
       /\ dq.req.type = "out" => \A b \in Of(dq.req) : dhw.disk[b] = dq.req.data[b - dq.req.blk + 1]
       /\ dq.req.type = "in" => \A k \in 1..Len(dq.req.data) : dq.page[k] = dhw.disk[dq.req.blk + k - 1]
       /\ dq.req.type = "flush" => \A b \in Blocks : dhw.may[b] = {dhw.disk[b]}

\* The first k cached writes are on the disk, the newest of each block last.
Written(k) ==
  \A j \in 1..k :
    /\ {dcache[j].val, Torn} \subseteq dhw.may[dcache[j].blk]
    /\ (\A m \in j + 1 .. k : dcache[m].blk # dcache[j].blk) => dhw.disk[dcache[j].blk] = dcache[j].val
FlushInv == dcall.op = "flush" /\ dcall.pc = "wait" => /\ dq.status = "ff" => Written(dcall.i - 1)
                                                       /\ dq.status = "ok" => Written(dcall.i)

\* A read gives what was acknowledged last, but for the write that is running.
AckInv ==
  dcall.op \notin {"crash", "stop"} =>
    \A b \in Blocks : \/ dack[b] = Unknown \/ Vol[b] = dack[b]
                      \/ dcall.op = "write" /\ dcall.pc # "ret" /\ b \in Span(dcall)
WriteInv ==
  dcall.op = "write" /\ dsc.cache /\ dcall.pc \in {"put", "wait"} =>
    \A k \in 1 .. dcall.i - 1 : Vol[dcall.blk + k - 1] = dcall.data[k]

\* What a crash point writes was in doubt when it was reached.
CrashInv ==
  dcall.op \in {"crash", "stop"} =>
    /\ \A b \in Blocks : dhw.disk[b] \in dcall.was[b]
    /\ \A k \in 1..Len(dcache) : {dcache[k].val, Torn} \subseteq dcall.was[dcache[k].blk]

\* A cache on a device that can fail is never full when a block is put there.
Fallible == dsc.errors # 0 \/ dsc.timeouts # 0
Room ==
  /\ dlim.calls <= MaxCalls
  /\ dsc.cache /\ Fallible =>
       /\ Len(dcache) + (IF dcall.pc = "put" THEN Len(dcall.data) + 1 - dcall.i ELSE 0) <= dlim.calls * IoMax
       /\ ~(dcall.op = "write" /\ dcall.pc = "wait")
ErrInv == /\ dlim.errors <= dsc.errors /\ dlim.late <= dsc.timeouts
          /\ dcall.pc = "wait" /\ dq.status = "ioerr" => dlim.errors > 0
DiskInv == \A b \in Blocks : dhw.disk[b] \in dhw.may[b]

IInv == /\ Typed /\ CallShape /\ Asked /\ Ring /\ Got /\ Done /\ FlushInv /\ AckInv /\ WriteInv /\ CrashInv
        /\ Room /\ ErrInv /\ DiskInv /\ FlushDurable /\ ReadsLast

----------------------------------------------------------------------------
(* The cache: what it shows of a block, and what it may leave there.       *)

Med(c, may, b) == may[b] \cup UNION {{c[i].val, Torn} : i \in {j \in 1..Len(c) : c[j].blk = b}}

LEMMA NewestExists ==
    ASSUME NEW c \in Seq(CacheEntry), NEW i \in 1..Len(c)
    PROVE  Newest(c, c[i].blk) # {}
<1> DEFINE b == c[i].blk
           n == Len(c)
           T == {k \in Nat : n - k \in 1..n /\ c[n - k].blk = b}
           R == OpToRel(<, Nat)
<1>1. n \in Nat /\ n - i \in Nat /\ n - (n - i) = i
  BY SMTT(30)
<1>2. n - i \in T /\ T \subseteq Nat
  BY <1>1
<1>3. \A x, y \in Nat : x < y => <<x, y>> \in R
  BY DEF OpToRel
<1>4. IsWellFoundedOn(R, Nat)
  BY NatLessThanWellFounded
<1> HIDE DEF R, T
<1>5. PICK k \in T : \A y \in T : ~(<<y, k>> \in R)
  BY <1>2, <1>4, WFMin
<1>6. \A y \in T : ~(y < k)
  BY <1>2, <1>3, <1>5
<1>7. ASSUME NEW j \in n - k + 1 .. n, c[j].blk = b PROVE FALSE
  <2>1. k \in Nat /\ n - j \in Nat /\ n - j < k /\ n - (n - j) = j /\ j \in 1..n
    BY <1>1, <1>5, SMTT(30) DEF T
  <2>2. n - j \in T
    BY <1>7, <2>1 DEF T
  <2> QED
    BY <1>6, <2>1, <2>2
<1>8. n - k \in Newest(c, b)
  BY <1>5, <1>7 DEF Newest, T
<1> QED
  BY <1>8

LEMMA NewestOnly ==
    ASSUME NEW c \in Seq(CacheEntry), NEW b, NEW i \in Newest(c, b), NEW j \in Newest(c, b) PROVE i = j
<1>1. i \in 1..Len(c) /\ j \in 1..Len(c) /\ Len(c) \in Nat
  BY SMTT(30) DEF Newest
<1>2. ~(i < j) /\ ~(j < i)
  BY <1>1, SMTT(30) DEF Newest
<1> QED
  BY <1>1, <1>2, SMTT(30)

LEMMA OverlayNewest ==
    ASSUME NEW c \in Seq(CacheEntry), NEW b, NEW d, NEW i \in Newest(c, b)
    PROVE  Overlay(c, b, d) = c[i].val
<1>1. (CHOOSE k \in Newest(c, b) : TRUE) \in Newest(c, b)
  OBVIOUS
<1>2. (CHOOSE k \in Newest(c, b) : TRUE) = i
  BY <1>1, NewestOnly
<1> QED
  BY <1>2 DEF Overlay

LEMMA OverlayNone ==
    ASSUME NEW c \in Seq(CacheEntry), NEW b, NEW d, \A i \in 1..Len(c) : c[i].blk # b
    PROVE  Overlay(c, b, d) = d
BY DEF Overlay, Newest

\* A block in the cache hides the disk.
LEMMA OverlayHides ==
    ASSUME NEW c \in Seq(CacheEntry), NEW i \in 1..Len(c), NEW d, NEW e
    PROVE  Overlay(c, c[i].blk, d) = Overlay(c, c[i].blk, e)
BY NewestExists, SMTT(30) DEF Overlay

LEMMA OverlayEmpty == \A b, d : Overlay(<<>>, b, d) = d
BY SMTT(30) DEF Overlay, Newest

LEMMA OverlayAppend ==
    ASSUME NEW c \in Seq(CacheEntry), NEW e \in CacheEntry, NEW b, NEW d
    PROVE  Overlay(Append(c, e), b, d) = IF b = e.blk THEN e.val ELSE Overlay(c, b, d)
<1> DEFINE a == Append(c, e)
           n == Len(c)
<1>1. /\ a \in Seq(CacheEntry) /\ Len(a) = n + 1 /\ n \in Nat /\ a[n + 1] = e
      /\ \A i \in 1..n : a[i] = c[i]
  BY SMTT(30)
<1> SUFFICES Overlay(a, b, d) = IF b = e.blk THEN e.val ELSE Overlay(c, b, d)
  OBVIOUS
<1> HIDE DEF a
<1>2. CASE b = e.blk
  <2>1. n + 1 \in Newest(a, b)
    BY <1>1, <1>2, SMTT(30) DEF Newest
  <2> QED
    BY <1>1, <1>2, <2>1, OverlayNewest
<1>3. CASE b # e.blk
  <2>1. CASE \A i \in 1..n : c[i].blk # b
    <3>1. \A i \in 1..Len(a) : a[i].blk # b
      BY <1>1, <1>3, <2>1, SMTT(30)
    <3> QED
      BY <1>1, <1>3, <2>1, <3>1, OverlayNone, SMTT(30)
  <2>2. CASE ~(\A i \in 1..n : c[i].blk # b)
    <3>1. PICK i : i \in Newest(c, b)
      BY <2>2, NewestExists
    <3>2. i \in 1..n /\ a[i] = c[i] /\ a[i].blk = b
      BY <1>1, <3>1 DEF Newest
    <3>3. \A j \in i + 1 .. n + 1 : a[j].blk # b
      BY <1>1, <1>3, <3>1, <3>2, SMTT(30) DEF Newest
    <3>4. i \in Newest(a, b)
      BY <1>1, <3>2, <3>3, SMTT(30) DEF Newest
    <3> QED
      BY <1>1, <1>3, <3>1, <3>2, <3>4, OverlayNewest, SMTT(30)
  <2> QED
    BY <2>1, <2>2
<1> QED
  BY <1>2, <1>3

\* The oldest entry may go when the disk has it.
LEMMA OverlayTail ==
    ASSUME NEW c \in Seq(CacheEntry), c # <<>>, NEW b, NEW d, c[1].blk = b => d = c[1].val
    PROVE  Overlay(Tail(c), b, d) = Overlay(c, b, d)
<1> DEFINE a == Tail(c)
           n == Len(c)
<1>1. /\ a \in Seq(CacheEntry) /\ Len(a) = n - 1 /\ n \in Nat /\ n > 0
      /\ \A i \in 1 .. n - 1 : a[i] = c[i + 1]
  BY EmptySeq, SMTT(30)
<1> SUFFICES Overlay(a, b, d) = Overlay(c, b, d)
  OBVIOUS
<1> HIDE DEF a
<1>2. CASE \A i \in 1 .. n - 1 : a[i].blk # b
  <2>1. Overlay(a, b, d) = d
    BY <1>1, <1>2, OverlayNone, SMTT(30)
  <2>2. \A i \in 2..n : c[i].blk # b
    <3>1. \A i \in 2..n : i - 1 \in 1 .. n - 1 /\ (i - 1) + 1 = i
      BY <1>1, SMTT(30)
    <3> QED
      BY <1>1, <1>2, <3>1, ZenonT(30)
  <2>3. CASE c[1].blk = b
    <3>1. 1 \in Newest(c, b)
      BY <1>1, <2>2, <2>3, SMTT(30) DEF Newest
    <3> QED
      BY <2>1, <2>3, <3>1, OverlayNewest
  <2>4. CASE c[1].blk # b
    <3>1. \A i \in 1..n : c[i].blk # b
      BY <1>1, <2>2, <2>4, SMTT(30)
    <3> QED
      BY <2>1, <3>1, OverlayNone, SMTT(30)
  <2> QED
    BY <2>3, <2>4
<1>3. CASE ~(\A i \in 1 .. n - 1 : a[i].blk # b)
  <2>1. PICK i : i \in Newest(a, b)
    BY <1>1, <1>3, NewestExists
  <2>2. i \in 1 .. n - 1 /\ a[i].blk = b /\ c[i + 1] = a[i] /\ \A j \in i + 1 .. n - 1 : a[j].blk # b
    BY <1>1, <2>1 DEF Newest
  <2>3. ASSUME NEW j \in i + 2 .. n PROVE c[j].blk # b
    <3>1. j - 1 \in i + 1 .. n - 1 /\ j - 1 \in 1 .. n - 1 /\ (j - 1) + 1 = j
      BY <1>1, <2>2, SMTT(30)
    <3>2. a[j - 1] = c[j]
      BY <1>1, <3>1
    <3> QED
      BY <2>2, <3>1, <3>2
  <2>4. i + 1 \in Newest(c, b)
    BY <1>1, <2>2, <2>3, SMTT(30) DEF Newest
  <2> QED
    BY <1>1, <2>1, <2>2, <2>4, OverlayNewest, SMTT(30)
<1> QED
  BY <1>2, <1>3

LEMMA OverlayTyped ==
    ASSUME NEW c \in Seq(CacheEntry), NEW b, NEW d \in Contents PROVE Overlay(c, b, d) \in Contents
<1>1. CASE Newest(c, b) = {}
  BY <1>1 DEF Overlay
<1>2. ASSUME NEW i \in Newest(c, b) PROVE Overlay(c, b, d) \in Contents
  <2>1. c[i] \in CacheEntry
    BY SMTT(30) DEF Newest
  <2>2. c[i].val \in Contents
    BY <2>1 DEF CacheEntry, Contents
  <2>3. Overlay(c, b, d) = c[i].val
    BY OverlayNewest
  <2> QED
    BY <2>2, <2>3
<1> QED
  BY <1>1, <1>2

LEMMA MedAppend ==
    ASSUME NEW c \in Seq(CacheEntry), NEW e \in CacheEntry, NEW m, NEW b
    PROVE  Med(Append(c, e), m, b) = IF b = e.blk THEN Med(c, m, b) \cup {e.val, Torn} ELSE Med(c, m, b)
<1> DEFINE a == Append(c, e)
           n == Len(c)
<1>1. /\ Len(a) = n + 1 /\ n \in Nat /\ a[n + 1] = e /\ \A i \in 1..n : a[i] = c[i]
  BY SMTT(30)
<1> HIDE DEF a
<1>2. {j \in 1..Len(a) : a[j].blk = b} = {j \in 1..n : c[j].blk = b} \cup (IF b = e.blk THEN {n + 1} ELSE {})
  BY <1>1, SMTT(30)
<1>3. \A j \in {k \in 1..n : c[k].blk = b} : a[j] = c[j]
  BY <1>1
<1> QED
  BY <1>1, <1>2, <1>3, SMTT(30) DEF Med, a

LEMMA MedTail ==
    ASSUME NEW c \in Seq(CacheEntry), c # <<>>, NEW m, NEW b, {c[1].val, Torn} \subseteq m[c[1].blk]
    PROVE  Med(Tail(c), m, b) = Med(c, m, b)
<1> DEFINE a == Tail(c)
           n == Len(c)
<1>1. /\ Len(a) = n - 1 /\ n \in Nat /\ n > 0 /\ \A i \in 1 .. n - 1 : a[i] = c[i + 1]
  BY EmptySeq, SMTT(30)
<1> HIDE DEF a
<1>2. ASSUME NEW x \in Med(a, m, b) PROVE x \in Med(c, m, b)
  <2>1. CASE x \in m[b]
    BY <2>1 DEF Med
  <2>2. CASE x \notin m[b]
    <3>1. PICK j \in 1 .. n - 1 : a[j].blk = b /\ x \in {a[j].val, Torn}
      BY <1>1, <1>2, <2>2 DEF Med
    <3>2. j + 1 \in 1..n /\ c[j + 1].blk = b /\ x \in {c[j + 1].val, Torn}
      BY <1>1, <3>1, SMTT(30)
    <3> QED
      BY <3>2 DEF Med
  <2> QED
    BY <2>1, <2>2
<1>3. ASSUME NEW x \in Med(c, m, b) PROVE x \in Med(a, m, b)
  <2>1. CASE x \in m[b]
    BY <2>1 DEF Med
  <2>2. CASE x \notin m[b]
    <3>1. PICK j \in 1..n : c[j].blk = b /\ x \in {c[j].val, Torn}
      BY <1>1, <1>3, <2>2 DEF Med
    <3>2. j # 1
      BY <2>2, <3>1
    <3>3. j - 1 \in 1 .. n - 1 /\ (j - 1) + 1 = j
      BY <1>1, <3>1, <3>2, SMTT(30)
    <3>4. a[j - 1].blk = b /\ x \in {a[j - 1].val, Torn} /\ j - 1 \in 1..Len(a)
      BY <1>1, <3>1, <3>3
    <3> QED
      BY <3>4 DEF Med
  <2> QED
    BY <2>1, <2>2
<1> QED
  BY <1>2, <1>3 DEF a

LEMMA MedEmpty == \A m, b : Med(<<>>, m, b) = m[b]
BY SMTT(30) DEF Med

----------------------------------------------------------------------------
(* Steps of the driver, which leave the device alone.                      *)

LEMMA MediaIs == Media = [b \in Blocks |-> Med(dcache, dhw.may, b)]
BY DEF Media, Med

LEMMA MediaIsNext == Media' = [b \in Blocks |-> Med(dcache', dhw'.may, b)]
BY DEF Media, Med

LEMMA SameDevice ==
    ASSUME dcache' = dcache, dhw'.disk = dhw.disk, dhw'.may = dhw.may PROVE Vol' = Vol /\ Media' = Media
BY MediaIs, MediaIsNext DEF Vol

\* An empty cache shows the disk.
LEMMA EmptyCache ==
    ASSUME dcache = <<>>, NEW b \in Blocks PROVE Vol[b] = dhw.disk[b] /\ Media[b] = dhw.may[b]
<1>1. Vol[b] = Overlay(<<>>, b, dhw.disk[b]) /\ Media[b] = Med(<<>>, dhw.may, b)
  BY MediaIs DEF Vol
<1> QED
  BY <1>1, OverlayEmpty, MedEmpty

Lims == [calls : Nat, errors : Nat, late : Nat]
Queue == [req : Reqs, page : [1..IoMax -> Contents], status : {"ff", "ok", "ioerr"}, avail : 0..Wrap - 1]

\* The driver moves on when nothing is outstanding, or after a time-out.
Driver ==
  /\ dsc' = dsc /\ dhw' = dhw /\ dseen' \in 0..Wrap - 1
  /\ dlim' \in Lims /\ dlim'.errors = dlim.errors /\ dlim'.late <= dsc.timeouts
  /\ dlim'.calls <= MaxCalls /\ dlim.calls * IoMax <= dlim'.calls * IoMax
  /\ dlim'.late > 0 => dhw.used = dseen'
  /\ dlim'.late = 0 => dhw.taken = dq.avail /\ dhw.got = NoReq /\ dhw.used = dseen'

LEMMA DscTyped ==
    ASSUME DiskConstants, Typed
    PROVE  /\ dsc.cache \in BOOLEAN /\ dsc.pages \in Nat /\ dsc.errors \in Nat /\ dsc.timeouts \in Nat
           /\ dsc.late = FALSE /\ dsc.crash \in BOOLEAN /\ dsc.hasflush \in BOOLEAN /\ dsc.ro \in BOOLEAN
           /\ dsc.lose \in {"all", "none", "torn", "reorder"}
           /\ dsc.cache => dsc.pages > 0 /\ (~Fallible \/ dsc.pages >= MaxCalls * IoMax)
<1>1. dsc \in Scenarios
  BY DEF Typed
<1> QED
  BY <1>1 DEF DiskConstants, Fallible

LEMMA WrapNext ==
    ASSUME NEW w \in Nat, w > 1, NEW x \in 0..w - 1
    PROVE  (x + 1) % w = IF x + 1 = w THEN 0 ELSE x + 1
<1>1. CASE x + 1 = w
  <2>1. w % w = 0
    BY SMTT(30)
  <2> QED
    BY <1>1, <2>1
<1>2. CASE x + 1 # w
  <2>1. PICK y \in Nat : y = x + 1 /\ y < w
    BY <1>2, SMTT(30)
  <2>2. y % w = y
    BY <2>1, SMTT(30)
  <2> QED
    BY <1>2, <2>1, <2>2
<1> QED
  BY <1>1, <1>2

LEMMA Asks ==
    ASSUME DiskConstants, Typed, Driver, dcall'.pc = "wait",
           NEW type \in {"in", "out", "half", "flush"}, NEW blk \in Nat, NEW data \in Seq(Contents),
           Len(data) <= IoMax, Request(type, blk, data)
    PROVE  /\ dq' \in Queue /\ dq'.req = [type |-> type, blk |-> blk, data |-> data] /\ dq'.status = "ff"
           /\ type \in {"out", "half"} => \A k \in 1..Len(data) : dq'.page[k] = data[k]
           /\ Ring' /\ Got' /\ Done'
<1>1. /\ dq \in Queue /\ dhw.taken \in 0..Wrap - 1 /\ Wrap \in Nat /\ Wrap > 1 /\ IoMax \in Nat
      /\ dq.avail \in 0..Wrap - 1 /\ dq.page \in [1..IoMax -> Contents]
  BY DEF Typed, DiskConstants, Queue
<1>2. PICK r : r = [type |-> type, blk |-> blk, data |-> data]
  OBVIOUS
<1>3. PICK p : p = IF type \in {"out", "half"} THEN Over(dq.page, data) ELSE dq.page
  OBVIOUS
<1>4. dq' = [dq EXCEPT !.req = r, !.status = "ff", !.page = p, !.avail = (dq.avail + 1) % Wrap]
  BY <1>1, <1>2, <1>3 DEF Request, Queue
<1>5. r \in Reqs /\ p \in [1..IoMax -> Contents]
  BY <1>1, <1>2, <1>3, SMTT(30) DEF Reqs, Over
<1>6. (dq.avail + 1) % Wrap \in 0..Wrap - 1 /\ (dq.avail + 1) % Wrap # dq.avail
  <2>1. (dq.avail + 1) % Wrap = IF dq.avail + 1 = Wrap THEN 0 ELSE dq.avail + 1
    BY <1>1, WrapNext
  <2> QED
    BY <1>1, <2>1, SMTT(30)
<1>7. /\ dq' \in Queue /\ dq'.req = r /\ dq'.status = "ff" /\ dq'.page = p /\ dq'.avail = (dq.avail + 1) % Wrap
  BY <1>1, <1>4, <1>5, <1>6 DEF Queue
<1>8. type \in {"out", "half"} => \A k \in 1..Len(data) : dq'.page[k] = data[k]
  BY <1>1, <1>3, <1>7, SMTT(30) DEF Over
<1>9. Ring'
  <2>1. dhw'.used = dseen'
    <3>1. dlim'.late \in Nat
      BY DEF Driver, Lims
    <3>2. dlim'.late = 0 \/ dlim'.late > 0
      BY <3>1, SMTT(30)
    <3> QED
      BY <3>2 DEF Driver
  <2> QED
    BY <1>6, <1>7, <2>1 DEF Ring, Driver, Quiescent
<1>10. Got' /\ Done'
  BY <1>7 DEF Got, Done, Driver
<1> QED
  BY <1>2, <1>7, <1>8, <1>9, <1>10

LEMMA Idles ==
    ASSUME Driver, dq' = dq, dcall'.pc # "wait" PROVE Ring' /\ Got' /\ Done' /\ Asked' /\ FlushInv'
<1>1. Ring' /\ Got'
  BY DEF Ring, Got, Driver, Quiescent
<1>2. Done' /\ Asked' /\ FlushInv'
  BY DEF Done, Asked, FlushInv
<1> QED
  BY <1>1, <1>2

\* The shape of a call that reads, writes or flushes.
GoodCall(c) ==
  /\ c \in Calls
  /\ c.op \in {"read", "write"} => Len(c.data) \in 1..IoMax /\ c.blk + Len(c.data) <= NBlocks
  /\ c.op = "write" => c.data \in Seq(Data)

LEMMA Returns ==
    ASSUME DiskConstants, IInv, Driver, NEW c, GoodCall(c), c.op \in {"read", "write", "flush"},
           NEW res \in {"ok", "eio"}, Return(c, res), dq' = dq, Vol' = Vol, Media' = Media,
           dcache' \in Seq(CacheEntry), Len(dcache') <= Len(dcache), ~dsc.cache => dcache' = <<>>,
           \A b \in Blocks : dack[b] = Unknown \/ Vol[b] = dack[b] \/ (c.op = "write" /\ b \in Span(c)),
           res = "ok" =>
             /\ c.op = "write" => \A b \in Span(c) : Vol[b] = c.data[b - c.blk + 1]
             /\ c.op = "flush" => \A b \in Blocks : Media[b] = {Vol[b]}
             /\ c.op = "read" => \A b \in Span(c) : c.data[b - c.blk + 1] = Vol[b]
    PROVE  IInv'
<1>1. c \in Calls /\ dcall' = [c EXCEPT !.pc = "ret", !.res = res]
  BY DEF Return, GoodCall
<1>2. /\ dcall' \in Calls /\ dcall'.op = c.op /\ dcall'.pc = "ret" /\ dcall'.blk = c.blk /\ dcall'.data = c.data
      /\ dcall'.res = res
  BY <1>1 DEF Calls
<1>3. Span(dcall)' = Span(c)
  BY <1>2 DEF Span
<1>4. ASSUME NEW b \in Span(c), c.op = "write" PROVE c.data[b - c.blk + 1] \in Data /\ b \in Blocks
  <2>1. /\ b \in Int /\ c.blk \in Int /\ c.blk <= b /\ b < c.blk + Len(c.data) /\ c.data \in Seq(Data)
        /\ Len(c.data) \in Nat /\ b \in Blocks
    BY <1>1, <1>4, SMTT(30) DEF Span, GoodCall, Calls, Blocks, DiskConstants
  <2>2. b - c.blk + 1 \in 1..Len(c.data)
    BY <2>1, SMTT(30)
  <2> QED
    BY <2>1, <2>2, SMTT(30)
<1>5. /\ dack' \in [Blocks -> Contents \cup {Unknown}]
      /\ c.op # "write" => dack' = dack
      /\ c.op = "write" => \A b \in Blocks : dack'[b] = IF b \notin Span(c) THEN dack[b]
                                    ELSE IF res = "ok" THEN c.data[b - c.blk + 1] ELSE Unknown
  BY <1>4 DEF Return, IInv, Typed, Contents
<1>6. Typed'
  BY <1>2, <1>5 DEF IInv, Typed, Driver, Lims
<1>7. CallShape'
  <2>1. Len(dcache') <= dsc.pages
    <3>1. Len(dcache) \in Nat /\ Len(dcache') \in Nat /\ Len(dcache) <= dsc.pages
      BY SMTT(30) DEF IInv, Typed, CallShape
    <3>2. dsc.pages \in Nat
      BY DscTyped DEF IInv
    <3> QED
      BY <3>1, <3>2, SMTT(30)
  <2> QED
    BY <1>2, <2>1 DEF CallShape, Driver, GoodCall
<1>8. Ring' /\ Got' /\ Done' /\ Asked' /\ FlushInv'
  BY <1>2, Idles
<1>9. \A b \in Blocks : dack'[b] = Unknown \/ Vol[b] = dack'[b]
  BY <1>4, <1>5
<1>10. AckInv' /\ WriteInv' /\ CrashInv'
  BY <1>2, <1>9 DEF AckInv, WriteInv, CrashInv
<1>11. Room'
  <2>1. /\ Len(dcache) \in Nat /\ Len(dcache') \in Nat /\ dlim.calls \in Nat /\ dlim'.calls \in Nat
        /\ IoMax \in Nat /\ dlim.calls * IoMax \in Int /\ dlim'.calls * IoMax \in Int
    BY SMTT(30) DEF IInv, Typed, Driver, DiskConstants, Lims
  <2>2. dsc.cache /\ Fallible => Len(dcache) <= dlim.calls * IoMax
    <3>1. CASE dcall.pc = "put"
      <4>1. Len(dcall.data) \in Nat /\ dcall.i \in Nat /\ dcall.i <= Len(dcall.data) + 1
        BY <3>1, SMTT(30) DEF IInv, Typed, Calls, CallShape
      <4> QED
        BY <2>1, <3>1, <4>1, SMTT(30) DEF IInv, Room
    <3>2. CASE dcall.pc # "put"
      BY <2>1, <3>2, SMTT(30) DEF IInv, Room
    <3> QED
      BY <3>1, <3>2
  <2>3. dsc.cache /\ Fallible => Len(dcache') <= dlim'.calls * IoMax
    BY <2>1, <2>2, SMTT(30) DEF Driver
  <2> QED
    BY <1>2, <2>1, <2>3, SMTT(30) DEF Room, Driver, Fallible
<1>12. ErrInv' /\ DiskInv'
  BY <1>2 DEF IInv, ErrInv, DiskInv, Driver
<1>13. FlushDurable' /\ ReadsLast'
  <2>1. ASSUME c.op = "flush", res = "ok", NEW b \in Blocks PROVE dack'[b] = Unknown \/ Media'[b] = {dack'[b]}
    BY <1>9, <2>1
  <2>2. ASSUME c.op = "read", res = "ok", NEW b \in Span(c)
        PROVE  dack'[b] = Unknown \/ c.data[b - c.blk + 1] = dack'[b]
    <3>1. b \in Blocks
      BY DEF Span
    <3> QED
      BY <1>9, <2>2, <3>1
  <2>3. FlushDurable'
    BY <1>2, <2>1 DEF FlushDurable
  <2>4. ReadsLast'
    BY <1>2, <1>3, <2>2 DEF ReadsLast
  <2> QED
    BY <2>3, <2>4
<1> QED
  BY <1>6, <1>7, <1>8, <1>10, <1>11, <1>12, <1>13 DEF IInv

LEMMA CacheRoom ==
    ASSUME DiskConstants, IInv, Driver, dsc.cache, Fallible, Len(dcache') <= Len(dcache), dcache' \in Seq(CacheEntry)
    PROVE  Len(dcache') <= dlim'.calls * IoMax
<1>1. /\ Len(dcache) \in Nat /\ Len(dcache') \in Nat /\ dlim.calls \in Nat /\ dlim'.calls \in Nat
      /\ IoMax \in Nat /\ dlim.calls * IoMax \in Int /\ dlim'.calls * IoMax \in Int
  BY SMTT(30) DEF IInv, Typed, Driver, DiskConstants, Lims
<1>2. Len(dcache) <= dlim.calls * IoMax
  <2>1. CASE dcall.pc = "put"
    <3>1. Len(dcall.data) \in Nat /\ dcall.i \in Nat /\ dcall.i <= Len(dcall.data) + 1
      BY <2>1, SMTT(30) DEF IInv, Typed, Calls, CallShape
    <3> QED
      BY <1>1, <2>1, <3>1, SMTT(30) DEF IInv, Room
  <2>2. CASE dcall.pc # "put"
    BY <1>1, <2>2, SMTT(30) DEF IInv, Room
  <2> QED
    BY <2>1, <2>2
<1> QED
  BY <1>1, <1>2, SMTT(30) DEF Driver

LEMMA WaitsOn ==
    ASSUME DiskConstants, IInv, Driver, NEW c, GoodCall(c), c.op \in {"read", "write", "flush", "sync"},
           NEW type \in {"in", "out", "half", "flush"}, NEW blk \in Nat, NEW data \in Seq(Contents),
           Len(data) <= IoMax, Request(type, blk, data), Waits(c), Vol' = Vol, Media' = Media,
           dcache' \in Seq(CacheEntry), Len(dcache') <= Len(dcache), ~dsc.cache => dcache' = <<>>,
           \A b \in Blocks : dack[b] = Unknown \/ Vol[b] = dack[b] \/ (c.op = "write" /\ b \in Span(c)),
           c.op = "write" /\ dsc.cache => /\ ~Fallible
                                          /\ \A k \in 1 .. c.i - 1 : Vol[c.blk + k - 1] = c.data[k]
    PROVE  /\ dcall' \in Calls /\ dcall'.op = c.op /\ dcall'.pc = "wait" /\ dcall'.blk = c.blk
           /\ dcall'.data = c.data /\ dcall'.i = c.i
           /\ dq'.req = [type |-> type, blk |-> blk, data |-> data] /\ dq'.status = "ff"
           /\ type \in {"out", "half"} => \A k \in 1..Len(data) : dq'.page[k] = data[k]
           /\ Asked' /\ FlushInv' => IInv'
<1>1. c \in Calls /\ dcall' = [c EXCEPT !.pc = "wait"] /\ dack' = dack
  BY DEF Waits, GoodCall
<1>2. /\ dcall' \in Calls /\ dcall'.op = c.op /\ dcall'.pc = "wait" /\ dcall'.blk = c.blk /\ dcall'.data = c.data
      /\ dcall'.i = c.i
  BY <1>1 DEF Calls
<1>3. Span(dcall)' = Span(c)
  BY <1>2 DEF Span
<1>4. Typed
  BY DEF IInv
<1>5. /\ dq' \in Queue /\ dq'.req = [type |-> type, blk |-> blk, data |-> data] /\ dq'.status = "ff"
      /\ type \in {"out", "half"} => \A k \in 1..Len(data) : dq'.page[k] = data[k]
      /\ Ring' /\ Got' /\ Done'
  BY <1>2, <1>4, Asks
<1>6. Typed'
  BY <1>1, <1>2, <1>4, <1>5 DEF Typed, Driver, Lims, Queue
<1>7. CallShape'
  <2>1. Len(dcache') <= dsc.pages
    <3>1. Len(dcache) \in Nat /\ Len(dcache') \in Nat /\ Len(dcache) <= dsc.pages
      BY SMTT(30) DEF IInv, Typed, CallShape
    <3>2. dsc.pages \in Nat
      BY DscTyped DEF IInv
    <3> QED
      BY <3>1, <3>2, SMTT(30)
  <2> QED
    BY <1>2, <2>1 DEF CallShape, Driver, GoodCall
<1>8. AckInv'
  BY <1>1, <1>2, <1>3 DEF AckInv
<1>9. WriteInv' /\ CrashInv'
  BY <1>2, ZenonT(30) DEF WriteInv, CrashInv, Driver
<1>10. Room'
  BY <1>2, CacheRoom, SMTT(30) DEF Room, Driver, Fallible
<1>11. ErrInv' /\ DiskInv' /\ FlushDurable' /\ ReadsLast'
  BY <1>2, <1>5 DEF IInv, ErrInv, DiskInv, Driver, FlushDurable, ReadsLast
<1>12. Asked' /\ FlushInv' => IInv'
  BY <1>5, <1>6, <1>7, <1>8, <1>9, <1>10, <1>11 DEF IInv
<1> QED
  BY <1>2, <1>5, <1>12

\* nx_blk_write without the cache asks for all its blocks.
LEMMA WaitsOut ==
    ASSUME DiskConstants, IInv, Driver, NEW c, GoodCall(c), c.op = "write", ~dsc.cache,
           Request("out", c.blk, c.data), Waits(c), Vol' = Vol, Media' = Media,
           dcache' \in Seq(CacheEntry), Len(dcache') <= Len(dcache), dcache' = <<>>,
           \A b \in Blocks : dack[b] = Unknown \/ Vol[b] = dack[b]
    PROVE  /\ dcall'.op = "write" /\ dcall'.pc = "wait" /\ dcall'.blk = c.blk /\ dcall'.data = c.data
           /\ dq'.req = [type |-> "out", blk |-> c.blk, data |-> c.data]
           /\ \A k \in 1..Len(c.data) : dq'.page[k] = c.data[k]
           /\ Asked' /\ FlushInv' => IInv'
<1>1. PICK b \in Nat, D \in Seq(Contents) : b = c.blk /\ D = c.data /\ Len(D) <= IoMax
  <2>1. c \in Calls /\ c.blk \in Blocks /\ c.data \in Seq(Contents) /\ Len(c.data) \in 1..IoMax
    BY DEF GoodCall, Calls
  <2>2. c.blk \in Nat /\ Len(c.data) <= IoMax
    BY <2>1, SMTT(30) DEF Blocks, DiskConstants
  <2> QED
    BY <2>1, <2>2
<1>2. Request("out", b, D) /\ "out" \in {"in", "out", "half", "flush"} /\ c.op \in {"read", "write", "flush", "sync"}
  BY <1>1
<1>3. /\ \A x \in Blocks : dack[x] = Unknown \/ Vol[x] = dack[x] \/ (c.op = "write" /\ x \in Span(c))
      /\ c.op = "write" /\ dsc.cache => /\ ~Fallible
                                       /\ \A k \in 1 .. c.i - 1 : Vol[c.blk + k - 1] = c.data[k]
      /\ ~dsc.cache => dcache' = <<>>
  OBVIOUS
<1>4. /\ dcall'.op = c.op /\ dcall'.pc = "wait" /\ dcall'.blk = c.blk /\ dcall'.data = c.data
      /\ dq'.req = [type |-> "out", blk |-> b, data |-> D]
      /\ "out" \in {"out", "half"} => \A k \in 1..Len(D) : dq'.page[k] = D[k]
      /\ Asked' /\ FlushInv' => IInv'
  BY <1>1, <1>2, <1>3, WaitsOn, SMTT(30)
<1> QED
  BY <1>1, <1>4

\* The write of the oldest block has been answered, and there can be no error.
LEMMA Evicted ==
    ASSUME DiskConstants, IInv, dcall.pc = "wait", dcall.op = "write", dsc.cache
    PROVE  /\ ~Fallible /\ dlim.late = 0 /\ dsc.timeouts = 0 /\ dq.status # "ioerr"
           /\ dcache # <<>> /\ Len(dcache) = dsc.pages /\ dcall.i \in 1..Len(dcall.data)
           /\ dq.status = "ok" => /\ dhw.disk[dcache[1].blk] = dcache[1].val
                                  /\ {dcache[1].val, Torn} \subseteq dhw.may[dcache[1].blk]
<1>1. ~Fallible /\ dsc.errors = 0 /\ dsc.timeouts = 0
  BY DEF IInv, Room, Fallible
<1>2. dlim.late = 0 /\ dq.status # "ioerr"
  BY <1>1, SMTT(30) DEF IInv, ErrInv, Typed
<1>3. /\ Len(dcache) = dsc.pages /\ dcall.i \in 1..Len(dcall.data) /\ dcache \in Seq(CacheEntry)
      /\ dq.req = [type |-> "out", blk |-> dcache[1].blk, data |-> <<dcache[1].val>>]
  BY DEF IInv, Asked, Writes1, Typed
<1>4. dsc.pages \in Nat /\ dsc.pages > 0
  BY DscTyped DEF IInv
<1>5. dcache # <<>> /\ dcache[1] \in CacheEntry
  BY <1>3, <1>4, SMTT(30)
<1>6. dcache[1].blk \in Blocks /\ dcache[1].blk \in Int
  BY <1>5, SMTT(30) DEF CacheEntry, Blocks, DiskConstants
<1>7. /\ dq.req.type = "out" /\ dq.req.blk = dcache[1].blk /\ dq.req.data = <<dcache[1].val>>
  BY <1>3, SMTT(30)
<1>8. dcache[1].blk \in Of(dq.req)
  BY <1>6, <1>7, SMTT(30) DEF Of
<1>9. dq.req.data[dcache[1].blk - dq.req.blk + 1] = dcache[1].val
  BY <1>6, <1>7, SMTT(30)
<1>10. dq.status = "ok" => /\ dhw.disk[dcache[1].blk] = dcache[1].val
                           /\ {dcache[1].val, Torn} \subseteq dhw.may[dcache[1].blk]
  BY <1>7, <1>8, <1>9, SMTT(30) DEF IInv, Done
<1> QED
  BY <1>1, <1>2, <1>3, <1>5, <1>10

\* The write of one block is a write of BlockDev.
LEMMA OneWrite ==
    ASSUME DiskConstants, NEW b \in Blocks, NEW v \in Data,
           Vol' = [x \in Blocks |-> IF x = b THEN v ELSE Vol[x]],
           Media' = [x \in Blocks |-> IF x = b THEN Media[x] \cup {v, Torn} ELSE Media[x]]
    PROVE  DevStep
<1> DEFINE W == [x \in b .. b + 1 - 1 |-> v]
<1>1. b \in Int /\ b .. b + 1 - 1 = {b} /\ 1 \in 1..IoMax
  BY SMTT(30) DEF Blocks, DiskConstants
<1>2. W \in [b .. b + 1 - 1 -> Data]
  OBVIOUS
<1>3. b + 1 <= NBlocks
  BY SMTT(30) DEF Blocks, DiskConstants
<1>4. DOMAIN W = {b} /\ W[b] = v
  BY <1>1
<1> HIDE DEF W
<1>5. BD!DevWrite(W)
  BY <1>4 DEF BD!DevWrite, BD!Blocks, BD!Torn, Blocks, Torn
<1> QED
  BY <1>1, <1>2, <1>3, <1>5 DEF DevStep

LEMMA CallsRoom == ASSUME NEW x \in Nat, NEW y \in Nat, x <= y, NEW m \in Nat PROVE x * m <= y * m
<1>1. PICK z \in Nat : y = x + z
  <2>1. y - x \in Nat /\ y = x + (y - x)
    BY SMTT(30)
  <2> QED
    BY <2>1
<1>2. y * m = x * m + z * m /\ z * m \in Nat /\ x * m \in Nat
  BY <1>1, SMTT(30)
<1> QED
  BY <1>2, SMTT(30)

\* The cache s shows what the device shows, and the call c has put its first
\* blocks there.
CacheReady(c, s) ==
  /\ c.i \in 1 .. Len(c.data) + 1 /\ s \in Seq(CacheEntry) /\ Len(s) <= Len(dcache)
  /\ \A b \in Blocks : Overlay(s, b, dhw.disk[b]) = Vol[b] /\ Med(s, dhw.may, b) = Media[b]
  /\ \A b \in Blocks : dack[b] = Unknown \/ Vol[b] = dack[b] \/ b \in Span(c)
  /\ \A k \in 1 .. c.i - 1 : Vol[c.blk + k - 1] = c.data[k]
  /\ Fallible => Len(s) + (Len(c.data) + 1 - c.i) <= dlim'.calls * IoMax

LEMMA CachePutStep ==
    ASSUME DiskConstants, IInv, Driver, NEW c, GoodCall(c), c.op = "write",
           NEW s, CachePut(c, s), dsc.cache, CacheReady(c, s)
    PROVE  IInv' /\ DevStep
<1>0. /\ c \in Calls /\ c.data \in Seq(Data) /\ Len(c.data) \in 1..IoMax /\ c.blk \in Blocks
      /\ c.blk + Len(c.data) <= NBlocks
  BY DEF GoodCall, Calls
<1>a. c.i \in Nat /\ c.blk \in Nat /\ Len(c.data) \in Nat /\ NBlocks \in Nat /\ IoMax \in Nat
  BY <1>0, SMTT(30) DEF Calls, Blocks, DiskConstants
<1>1. PICK n \in Nat, i \in Nat, a \in Nat :
         /\ n = Len(c.data) /\ i = c.i /\ a = c.blk
         /\ 1 <= n /\ n <= IoMax /\ 1 <= i /\ i <= n + 1 /\ a + n <= NBlocks
  BY <1>0, <1>a, SMTT(30) DEF CacheReady
<1>c. 1 <= n /\ n <= IoMax /\ 1 <= i /\ i <= n + 1 /\ a + n <= NBlocks
  BY <1>1
<1>b. dsc.pages \in Nat /\ dsc.pages > 0 /\ dlim'.calls \in Nat /\ MaxCalls \in Nat
  BY DscTyped DEF IInv, DiskConstants, Driver, Lims
<1>2. PICK ls \in Nat, pages \in Nat, room \in Nat, all \in Nat :
         /\ ls = Len(s) /\ pages = dsc.pages /\ room = dlim'.calls * IoMax /\ all = MaxCalls * IoMax
         /\ ls <= pages /\ pages > 0
  <2>1. Len(s) \in Nat /\ Len(dcache) \in Nat /\ Len(dcache) <= dsc.pages /\ Len(s) <= Len(dcache)
    BY SMTT(30) DEF IInv, Typed, CallShape, CacheReady
  <2>2. Len(s) <= dsc.pages
    BY <1>b, <2>1, SMTT(30)
  <2>3. dlim'.calls * IoMax \in Nat /\ MaxCalls * IoMax \in Nat
    BY <1>a, <1>b, SMTT(30)
  <2> QED
    BY <1>b, <2>1, <2>2, <2>3
<1>3. ASSUME dcache' = s PROVE Vol' = Vol /\ Media' = Media
  <2>1. Vol' = [b \in Blocks |-> Overlay(s, b, dhw.disk[b])]
    BY <1>3 DEF Vol, Driver
  <2>2. Media' = [b \in Blocks |-> Med(s, dhw.may, b)]
    BY <1>3, MediaIsNext DEF Driver
  <2>3. Vol = [b \in Blocks |-> Vol[b]] /\ Media = [b \in Blocks |-> Media[b]]
    BY DEF Vol, Media
  <2> QED
    BY <2>1, <2>2, <2>3 DEF CacheReady
<1>4. CASE i > n
  <2>1. Return(c, "ok") /\ dcache' = s /\ dq' = dq
    BY <1>1, <1>4 DEF CachePut
  <2>2. i - 1 = n
    BY <1>1, <1>4, SMTT(30)
  <2>3. ASSUME NEW b \in Span(c) PROVE Vol[b] = c.data[b - c.blk + 1]
    <3>1. b \in Nat /\ a <= b /\ b < a + n
      BY <1>1, SMTT(30) DEF Span, Blocks, DiskConstants
    <3>2. PICK k \in 1 .. i - 1 : k = b - a + 1 /\ a + k - 1 = b
      <4>1. b - a + 1 \in 1 .. i - 1 /\ a + (b - a + 1) - 1 = b
        BY <2>2, <3>1, SMTT(30)
      <4> QED
        BY <4>1
    <3> QED
      BY <1>1, <3>2 DEF CacheReady
  <2>4. IInv'
    <3>1. /\ \A b \in Blocks : dack[b] = Unknown \/ Vol[b] = dack[b] \/ (c.op = "write" /\ b \in Span(c))
          /\ s \in Seq(CacheEntry) /\ Len(s) <= Len(dcache)
      BY DEF CacheReady
    <3> QED
      BY <1>3, <2>1, <2>3, <3>1, Returns
  <2> QED
    BY <1>3, <2>1, <2>4 DEF DevStep
<1>5. CASE i <= n /\ ls = pages
  <2>1. Request("out", s[1].blk, <<s[1].val>>) /\ Waits(c) /\ dcache' = s
    BY <1>1, <1>2, <1>5, SMTT(30) DEF CachePut
  <2>2. ~Fallible
    <3>1. room <= all
      BY <1>a, <1>b, <1>2, CallsRoom DEF Driver
    <3>2. Fallible => pages >= all
      BY <1>2, DscTyped DEF IInv
    <3>3. Fallible => ls + (n + 1 - i) <= room
      BY <1>1, <1>2 DEF CacheReady
    <3> QED
      BY <1>5, <3>1, <3>2, <3>3, SMTT(30)
  <2>3. s[1] \in CacheEntry /\ s # <<>>
    <3>1. s \in Seq(CacheEntry) /\ Len(s) > 0
      BY <1>2, <1>5 DEF CacheReady
    <3> QED
      BY <3>1, SMTT(30)
  <2>4. s[1].blk \in Nat /\ <<s[1].val>> \in Seq(Contents) /\ Len(<<s[1].val>>) = 1 /\ 1 <= IoMax
    BY <2>3, SMTT(30) DEF CacheEntry, Blocks, Contents, DiskConstants
  <2>5. /\ dcall' \in Calls /\ dcall'.op = c.op /\ dcall'.pc = "wait" /\ dcall'.blk = c.blk
        /\ dcall'.data = c.data /\ dcall'.i = c.i
        /\ dq'.req = [type |-> "out", blk |-> s[1].blk, data |-> <<s[1].val>>] /\ dq'.status = "ff"
        /\ \A k \in 1..1 : dq'.page[k] = <<s[1].val>>[k]
        /\ Asked' /\ FlushInv' => IInv'
    <3>1. \A b \in Blocks : dack[b] = Unknown \/ Vol[b] = dack[b] \/ (c.op = "write" /\ b \in Span(c))
      BY DEF CacheReady
    <3>2. \A k \in 1 .. c.i - 1 : Vol[c.blk + k - 1] = c.data[k]
      BY DEF CacheReady
    <3>3. Vol' = Vol /\ Media' = Media
      BY <1>3, <2>1
    <3>4. PICK b, d : b = s[1].blk /\ d = <<s[1].val>>
      OBVIOUS
    <3>5. Request("out", b, d) /\ b \in Nat /\ d \in Seq(Contents) /\ Len(d) <= IoMax
      BY <2>1, <2>4, <3>4
    <3>6. /\ dcall' \in Calls /\ dcall'.op = c.op /\ dcall'.pc = "wait" /\ dcall'.blk = c.blk
          /\ dcall'.data = c.data /\ dcall'.i = c.i
          /\ dq'.req = [type |-> "out", blk |-> b, data |-> d] /\ dq'.status = "ff"
          /\ \A k \in 1..Len(d) : dq'.page[k] = d[k]
          /\ Asked' /\ FlushInv' => IInv'
      <4>1. s \in Seq(CacheEntry) /\ Len(s) <= Len(dcache)
        BY DEF CacheReady
      <4> QED
        BY <2>1, <2>2, <3>1, <3>2, <3>3, <3>5, <4>1, WaitsOn, SMTT(30)
    <3> QED
      BY <2>4, <3>4, <3>6
  <2>6. Asked' /\ FlushInv'
    <3>1. dq'.req.type = "out" /\ Len(dq'.req.data) = 1 /\ dq'.req.data = <<s[1].val>>
      BY <2>5, SMTT(30)
    <3>2. Writes1("out", 1)'
      BY <2>1, <2>5 DEF Writes1
    <3>3. dcall'.i \in 1..Len(dcall'.data)
      BY <1>1, <1>5, <2>5, SMTT(30)
    <3> QED
      BY <1>2, <1>5, <2>1, <2>4, <2>5, <3>1, <3>2, <3>3, ZenonT(30) DEF Asked, FlushInv, Driver
  <2> QED
    BY <1>3, <2>1, <2>5, <2>6 DEF DevStep
<1>6. CASE i <= n /\ ls # pages
  <2> DEFINE e == [blk |-> a + i - 1, val |-> c.data[i]]
  <2>1. /\ dcall' = [c EXCEPT !.i = i + 1, !.pc = "put"] /\ dcache' = Append(s, e)
        /\ dq' = dq /\ dack' = dack
    BY <1>0, <1>1, <1>2, <1>6, SMTT(30) DEF CachePut, Calls
  <2>2. /\ dcall' \in Calls /\ dcall'.op = "write" /\ dcall'.pc = "put" /\ dcall'.blk = c.blk
        /\ dcall'.data = c.data /\ dcall'.i = i + 1
    <3>1. PICK j \in Nat : j = i + 1
      BY SMTT(30)
    <3>2. dcall' = [c EXCEPT !.i = j, !.pc = "put"]
      BY <2>1, <3>1
    <3>3. /\ dcall' \in Calls /\ dcall'.op = c.op /\ dcall'.pc = "put" /\ dcall'.blk = c.blk
          /\ dcall'.data = c.data /\ dcall'.i = j
      BY <1>0, <3>2 DEF Calls
    <3> QED
      BY <3>1, <3>3
  <2>3. /\ e \in CacheEntry /\ e.blk = a + i - 1 /\ e.val = c.data[i] /\ e.blk \in Blocks /\ e.val \in Data
    <3>1. c.data[i] \in Data
      BY <1>0, <1>1, <1>6, SMTT(30)
    <3>2. a + i - 1 \in Blocks
      BY <1>a, <1>c, <1>6, SMTT(30) DEF Blocks
    <3> QED
      BY <3>1, <3>2 DEF CacheEntry
  <2> HIDE DEF e
  <2>4. dcache' \in Seq(CacheEntry) /\ Len(dcache') = Len(s) + 1 /\ Len(dcache') <= dsc.pages
    <3>1. s \in Seq(CacheEntry)
      BY DEF CacheReady
    <3>2. dcache' \in Seq(CacheEntry) /\ Len(dcache') = Len(s) + 1
      BY <2>1, <2>3, <3>1, SMTT(30)
    <3>3. ls + 1 <= pages
      BY <1>2, <1>6, SMTT(30)
    <3> QED
      BY <1>2, <3>2, <3>3
  <2>5. Vol' = [b \in Blocks |-> IF b = e.blk THEN e.val ELSE Vol[b]]
    <3>1. Vol' = [b \in Blocks |-> Overlay(Append(s, e), b, dhw.disk[b])]
      BY <2>1 DEF Vol, Driver
    <3>2. \A b \in Blocks : Overlay(Append(s, e), b, dhw.disk[b]) = IF b = e.blk THEN e.val ELSE Vol[b]
      BY <2>3, OverlayAppend, SMTT(30) DEF CacheReady
    <3> QED
      BY <3>1, <3>2
  <2>6. Media' = [b \in Blocks |-> IF b = e.blk THEN Media[b] \cup {e.val, Torn} ELSE Media[b]]
    <3>1. Media' = [b \in Blocks |-> Med(Append(s, e), dhw.may, b)]
      BY <2>1, MediaIsNext DEF Driver
    <3>2. \A b \in Blocks : Med(Append(s, e), dhw.may, b) = IF b = e.blk THEN Media[b] \cup {e.val, Torn} ELSE Media[b]
      <4>1. \A b \in Blocks : Med(s, dhw.may, b) = Media[b]
        BY DEF CacheReady
      <4>2. \A b : Med(Append(s, e), dhw.may, b) = IF b = e.blk THEN Med(s, dhw.may, b) \cup {e.val, Torn} ELSE Med(s, dhw.may, b)
        <5>1. s \in Seq(CacheEntry)
          BY DEF CacheReady
        <5>2. PICK m : m = dhw.may
          OBVIOUS
        <5>3. ASSUME NEW b
              PROVE  Med(Append(s, e), m, b) = IF b = e.blk THEN Med(s, m, b) \cup {e.val, Torn} ELSE Med(s, m, b)
          <6>1. e \in CacheEntry
            BY <2>3
          <6> QED
            BY <5>1, <6>1, MedAppend, SMTT(30)
        <5> QED
          BY <5>2, <5>3
      <4> QED
        BY <4>1, <4>2
    <3> QED
      BY <3>1, <3>2
  <2>7. DevStep
    BY <2>3, <2>5, <2>6, OneWrite
  <2>8. Typed'
    BY <2>1, <2>2, <2>4 DEF IInv, Typed, Driver, Lims
  <2>9. CallShape'
    <3>1. dcall'.i \in 1 .. Len(dcall'.data) + 1
      BY <1>1, <1>6, <2>2, SMTT(30)
    <3>2. /\ Len(dcall'.data) \in 1..IoMax /\ dcall'.blk + Len(dcall'.data) <= NBlocks
          /\ dcall'.data \in Seq(Data)
      BY <1>0, <2>2
    <3> QED
      BY <2>2, <2>4, <3>1, <3>2 DEF CallShape, Driver
  <2>10. Ring' /\ Got' /\ Done' /\ Asked' /\ FlushInv'
    BY <2>1, <2>2, Idles
  <2>11. Span(dcall)' = Span(c) /\ e.blk \in Span(c)
    <3>1. a <= e.blk /\ e.blk < a + n
      BY <1>1, <1>6, <2>3, SMTT(30)
    <3> QED
      BY <1>1, <2>2, <2>3, <3>1 DEF Span
  <2>12. AckInv'
    BY <2>1, <2>2, <2>5, <2>11 DEF AckInv, CacheReady
  <2>13. WriteInv'
    <3>1. ASSUME NEW k \in 1 .. i + 1 - 1 PROVE Vol'[a + k - 1] = c.data[k]
      <4>1. a + k - 1 \in Blocks /\ k \in Nat
        BY <1>a, <1>c, <1>6, SMTT(30) DEF Blocks
      <4>2. CASE k = i
        BY <2>3, <2>5, <4>1, <4>2
      <4>3. CASE k # i
        <5>1. k \in 1 .. i - 1 /\ a + k - 1 # e.blk
          BY <1>1, <2>3, <4>3, SMTT(30)
        <5>2. Vol[a + k - 1] = c.data[k]
          BY <1>1, <5>1 DEF CacheReady
        <5> QED
          BY <2>5, <4>1, <5>1, <5>2
      <4> QED
        BY <4>2, <4>3
    <3> QED
      BY <1>1, <2>2, <3>1, SMTT(30) DEF WriteInv
  <2>14. CrashInv' /\ ErrInv' /\ DiskInv' /\ FlushDurable' /\ ReadsLast'
    BY <2>2 DEF IInv, CrashInv, ErrInv, DiskInv, FlushDurable, ReadsLast, Driver
  <2>15. Room'
    <3>1. Fallible => ls + (n + 1 - i) <= room
      BY <1>1, <1>2 DEF CacheReady
    <3>2. Fallible => (ls + 1) + (n + 1 - (i + 1)) <= room
      <4>1. (ls + 1) + (n + 1 - (i + 1)) = ls + (n + 1 - i)
        BY SMTT(30)
      <4> QED
        BY <3>1, <4>1
    <3> QED
      BY <1>1, <1>2, <2>2, <2>4, <3>2 DEF Room, Driver, Fallible
  <2> QED
    BY <2>7, <2>8, <2>9, <2>10, <2>12, <2>13, <2>14, <2>15 DEF IInv
<1> QED
  BY <1>4, <1>5, <1>6, SMTT(30)

LEMMA NoData == <<>> \in Seq(Contents) /\ <<>> \in Seq(CacheEntry) /\ Len(<<>>) = 0
BY EmptySeq

LEMMA DriverStill ==
    ASSUME DiskConstants, IInv, dcall.pc # "wait", UNCHANGED <<dsc, dseen, dhw, dlim>> PROVE Driver
<1>1. dlim \in Lims /\ dseen \in 0..Wrap - 1
  BY DEF IInv, Typed, Lims
<1>2. dlim.calls * IoMax \in Nat
  BY <1>1, SMTT(30) DEF DiskConstants, Lims
<1> QED
  BY <1>1, <1>2, SMTT(30) DEF Driver, IInv, Ring, Quiescent, ErrInv, Room

LEMMA DriverCall ==
    ASSUME DiskConstants, IInv, Free, Counted, UNCHANGED <<dsc, dseen, dhw>>
    PROVE  Driver /\ dlim'.calls = dlim.calls + 1
<1>1. dlim \in Lims /\ dseen \in 0..Wrap - 1 /\ dlim.calls \in Nat /\ dlim.calls < MaxCalls /\ MaxCalls \in Nat
  BY DEF IInv, Typed, Lims, Free, DiskConstants
<1>2. PICK n \in Nat : n = dlim.calls + 1 /\ n <= MaxCalls /\ dlim.calls <= n
  <2>1. dlim.calls + 1 \in Nat /\ dlim.calls + 1 <= MaxCalls /\ dlim.calls <= dlim.calls + 1
    BY <1>1, SMTT(30)
  <2> QED
    BY <2>1
<1>3. dlim' = [dlim EXCEPT !.calls = n]
  BY <1>1, <1>2 DEF Counted, Lims
<1>4. dlim' \in Lims /\ dlim'.calls = n /\ dlim'.errors = dlim.errors /\ dlim'.late = dlim.late
  BY <1>1, <1>3 DEF Lims
<1>5. dlim.calls * IoMax <= n * IoMax
  BY <1>1, <1>2, CallsRoom DEF DiskConstants
<1>6. dcall.pc # "wait"
  BY DEF Free
<1> QED
  BY <1>1, <1>2, <1>4, <1>5, <1>6 DEF Driver, IInv, Ring, Quiescent, ErrInv

LEMMA DriverPoll ==
    ASSUME DiskConstants, IInv, dcall.pc = "wait", dhw.used # dseen, dseen' = (dseen + 1) % Wrap,
           UNCHANGED <<dsc, dhw, dlim>>
    PROVE  Driver
<1>1. dlim \in Lims /\ dlim.late \in Nat
  BY DEF IInv, Typed, Lims
<1>2. dlim.late = 0
  BY <1>1, SMTT(30) DEF IInv, Ring
<1>3. dhw.taken = dq.avail /\ dhw.got = NoReq /\ dseen' = dhw.used /\ dhw.used \in 0..Wrap - 1
  BY <1>2 DEF IInv, Ring, Typed
<1>4. dlim.calls * IoMax \in Nat
  BY <1>1, SMTT(30) DEF DiskConstants, Lims
<1> QED
  BY <1>1, <1>2, <1>3, <1>4, SMTT(30) DEF Driver, IInv, ErrInv, Room

LEMMA DriverTimeout ==
    ASSUME DiskConstants, IInv, dhw.used = dseen, dlim.late < dsc.timeouts,
           dlim' = [dlim EXCEPT !.late = @ + 1], UNCHANGED <<dsc, dseen, dhw>>
    PROVE  Driver
<1>1. /\ dlim \in Lims /\ dlim.late \in Nat /\ dsc.timeouts \in Nat /\ dseen \in 0..Wrap - 1
      /\ dlim.calls * IoMax \in Nat
  <2>1. dlim \in Lims /\ dlim.late \in Nat /\ dseen \in 0..Wrap - 1 /\ dlim.calls \in Nat
    BY DEF IInv, Typed, Lims
  <2>2. dsc.timeouts \in Nat
    BY DscTyped DEF IInv
  <2>3. dlim.calls * IoMax \in Nat
    BY <2>1, SMTT(30) DEF DiskConstants
  <2> QED
    BY <2>1, <2>2, <2>3
<1>2. PICK n \in Nat : n = dlim.late + 1 /\ n > 0 /\ n <= dsc.timeouts
  BY <1>1, SMTT(30)
<1>3. dlim' = [dlim EXCEPT !.late = n]
  BY <1>1, <1>2 DEF Lims
<1>4. dlim' \in Lims /\ dlim'.calls = dlim.calls /\ dlim'.errors = dlim.errors /\ dlim'.late = n
  BY <1>1, <1>3 DEF Lims
<1> QED
  BY <1>1, <1>2, <1>4, SMTT(30) DEF Driver, IInv, Room

\* A cache that was written back in full can be dropped.
LEMMA ClearCache ==
    ASSUME Typed, Written(Len(dcache)), NEW b \in Blocks
    PROVE  Overlay(dcache, b, dhw.disk[b]) = dhw.disk[b] /\ Med(dcache, dhw.may, b) = dhw.may[b]
<1>1. dcache \in Seq(CacheEntry) /\ Len(dcache) \in Nat
  BY SMTT(30) DEF Typed
<1>2. Overlay(dcache, b, dhw.disk[b]) = dhw.disk[b]
  <2>1. CASE \A i \in 1..Len(dcache) : dcache[i].blk # b
    BY <1>1, <2>1, OverlayNone, ZenonT(30)
  <2>2. CASE \E i \in 1..Len(dcache) : dcache[i].blk = b
    <3>1. PICK i : i \in Newest(dcache, b)
      BY <1>1, <2>2, NewestExists
    <3>2. i \in 1..Len(dcache) /\ dcache[i].blk = b /\ \A j \in i + 1 .. Len(dcache) : dcache[j].blk # b
      BY <3>1 DEF Newest
    <3>3. dhw.disk[b] = dcache[i].val
      BY <3>2 DEF Written
    <3> QED
      BY <1>1, <3>1, <3>3, OverlayNewest
  <2> QED
    BY <2>1, <2>2
<1>3. ASSUME NEW x \in Med(dcache, dhw.may, b) PROVE x \in dhw.may[b]
  BY <1>3 DEF Med, Written
<1>4. dhw.may[b] \subseteq Med(dcache, dhw.may, b)
  BY DEF Med
<1> QED
  BY <1>2, <1>3, <1>4

LEMMA Cleared ==
    ASSUME Typed, Written(Len(dcache)), dcache' = <<>>, dhw' = dhw PROVE Vol' = Vol /\ Media' = Media
<1>1. Vol' = [b \in Blocks |-> Overlay(<<>>, b, dhw.disk[b])]
  BY DEF Vol
<1>2. Media' = [b \in Blocks |-> Med(<<>>, dhw.may, b)]
  BY MediaIsNext
<1>3. \A b \in Blocks : Overlay(<<>>, b, dhw.disk[b]) = Overlay(dcache, b, dhw.disk[b])
  BY ClearCache, OverlayEmpty
<1>4. \A b \in Blocks : Med(<<>>, dhw.may, b) = Med(dcache, dhw.may, b)
  BY ClearCache, MedEmpty
<1> QED
  BY <1>1, <1>2, <1>3, <1>4, MediaIs DEF Vol

\* nx_blk_flush goes on to the next block, or drops the cache.
LEMMA FlushNextStep ==
    ASSUME DiskConstants, IInv, Driver, NEW c, GoodCall(c), c.op = "flush", c.i <= Len(dcache),
           Written(c.i), FlushNext(c),
           \A b \in Blocks : dack[b] = Unknown \/ Vol[b] = dack[b]
    PROVE  IInv' /\ DevStep
<1>1. c \in Calls /\ c.i \in Nat /\ Typed /\ dcache \in Seq(CacheEntry) /\ Len(dcache) \in Nat
  BY SMTT(30) DEF GoodCall, Calls, IInv, Typed
<1>2. PICK i \in Nat, n \in Nat : i = c.i /\ n = Len(dcache) /\ i <= n
  BY <1>1
<1>3. CASE i < n
  <2> DEFINE d == [c EXCEPT !.i = i + 1]
             e == dcache[i + 1]
  <2>1. d \in Calls /\ d.op = "flush" /\ d.i = i + 1 /\ GoodCall(d)
    <3>1. i + 1 \in Nat
      BY SMTT(30)
    <3>2. d \in Calls /\ d.op = "flush" /\ d.i = i + 1
      BY <1>1, <3>1 DEF Calls
    <3> QED
      BY <3>2 DEF GoodCall
  <2>2. e \in CacheEntry /\ i + 1 \in 1..n
    BY <1>1, <1>2, <1>3, SMTT(30)
  <2>3. Request("out", e.blk, <<e.val>>) /\ Waits(d) /\ dcache' = dcache
    BY <1>1, <1>2, <1>3 DEF FlushNext, Calls
  <2>4. e.blk \in Nat /\ <<e.val>> \in Seq(Contents) /\ Len(<<e.val>>) = 1 /\ 1 <= IoMax
    BY <2>2, SMTT(30) DEF CacheEntry, Blocks, Contents, DiskConstants
  <2>5. Vol' = Vol /\ Media' = Media
    BY <2>3, SameDevice DEF Driver
  <2> HIDE DEF d, e
  <2>6. PICK b \in Nat, w \in Seq(Contents) : b = e.blk /\ w = <<e.val>> /\ Len(w) = 1
    BY <2>4
  <2>7. ~dsc.cache => dcache' = <<>>
    BY <2>3 DEF IInv, CallShape
  <2>8. /\ dcall' \in Calls /\ dcall'.op = d.op /\ dcall'.pc = "wait" /\ dcall'.i = d.i
        /\ dq'.req = [type |-> "out", blk |-> b, data |-> w] /\ dq'.status = "ff"
        /\ \A k \in 1..Len(w) : dq'.page[k] = w[k]
        /\ Asked' /\ FlushInv' => IInv'
    <3>1. Request("out", b, w) /\ Len(w) <= IoMax /\ Len(dcache') <= Len(dcache) /\ dcache' \in Seq(CacheEntry)
      BY <1>1, <2>3, <2>4, <2>6, SMTT(30)
    <3> QED
      BY <2>1, <2>3, <2>5, <2>7, <3>1, WaitsOn, SMTT(30)
  <2>9. Asked'
    <3>1. dq'.req.type = "out" /\ dq'.req.data = w /\ Len(dq'.req.data) <= IoMax
      BY <2>4, <2>6, <2>8, SMTT(30)
    <3>2. Writes1("out", i + 1)'
      BY <2>3, <2>6, <2>8 DEF Writes1, e
    <3>3. dcall'.i = i + 1 /\ i + 1 \in 1..Len(dcache')
      BY <1>2, <2>1, <2>2, <2>3, <2>8
    <3> QED
      BY <2>1, <2>8, <3>1, <3>2, <3>3 DEF Asked
  <2>10. FlushInv'
    <3>1. Written(i)'
      BY <1>2, <2>3 DEF Written, Driver
    <3>2. dcall'.i - 1 = i
      BY <2>1, <2>8, SMTT(30)
    <3> QED
      BY <2>8, <3>1, <3>2 DEF FlushInv
  <2> QED
    BY <2>5, <2>8, <2>9, <2>10 DEF DevStep
<1>4. CASE i = n
  <2>1. dcache' = <<>> /\ Len(dcache') = 0 /\ dcache' \in Seq(CacheEntry)
    <3>1. dcache' = <<>>
      BY <1>2, <1>4, SMTT(30) DEF FlushNext
    <3> QED
      BY <3>1, NoData
  <2>2. Vol' = Vol /\ Media' = Media
    BY <1>1, <1>2, <1>4, <2>1, Cleared DEF Driver
  <2>3. CASE dsc.hasflush
    <3> DEFINE d == [c EXCEPT !.op = "sync"]
    <3>1. Request("flush", 0, <<>>) /\ Waits(d)
      BY <1>2, <1>4, <2>3, SMTT(30) DEF FlushNext
    <3>2. d.op = "sync" /\ GoodCall(d)
      <4>1. d \in Calls /\ d.op = "sync"
        BY <1>1 DEF Calls
      <4> QED
        BY <4>1 DEF GoodCall
    <3> HIDE DEF d
    <3>3. PICK w \in Seq(Contents) : w = <<>> /\ Len(w) = 0
      BY NoData
    <3>4. /\ dcall' \in Calls /\ dcall'.op = d.op /\ dcall'.pc = "wait"
          /\ dq'.req = [type |-> "flush", blk |-> 0, data |-> w] /\ dq'.status = "ff"
          /\ Asked' /\ FlushInv' => IInv'
      <4>1. Request("flush", 0, w) /\ Len(w) <= IoMax /\ Len(dcache') <= Len(dcache) /\ 0 \in Nat
        BY <1>1, <2>1, <3>1, <3>3, SMTT(30) DEF DiskConstants
      <4> QED
        BY <2>1, <2>2, <3>1, <3>2, <4>1, WaitsOn, SMTT(30)
    <3>5. Asked' /\ FlushInv'
      <4>1. dq'.req.type = "flush" /\ Len(dq'.req.data) <= IoMax
        BY <3>3, <3>4, SMTT(30) DEF DiskConstants
      <4> QED
        BY <2>1, <3>2, <3>3, <3>4, <4>1 DEF Asked, FlushInv
    <3> QED
      BY <2>2, <3>4, <3>5 DEF DevStep
  <2>4. CASE ~dsc.hasflush
    <3>1. Return(c, "eio") /\ dq' = dq
      BY <1>2, <1>4, <2>4, SMTT(30) DEF FlushNext
    <3>2. Len(dcache') <= Len(dcache)
      BY <1>1, <2>1, SMTT(30)
    <3>3. IInv'
      BY <2>1, <2>2, <3>1, <3>2, Returns
    <3> QED
      BY <2>2, <3>3 DEF DevStep
  <2> QED
    BY <2>3, <2>4
<1> QED
  BY <1>2, <1>3, <1>4, SMTT(30)

----------------------------------------------------------------------------
(* A crash point.                                                          *)

\* Everything but what a crash point may disturb is vacuous while it runs.
CrashCall(c) ==
  /\ c \in Calls /\ c.op \in {"crash", "stop"} /\ c.i <= Len(dcache)
  /\ c.op = "stop" => c.i = Len(dcache)
  /\ \A b \in Blocks : dhw.disk[b] \in c.was[b]
  /\ \A k \in 1..Len(dcache) : {dcache[k].val, Torn} \subseteq c.was[dcache[k].blk]

LEMMA Crashing ==
    ASSUME DiskConstants, IInv, Driver, UNCHANGED <<dcache, dack>>, CrashCall(dcall)', dq' \in Queue,
           dcall'.pc \in {"wait", "crash", "off"}, dcall'.pc = "wait" => dq'.status = "ff",
           Ring' /\ Got' /\ Done' /\ Asked'
    PROVE  IInv'
<1>1. dcall' \in Calls /\ dcall'.op \in {"crash", "stop"}
  BY DEF CrashCall
<1>2. Typed'
  BY <1>1 DEF IInv, Typed, Driver, Lims, Queue
<1>3. CallShape'
  BY <1>1 DEF IInv, CallShape, CrashCall, Driver
<1>4. FlushInv' /\ AckInv' /\ WriteInv' /\ CrashInv'
  BY <1>1 DEF FlushInv, AckInv, WriteInv, CrashInv, CrashCall
<1>5. Room'
  <2>1. Len(dcache) \in Nat /\ dcache \in Seq(CacheEntry)
    BY SMTT(30) DEF IInv, Typed
  <2>2. dsc.cache /\ Fallible => Len(dcache') <= dlim'.calls * IoMax
    BY <2>1, CacheRoom, SMTT(30)
  <2>3. dlim'.calls \in Nat /\ IoMax \in Nat
    BY DEF Driver, Lims, DiskConstants
  <2> QED
    BY <1>1, <2>1, <2>2, <2>3, SMTT(30) DEF Room, Driver, Fallible
<1>6. ErrInv' /\ DiskInv' /\ FlushDurable' /\ ReadsLast'
  BY <1>1 DEF IInv, ErrInv, DiskInv, Driver, FlushDurable, ReadsLast
<1> QED
  BY <1>2, <1>3, <1>4, <1>5, <1>6 DEF IInv

LEMMA CrashNextStep ==
    ASSUME DiskConstants, IInv, Driver, NEW c, CrashCall(c), CrashNext(c), dcall.op \in {"crash", "stop"}
    PROVE  IInv' /\ DevStep
<1>1. /\ c \in Calls /\ c.i \in Nat /\ c.op \in {"crash", "stop"} /\ Typed /\ dcache \in Seq(CacheEntry)
      /\ Len(dcache) \in Nat /\ dq \in Queue
  BY SMTT(30) DEF CrashCall, Calls, IInv, Typed, Queue
<1>2. PICK i \in Nat, n \in Nat : i = c.i /\ n = Len(dcache) /\ i <= n
  BY <1>1 DEF CrashCall
<1>3. UNCHANGED <<dcache, dack>> /\ DevStep
  BY DEF CrashNext, DevStep
<1>4. CASE i = n /\ c.op = "crash" /\ dsc.hasflush
  <2>1. Request("flush", 0, <<>>) /\ dcall' = [c EXCEPT !.op = "stop", !.pc = "wait"]
    BY <1>2, <1>4 DEF CrashNext
  <2>2. dcall' \in Calls /\ dcall'.op = "stop" /\ dcall'.pc = "wait" /\ dcall'.i = i /\ dcall'.was = c.was
    BY <1>1, <1>2, <2>1 DEF Calls
  <2>3. PICK w \in Seq(Contents) : w = <<>> /\ Len(w) = 0
    BY NoData
  <2>4. Request("flush", 0, w) /\ Len(w) <= IoMax /\ 0 \in Nat
    BY <2>1, <2>3, SMTT(30) DEF DiskConstants
  <2>5. /\ dq' \in Queue /\ dq'.req = [type |-> "flush", blk |-> 0, data |-> w] /\ dq'.status = "ff"
        /\ Ring' /\ Got' /\ Done'
    BY <1>1, <2>2, <2>4, Asks
  <2>6. dq'.req.type = "flush" /\ Len(dq'.req.data) <= IoMax
    BY <2>4, <2>5, SMTT(30)
  <2>7. Asked'
    BY <2>2, <2>3, <2>5, <2>6 DEF Asked
  <2>8. CrashCall(dcall)'
    BY <1>2, <1>3, <1>4, <2>2 DEF CrashCall, Driver
  <2> QED
    BY <1>3, <2>2, <2>5, <2>7, <2>8, Crashing
<1>5. CASE i = n /\ ~(c.op = "crash" /\ dsc.hasflush)
  <2>1. dq' = dq /\ dcall' = [c EXCEPT !.pc = "off"]
    BY <1>2, <1>5 DEF CrashNext
  <2>2. dcall' \in Calls /\ dcall'.op = c.op /\ dcall'.pc = "off" /\ dcall'.i = i /\ dcall'.was = c.was
    BY <1>1, <1>2, <2>1 DEF Calls
  <2>3. Ring' /\ Got' /\ Done' /\ Asked'
    BY <2>1, <2>2, Idles
  <2>4. CrashCall(dcall)'
    BY <1>2, <1>3, <1>5, <2>2 DEF CrashCall, Driver
  <2> QED
    BY <1>1, <1>3, <2>1, <2>2, <2>3, <2>4, Crashing
<1>6. CASE i < n
  <2>1. c.op = "crash" /\ c.i # Len(dcache) /\ i + 1 \in 1..n /\ i + 1 \in Nat /\ dcache[i + 1] \in CacheEntry
    BY <1>1, <1>2, <1>6, SMTT(30) DEF CrashCall
  <2>2. CASE Keep(i + 1) = "no"
    <3>1. dq' = dq /\ dcall' = [c EXCEPT !.i = i + 1, !.pc = "crash"]
      BY <1>1, <1>2, <2>1, <2>2 DEF CrashNext, Calls
    <3>2. dcall' \in Calls /\ dcall'.op = "crash" /\ dcall'.pc = "crash" /\ dcall'.i = i + 1 /\ dcall'.was = c.was
      BY <1>1, <2>1, <3>1 DEF Calls
    <3>3. Ring' /\ Got' /\ Done' /\ Asked'
      BY <3>1, <3>2, Idles
    <3>4. i + 1 <= Len(dcache)
      BY <1>2, <2>1, SMTT(30)
    <3>5. CrashCall(dcall)'
      BY <1>3, <3>2, <3>4 DEF CrashCall, Driver
    <3> QED
      BY <1>1, <1>3, <3>1, <3>2, <3>3, <3>5, Crashing
  <2>3. CASE Keep(i + 1) # "no"
    <3>1. Keep(i + 1) \in {"out", "half"}
      BY <1>1, <2>3, DscTyped DEF Keep
    <3>2. PICK e \in CacheEntry, type \in {"out", "half"} : e = dcache[i + 1] /\ type = Keep(i + 1)
      BY <2>1, <3>1
    <3>3. Request(type, e.blk, <<e.val>>) /\ dcall' = [c EXCEPT !.i = i + 1, !.pc = "wait"]
      BY <1>1, <1>2, <2>1, <2>3, <3>2 DEF CrashNext, Calls
    <3>4. dcall' \in Calls /\ dcall'.op = "crash" /\ dcall'.pc = "wait" /\ dcall'.i = i + 1 /\ dcall'.was = c.was
      BY <1>1, <2>1, <3>3 DEF Calls
    <3>5. e.blk \in Nat /\ <<e.val>> \in Seq(Contents) /\ Len(<<e.val>>) = 1 /\ 1 <= IoMax
      BY <2>1, <3>2, SMTT(30) DEF CacheEntry, Blocks, Contents, DiskConstants
    <3>6. PICK b \in Nat, w \in Seq(Contents) : b = e.blk /\ w = <<e.val>> /\ Len(w) = 1
      BY <3>5
    <3>7. Request(type, b, w) /\ Len(w) <= IoMax
      BY <3>3, <3>5, <3>6
    <3>8. /\ dq' \in Queue /\ dq'.req = [type |-> type, blk |-> b, data |-> w] /\ dq'.status = "ff"
          /\ \A k \in 1..Len(w) : dq'.page[k] = w[k]
          /\ Ring' /\ Got' /\ Done'
      BY <1>1, <3>4, <3>7, Asks, SMTT(30)
    <3>9. Asked'
      <4>1. dq'.req.data = w /\ Len(dq'.req.data) <= IoMax
        BY <3>7, <3>8, SMTT(30)
      <4>2. Writes1("out", i + 1)' \/ Writes1("half", i + 1)'
        BY <1>3, <3>2, <3>6, <3>8 DEF Writes1
      <4>3. i + 1 \in 1..Len(dcache')
        BY <1>2, <1>3, <2>1
      <4> QED
        BY <3>4, <3>8, <4>1, <4>2, <4>3 DEF Asked
    <3>10. i + 1 <= Len(dcache)
      BY <1>2, <2>1, SMTT(30)
    <3>11. CrashCall(dcall)'
      BY <1>3, <3>4, <3>10 DEF CrashCall, Driver
    <3> QED
      BY <1>3, <3>4, <3>8, <3>9, <3>11, Crashing
  <2> QED
    BY <2>2, <2>3
<1> QED
  BY <1>2, <1>3, <1>4, <1>5, <1>6, SMTT(30)

LEMMA MediaTyped == ASSUME DiskConstants, Typed PROVE Media \in [Blocks -> SUBSET Contents]
<1>1. dcache \in Seq(CacheEntry) /\ dhw.may \in [Blocks -> SUBSET Contents]
  BY DEF Typed
<1>2. \A k \in 1..Len(dcache) : dcache[k] \in CacheEntry
  BY <1>1, SMTT(30)
<1>3. \A k \in 1..Len(dcache) : dcache[k].val \in Contents
  BY <1>2 DEF CacheEntry, Contents
<1>4. Torn \in Contents
  BY DEF Contents
<1>5. ASSUME NEW b \in Blocks, NEW x \in Med(dcache, dhw.may, b) PROVE x \in Contents
  BY <1>1, <1>3, <1>4, <1>5 DEF Med
<1> QED
  BY <1>5, MediaIs

LEMMA Stopped == ASSUME DiskConstants, IInv, Driver, Stops PROVE IInv' /\ DevStep
<1>1. dcall' = CrashPoint /\ UNCHANGED <<dcache, dq, dack>>
  BY DEF Stops
<1>2. Media \in [Blocks -> SUBSET Contents]
  BY MediaTyped DEF IInv
<1>3. 0 \in Blocks /\ <<>> \in Seq(Contents)
  BY NoData, SMTT(30) DEF Blocks, DiskConstants
<1>4. PICK w \in [Blocks -> SUBSET Contents] : w = Media
  BY <1>2
<1>5. /\ dcall' \in Calls /\ dcall'.op = "crash" /\ dcall'.pc = "crash" /\ dcall'.i = 0 /\ dcall'.was = Media
  <2>1. dcall' = [op |-> "crash", pc |-> "crash", blk |-> 0, data |-> <<>>, i |-> 0, res |-> "none", was |-> w]
    BY <1>1, <1>4 DEF CrashPoint, NoCall
  <2> QED
    BY <1>3, <1>4, <2>1 DEF Calls
<1>6. dcache \in Seq(CacheEntry) /\ Len(dcache) \in Nat /\ dq \in Queue
  BY SMTT(30) DEF IInv, Typed, Queue
<1>7. ASSUME NEW b \in Blocks PROVE dhw.disk[b] \in Media[b]
  BY MediaIs DEF IInv, DiskInv, Med
<1>8. ASSUME NEW k \in 1..Len(dcache) PROVE {dcache[k].val, Torn} \subseteq Media[dcache[k].blk]
  <2>1. dcache[k] \in CacheEntry
    BY <1>6, SMTT(30)
  <2>2. dcache[k].blk \in Blocks
    BY <2>1 DEF CacheEntry
  <2> QED
    BY <2>2 DEF Media
<1>9. CrashCall(dcall)'
  BY <1>1, <1>5, <1>6, <1>7, <1>8, SMTT(30) DEF CrashCall, Driver
<1>10. Ring' /\ Got' /\ Done' /\ Asked'
  BY <1>1, <1>5, Idles
<1>11. IInv'
  BY <1>1, <1>5, <1>6, <1>9, <1>10, Crashing
<1>12. Vol' = Vol /\ Media' = Media
  BY <1>1, SameDevice DEF Driver
<1> QED
  BY <1>11, <1>12 DEF DevStep
=============================================================================
