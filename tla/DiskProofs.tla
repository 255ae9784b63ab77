----------------------------- MODULE DiskProofs -----------------------------
(***************************************************************************)
(* The kernel's block device implements the device that the store is       *)
(* proved on, for every size of the device, of a request and of the cache  *)
(* of the crash-test layer, and every number of errors and time-outs, as   *)
(* long as a device that can fail meets no full cache and nothing is       *)
(* answered after a time-out (DiskConstants): one lemma per action, and    *)
(* the theorems.                                                           *)
(***************************************************************************)
EXTENDS DiskInvariant

USE Zenon

----------------------------------------------------------------------------
(* A request is answered.                                                  *)

LEMMA Waiting ==
    ASSUME DiskConstants, IInv, dcall.pc = "wait", dcall.op \in {"read", "write", "flush", "sync"}
    PROVE  /\ GoodCall(dcall) /\ GoodCall([dcall EXCEPT !.op = "flush"])
           /\ \A b \in Blocks : dack[b] = Unknown \/ Vol[b] = dack[b] \/ (dcall.op = "write" /\ b \in Span(dcall))
<1>1. dcall \in Calls
  BY DEF IInv, Typed
<1>2. GoodCall(dcall)
  BY <1>1 DEF IInv, CallShape, GoodCall
<1>3. [dcall EXCEPT !.op = "flush"] \in Calls /\ [dcall EXCEPT !.op = "flush"].op = "flush"
  BY <1>1 DEF Calls
<1> QED
  BY <1>2, <1>3 DEF IInv, AckInv, GoodCall

LEMMA SameCache ==
    ASSUME DiskConstants, IInv, dcache' = dcache, dhw' = dhw
    PROVE  /\ Vol' = Vol /\ Media' = Media /\ dcache' \in Seq(CacheEntry) /\ Len(dcache') <= Len(dcache)
           /\ ~dsc.cache => dcache' = <<>>
<1>1. dcache \in Seq(CacheEntry) /\ Len(dcache) \in Nat
  BY SMTT(30) DEF IInv, Typed
<1> QED
  BY <1>1, SameDevice, SMTT(30) DEF IInv, CallShape

LEMMA ReadStep ==
    ASSUME DiskConstants, IInv, Driver, dcall.pc = "wait", dcall.op = "read", NEW st \in {"ok", "eio"},
           st = "ok" => dq.status = "ok", ReadDone(st)
    PROVE  IInv' /\ DevStep
<1>1. /\ Vol' = Vol /\ Media' = Media /\ dcache' \in Seq(CacheEntry) /\ Len(dcache') <= Len(dcache)
      /\ ~dsc.cache => dcache' = <<>>
      /\ dq' = dq
  BY SameCache DEF ReadDone, Driver
<1>2. DevStep
  BY <1>1 DEF DevStep
<1>3. GoodCall(dcall) /\ \A b \in Blocks : dack[b] = Unknown \/ Vol[b] = dack[b]
  BY Waiting
<1>4. CASE st = "eio"
  <2>1. Return(dcall, "eio")
    BY <1>4 DEF ReadDone
  <2> QED
    BY <1>1, <1>2, <1>3, <2>1, Returns
<1>5. CASE st = "ok"
  <2>1. dcall \in Calls /\ dcall.blk \in Blocks /\ dcall.data \in Seq(Contents)
    BY DEF IInv, Typed, Calls
  <2>2. PICK n \in Nat, a \in Nat :
          n = Len(dcall.data) /\ a = dcall.blk /\ n \in 1..IoMax /\ a + n <= NBlocks /\ NBlocks \in Nat
    <3>1. Len(dcall.data) \in 1..IoMax /\ dcall.blk + Len(dcall.data) <= NBlocks
      BY <1>3 DEF GoodCall
    <3>2. Len(dcall.data) \in Nat /\ dcall.blk \in Nat /\ NBlocks \in Nat
      BY <2>1, SMTT(30) DEF Blocks, DiskConstants
    <3> QED
      BY <3>1, <3>2
  <2>3. /\ dq.req.type = "in" /\ dq.req.blk = a /\ Len(dq.req.data) = n /\ dq.status = "ok"
    BY <1>5, <2>2 DEF IInv, Asked
  <2>4. \A k \in 1..n : dq.page[k] = dhw.disk[a + k - 1]
    BY <2>3 DEF IInv, Done
  <2>5. PICK D : D = [k \in 1..n |-> Overlay(dcache, a + k - 1, dq.page[k])]
    OBVIOUS
  <2>6. ASSUME NEW k \in 1..n PROVE D[k] = Vol[a + k - 1] /\ D[k] \in Contents /\ a + k - 1 \in Blocks
    <3>1. a + k - 1 \in Blocks
      BY <2>2, SMTT(30) DEF Blocks
    <3>2. D[k] = Vol[a + k - 1]
      BY <2>4, <2>5, <3>1 DEF Vol
    <3>3. Vol[a + k - 1] \in Contents
      BY <3>1, OverlayTyped DEF Vol, IInv, Typed
    <3> QED
      BY <3>1, <3>2, <3>3
  <2>7. D \in Seq(Contents) /\ Len(D) = n
    <3>1. D \in [1..n -> Contents]
      BY <2>5, <2>6
    <3> QED
      BY <2>2, <3>1, SMTT(30)
  <2>8. PICK c : c = [dcall EXCEPT !.data = D]
    OBVIOUS
  <2>9. c \in Calls /\ c.op = "read" /\ c.data = D /\ c.blk = a
    BY <2>1, <2>2, <2>7, <2>8 DEF Calls
  <2>10. GoodCall(c)
    BY <2>2, <2>7, <2>9 DEF GoodCall
  <2>11. Return(c, "ok")
    BY <1>5, <2>2, <2>5, <2>8 DEF ReadDone
  <2>12. ASSUME NEW b \in Span(c) PROVE c.data[b - c.blk + 1] = Vol[b]
    <3>1. b \in Nat /\ a <= b /\ b < a + n
      BY <2>7, <2>9, SMTT(30) DEF Span, Blocks
    <3>2. b - a + 1 \in 1..n /\ a + (b - a + 1) - 1 = b
      BY <2>2, <3>1, SMTT(30)
    <3> QED
      BY <2>6, <2>9, <3>2
  <2> QED
    BY <1>1, <1>2, <1>3, <2>9, <2>10, <2>11, <2>12, Returns
<1> QED
  BY <1>4, <1>5

\* The write that made room has been done: the oldest entry goes.
LEMMA EvictStep ==
    ASSUME DiskConstants, IInv, Driver, dcall.pc = "wait", dcall.op = "write", dsc.cache, dq.status = "ok",
           CachePut(dcall, Tail(dcache))
    PROVE  IInv' /\ DevStep
<1>1. /\ ~Fallible /\ dcache # <<>> /\ dcall.i \in 1..Len(dcall.data)
      /\ dhw.disk[dcache[1].blk] = dcache[1].val
      /\ {dcache[1].val, Torn} \subseteq dhw.may[dcache[1].blk]
  BY Evicted
<1>2. dcache \in Seq(CacheEntry) /\ dcall \in Calls
  BY DEF IInv, Typed
<1>3. Tail(dcache) \in Seq(CacheEntry) /\ Len(Tail(dcache)) <= Len(dcache)
  BY <1>1, <1>2, SMTT(30)
<1>4. ASSUME NEW b \in Blocks
      PROVE  Overlay(Tail(dcache), b, dhw.disk[b]) = Vol[b] /\ Med(Tail(dcache), dhw.may, b) = Media[b]
  <2>1. dcache[1].blk = b => dhw.disk[b] = dcache[1].val /\ {dcache[1].val, Torn} \subseteq dhw.may[b]
    BY <1>1
  <2>2. Overlay(Tail(dcache), b, dhw.disk[b]) = Overlay(dcache, b, dhw.disk[b])
    BY <1>1, <1>2, <2>1, OverlayTail
  <2>3. Med(Tail(dcache), dhw.may, b) = Med(dcache, dhw.may, b)
    BY <1>1, <1>2, <2>1, MedTail
  <2> QED
    BY <2>2, <2>3, MediaIs DEF Vol
<1>5. dcall.i \in 1 .. Len(dcall.data) + 1
  <2>1. Len(dcall.data) \in Nat
    BY <1>2, SMTT(30) DEF Calls
  <2> QED
    BY <1>1, <2>1, SMTT(30)
<1>6. GoodCall(dcall) /\ \A b \in Blocks : dack[b] = Unknown \/ Vol[b] = dack[b] \/ b \in Span(dcall)
  BY Waiting
<1>7. \A k \in 1 .. dcall.i - 1 : Vol[dcall.blk + k - 1] = dcall.data[k]
  BY DEF IInv, WriteInv
<1>8. CacheReady(dcall, Tail(dcache))
  BY <1>1, <1>3, <1>4, <1>5, <1>6, <1>7 DEF CacheReady
<1> QED
  BY <1>6, <1>8, CachePutStep

\* A write without the cache has been done, or has failed.
LEMMA WriteStep ==
    ASSUME DiskConstants, IInv, Driver, dcall.pc = "wait", dcall.op = "write", ~dsc.cache,
           NEW st \in {"ok", "eio"}, st = "ok" => dq.status = "ok", Return(dcall, st), UNCHANGED <<dcache, dq>>
    PROVE  IInv' /\ DevStep
<1>1. /\ Vol' = Vol /\ Media' = Media /\ dcache' \in Seq(CacheEntry) /\ Len(dcache') <= Len(dcache)
      /\ dcache' = <<>> /\ dcache = <<>> /\ dq' = dq
  BY SameCache DEF Driver
<1>2. DevStep
  BY <1>1 DEF DevStep
<1>3. /\ GoodCall(dcall)
      /\ \A b \in Blocks : dack[b] = Unknown \/ Vol[b] = dack[b] \/ (dcall.op = "write" /\ b \in Span(dcall))
  BY Waiting
<1>4. ASSUME st = "ok", NEW b \in Span(dcall) PROVE Vol[b] = dcall.data[b - dcall.blk + 1]
  <2>1. dq.req = [type |-> "out", blk |-> dcall.blk, data |-> dcall.data] /\ dq.status = "ok"
    BY <1>4 DEF IInv, Asked
  <2>2. dq.req.type = "out" /\ dq.req.blk = dcall.blk /\ dq.req.data = dcall.data
    BY <2>1, SMTT(30)
  <2>3. b \in Of(dq.req) /\ b \in Blocks
    BY <2>2 DEF Of, Span
  <2>4. dhw.disk[b] = dcall.data[b - dcall.blk + 1]
    BY <2>1, <2>2, <2>3 DEF IInv, Done
  <2>5. Vol[b] = dhw.disk[b]
    BY <1>1, <2>3, EmptyCache
  <2> QED
    BY <2>4, <2>5
<1>5. IInv'
  BY <1>1, <1>3, <1>4, Returns
<1> QED
  BY <1>2, <1>5

\* nx_blk_flush after the write of a cached block, and after the device's flush.
LEMMA FlushStep ==
    ASSUME DiskConstants, IInv, Driver, dcall.pc = "wait", dcall.op = "flush",
           NEW st \in {"ok", "eio"}, st = "ok" => dq.status = "ok",
           IF st = "ok" THEN FlushNext(dcall) ELSE Return(dcall, "eio") /\ UNCHANGED <<dcache, dq>>
    PROVE  IInv' /\ DevStep
<1>1. GoodCall(dcall) /\ \A b \in Blocks : dack[b] = Unknown \/ Vol[b] = dack[b]
  BY Waiting
<1>2. CASE st = "ok"
  <2>1. Written(dcall.i) /\ dcall.i \in 1..Len(dcache)
    BY <1>2 DEF IInv, FlushInv, Asked
  <2>2. dcall.i <= Len(dcache)
    BY <2>1, SMTT(30)
  <2> QED
    BY <1>1, <1>2, <2>1, <2>2, FlushNextStep
<1>3. CASE st = "eio"
  <2>1. Return(dcall, "eio") /\ dcache' = dcache /\ dq' = dq
    BY <1>3
  <2>2. /\ Vol' = Vol /\ Media' = Media /\ dcache' \in Seq(CacheEntry) /\ Len(dcache') <= Len(dcache)
        /\ ~dsc.cache => dcache' = <<>>
    BY <2>1, SameCache DEF Driver
  <2>3. IInv'
    BY <1>1, <1>3, <2>1, <2>2, Returns
  <2> QED
    BY <2>2, <2>3 DEF DevStep
<1> QED
  BY <1>2, <1>3

LEMMA SyncStep ==
    ASSUME DiskConstants, IInv, Driver, dcall.pc = "wait", dcall.op = "sync",
           NEW st \in {"ok", "eio"}, st = "ok" => dq.status = "ok",
           Return([dcall EXCEPT !.op = "flush"], st), UNCHANGED <<dcache, dq>>
    PROVE  IInv' /\ DevStep
<1>1. /\ Vol' = Vol /\ Media' = Media /\ dcache' \in Seq(CacheEntry) /\ Len(dcache') <= Len(dcache)
      /\ dq' = dq /\ (~dsc.cache => dcache' = <<>>)
  BY SameCache DEF Driver
<1>2. PICK c : c = [dcall EXCEPT !.op = "flush"]
  OBVIOUS
<1>3. GoodCall(c) /\ c.op = "flush" /\ Return(c, st) /\ \A b \in Blocks : dack[b] = Unknown \/ Vol[b] = dack[b]
  <2>1. dcall \in Calls
    BY DEF IInv, Typed
  <2>2. c.op = "flush"
    BY <1>2, <2>1 DEF Calls
  <2> QED
    BY <1>2, <2>2, Waiting
<1>4. ASSUME st = "ok", NEW b \in Blocks PROVE Media[b] = {Vol[b]}
  <2>1. dcache = <<>> /\ dq.req = [type |-> "flush", blk |-> 0, data |-> <<>>] /\ dq.status = "ok"
    BY <1>4 DEF IInv, Asked
  <2>2. dq.req.type = "flush"
    BY <2>1, SMTT(30)
  <2>3. dhw.may[b] = {dhw.disk[b]}
    BY <2>1, <2>2 DEF IInv, Done
  <2>4. Vol[b] = dhw.disk[b] /\ Media[b] = dhw.may[b]
    BY <2>1, EmptyCache
  <2> QED
    BY <2>3, <2>4
<1>5. IInv'
  BY <1>1, <1>3, <1>4, Returns
<1> QED
  BY <1>1, <1>5 DEF DevStep

\* An answered request, whoever waits for it.
LEMMA AnsweredStep ==
    ASSUME DiskConstants, IInv, Driver, dcall.pc = "wait", NEW st \in {"ok", "eio"}, Answered(st),
           st = "ok" => dq.status = "ok", st = "eio" => dq.status = "ioerr" \/ dsc.timeouts # 0
    PROVE  IInv' /\ DevStep
<1>1. dcall \in Calls
  BY DEF IInv, Typed
<1>2. dcall.op \in {"none", "read", "write", "flush", "sync", "crash", "stop"} /\ dcall.op # "none"
  BY <1>1 DEF IInv, CallShape, Calls
<1>3. CASE dcall.op = "read"
  <2>1. ReadDone(st)
    BY <1>3 DEF Answered
  <2> QED
    BY <1>3, <2>1, ReadStep
<1>4. CASE dcall.op = "write" /\ dsc.cache
  <2>1. cache_evict_oldest(st)
    BY <1>4 DEF Answered, Cached
  <2>2. st = "ok"
    BY <1>4, Evicted
  <2> QED
    BY <1>4, <2>1, <2>2, EvictStep DEF cache_evict_oldest
<1>5. CASE dcall.op = "write" /\ ~dsc.cache
  <2>1. Return(dcall, st) /\ UNCHANGED <<dcache, dq>>
    BY <1>5 DEF Answered, Cached
  <2> QED
    BY <1>5, <2>1, WriteStep
<1>6. CASE dcall.op = "flush"
  <2>1. IF st = "ok" THEN FlushNext(dcall) ELSE Return(dcall, "eio") /\ UNCHANGED <<dcache, dq>>
    BY <1>6 DEF Answered
  <2> QED
    BY <1>6, <2>1, FlushStep
<1>7. CASE dcall.op = "sync"
  <2>1. Return([dcall EXCEPT !.op = "flush"], st) /\ UNCHANGED <<dcache, dq>>
    BY <1>7 DEF Answered
  <2> QED
    BY <1>7, <2>1, SyncStep
<1>8. CASE dcall.op \in {"crash", "stop"}
  <2>1. CrashNext(dcall)
    BY <1>8 DEF Answered
  <2>2. CrashCall(dcall)
    BY <1>1, <1>8 DEF CrashCall, IInv, CallShape, CrashInv
  <2> QED
    BY <1>8, <2>1, <2>2, CrashNextStep
<1> QED
  BY <1>2, <1>3, <1>4, <1>5, <1>6, <1>7, <1>8

LEMMA PollStep == ASSUME DiskConstants, IInv, Poll PROVE IInv' /\ DevStep
<1>1. Driver
  BY DriverPoll DEF Poll
<1>2. dq.status \in {"ok", "ioerr"}
  <2>1. dq.status \in {"ff", "ok", "ioerr"}
    BY DEF IInv, Typed
  <2> QED
    BY <2>1 DEF IInv, Ring, Poll
<1>3. PICK st \in {"ok", "eio"} : st = IF dq.status = "ok" THEN "ok" ELSE "eio"
  OBVIOUS
<1>4. dcall.pc = "wait" /\ Answered(st)
  BY <1>3 DEF Poll
<1> QED
  BY <1>1, <1>2, <1>3, <1>4, AnsweredStep

LEMMA TimeoutStep == ASSUME DiskConstants, IInv, Timeout PROVE IInv' /\ DevStep
<1>1. Driver
  BY DriverTimeout DEF Timeout
<1>2. dsc.timeouts # 0
  <2>1. dlim.late \in Nat /\ dsc.timeouts \in Nat /\ dlim.late < dsc.timeouts
    BY DscTyped DEF IInv, Typed, Timeout
  <2> QED
    BY <2>1, SMTT(30)
<1> QED
  BY <1>1, <1>2, AnsweredStep DEF Timeout

----------------------------------------------------------------------------
(* The other steps of the driver.                                          *)

LEMMA PutStep == ASSUME DiskConstants, IInv, Put PROVE IInv' /\ DevStep
<1>1. /\ dcall.pc = "put" /\ CachePut(dcall, dcache) /\ dlim' = dlim /\ Driver
  BY DriverStill DEF Put
<1>2. dcall \in Calls /\ dcache \in Seq(CacheEntry) /\ Len(dcache) <= Len(dcache)
  BY SMTT(30) DEF IInv, Typed
<1>3. dcall.op = "write" /\ dsc.cache /\ dcall.i \in 1 .. Len(dcall.data) + 1 /\ GoodCall(dcall)
  BY <1>1, <1>2 DEF IInv, CallShape, GoodCall
<1>4. \A b \in Blocks : Overlay(dcache, b, dhw.disk[b]) = Vol[b] /\ Med(dcache, dhw.may, b) = Media[b]
  BY MediaIs DEF Vol
<1>5. /\ \A b \in Blocks : dack[b] = Unknown \/ Vol[b] = dack[b] \/ b \in Span(dcall)
      /\ \A k \in 1 .. dcall.i - 1 : Vol[dcall.blk + k - 1] = dcall.data[k]
  BY <1>1, <1>3 DEF IInv, AckInv, WriteInv
<1>6. Fallible => Len(dcache) + (Len(dcall.data) + 1 - dcall.i) <= dlim'.calls * IoMax
  BY <1>1, <1>3 DEF IInv, Room
<1>7. CacheReady(dcall, dcache)
  BY <1>2, <1>3, <1>4, <1>5, <1>6 DEF CacheReady
<1> QED
  BY <1>1, <1>3, <1>7, CachePutStep

LEMMA CrashStep == ASSUME DiskConstants, IInv, Crash PROVE IInv' /\ DevStep
<1>1. dcall.pc = "crash" /\ CrashNext(dcall) /\ Driver
  BY DriverStill DEF Crash
<1>2. dcall.op \in {"crash", "stop"} /\ CrashCall(dcall)
  BY <1>1 DEF IInv, Typed, CallShape, CrashInv, CrashCall
<1> QED
  BY <1>1, <1>2, CrashNextStep

\* Between calls, what was acknowledged is what a read gives.
LEMMA Settled ==
    ASSUME DiskConstants, IInv, Free
    PROVE  /\ \A b \in Blocks : dack[b] = Unknown \/ Vol[b] = dack[b]
           /\ \A b \in Blocks : Overlay(dcache, b, dhw.disk[b]) = Vol[b] /\ Med(dcache, dhw.may, b) = Media[b]
<1>1. dcall.pc = "ret" /\ dcall.op \notin {"crash", "stop"}
  BY DEF Free, IInv, CallShape
<1> QED
  BY <1>1, MediaIs DEF IInv, AckInv, Vol

\* A call that starts with n contents from x at block b.
LEMMA Started ==
    ASSUME DiskConstants, NEW b \in Blocks, NEW n \in 1..IoMax, NEW x \in Contents, b + n <= NBlocks,
           NEW op \in {"read", "write"}, op = "write" => x \in Data, NEW D, D = [i \in 1..n |-> x], NEW c, c = Call(op, b, D)
    PROVE  /\ GoodCall(c) /\ c.op = op /\ c.blk = b /\ c.data = D /\ c.i = 0
           /\ D \in Seq(Contents) /\ (op = "write" => D \in Seq(Data)) /\ Len(D) = n /\ Len(D) <= IoMax
<1>1. n \in Nat /\ n <= IoMax /\ 0 \in Blocks
  BY SMTT(30) DEF DiskConstants, Blocks
<1>2. D \in Seq(Contents) /\ (op = "write" => D \in Seq(Data)) /\ Len(D) = n
  BY <1>1, SMTT(30)
<1>3. [a \in Blocks |-> {}] \in [Blocks -> SUBSET Contents]
  OBVIOUS
<1>4. PICK w \in [Blocks -> SUBSET Contents] : w = [a \in Blocks |-> {}]
  BY <1>3
<1>5. c = [op |-> op, pc |-> "ret", blk |-> b, data |-> D, i |-> 0, res |-> "none", was |-> w]
  BY <1>4 DEF Call, NoCall
<1>6. c \in Calls /\ c.op = op /\ c.blk = b /\ c.data = D /\ c.i = 0
  BY <1>2, <1>5, SMTT(30) DEF Calls
<1> QED
  BY <1>1, <1>2, <1>6 DEF GoodCall

LEMMA ReadCall == ASSUME DiskConstants, IInv, nx_blk_read PROVE IInv' /\ DevStep
<1>1. Free /\ dcache' = dcache /\ Driver
  BY DriverCall DEF nx_blk_read
<1>2. PICK b \in Blocks, n \in 1..IoMax :
         /\ b + n <= NBlocks
         /\ Request("in", b, [i \in 1..n |-> Blank]) /\ Waits(Call("read", b, [i \in 1..n |-> Blank]))
  BY DEF nx_blk_read
<1>3. PICK D : D = [i \in 1..n |-> Blank]
  OBVIOUS
<1>4. PICK c : c = Call("read", b, D)
  OBVIOUS
<1>5. /\ GoodCall(c) /\ c.op = "read" /\ c.blk = b /\ c.data = D
      /\ D \in Seq(Contents) /\ Len(D) <= IoMax
  <2>1. Blank \in Contents
    BY DEF Contents
  <2> QED
    BY <1>2, <1>3, <1>4, <2>1, Started, SMTT(30)
<1>6. /\ Vol' = Vol /\ Media' = Media /\ dcache' \in Seq(CacheEntry) /\ Len(dcache') <= Len(dcache)
      /\ ~dsc.cache => dcache' = <<>>
  BY <1>1, SameCache DEF Driver
<1>7. b \in Nat
  BY SMTT(30) DEF Blocks, DiskConstants
<1>8. \A x \in Blocks : dack[x] = Unknown \/ Vol[x] = dack[x]
  BY <1>1, Settled
<1>9. Request("in", b, D) /\ Waits(c)
  BY <1>2, <1>3, <1>4
<1>10. /\ dcall'.op = "read" /\ dcall'.pc = "wait" /\ dcall'.blk = b /\ dcall'.data = D
       /\ dq'.req = [type |-> "in", blk |-> b, data |-> D]
       /\ Asked' /\ FlushInv' => IInv'
  BY <1>1, <1>5, <1>6, <1>7, <1>8, <1>9, WaitsOn, ZenonT(30)
<1>11. dq'.req.type = "in" /\ dq'.req.blk = b /\ dq'.req.data = D
  BY <1>10, SMTT(30)
<1>12. Asked' /\ FlushInv'
  BY <1>10, <1>11 DEF Asked, FlushInv
<1> QED
  BY <1>6, <1>10, <1>12 DEF DevStep

\* nx_blk_write on a device without the cache.
LEMMA WriteOut ==
    ASSUME DiskConstants, IInv, Free, Driver, UNCHANGED dcache, ~dsc.cache, NEW c, GoodCall(c), c.op = "write",
           Request("out", c.blk, c.data), Waits(c)
    PROVE  IInv' /\ DevStep
<1>1. /\ Vol' = Vol /\ Media' = Media /\ dcache' \in Seq(CacheEntry) /\ Len(dcache') <= Len(dcache)
      /\ dcache' = <<>>
  BY SameCache DEF Driver
<1>2. \A x \in Blocks : dack[x] = Unknown \/ Vol[x] = dack[x]
  BY Settled
<1>5. /\ dcall'.op = "write" /\ dcall'.pc = "wait" /\ dcall'.blk = c.blk /\ dcall'.data = c.data
      /\ dq'.req = [type |-> "out", blk |-> c.blk, data |-> c.data]
      /\ \A k \in 1..Len(c.data) : dq'.page[k] = c.data[k]
      /\ Asked' /\ FlushInv' => IInv'
  BY <1>1, <1>2, WaitsOut
<1>6. dq'.req.data = c.data /\ dsc' = dsc
  BY <1>5, SMTT(30) DEF Driver
<1>7. Asked' /\ FlushInv'
  BY <1>5, <1>6 DEF Asked, FlushInv
<1> QED
  BY <1>1, <1>5, <1>7 DEF DevStep

LEMMA WriteCall == ASSUME DiskConstants, IInv, nx_blk_write PROVE IInv' /\ DevStep
<1>1. Free /\ Driver /\ dlim'.calls = dlim.calls + 1
  BY DriverCall DEF nx_blk_write
<1>2. PICK b \in Blocks, n \in 1..IoMax, v \in Data :
         /\ b + n <= NBlocks
         /\ LET c == Call("write", b, [i \in 1..n |-> v])
            IN IF dsc.ro THEN Return(c, "eio") /\ UNCHANGED <<dcache, dq>>
               ELSE \/ Stops
                    \/ Cached /\ CachePut([c EXCEPT !.i = 1], dcache)
                    \/ ~Cached /\ Request("out", b, c.data) /\ Waits(c) /\ UNCHANGED dcache
  BY DEF nx_blk_write
<1>3. PICK D : D = [i \in 1..n |-> v]
  OBVIOUS
<1>4. PICK c : c = Call("write", b, D)
  OBVIOUS
<1>5. \/ Return(c, "eio") /\ UNCHANGED <<dcache, dq>>
      \/ Stops
      \/ dsc.cache /\ CachePut([c EXCEPT !.i = 1], dcache)
      \/ ~dsc.cache /\ Request("out", b, c.data) /\ Waits(c) /\ UNCHANGED dcache
  BY <1>2, <1>3, <1>4 DEF Cached
<1>6. /\ GoodCall(c) /\ c.op = "write" /\ c.blk = b /\ c.data = D /\ c.i = 0
      /\ D \in Seq(Contents) /\ D \in Seq(Data) /\ Len(D) = n /\ Len(D) <= IoMax
  <2>1. v \in Contents
    BY DEF Contents
  <2> QED
    BY <1>2, <1>3, <1>4, <2>1, Started, SMTT(30)
<1>7. \A x \in Blocks : dack[x] = Unknown \/ Vol[x] = dack[x]
  BY <1>1, Settled
<1>8. CASE Return(c, "eio") /\ UNCHANGED <<dcache, dq>>
  <2>1. /\ Vol' = Vol /\ Media' = Media /\ dcache' \in Seq(CacheEntry) /\ Len(dcache') <= Len(dcache)
        /\ dq' = dq /\ (~dsc.cache => dcache' = <<>>)
    BY <1>1, <1>8, SameCache DEF Driver
  <2>2. IInv'
    BY <1>1, <1>6, <1>7, <1>8, <2>1, Returns
  <2> QED
    BY <2>1, <2>2 DEF DevStep
<1>9. CASE Stops
  BY <1>1, <1>9, Stopped
<1>10. CASE ~dsc.cache /\ Request("out", b, c.data) /\ Waits(c) /\ UNCHANGED dcache
  BY <1>1, <1>6, <1>10, WriteOut
<1>11. CASE dsc.cache /\ CachePut([c EXCEPT !.i = 1], dcache)
  <2>1. PICK d : d = [c EXCEPT !.i = 1]
    OBVIOUS
  <2>2. /\ d \in Calls /\ d.op = "write" /\ d.blk = b /\ d.data = D /\ d.i = 1
    BY <1>6, <2>1, SMTT(30) DEF GoodCall, Calls
  <2>3. GoodCall(d)
    BY <1>6, <2>2 DEF GoodCall
  <2>4. dcache \in Seq(CacheEntry) /\ Len(dcache) \in Nat /\ Len(dcache) <= Len(dcache)
    BY SMTT(30) DEF IInv, Typed
  <2>5. n \in Nat /\ n <= IoMax /\ IoMax \in Nat /\ dlim.calls \in Nat /\ 1 \in 1 .. n + 1 /\ 1 .. 1 - 1 = {}
    BY SMTT(30) DEF DiskConstants, IInv, Typed
  <2>6. Fallible => Len(dcache) + (n + 1 - 1) <= dlim'.calls * IoMax
    <3>1. Fallible => Len(dcache) + 0 <= dlim.calls * IoMax
      BY <1>1, <1>11 DEF IInv, Room, Free
    <3>2. PICK p \in Nat : p = dlim.calls * IoMax
      BY <2>5, SMTT(30)
    <3>3. dlim'.calls * IoMax = p + IoMax
      BY <1>1, <2>5, <3>2, SMTT(30)
    <3> QED
      BY <2>4, <2>5, <3>1, <3>2, <3>3, SMTT(30)
  <2>7. CacheReady(d, dcache)
    <3>1. \A x \in Blocks : Overlay(dcache, x, dhw.disk[x]) = Vol[x] /\ Med(dcache, dhw.may, x) = Media[x]
      BY <1>1, Settled
    <3>2. \A k \in 1 .. d.i - 1 : Vol[d.blk + k - 1] = d.data[k]
      BY <2>2, <2>5
    <3> QED
      BY <1>6, <1>7, <2>2, <2>4, <2>5, <2>6, <3>1, <3>2 DEF CacheReady
  <2> QED
    BY <1>1, <1>11, <2>1, <2>2, <2>3, <2>7, CachePutStep
<1> QED
  BY <1>5, <1>8, <1>9, <1>10, <1>11

LEMMA FlushCall == ASSUME DiskConstants, IInv, nx_blk_flush PROVE IInv' /\ DevStep
<1>1. Free /\ Driver
  BY DriverCall DEF nx_blk_flush
<1>2. CASE Stops
  BY <1>1, <1>2, Stopped
<1>3. CASE FlushNext(Call("flush", 0, <<>>))
  <2>1. PICK c : c = Call("flush", 0, <<>>)
    OBVIOUS
  <2>2. PICK w \in [Blocks -> SUBSET Contents] : w = [a \in Blocks |-> {}]
    OBVIOUS
  <2>3. c = [op |-> "flush", pc |-> "ret", blk |-> 0, data |-> <<>>, i |-> 0, res |-> "none", was |-> w]
    BY <2>1, <2>2 DEF Call, NoCall
  <2>4. 0 \in Blocks
    BY SMTT(30) DEF Blocks, DiskConstants
  <2>5. c \in Calls /\ c.op = "flush" /\ c.i = 0
    BY <2>3, <2>4, NoData, SMTT(30) DEF Calls
  <2>6. GoodCall(c)
    BY <2>5 DEF GoodCall
  <2>7. c.i <= Len(dcache) /\ 1 .. 0 = {}
    <3>1. dcache \in Seq(CacheEntry)
      BY DEF IInv, Typed
    <3> QED
      BY <2>5, <3>1, SMTT(30)
  <2>8. Written(c.i)
    BY <2>5, <2>7 DEF Written
  <2> QED
    BY <1>1, <1>3, <2>1, <2>5, <2>6, <2>7, <2>8, Settled, FlushNextStep
<1> QED
  BY <1>2, <1>3 DEF nx_blk_flush

----------------------------------------------------------------------------
(* Steps of the device, which leave the driver alone.                      *)

\* A waiting call has made a request, of the kind its operation makes.
LEMMA AskedFor ==
    ASSUME IInv, dcall.pc = "wait"
    PROVE  /\ dcall.op = "read" => dq.req.type = "in"
           /\ dcall.op \in {"write", "flush"} => dq.req.type = "out"
           /\ dcall.op = "crash" => dq.req.type \in {"out", "half"}
           /\ dcall.op \in {"sync", "stop"} => dq.req.type = "flush"
           /\ dcall.op \in {"read", "write", "flush", "sync", "crash", "stop"}
           /\ dq.req.type # "none"
<1>1. dcall.op \in {"none", "read", "write", "flush", "sync", "crash", "stop"} /\ dcall.op # "none"
  BY DEF IInv, Typed, Calls, CallShape
<1>2. dcall.op = "read" => dq.req.type = "in"
  BY DEF IInv, Asked
<1>3. dcall.op = "write" => dq.req.type = "out"
  <2>1. CASE dsc.cache
    BY <2>1, SMTT(30) DEF IInv, Asked, Writes1
  <2>2. CASE ~dsc.cache
    BY <2>2, SMTT(30) DEF IInv, Asked
  <2> QED
    BY <2>1, <2>2
<1>4. dcall.op = "flush" => dq.req.type = "out"
  BY SMTT(30) DEF IInv, Asked, Writes1
<1>5. dcall.op = "crash" => dq.req.type \in {"out", "half"}
  BY SMTT(30) DEF IInv, Asked, Writes1
<1>6. dcall.op \in {"sync", "stop"} => dq.req.type = "flush"
  BY SMTT(30) DEF IInv, Asked
<1> QED
  BY <1>1, <1>2, <1>3, <1>4, <1>5, <1>6

Device == UNCHANGED <<dsc, dcache, dcall, dseen, dack>>

\* What a step of the device that changes no block leaves as it is.
LEMMA DeviceStill ==
    ASSUME IInv, Device, dhw'.disk = dhw.disk, dhw'.may = dhw.may, dlim'.calls = dlim.calls
    PROVE  /\ CallShape' /\ AckInv' /\ WriteInv' /\ CrashInv' /\ Room' /\ DiskInv' /\ FlushDurable' /\ ReadsLast'
           /\ DevStep
<1>1. Vol' = Vol /\ Media' = Media
  BY SameDevice DEF Device
<1>2. Span(dcall)' = Span(dcall)
  BY DEF Device, Span
<1>3. CallShape' /\ Room'
  BY DEF IInv, Device, CallShape, Room, Fallible
<1>4. AckInv' /\ WriteInv'
  BY <1>1, <1>2 DEF IInv, Device, AckInv, WriteInv
<1>5. CrashInv' /\ DiskInv'
  BY DEF IInv, Device, CrashInv, DiskInv
<1>6. FlushDurable' /\ ReadsLast'
  BY <1>1, <1>2 DEF IInv, Device, FlushDurable, ReadsLast
<1> QED
  BY <1>1, <1>3, <1>4, <1>5, <1>6 DEF DevStep

LEMMA FetchStep == ASSUME DiskConstants, IInv, Fetch PROVE IInv' /\ DevStep
<1>1. Device /\ dq' = dq /\ dlim' = dlim /\ dhw.got = NoReq /\ dhw.taken # dq.avail
  BY DEF Fetch, Device
<1>2. dq \in Queue /\ dq.req \in Reqs /\ dq.page \in [1..IoMax -> Contents] /\ IoMax \in Nat
  BY DEF IInv, Typed, Queue, DiskConstants
<1>3. PICK n \in Nat : n = Len(dq.req.data) /\ n <= IoMax
  BY <1>2, SMTT(30) DEF Reqs
<1>4. PICK D : D = SubSeq(dq.page, 1, n)
  OBVIOUS
<1>5. D \in Seq(Contents) /\ Len(D) = n /\ \A k \in 1..n : D[k] = dq.page[k]
  BY <1>2, <1>3, <1>4, SMTT(30)
<1>6. PICK g : g = [dq.req EXCEPT !.data = D]
  OBVIOUS
<1>7. g \in Reqs /\ g.type = dq.req.type /\ g.blk = dq.req.blk /\ g.data = D
  BY <1>2, <1>3, <1>5, <1>6 DEF Reqs
<1>8. dhw' = [dhw EXCEPT !.taken = (dhw.taken + 1) % Wrap, !.got = g]
  BY <1>2, <1>3, <1>4, <1>6 DEF Fetch, Reqs
<1>9. (dhw.taken + 1) % Wrap \in 0..Wrap - 1
  <2>1. dhw.taken \in 0..Wrap - 1 /\ Wrap \in Nat /\ Wrap > 1
    BY DEF IInv, Typed, DiskConstants
  <2>2. (dhw.taken + 1) % Wrap = IF dhw.taken + 1 = Wrap THEN 0 ELSE dhw.taken + 1
    BY <2>1, WrapNext
  <2> QED
    BY <2>1, <2>2, SMTT(30)
<1>10. /\ dhw'.disk = dhw.disk /\ dhw'.may = dhw.may /\ dhw'.used = dhw.used /\ dhw'.got = g
       /\ dhw'.taken = (dhw.taken + 1) % Wrap
       /\ dhw' \in [disk : [Blocks -> Contents], may : [Blocks -> SUBSET Contents], got : Reqs,
                    taken : 0..Wrap - 1, used : 0..Wrap - 1]
  BY <1>7, <1>8, <1>9 DEF IInv, Typed
<1>11. Typed'
  BY <1>1, <1>10 DEF IInv, Typed, Device
<1>12. /\ CallShape' /\ AckInv' /\ WriteInv' /\ CrashInv' /\ Room' /\ DiskInv' /\ FlushDurable' /\ ReadsLast'
       /\ DevStep
  BY <1>1, <1>10, DeviceStill
<1>13. Asked' /\ ErrInv'
  BY <1>1, ZenonT(30) DEF IInv, Device, Asked, Writes1, ErrInv
<1>14. Done' /\ FlushInv'
  <2>1. Of(dq.req)' = Of(dq.req) /\ \A k : Written(k)' <=> Written(k)
    BY <1>1, <1>10 DEF Of, Written, Device
  <2> QED
    BY <1>1, <1>10, <2>1, ZenonT(30) DEF IInv, Device, Done, FlushInv
<1>15. Ring' /\ Got'
  <2>1. CASE dlim.late # 0
    BY <1>1, <1>10, <2>1 DEF IInv, Ring, Got, Device
  <2>2. CASE dlim.late = 0
    <3>1. dcall.pc = "wait" /\ (dhw.taken + 1) % Wrap = dq.avail /\ dhw.used = dseen
      BY <1>1, <2>2 DEF IInv, Ring, Quiescent
    <3>2. g # NoReq
      BY <1>7, <3>1, AskedFor, SMTT(30) DEF NoReq
    <3>3. dq.req.type \in {"out", "half"} => D = dq.req.data
      <4>1. dq.req.data \in Seq(Contents)
        BY <1>2 DEF Reqs
      <4>2. ASSUME dq.req.type \in {"out", "half"} PROVE \A k \in 1..n : D[k] = dq.req.data[k]
        BY <1>3, <1>5, <3>1, <4>2 DEF IInv, Asked
      <4> QED
        BY <1>3, <1>5, <4>1, <4>2, SMTT(30)
    <3>4. Ring'
      BY <1>1, <1>10, <2>2, <3>1, <3>2 DEF IInv, Ring, Device, Quiescent
    <3>5. Got'
      BY <1>1, <1>3, <1>5, <1>7, <1>10, <3>3 DEF Got
    <3> QED
      BY <3>4, <3>5
  <2> QED
    BY <2>1, <2>2
<1> QED
  BY <1>11, <1>12, <1>13, <1>14, <1>15 DEF IInv

\* The device answers the request it has, the one that is waited for.
LEMMA Answering ==
    ASSUME DiskConstants, IInv, dhw.got # NoReq, dlim.late = 0 \/ dsc.late
    PROVE  /\ dlim.late = 0 /\ dcall.pc = "wait" /\ dhw.taken = dq.avail /\ dhw.used = dseen
           /\ dhw.got.type = dq.req.type /\ dhw.got.blk = dq.req.blk /\ Len(dhw.got.data) = Len(dq.req.data)
           /\ dq.req.type \in {"out", "half"} => dhw.got.data = dq.req.data
<1>1. dlim.late = 0
  BY DscTyped DEF IInv
<1>2. dcall.pc = "wait" /\ dhw.taken = dq.avail /\ dhw.used = dseen
  BY <1>1 DEF IInv, Ring, Quiescent
<1> QED
  BY <1>1, <1>2 DEF IInv, Got

Hw == [disk : [Blocks -> Contents], may : [Blocks -> SUBSET Contents], got : Reqs,
       taken : 0..Wrap - 1, used : 0..Wrap - 1]

\* What an answer with this status changes outside the blocks.
Answer(status) ==
  /\ dcall.pc = "wait" /\ dhw.used = dseen /\ dhw.taken = dq.avail /\ dlim.late = 0
  /\ dlim' \in Lims /\ dlim'.calls = dlim.calls /\ dlim'.late = 0 /\ dlim'.errors <= dsc.errors
  /\ status = "ioerr" => dlim'.errors > 0
  /\ dq' \in Queue /\ dq'.req = dq.req /\ dq'.status = status /\ dq'.avail = dq.avail
  /\ dq.req.type # "in" => dq'.page = dq.page
  /\ dhw' \in Hw /\ dhw'.got = NoReq /\ dhw'.taken = dhw.taken /\ dhw'.used = (dhw.used + 1) % Wrap

LEMMA AnswerFrame ==
    ASSUME DiskConstants, IInv, Device, NEW status \in {"ok", "ioerr"}, Answer(status)
    PROVE  /\ Typed' /\ CallShape' /\ Asked' /\ Ring' /\ Got' /\ Room' /\ ErrInv' /\ FlushDurable' /\ ReadsLast'
<1>1. Typed'
  BY DEF IInv, Typed, Device, Answer, Hw, Queue, Lims
<1>2. CallShape' /\ Room'
  BY DEF IInv, Device, CallShape, Room, Fallible, Answer
<1>3. Asked'
  <2>1. dq'.req = dq.req /\ dcall' = dcall /\ dcache' = dcache /\ dsc' = dsc /\ (dq.req.type # "in" => dq'.page = dq.page)
    BY DEF Device, Answer
  <2> QED
    BY <2>1 DEF IInv, Asked, Writes1
<1>4. dhw'.used # dseen' /\ (dseen' + 1) % Wrap = dhw'.used
  <2>1. dseen \in 0..Wrap - 1 /\ Wrap \in Nat /\ Wrap > 1
    BY DEF IInv, Typed, DiskConstants
  <2>2. (dseen + 1) % Wrap = IF dseen + 1 = Wrap THEN 0 ELSE dseen + 1
    BY <2>1, WrapNext
  <2>3. (dseen + 1) % Wrap # dseen
    BY <2>1, <2>2, SMTT(30)
  <2> QED
    BY <2>3 DEF Answer, Device
<1>5. Ring' /\ Got'
  <2>1. /\ dhw'.got = NoReq /\ dhw'.taken = dq'.avail /\ dlim'.late = 0 /\ dcall'.pc = "wait"
        /\ dq'.status = status /\ status # "ff"
    BY DEF Answer, Device
  <2>2. ~(dlim'.late > 0)
    BY <2>1, SMTT(30)
  <2> QED
    BY <1>4, <2>1, <2>2 DEF Ring, Got
<1>6. ErrInv' /\ FlushDurable' /\ ReadsLast'
  <2>1. dlim'.late = dlim.late /\ dsc' = dsc /\ dcall' = dcall /\ dcall.pc = "wait"
    BY DEF Answer, Device
  <2> QED
    BY <2>1 DEF IInv, ErrInv, FlushDurable, ReadsLast, Answer
<1> QED
  BY <1>1, <1>2, <1>3, <1>5, <1>6

LEMMA AnswerRead ==
    ASSUME DiskConstants, IInv, Device, NEW status \in {"ok", "ioerr"}, Answer(status), dq.req.type = "in",
           dhw'.disk = dhw.disk, dhw'.may = dhw.may,
           status = "ok" => \A k \in 1..Len(dq.req.data) : dq'.page[k] = dhw.disk[dq.req.blk + k - 1]
    PROVE  IInv' /\ DevStep
<1>1. /\ AckInv' /\ WriteInv' /\ CrashInv' /\ DiskInv' /\ DevStep
  BY DeviceStill DEF Answer
<1>2. dcall' = dcall /\ dq'.req = dq.req /\ dq'.status = status
  BY DEF Device, Answer
<1>3. dcall.op # "flush"
  BY AskedFor DEF Answer
<1>4. Done' /\ FlushInv'
  BY <1>2, <1>3 DEF Done, FlushInv
<1> QED
  BY <1>1, <1>4, AnswerFrame DEF IInv

LEMMA AnswerFlush ==
    ASSUME DiskConstants, IInv, Device, NEW status \in {"ok", "ioerr"}, Answer(status), dq.req.type = "flush",
           dhw'.disk = dhw.disk,
           dhw'.may = IF status = "ok" THEN [b \in Blocks |-> {dhw.disk[b]}] ELSE dhw.may
    PROVE  IInv' /\ DevStep
<1>1. dcall' = dcall /\ dcache' = dcache /\ dack' = dack /\ dq'.req = dq.req /\ dq'.status = status
  BY DEF Device, Answer
<1>2. dcall.op \in {"sync", "stop"}
  BY AskedFor DEF Answer
<1>3. Vol' = Vol
  BY <1>1 DEF Vol
<1>4. AckInv' /\ WriteInv' /\ CrashInv' /\ FlushInv'
  BY <1>1, <1>2, <1>3 DEF IInv, AckInv, WriteInv, CrashInv, FlushInv
<1>5. Done' /\ DiskInv'
  BY <1>1 DEF IInv, Done, DiskInv
<1>6. DevStep
  <2>1. CASE dcall.op = "stop"
    BY <2>1 DEF DevStep
  <2>2. CASE dcall.op = "sync" /\ status = "ioerr"
    BY <1>1, <1>3, <2>2, MediaIs, MediaIsNext DEF DevStep
  <2>3. CASE dcall.op = "sync" /\ status = "ok"
    <3>1. dcache = <<>>
      BY <2>3 DEF IInv, Asked, Answer
    <3>2. ASSUME NEW b \in Blocks PROVE Med(dcache', dhw'.may, b) = {Vol[b]}
      <4>1. Vol[b] = dhw.disk[b]
        BY <3>1, OverlayEmpty DEF Vol
      <4>2. dhw'.may[b] = {dhw.disk[b]}
        BY <2>3
      <4>3. Med(dcache', dhw'.may, b) = dhw'.may[b]
        BY <1>1, <3>1, MedEmpty
      <4> QED
        BY <4>1, <4>2, <4>3
    <3>3. Media' = [b \in Blocks |-> {Vol[b]}]
      BY <3>2, MediaIsNext
    <3>4. BD!DevFlush
      BY <1>3, <3>3 DEF BD!DevFlush, BD!Blocks, Blocks
    <3> QED
      BY <3>4 DEF DevStep
  <2> QED
    BY <1>2, <2>1, <2>2, <2>3
<1> QED
  BY <1>4, <1>5, <1>6, AnswerFrame DEF IInv

\* A write done in part: what becomes of the blocks.
LEMMA Performed ==
    ASSUME DiskConstants, IInv, NEW r \in Reqs, r.type \in {"out", "half"}, NEW status \in {"ok", "ioerr"},
           NEW done \in [Of(r) -> IF status = "ok" THEN {"new"} ELSE {"old", "new", "torn"}], dhw' = Performs(r, done)
    PROVE  /\ dhw' \in Hw /\ dhw'.got = NoReq /\ dhw'.taken = dhw.taken /\ dhw'.used = (dhw.used + 1) % Wrap
           /\ \A b \in Blocks \ Of(r) : dhw'.disk[b] = dhw.disk[b] /\ dhw'.may[b] = dhw.may[b]
           /\ \A b \in Of(r) : /\ b \in Blocks /\ dhw'.may[b] = dhw.may[b] \cup {Part(r, b), Torn}
                               /\ dhw'.disk[b] = CASE done[b] = "old" -> dhw.disk[b]
                                                   [] done[b] = "new" -> Part(r, b)
                                                   [] done[b] = "torn" -> Torn
                               /\ dhw'.disk[b] \in {dhw.disk[b], Part(r, b), Torn}
                               /\ status = "ok" => dhw'.disk[b] = Part(r, b)
           /\ DiskInv'
<1>1. /\ dhw \in Hw /\ dhw.disk \in [Blocks -> Contents] /\ dhw.may \in [Blocks -> SUBSET Contents]
  BY DEF IInv, Typed, Hw
<1>2. ASSUME NEW b \in Of(r) PROVE b \in Blocks /\ Part(r, b) \in Contents
  <2>1. b \in Blocks /\ r.blk \in Nat /\ r.data \in Seq(Contents) /\ r.blk <= b /\ b < r.blk + Len(r.data)
    BY DEF Of, Reqs
  <2>2. r.data[b - r.blk + 1] \in Contents
    BY <2>1, SMTT(30) DEF Blocks, DiskConstants
  <2> QED
    BY <2>1, <2>2 DEF Part, Contents
<1>3. \A b \in Of(r) : done[b] \in {"old", "new", "torn"} /\ (status = "ok" => done[b] = "new")
  OBVIOUS
<1>4. PICK d : d = [b \in Blocks |-> IF b \notin Of(r) \/ done[b] = "old" THEN dhw.disk[b]
                                     ELSE IF done[b] = "new" THEN Part(r, b) ELSE Torn]
  OBVIOUS
<1>5. PICK m : m = [b \in Blocks |-> IF b \in Of(r) THEN dhw.may[b] \cup {Part(r, b), Torn} ELSE dhw.may[b]]
  OBVIOUS
<1>6. PICK u : u = (dhw.used + 1) % Wrap
  OBVIOUS
<1>7. d \in [Blocks -> Contents] /\ m \in [Blocks -> SUBSET Contents]
  <2>1. Torn \in Contents
    BY DEF Contents
  <2> QED
    BY <1>1, <1>2, <1>4, <1>5, <2>1
<1>8. u \in 0..Wrap - 1
  <2>1. dhw.used \in 0..Wrap - 1 /\ Wrap \in Nat /\ Wrap > 1
    BY DEF IInv, Typed, DiskConstants
  <2>2. u = IF dhw.used + 1 = Wrap THEN 0 ELSE dhw.used + 1
    BY <1>6, <2>1, WrapNext
  <2> QED
    BY <2>1, <2>2, SMTT(30)
<1>9. NoReq \in Reqs
  BY NoData, SMTT(30) DEF NoReq, Reqs, DiskConstants
<1>10. dhw' = [dhw EXCEPT !.disk = d, !.may = m, !.got = NoReq, !.used = u]
  BY <1>1, <1>4, <1>5, <1>6 DEF Performs, Hw
<1>11. /\ dhw' \in Hw /\ dhw'.got = NoReq /\ dhw'.taken = dhw.taken /\ dhw'.used = u
       /\ dhw'.disk = d /\ dhw'.may = m
  BY <1>1, <1>7, <1>8, <1>9, <1>10 DEF Hw
<1>12. \A b \in Blocks \ Of(r) : dhw'.disk[b] = dhw.disk[b] /\ dhw'.may[b] = dhw.may[b]
  BY <1>4, <1>5, <1>11, ZenonT(30)
<1>13. ASSUME NEW b \in Of(r)
       PROVE  /\ b \in Blocks /\ dhw'.may[b] = dhw.may[b] \cup {Part(r, b), Torn}
              /\ dhw'.disk[b] = CASE done[b] = "old" -> dhw.disk[b]
                                  [] done[b] = "new" -> Part(r, b)
                                  [] done[b] = "torn" -> Torn
              /\ dhw'.disk[b] \in {dhw.disk[b], Part(r, b), Torn}
              /\ status = "ok" => dhw'.disk[b] = Part(r, b)
  <2>1. b \in Blocks /\ dhw'.may[b] = dhw.may[b] \cup {Part(r, b), Torn}
    BY <1>2, <1>5, <1>11
  <2>2. dhw'.disk[b] = IF done[b] = "old" THEN dhw.disk[b] ELSE IF done[b] = "new" THEN Part(r, b) ELSE Torn
    BY <1>4, <1>11, <2>1
  <2> QED
    BY <1>3, <2>1, <2>2
<1>14. DiskInv'
  BY <1>12, <1>13 DEF IInv, DiskInv
<1> QED
  BY <1>6, <1>11, <1>12, <1>13, <1>14

\* What an answered write says of the disk.
LEMMA DoneWrite ==
    ASSUME NEW status \in {"ok", "ioerr"}, Answer(status), dq.req.type \in {"out", "half"},
           \A b \in Of(dq.req) : /\ dhw'.may[b] = dhw.may[b] \cup {Part(dq.req, b), Torn}
                                 /\ status = "ok" => dhw'.disk[b] = Part(dq.req, b)
    PROVE  Done'
<1>1. dq'.req = dq.req /\ dq'.status = status /\ Of(dq.req)' = Of(dq.req)
  BY DEF Answer, Of
<1>2. dq.req.type = "out" => \A b \in Of(dq.req) : Part(dq.req, b) = dq.req.data[b - dq.req.blk + 1]
  BY DEF Part
<1> QED
  BY <1>1, <1>2, ZenonT(30) DEF Done

\* The device has answered a write, of which done says what was done.
Wrote(status, done) ==
  /\ Answer(status) /\ dq.req.type \in {"out", "half"} /\ Done' /\ DiskInv'
  /\ done \in [Of(dq.req) -> {"old", "new", "torn"}]
  /\ \A b \in Blocks \ Of(dq.req) : dhw'.disk[b] = dhw.disk[b] /\ dhw'.may[b] = dhw.may[b]
  /\ \A b \in Of(dq.req) : /\ b \in Blocks /\ dhw'.may[b] = dhw.may[b] \cup {Part(dq.req, b), Torn}
                           /\ dhw'.disk[b] = CASE done[b] = "old" -> dhw.disk[b]
                                               [] done[b] = "new" -> Part(dq.req, b)
                                               [] done[b] = "torn" -> Torn
                           /\ dhw'.disk[b] \in {dhw.disk[b], Part(dq.req, b), Torn}
                           /\ status = "ok" => dhw'.disk[b] = Part(dq.req, b)

\* A write without the cache is one of BlockDev, done in full or in part.
LEMMA AnswerWrite ==
    ASSUME DiskConstants, IInv, Device, NEW status \in {"ok", "ioerr"}, NEW done, Wrote(status, done),
           dcall.op = "write", ~dsc.cache
    PROVE  IInv' /\ DevStep
<1>1. dcall' = dcall /\ dcache' = dcache /\ dack' = dack /\ dsc' = dsc /\ dcall.pc = "wait" /\ dcache = <<>>
  BY DEF Device, Wrote, Answer, IInv, CallShape
<1>2. dq.req.type = "out" /\ dq.req.blk = dcall.blk /\ dq.req.data = dcall.data
  <2>1. dq.req = [type |-> "out", blk |-> dcall.blk, data |-> dcall.data]
    BY <1>1 DEF IInv, Asked
  <2> QED
    BY <2>1, SMTT(30)
<1>3. /\ dcall \in Calls /\ dcall.blk \in Blocks /\ dcall.data \in Seq(Data) /\ Len(dcall.data) \in 1..IoMax
      /\ dcall.blk + Len(dcall.data) <= NBlocks
  BY DEF IInv, Typed, Calls, CallShape
<1>4. PICK a \in Blocks, n \in 1..IoMax : a = dcall.blk /\ n = Len(dcall.data) /\ a + n <= NBlocks
  BY <1>3
<1>5. a \in Nat /\ n \in Nat /\ NBlocks \in Nat
  <2>1. NBlocks \in Nat
    BY DEF DiskConstants
  <2>2. IoMax \in Nat
    BY DEF DiskConstants
  <2> QED
    BY <2>1, <2>2, SMTT(30) DEF Blocks
<1>6. Of(dq.req) = a .. a + n - 1 /\ Span(dcall) = Of(dq.req)
  <2>1. Span(dcall) = Of(dq.req)
    BY <1>2 DEF Of, Span
  <2>2. Of(dq.req) = a .. a + n - 1
    <3>1. Of(dq.req) = {b \in Blocks : a <= b /\ b < a + n}
      BY <1>2, <1>4 DEF Of
    <3>2. \A b : b \in Blocks /\ a <= b /\ b < a + n <=> b \in a .. a + n - 1
      BY <1>4, <1>5, SMTT(30) DEF Blocks
    <3> QED
      BY <3>1, <3>2
  <2> QED
    BY <2>1, <2>2
<1>7. PICK W : W = [x \in a .. a + n - 1 |-> dcall.data[x - a + 1]]
  OBVIOUS
<1>8. W \in [a .. a + n - 1 -> Data]
  <2>1. ASSUME NEW x \in a .. a + n - 1 PROVE dcall.data[x - a + 1] \in Data
    BY <1>3, <1>4, <1>5, SMTT(30)
  <2> QED
    BY <1>7, <2>1
<1>9. DOMAIN W = Of(dq.req) /\ \A x \in Of(dq.req) : W[x] = Part(dq.req, x)
  BY <1>2, <1>4, <1>6, <1>7 DEF Part
<1>10. ASSUME NEW b \in Blocks
       PROVE  Vol[b] = dhw.disk[b] /\ Vol'[b] = dhw'.disk[b] /\ Media[b] = dhw.may[b] /\ Media'[b] = dhw'.may[b]
  <2>1. Vol[b] = dhw.disk[b] /\ Vol'[b] = dhw'.disk[b]
    BY <1>1, OverlayEmpty DEF Vol
  <2>2. Media[b] = dhw.may[b]
    BY <1>1, MedEmpty, MediaIs
  <2>3. Media'[b] = dhw'.may[b]
    BY <1>1, MedEmpty, MediaIsNext
  <2> QED
    BY <2>1, <2>2, <2>3
<1>11. BD!DevWriteError(W)
  <2>1. ASSUME NEW b \in Blocks
        PROVE  Vol'[b] = IF b \notin DOMAIN W THEN Vol[b]
                         ELSE CASE done[b] = "old" -> Vol[b]
                                [] done[b] = "new" -> W[b]
                                [] done[b] = "torn" -> Torn
    <3>1. CASE b \notin Of(dq.req)
      <4>1. dhw'.disk[b] = dhw.disk[b]
        BY <3>1 DEF Wrote
      <4> QED
        BY <1>9, <1>10, <3>1, <4>1
    <3>2. CASE b \in Of(dq.req)
      <4>1. dhw'.disk[b] = CASE done[b] = "old" -> dhw.disk[b]
                             [] done[b] = "new" -> Part(dq.req, b)
                             [] done[b] = "torn" -> Torn
        BY <3>2 DEF Wrote
      <4> QED
        BY <1>9, <1>10, <3>2, <4>1
    <3> QED
      BY <3>1, <3>2
  <2>2. ASSUME NEW b \in Blocks
        PROVE  Media'[b] = IF b \in DOMAIN W THEN Media[b] \cup {W[b], Torn} ELSE Media[b]
    <3>1. CASE b \notin Of(dq.req)
      <4>1. dhw'.may[b] = dhw.may[b]
        BY <3>1 DEF Wrote
      <4> QED
        BY <1>9, <1>10, <3>1, <4>1
    <3>2. CASE b \in Of(dq.req)
      <4>1. dhw'.may[b] = dhw.may[b] \cup {Part(dq.req, b), Torn}
        BY <3>2 DEF Wrote
      <4> QED
        BY <1>9, <1>10, <3>2, <4>1
    <3> QED
      BY <3>1, <3>2
  <2>3. Vol' = [b \in Blocks |-> IF b \notin DOMAIN W THEN Vol[b]
                                 ELSE CASE done[b] = "old" -> Vol[b]
                                        [] done[b] = "new" -> W[b]
                                        [] done[b] = "torn" -> Torn]
    BY <2>1 DEF Vol
  <2>4. Media' = [b \in Blocks |-> IF b \in DOMAIN W THEN Media[b] \cup {W[b], Torn} ELSE Media[b]]
    BY <2>2 DEF Media
  <2>5. done \in [DOMAIN W -> {"old", "new", "torn"}]
    BY <1>9 DEF Wrote
  <2> QED
    BY <2>3, <2>4, <2>5 DEF BD!DevWriteError, BD!Blocks, BD!Torn, Blocks, Torn
<1>12. DevStep
  BY <1>4, <1>8, <1>11 DEF DevStep
<1>13. AckInv'
  <2>1. ASSUME NEW b \in Blocks PROVE dack[b] = Unknown \/ Vol'[b] = dack[b] \/ b \in Span(dcall)
    <3>1. CASE b \notin Span(dcall)
      <4>1. Vol'[b] = Vol[b]
        BY <1>6, <1>10, <3>1, ZenonT(30) DEF Wrote
      <4> QED
        BY <3>1, <4>1 DEF IInv, AckInv
    <3> QED
      BY <3>1
  <2>2. Span(dcall)' = Span(dcall)
    BY <1>1 DEF Span
  <2> QED
    BY <1>1, <2>1, <2>2 DEF AckInv
<1>14. WriteInv' /\ CrashInv' /\ FlushInv'
  BY <1>1 DEF WriteInv, CrashInv, FlushInv
<1> QED
  BY <1>12, <1>13, <1>14, AnswerFrame DEF IInv, Wrote

\* The request writes the k-th block of the cache.
LEMMA OneBlock ==
    ASSUME DiskConstants, IInv, NEW k \in 1..Len(dcache), NEW type \in {"out", "half"}, Writes1(type, k)
    PROVE  /\ dcache[k] \in CacheEntry /\ dcache[k].blk \in Blocks /\ dcache[k].val \in Data
           /\ dq.req.type = type /\ Of(dq.req) = {dcache[k].blk}
           /\ Part(dq.req, dcache[k].blk) = IF type = "half" THEN Torn ELSE dcache[k].val
<1>1. dcache \in Seq(CacheEntry) /\ NBlocks \in Nat
  BY DEF IInv, Typed, DiskConstants
<1>2. dcache[k] \in CacheEntry
  BY <1>1, SMTT(30)
<1>3. dcache[k].blk \in Blocks /\ dcache[k].val \in Data
  BY <1>2 DEF CacheEntry
<1>4. PICK a \in Blocks, v \in Data : a = dcache[k].blk /\ v = dcache[k].val
  BY <1>3
<1>5. dq.req = [type |-> type, blk |-> a, data |-> <<v>>]
  BY <1>4 DEF Writes1
<1>6. dq.req.type = type /\ dq.req.blk = a /\ dq.req.data = <<v>>
  BY <1>5, SMTT(30)
<1>7. Len(<<v>>) = 1 /\ a - a + 1 = 1 /\ <<v>>[1] = v /\ {b \in Blocks : a <= b /\ b < a + 1} = {a}
  BY <1>1, SMTT(30) DEF Blocks
<1>8. Of(dq.req) = {a}
  BY <1>6, <1>7 DEF Of
<1>9. Part(dq.req, a) = IF type = "half" THEN Torn ELSE v
  BY <1>6, <1>7 DEF Part
<1> QED
  BY <1>2, <1>3, <1>4, <1>6, <1>8, <1>9

\* The write of a block that stays in the cache shows nowhere.
LEMMA Hidden ==
    ASSUME DiskConstants, IInv, dcache' = dcache, NEW k \in 1..Len(dcache),
           \A b \in Blocks \ {dcache[k].blk} : dhw'.disk[b] = dhw.disk[b] /\ dhw'.may[b] = dhw.may[b],
           dhw'.may[dcache[k].blk] = dhw.may[dcache[k].blk] \cup {dcache[k].val, Torn}
    PROVE  Vol' = Vol /\ Media' = Media
<1>1. dcache \in Seq(CacheEntry)
  BY DEF IInv, Typed
<1>2. ASSUME NEW b \in Blocks PROVE Overlay(dcache, b, dhw'.disk[b]) = Overlay(dcache, b, dhw.disk[b])
  <2>1. CASE b # dcache[k].blk
    BY <2>1
  <2>2. CASE b = dcache[k].blk
    <3>1. PICK d, e : d = dhw'.disk[b] /\ e = dhw.disk[b]
      OBVIOUS
    <3>2. Overlay(dcache, dcache[k].blk, d) = Overlay(dcache, dcache[k].blk, e)
      BY <1>1, OverlayHides, ZenonT(30)
    <3> QED
      BY <2>2, <3>1, <3>2
  <2> QED
    BY <2>1, <2>2
<1>3. Vol' = Vol
  BY <1>2 DEF Vol
<1>4. ASSUME NEW b \in Blocks PROVE Med(dcache, dhw'.may, b) = Med(dcache, dhw.may, b)
  <2>1. CASE b # dcache[k].blk
    BY <2>1 DEF Med
  <2>2. CASE b = dcache[k].blk
    <3>1. k \in {j \in 1..Len(dcache) : dcache[j].blk = b}
      BY <2>2
    <3>2. PICK U : U = UNION {{dcache[i].val, Torn} : i \in {j \in 1..Len(dcache) : dcache[j].blk = b}}
      OBVIOUS
    <3>3. {dcache[k].val, Torn} \subseteq U
      BY <3>1, <3>2
    <3>4. Med(dcache, dhw'.may, b) = dhw'.may[b] \cup U /\ Med(dcache, dhw.may, b) = dhw.may[b] \cup U
      BY <3>2 DEF Med
    <3> QED
      BY <2>2, <3>3, <3>4, ZenonT(30)
  <2> QED
    BY <2>1, <2>2
<1>5. Media' = Media
  BY <1>4, MediaIs, MediaIsNext
<1> QED
  BY <1>3, <1>5

\* cache_evict_oldest and nx_blk_flush write blocks that are still cached.
LEMMA AnswerCached ==
    ASSUME DiskConstants, IInv, Device, NEW status \in {"ok", "ioerr"}, NEW done, Wrote(status, done),
           dcall.op = "flush" \/ (dcall.op = "write" /\ dsc.cache)
    PROVE  IInv' /\ DevStep
<1>1. dcall' = dcall /\ dcache' = dcache /\ dack' = dack /\ dsc' = dsc /\ dcall.pc = "wait" /\ dq'.status = status
  BY DEF Device, Wrote, Answer
<1>2. PICK k \in 1..Len(dcache) : Writes1("out", k) /\ (dcall.op = "flush" => k = dcall.i)
  <2>1. CASE dcall.op = "flush"
    BY <1>1, <2>1 DEF IInv, Asked
  <2>2. CASE dcall.op = "write" /\ dsc.cache
    <3>1. Len(dcache) = dsc.pages /\ Writes1("out", 1)
      BY <1>1, <2>2 DEF IInv, Asked
    <3>2. dsc.pages \in Nat /\ dsc.pages > 0
      BY <2>2, DscTyped DEF IInv
    <3>3. 1 \in 1..Len(dcache)
      BY <3>1, <3>2, SMTT(30)
    <3> QED
      BY <2>2, <3>1, <3>3
  <2> QED
    BY <2>1, <2>2
<1>3. PICK a : a = dcache[k].blk
  OBVIOUS
<1>4. PICK v : v = dcache[k].val
  OBVIOUS
<1>5. a \in Blocks /\ Of(dq.req) = {a} /\ Part(dq.req, a) = v
  BY <1>2, <1>3, <1>4, OneBlock
<1>6. /\ \A b \in Blocks \ {a} : dhw'.disk[b] = dhw.disk[b] /\ dhw'.may[b] = dhw.may[b]
      /\ dhw'.may[a] = dhw.may[a] \cup {v, Torn} /\ (status = "ok" => dhw'.disk[a] = v)
  BY <1>5 DEF Wrote
<1>7. Vol' = Vol /\ Media' = Media
  BY <1>1, <1>2, <1>3, <1>4, <1>6, Hidden
<1>8. AckInv' /\ WriteInv'
  <2>1. Span(dcall)' = Span(dcall)
    BY <1>1 DEF Span
  <2> QED
    BY <1>1, <1>7, <2>1 DEF IInv, AckInv, WriteInv
<1>9. CrashInv'
  BY <1>1 DEF CrashInv
<1>10. ASSUME dcall.op = "flush", status = "ok" PROVE Written(dcall.i)'
  <2>1. PICK i \in 1..Len(dcache) : i = dcall.i /\ k = i
    BY <1>2, <1>10
  <2>2. dcache \in Seq(CacheEntry) /\ Len(dcache) \in Nat /\ i \in Nat
    BY SMTT(30) DEF IInv, Typed
  <2>3. Written(i - 1)
    <3>1. dq.status = "ff"
      BY <1>1 DEF IInv, Ring, Wrote, Answer
    <3> QED
      BY <1>1, <1>10, <2>1, <3>1 DEF IInv, FlushInv
  <2>4. ASSUME NEW j \in 1..i
        PROVE  /\ {dcache[j].val, Torn} \subseteq dhw'.may[dcache[j].blk]
               /\ (\A m \in j + 1 .. i : dcache[m].blk # dcache[j].blk) => dhw'.disk[dcache[j].blk] = dcache[j].val
    <3>1. CASE j = i
      BY <1>3, <1>4, <1>6, <1>10, <2>1, <3>1
    <3>2. CASE j # i
      <4>1. j \in 1 .. i - 1 /\ j \in 1..Len(dcache) /\ i \in j + 1 .. i /\ \A m \in j + 1 .. i - 1 : m \in j + 1 .. i
        BY <2>2, <3>2, SMTT(30)
      <4>2. dcache[j] \in CacheEntry
        BY <2>2, <4>1, SMTT(30)
      <4>3. PICK x \in Blocks : x = dcache[j].blk
        BY <4>2 DEF CacheEntry
      <4>4. {dcache[j].val, Torn} \subseteq dhw.may[x] /\ dhw.may[x] \subseteq dhw'.may[x]
        <5>1. dhw.may[x] \subseteq dhw'.may[x]
          BY <1>6
        <5> QED
          BY <2>3, <4>1, <4>3, <5>1 DEF Written
      <4>5. ASSUME \A m \in j + 1 .. i : dcache[m].blk # dcache[j].blk PROVE dhw'.disk[x] = dcache[j].val
        <5>1. x # a
          BY <1>3, <2>1, <4>1, <4>3, <4>5
        <5>2. dhw.disk[x] = dcache[j].val
          BY <2>3, <4>1, <4>3, <4>5 DEF Written
        <5> QED
          BY <1>6, <5>1, <5>2
      <4> QED
        BY <4>3, <4>4, <4>5
    <3> QED
      BY <3>1, <3>2
  <2> QED
    BY <1>1, <2>1, <2>4 DEF Written
<1>11. FlushInv'
  BY <1>1, <1>10 DEF FlushInv
<1>12. DevStep
  BY <1>7 DEF DevStep
<1> QED
  BY <1>8, <1>9, <1>11, <1>12, AnswerFrame DEF IInv, Wrote

\* A crash point writes what was in doubt.
LEMMA AnswerCrash ==
    ASSUME DiskConstants, IInv, Device, NEW status \in {"ok", "ioerr"}, NEW done, Wrote(status, done),
           dcall.op = "crash"
    PROVE  IInv' /\ DevStep
<1>1. dcall' = dcall /\ dcache' = dcache /\ dack' = dack /\ dsc' = dsc /\ dcall.pc = "wait"
  BY DEF Device, Wrote, Answer
<1>2. PICK k \in 1..Len(dcache), type \in {"out", "half"} : Writes1(type, k)
  BY <1>1 DEF IInv, Asked
<1>3. PICK a : a = dcache[k].blk
  OBVIOUS
<1>4. a \in Blocks /\ Of(dq.req) = {a} /\ Part(dq.req, a) \in {dcache[k].val, Torn}
  BY <1>2, <1>3, OneBlock
<1>5. CrashInv'
  <2>1. ASSUME NEW b \in Blocks PROVE dhw'.disk[b] \in dcall.was[b]
    <3>1. dhw.disk[b] \in dcall.was[b]
      BY DEF IInv, CrashInv
    <3>2. CASE b # a
      BY <1>4, <3>1, <3>2 DEF Wrote
    <3>3. CASE b = a
      <4>1. {dcache[k].val, Torn} \subseteq dcall.was[b]
        BY <1>3, <3>3 DEF IInv, CrashInv
      <4>2. dhw'.disk[b] \in {dhw.disk[b], Part(dq.req, b), Torn}
        BY <1>4, <3>3 DEF Wrote
      <4> QED
        BY <1>4, <3>1, <3>3, <4>1, <4>2
    <3> QED
      BY <3>2, <3>3
  <2> QED
    BY <1>1, <2>1 DEF IInv, CrashInv
<1>6. AckInv' /\ WriteInv' /\ FlushInv'
  BY <1>1 DEF AckInv, WriteInv, FlushInv
<1>7. DevStep
  BY DEF DevStep
<1> QED
  BY <1>5, <1>6, <1>7, AnswerFrame DEF IInv, Wrote

LEMMA CompleteStep == ASSUME DiskConstants, IInv, Complete PROVE IInv' /\ DevStep
<1>1. dhw.got # NoReq /\ (dlim.late = 0 \/ dsc.late) /\ Device
  BY DEF Complete, Device
<1>2. /\ dlim.late = 0 /\ dcall.pc = "wait" /\ dhw.taken = dq.avail /\ dhw.used = dseen
      /\ dhw.got.type = dq.req.type /\ dhw.got.blk = dq.req.blk /\ Len(dhw.got.data) = Len(dq.req.data)
      /\ dq.req.type \in {"out", "half"} => dhw.got.data = dq.req.data
  BY <1>1, Answering
<1>3. /\ dq \in Queue /\ dq.req \in Reqs /\ dhw \in Hw /\ dlim \in Lims /\ dhw.got \in Reqs
      /\ dhw.disk \in [Blocks -> Contents] /\ dhw.may \in [Blocks -> SUBSET Contents]
  BY DEF IInv, Typed, Queue, Hw, Lims
<1>4. PICK status \in {"ok", "ioerr"} :
        /\ status = "ioerr" => dlim.errors < dsc.errors
        /\ dlim' = IF status = "ok" THEN dlim ELSE [dlim EXCEPT !.errors = @ + 1]
        /\ CASE dhw.got.type \in {"out", "half"} ->
                  /\ \E done \in [Of(dhw.got) -> IF status = "ok" THEN {"new"} ELSE {"old", "new", "torn"}] :
                       dhw' = Performs(dhw.got, done)
                  /\ dq' = [dq EXCEPT !.status = status]
             [] dhw.got.type = "in" ->
                  /\ dhw' = [dhw EXCEPT !.got = NoReq, !.used = (@ + 1) % Wrap]
                  /\ dq' = [dq EXCEPT !.status = status,
                               !.page = IF status = "ok" THEN Over(@, [i \in 1..Len(dhw.got.data) |-> dhw.disk[dhw.got.blk + i - 1]])
                                        ELSE @]
             [] dhw.got.type = "flush" ->
                  /\ dhw' = [dhw EXCEPT !.got = NoReq, !.used = (@ + 1) % Wrap,
                               !.may = IF status = "ok" THEN [b \in Blocks |-> {dhw.disk[b]}] ELSE @]
                  /\ dq' = [dq EXCEPT !.status = status]
  BY DEF Complete
<1>5. /\ dlim' \in Lims /\ dlim'.calls = dlim.calls /\ dlim'.late = 0 /\ dlim'.errors <= dsc.errors
      /\ status = "ioerr" => dlim'.errors > 0
  <2>1. CASE status = "ok"
    BY <1>2, <1>3, <1>4, <2>1 DEF IInv, ErrInv
  <2>2. CASE status = "ioerr"
    <3>1. PICK n \in Nat : n = dlim.errors + 1 /\ n <= dsc.errors /\ n > 0
      <4>1. dlim.errors \in Nat /\ dsc.errors \in Nat /\ dlim.errors < dsc.errors
        BY <1>3, <1>4, <2>2, DscTyped DEF IInv, Lims
      <4> QED
        BY <4>1, SMTT(30)
    <3>2. dlim' = [dlim EXCEPT !.errors = n]
      BY <1>3, <1>4, <2>2, <3>1 DEF Lims
    <3> QED
      BY <1>2, <1>3, <3>1, <3>2 DEF Lims
  <2> QED
    BY <2>1, <2>2
<1>6. PICK u \in 0..Wrap - 1 : u = (dhw.used + 1) % Wrap
  <2>1. dhw.used \in 0..Wrap - 1 /\ Wrap \in Nat /\ Wrap > 1
    BY DEF IInv, Typed, DiskConstants
  <2>2. (dhw.used + 1) % Wrap = IF dhw.used + 1 = Wrap THEN 0 ELSE dhw.used + 1
    BY <2>1, WrapNext
  <2> QED
    BY <2>1, <2>2, SMTT(30)
<1>7. NoReq \in Reqs
  BY NoData, SMTT(30) DEF NoReq, Reqs, DiskConstants
<1>8. CASE dq.req.type = "in"
  <2>1. PICK n \in Nat : n = Len(dq.req.data) /\ n <= IoMax
    BY <1>3, SMTT(30) DEF Reqs
  <2>2. PICK a \in Nat : a = dq.req.blk
    BY <1>3 DEF Reqs
  <2>3. PICK D : D = [i \in 1..n |-> dhw.disk[a + i - 1]]
    OBVIOUS
  <2>4. PICK q : q = IF status = "ok" THEN Over(dq.page, D) ELSE dq.page
    OBVIOUS
  <2>5. /\ dhw' = [dhw EXCEPT !.got = NoReq, !.used = u] /\ dq' = [dq EXCEPT !.status = status, !.page = q]
    <3>1. dhw.got.type = "in" /\ dhw.got.type \notin {"out", "half"} /\ dhw.got.type # "flush"
      BY <1>2, <1>8
    <3>2. [i \in 1..Len(dhw.got.data) |-> dhw.disk[dhw.got.blk + i - 1]] = D
      BY <1>2, <2>1, <2>2, <2>3
    <3>3. dhw' = [dhw EXCEPT !.got = NoReq, !.used = u]
      BY <1>3, <1>4, <1>6, <3>1 DEF Hw
    <3>4. dq' = [dq EXCEPT !.status = status, !.page = IF status = "ok" THEN Over(dq.page, D) ELSE dq.page]
      BY <1>3, <1>4, <3>1, <3>2 DEF Queue
    <3> QED
      BY <2>4, <3>3, <3>4
  <2>6. /\ dhw' \in Hw /\ dhw'.got = NoReq /\ dhw'.taken = dhw.taken /\ dhw'.used = u
        /\ dhw'.disk = dhw.disk /\ dhw'.may = dhw.may
    BY <1>3, <1>6, <1>7, <2>5 DEF Hw
  <2>7. a + n <= NBlocks
    <3>1. dcall.op = "read"
      BY <1>2, <1>8, AskedFor
    <3> QED
      BY <1>2, <2>1, <2>2, <3>1 DEF IInv, Asked, CallShape
  <2>8. Len(D) = n /\ \A k \in 1..n : D[k] = dhw.disk[a + k - 1] /\ D[k] \in Contents
    <3>1. ASSUME NEW k \in 1..n PROVE a + k - 1 \in Blocks
      BY <2>7, SMTT(30) DEF Blocks, DiskConstants
    <3>2. \A k \in 1..n : D[k] = dhw.disk[a + k - 1] /\ D[k] \in Contents
      BY <1>3, <2>3, <3>1
    <3>3. Len(D) = n
      BY <2>3, SMTT(30)
    <3> QED
      BY <3>2, <3>3
  <2>9. q \in [1..IoMax -> Contents] /\ (status = "ok" => \A k \in 1..n : q[k] = D[k])
    <3>1. dq.page \in [1..IoMax -> Contents] /\ IoMax \in Nat
      BY <1>3 DEF Queue, DiskConstants
    <3>2. ASSUME NEW k \in 1..IoMax PROVE k <= n <=> k \in 1..n
      BY SMTT(30)
    <3>3. \A k \in 1..n : k \in 1..IoMax
      BY <2>1, <3>1, SMTT(30)
    <3> QED
      BY <2>4, <2>8, <3>1, <3>2, <3>3 DEF Over
  <2>10. dq' \in Queue /\ dq'.req = dq.req /\ dq'.status = status /\ dq'.avail = dq.avail /\ dq'.page = q
    BY <1>3, <2>5, <2>9 DEF Queue
  <2>11. Answer(status)
    BY <1>2, <1>5, <1>6, <1>8, <2>6, <2>10 DEF Answer
  <2>12. status = "ok" => \A k \in 1..Len(dq.req.data) : dq'.page[k] = dhw.disk[dq.req.blk + k - 1]
    BY <2>1, <2>2, <2>8, <2>9, <2>10
  <2> QED
    BY <1>1, <1>8, <2>6, <2>11, <2>12, AnswerRead
<1>9. CASE dq.req.type = "flush"
  <2>1. PICK m : m = IF status = "ok" THEN [b \in Blocks |-> {dhw.disk[b]}] ELSE dhw.may
    OBVIOUS
  <2>2. m \in [Blocks -> SUBSET Contents]
    BY <1>3, <2>1
  <2>3. dhw' = [dhw EXCEPT !.got = NoReq, !.used = u, !.may = m] /\ dq' = [dq EXCEPT !.status = status]
    BY <1>2, <1>3, <1>4, <1>6, <1>9, <2>1 DEF Hw
  <2>4. /\ dhw' \in Hw /\ dhw'.got = NoReq /\ dhw'.taken = dhw.taken /\ dhw'.used = u
        /\ dhw'.disk = dhw.disk /\ dhw'.may = m
    BY <1>3, <1>6, <1>7, <2>2, <2>3 DEF Hw
  <2>5. dq' \in Queue /\ dq'.req = dq.req /\ dq'.status = status /\ dq'.avail = dq.avail /\ dq'.page = dq.page
    BY <1>3, <2>3 DEF Queue
  <2>6. Answer(status)
    BY <1>2, <1>5, <1>6, <2>4, <2>5 DEF Answer
  <2> QED
    BY <1>1, <1>9, <2>1, <2>4, <2>6, AnswerFlush
<1>10. CASE dq.req.type \in {"out", "half"}
  <2>1. dq' = [dq EXCEPT !.status = status]
    BY <1>2, <1>4, <1>10
  <2>2. PICK r \in Reqs : r = dhw.got
    BY <1>3
  <2>3. r.type \in {"out", "half"} /\ r.type = dq.req.type /\ r.blk = dq.req.blk /\ r.data = dq.req.data
    BY <1>2, <1>10, <2>2
  <2>4. PICK done \in [Of(r) -> IF status = "ok" THEN {"new"} ELSE {"old", "new", "torn"}] : dhw' = Performs(r, done)
    BY <1>4, <2>2, <2>3
  <2>5. Of(r) = Of(dq.req) /\ \A b : Part(r, b) = Part(dq.req, b)
    BY <2>3 DEF Of, Part
  <2>6. /\ dhw' \in Hw /\ dhw'.got = NoReq /\ dhw'.taken = dhw.taken /\ dhw'.used = (dhw.used + 1) % Wrap
        /\ \A b \in Blocks \ Of(r) : dhw'.disk[b] = dhw.disk[b] /\ dhw'.may[b] = dhw.may[b]
        /\ \A b \in Of(r) : /\ b \in Blocks /\ dhw'.may[b] = dhw.may[b] \cup {Part(r, b), Torn}
                            /\ dhw'.disk[b] = CASE done[b] = "old" -> dhw.disk[b]
                                                [] done[b] = "new" -> Part(r, b)
                                                [] done[b] = "torn" -> Torn
                            /\ dhw'.disk[b] \in {dhw.disk[b], Part(r, b), Torn}
                            /\ status = "ok" => dhw'.disk[b] = Part(r, b)
        /\ DiskInv'
    BY <2>3, <2>4, Performed, ZenonT(30)
  <2>7. dq' \in Queue /\ dq'.req = dq.req /\ dq'.status = status /\ dq'.avail = dq.avail /\ dq'.page = dq.page
    BY <1>3, <2>1 DEF Queue
  <2>8. Answer(status)
    BY <1>2, <1>5, <2>6, <2>7 DEF Answer
  <2>9. Done'
    BY <1>10, <2>5, <2>6, <2>8, DoneWrite
  <2>10. done \in [Of(dq.req) -> {"old", "new", "torn"}]
    <3>1. (IF status = "ok" THEN {"new"} ELSE {"old", "new", "torn"}) \subseteq {"old", "new", "torn"}
      OBVIOUS
    <3> QED
      BY <2>4, <2>5, <3>1
  <2>11. Wrote(status, done)
    BY <1>10, <2>5, <2>6, <2>8, <2>9, <2>10 DEF Wrote
  <2>12. dcall.op \in {"write", "flush", "crash"}
    BY <1>2, <1>10, AskedFor
  <2> QED
    BY <1>1, <2>11, <2>12, AnswerWrite, AnswerCached, AnswerCrash
<1>11. dq.req.type \in {"in", "out", "half", "flush"}
  <2>1. dq.req.type \in {"none", "in", "out", "half", "flush"}
    BY <1>3 DEF Reqs
  <2> QED
    BY <1>2, <2>1, AskedFor
<1> QED
  BY <1>8, <1>9, <1>10, <1>11

----------------------------------------------------------------------------
(* The theorems.                                                           *)

LEMMA InitInv == ASSUME DiskConstants, Init PROVE IInv
<1>1. dsc \in Scenarios /\ dcache = <<>> /\ dcall = NoCall /\ dseen = 0
  BY DEF Init
<1>2. PICK w \in [Blocks -> SUBSET Contents] : w = [b \in Blocks |-> {}]
  OBVIOUS
<1>3. dcall = [op |-> "none", pc |-> "ret", blk |-> 0, data |-> <<>>, i |-> 0, res |-> "none", was |-> w]
  BY <1>1, <1>2 DEF NoCall
<1>4. 0 \in Blocks /\ 0 \in 0..Wrap - 1
  BY SMTT(30) DEF Blocks, DiskConstants
<1>5. dcall \in Calls /\ dcall.op = "none" /\ dcall.pc = "ret"
  BY <1>3, <1>4, NoData, SMTT(30) DEF Calls
<1>6. NoReq \in Reqs
  BY NoData, SMTT(30) DEF NoReq, Reqs, DiskConstants
<1>7. Blank \in Contents
  BY DEF Contents
<1>8. PICK g \in [1..IoMax -> Contents], d \in [Blocks -> Contents], m \in [Blocks -> SUBSET Contents] :
         g = [i \in 1..IoMax |-> Blank] /\ d = [b \in Blocks |-> Blank] /\ m = [b \in Blocks |-> {Blank}]
  BY <1>7
<1>9. /\ dq = [req |-> NoReq, page |-> g, status |-> "ff", avail |-> 0]
      /\ dhw = [disk |-> d, may |-> m, got |-> NoReq, taken |-> 0, used |-> 0]
      /\ dlim = [calls |-> 0, errors |-> 0, late |-> 0]
  BY <1>8 DEF Init
<1>10. dq \in Queue /\ dq.avail = 0
  BY <1>4, <1>6, <1>9 DEF Queue
<1>11. /\ dhw \in Hw /\ dhw.disk = d /\ dhw.may = m /\ dhw.got = NoReq /\ dhw.taken = 0 /\ dhw.used = 0
  BY <1>4, <1>6, <1>9 DEF Hw
<1>12. dlim \in Lims /\ dlim.calls = 0 /\ dlim.errors = 0 /\ dlim.late = 0
  BY <1>9 DEF Lims
<1>13. dack = [b \in Blocks |-> Blank]
  BY DEF Init
<1>14. Typed
  BY <1>1, <1>4, <1>5, <1>7, <1>10, <1>11, <1>12, <1>13, NoData DEF Typed, Queue, Hw, Lims
<1>15. /\ dsc.pages \in Nat /\ dsc.errors \in Nat /\ dsc.timeouts \in Nat
  BY <1>14, DscTyped
<1>16. CallShape
  BY <1>1, <1>5, <1>15, NoData, SMTT(30) DEF CallShape
<1>17. Asked /\ Done /\ FlushInv /\ WriteInv /\ CrashInv /\ FlushDurable /\ ReadsLast
  BY <1>5 DEF Asked, Done, FlushInv, WriteInv, CrashInv, FlushDurable, ReadsLast
<1>18. Ring /\ Got
  <2>1. ~(dlim.late > 0)
    BY <1>12, SMTT(30)
  <2> QED
    BY <1>1, <1>5, <1>10, <1>11, <2>1 DEF Ring, Got, Quiescent
<1>19. AckInv
  <2>1. ASSUME NEW b \in Blocks PROVE Vol[b] = dack[b]
    <3>1. Vol[b] = Overlay(<<>>, b, dhw.disk[b])
      BY <1>1 DEF Vol
    <3>2. dhw.disk[b] = Blank /\ dack[b] = Blank
      BY <1>8, <1>11, <1>13
    <3> QED
      BY <3>1, <3>2, OverlayEmpty
  <2> QED
    BY <2>1 DEF AckInv
<1>20. Room
  <2>1. dlim.calls <= MaxCalls /\ Len(dcache) + 0 <= dlim.calls * IoMax
    BY <1>1, <1>12, NoData, SMTT(30) DEF DiskConstants
  <2> QED
    BY <1>5, <2>1 DEF Room
<1>21. ErrInv
  BY <1>5, <1>12, <1>15, SMTT(30) DEF ErrInv
<1>22. DiskInv
  <2>1. ASSUME NEW b \in Blocks PROVE dhw.disk[b] \in dhw.may[b]
    <3>1. dhw.disk[b] = Blank /\ dhw.may[b] = {Blank}
      BY <1>8, <1>11
    <3> QED
      BY <3>1
  <2> QED
    BY <2>1 DEF DiskInv
<1> QED
  BY <1>14, <1>16, <1>17, <1>18, <1>19, <1>20, <1>21, <1>22 DEF IInv

LEMMA NextInv == ASSUME DiskConstants, IInv, Next PROVE IInv' /\ DevStep
BY ReadCall, WriteCall, FlushCall, PutStep, CrashStep, PollStep, TimeoutStep, FetchStep, CompleteStep DEF Next

LEMMA StillInv == ASSUME IInv, UNCHANGED diskVars PROVE IInv'
<1>1. /\ dsc' = dsc /\ dcache' = dcache /\ dcall' = dcall /\ dq' = dq /\ dseen' = dseen /\ dhw' = dhw
      /\ dack' = dack /\ dlim' = dlim
  BY DEF diskVars
<1>2. Vol' = Vol /\ Media' = Media /\ Span(dcall)' = Span(dcall) /\ Of(dq.req)' = Of(dq.req)
  BY <1>1 DEF Vol, Media, Span, Of
<1>3. Typed' /\ ErrInv' /\ DiskInv' /\ CrashInv'
  BY <1>1 DEF IInv, Typed, ErrInv, DiskInv, CrashInv
<1>a. CallShape' /\ Room'
  BY <1>1 DEF IInv, CallShape, Room, Fallible
<1>4. Asked'
  BY <1>1 DEF IInv, Asked, Writes1
<1>b. Ring' /\ Got'
  BY <1>1 DEF IInv, Ring, Quiescent, Got
<1>5. Done'
  BY <1>1, <1>2 DEF IInv, Done
<1>6. FlushInv'
  BY <1>1 DEF IInv, FlushInv, Written
<1>7. AckInv' /\ WriteInv' /\ FlushDurable' /\ ReadsLast'
  BY <1>1, <1>2 DEF IInv, AckInv, WriteInv, FlushDurable, ReadsLast
<1> QED
  BY <1>3, <1>a, <1>4, <1>b, <1>5, <1>6, <1>7 DEF IInv

LEMMA InvSound == ASSUME IInv PROVE DiskSound
<1>1. TypeOK
  BY DEF IInv, Typed, CallShape, DiskInv, Calls, Contents, TypeOK
<1>2. CrashPlausible
  BY DEF IInv, CallShape, CrashInv, CrashPlausible
<1> QED
  BY <1>1, <1>2 DEF IInv, DiskSound

\* Whatever the device's size, the length of a request and of the cache, and
\* however many requests fail or time out, unless a full cache meets a device
\* that can fail or an answer comes after its time-out: a flush that succeeds has made every
\* acknowledged write durable, a read that succeeds returns what was written
\* last, and a crash point leaves what a loss of power could have left
\* (nx_blk_flush, nx_blk_read, crash).
THEOREM DiskIsSound == ASSUME DiskConstants PROVE Spec => []DiskSound
<1>1. Init => IInv
  BY InitInv
<1>2. IInv /\ [Next]_diskVars => IInv'
  BY NextInv, StillInv
<1>3. IInv => DiskSound
  BY InvSound
<1> QED
  BY <1>1, <1>2, <1>3, PTL DEF Spec

\* Every step of the kernel's block device, up to a crash point, is a step of
\* BlockDev or leaves alone what BlockDev shows: the driver and the crash-test
\* cache together are the device on which the store is verified (blk.c,
\* virtio_blk.c).
THEOREM DiskIsABlockDevice == ASSUME DiskConstants PROVE Spec => Implements
<1>1. Init => IInv
  BY InitInv
<1>2. IInv /\ [Next]_diskVars => IInv'
  BY NextInv, StillInv
<1>3. IInv /\ [Next]_diskVars => [DevStep]_diskVars
  BY NextInv
<1> QED
  BY <1>1, <1>2, <1>3, PTL DEF Spec, Implements
=============================================================================
