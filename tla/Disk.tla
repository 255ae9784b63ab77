------------------------------- MODULE Disk --------------------------------
(***************************************************************************)
(* The kernel's block device (kernel/dev/blk.c) over the polled virtio-blk *)
(* driver (virtio_blk.c, virtio.c): one request page, one descriptor chain *)
(* and a device that works through them in its own time.  The crash-test   *)
(* layer of blk.c keeps unflushed writes in a cache of its own and decides *)
(* at a crash point which of them reach the disk.                          *)
(*                                                                         *)
(* Contents of blocks are those of BlockDev, the device the store is       *)
(* checked on; Implements says that this one is such a device.             *)
(***************************************************************************)
EXTENDS Integers, Sequences

CONSTANTS NBlocks, Values,   \* the blocks of the device, what is written
          IoMax,             \* NX_BLK_IO_MAX
          Wrap,              \* the values of a 16-bit ring index
          Scenarios,         \* nx_blk_test, NX_BLK_CACHE_PAGES and the device:
                             \* its features, how many requests fail or time out,
                             \* whether it answers after that
          MaxCalls           \* a bound on the instance

VARIABLES dsc,    \* the scenario
          dcache, \* cache[0 .. cache_n)
          dcall,  \* the system call being served
          dq,     \* the request page, the bounce pages, the indices
          dseen,  \* used_seen: the completions the driver has taken
          dhw,    \* the device
          dack,   \* history: what the last write of a block was told
          dlim    \* calls, errors and time-outs so far

diskVars == <<dsc, dcache, dcall, dq, dseen, dhw, dack, dlim>>

Blocks == 0 .. NBlocks - 1
Blank == [t |-> "blank"]
Torn == [t |-> "torn"]
Data == {[t |-> "data", v |-> v] : v \in Values}
Unknown == [t |-> "unknown"]   \* a write of the block was answered with an error

\* A device does not answer a request after the driver gave up on it.  A cache
\* has room for a page, and is never full on a device that can fail.
DiskConstants ==
  /\ NBlocks \in Nat \ {0} /\ IoMax \in Nat \ {0} /\ Wrap \in Nat /\ Wrap > 1 /\ MaxCalls \in Nat
  /\ Scenarios \subseteq [cache : BOOLEAN, pages : Nat, errors : Nat, timeouts : Nat, late : {FALSE},
                          crash : BOOLEAN, lose : {"all", "none", "torn", "reorder"},
                          hasflush : BOOLEAN, ro : BOOLEAN]
  /\ \A s \in Scenarios : s.cache => /\ s.pages > 0
                                     /\ (s.errors = 0 /\ s.timeouts = 0) \/ s.pages >= MaxCalls * IoMax

NoReq == [type |-> "none", blk |-> 0, data |-> <<>>]
NoCall == [op |-> "none", pc |-> "ret", blk |-> 0, data |-> <<>>, i |-> 0, res |-> "none",
           was |-> [b \in Blocks |-> {}]]

Init == /\ dsc \in Scenarios
        /\ dcache = <<>> /\ dcall = NoCall
        /\ dq = [req |-> NoReq, page |-> [i \in 1..IoMax |-> Blank], status |-> "ff", avail |-> 0] /\ dseen = 0
        /\ dhw = [disk |-> [b \in Blocks |-> Blank], may |-> [b \in Blocks |-> {Blank}],
                  got |-> NoReq, taken |-> 0, used |-> 0]
        /\ dack = [b \in Blocks |-> Blank]
        /\ dlim = [calls |-> 0, errors |-> 0, late |-> 0]

Cached == dsc.cache     \* nx_blk_test.enabled && volatile_cache && pool_ready

\* What a read of block b gives: the newest write in the cache or the disk.
Newest(cache, b) == {i \in 1..Len(cache) : cache[i].blk = b /\ \A j \in i + 1 .. Len(cache) : cache[j].blk # b}
Overlay(cache, b, onDisk) ==
  IF Newest(cache, b) = {} THEN onDisk ELSE cache[CHOOSE i \in Newest(cache, b) : TRUE].val
Vol == [b \in Blocks |-> Overlay(dcache, b, dhw.disk[b])]
\* What block b may hold after the power is lost.
Media == [b \in Blocks |-> dhw.may[b] \cup
            UNION {{dcache[i].val, Torn} : i \in {j \in 1..Len(dcache) : dcache[j].blk = b}}]

----------------------------------------------------------------------------
(* virtio_blk.c: request() and its three callers.                          *)

Over(page, data) == [i \in 1..IoMax |-> IF i <= Len(data) THEN data[i] ELSE page[i]]

\* The request page is filled and the chain made available; the caller polls.
Request(type, blk, data) ==
  dq' = [dq EXCEPT !.req = [type |-> type, blk |-> blk, data |-> data], !.status = "ff",
                   !.page = IF type \in {"out", "half"} THEN Over(@, data) ELSE @,
                   !.avail = (@ + 1) % Wrap]

\* The device takes the next chain, reading it and the request page as they are then.
Fetch ==
  /\ dhw.got = NoReq /\ dhw.taken # dq.avail
  /\ dhw' = [dhw EXCEPT !.taken = (@ + 1) % Wrap,
                        !.got = [dq.req EXCEPT !.data = SubSeq(dq.page, 1, Len(@))]]
  /\ UNCHANGED <<dsc, dcache, dcall, dq, dseen, dack, dlim>>

\* It carries the request out, or fails with any part of a write done, and
\* writes the status byte and the used ring.
Of(req) == {b \in Blocks : req.blk <= b /\ b < req.blk + Len(req.data)}
Part(req, b) == IF req.type = "half" THEN Torn ELSE req.data[b - req.blk + 1]
Performs(req, done) ==   \* done: Of(req) -> "old", "new", "torn"
  [dhw EXCEPT !.disk = [b \in Blocks |-> IF b \notin Of(req) \/ done[b] = "old" THEN @[b]
                                         ELSE IF done[b] = "new" THEN Part(req, b) ELSE Torn],
              !.may = [b \in Blocks |-> IF b \in Of(req) THEN @[b] \cup {Part(req, b), Torn} ELSE @[b]],
              !.got = NoReq, !.used = (@ + 1) % Wrap]
Complete ==
  /\ dhw.got # NoReq /\ (dlim.late = 0 \/ dsc.late)
  /\ \E status \in {"ok", "ioerr"} :
       /\ status = "ioerr" => dlim.errors < dsc.errors
       /\ dlim' = IF status = "ok" THEN dlim ELSE [dlim EXCEPT !.errors = @ + 1]
       /\ CASE dhw.got.type \in {"out", "half"} ->
                 /\ \E done \in [Of(dhw.got) -> IF status = "ok" THEN {"new"} ELSE {"old", "new", "torn"}] :
                      dhw' = Performs(dhw.got, done)
                 /\ dq' = [dq EXCEPT !.status = status]
            [] dhw.got.type = "in" ->
                 /\ dhw' = [dhw EXCEPT !.got = NoReq, !.used = (@ + 1) % Wrap]
                 /\ dq' = [dq EXCEPT !.status = status,
                              !.page = IF status = "ok" THEN Over(@, [i \in 1..Len(dhw.got.data) |-> dhw.disk[dhw.got.blk + i - 1]])
                                       ELSE @]
            [] dhw.got.type = "flush" ->
                 /\ dhw' = [dhw EXCEPT !.got = NoReq, !.used = (@ + 1) % Wrap,
                              !.may = IF status = "ok" THEN [b \in Blocks |-> {dhw.disk[b]}] ELSE @]
                 /\ dq' = [dq EXCEPT !.status = status]
  /\ UNCHANGED <<dsc, dcache, dcall, dseen, dack>>

----------------------------------------------------------------------------
(* blk.c: a call goes from one request to the next.                        *)

Span(c) == {b \in Blocks : c.blk <= b /\ b < c.blk + Len(c.data)}
\* The system call returns.
Return(c, res) ==
  /\ dcall' = [c EXCEPT !.pc = "ret", !.res = res]
  /\ dack' = IF c.op # "write" THEN dack
             ELSE [b \in Blocks |-> IF b \notin Span(c) THEN dack[b]
                                    ELSE IF res = "ok" THEN c.data[b - c.blk + 1] ELSE Unknown]
Waits(c) == dcall' = [c EXCEPT !.pc = "wait"] /\ UNCHANGED dack

\* nx_blk_write with the cache: the next block, or the request that makes room.
CachePut(c, cache) ==
  IF c.i > Len(c.data) THEN Return(c, "ok") /\ dcache' = cache /\ UNCHANGED dq
  ELSE IF Len(cache) = dsc.pages
       THEN Request("out", cache[1].blk, <<cache[1].val>>) /\ Waits(c) /\ dcache' = cache
       ELSE /\ dcall' = [c EXCEPT !.i = @ + 1, !.pc = "put"]
            /\ dcache' = Append(cache, [blk |-> c.blk + c.i - 1, val |-> c.data[c.i]])
            /\ UNCHANGED <<dq, dack>>
Put == dcall.pc = "put" /\ CachePut(dcall, dcache) /\ UNCHANGED <<dsc, dseen, dhw, dlim>>

\* BROKEN: the newest entry goes instead of the oldest.
cache_evict_oldestLast(st) ==
  IF st = "ok" THEN CachePut(dcall, SubSeq(dcache, 1, Len(dcache) - 1))
  ELSE Return(dcall, "eio") /\ dcache' = SubSeq(dcache, 1, Len(dcache) - 1) /\ UNCHANGED dq

\* cache_evict_oldest has had its answer: the entry goes, whatever it was.
cache_evict_oldest(st) ==
  IF st = "ok" THEN CachePut(dcall, Tail(dcache))
  ELSE Return(dcall, "eio") /\ dcache' = Tail(dcache) /\ UNCHANGED dq

\* nx_blk_flush: the next cached block is written back, then all are dropped
\* and the device is told to flush.
FlushNext(c) ==
  /\ IF c.i < Len(dcache)
     THEN /\ Request("out", dcache[c.i + 1].blk, <<dcache[c.i + 1].val>>)
          /\ dcache' = dcache /\ Waits([c EXCEPT !.i = @ + 1])
     ELSE /\ dcache' = <<>>
          /\ IF dsc.hasflush THEN Request("flush", 0, <<>>) /\ Waits([c EXCEPT !.op = "sync"])
                             ELSE UNCHANGED dq /\ Return(c, "eio")

\* crash: the policy picks what is written before the machine stops.
Keep(i) == LET newest == i = Len(dcache)
           IN CASE dsc.lose = "all" -> "no"
                [] dsc.lose = "none" -> "out"
                [] dsc.lose = "torn" -> IF newest THEN "half" ELSE "out"
                [] dsc.lose = "reorder" -> IF newest THEN "out" ELSE "no"

\* BROKEN: every block gets the contents of the newest.
CrashNextMixed(c) ==
  /\ UNCHANGED <<dcache, dack>>
  /\ IF c.i = Len(dcache) THEN dcall' = [c EXCEPT !.pc = "off"] /\ UNCHANGED dq
     ELSE /\ Request("out", dcache[c.i + 1].blk, <<dcache[Len(dcache)].val>>)
          /\ dcall' = [c EXCEPT !.i = @ + 1, !.pc = "wait"]

CrashNext(c) ==
  /\ UNCHANGED <<dcache, dack>>
  /\ IF c.i = Len(dcache)
     THEN IF c.op = "crash" /\ dsc.hasflush
          THEN Request("flush", 0, <<>>) /\ dcall' = [c EXCEPT !.op = "stop", !.pc = "wait"]
          ELSE dcall' = [c EXCEPT !.pc = "off"] /\ UNCHANGED dq
     ELSE IF Keep(c.i + 1) = "no" THEN dcall' = [c EXCEPT !.i = @ + 1, !.pc = "crash"] /\ UNCHANGED dq
     ELSE /\ Request(Keep(c.i + 1), dcache[c.i + 1].blk, <<dcache[c.i + 1].val>>)
          /\ dcall' = [c EXCEPT !.i = @ + 1, !.pc = "wait"]
Crash == dcall.pc = "crash" /\ CrashNext(dcall) /\ UNCHANGED <<dsc, dseen, dhw, dlim>>

\* nx_blk_read: the bounce pages, and over them what is newer in the cache.
ReadDone(st) ==
  /\ UNCHANGED <<dcache, dq>>
  /\ IF st # "ok" THEN Return(dcall, "eio")
     ELSE Return([dcall EXCEPT !.data = [i \in 1..Len(dcall.data) |-> Overlay(dcache, dcall.blk + i - 1, dq.page[i])]], "ok")

\* The request is answered with st.
Answered(st) ==
  CASE dcall.op = "read" -> ReadDone(st)
    [] dcall.op = "write" /\ Cached -> cache_evict_oldest(st)
    [] dcall.op = "write" /\ ~Cached -> Return(dcall, st) /\ UNCHANGED <<dcache, dq>>
    [] dcall.op = "flush" -> IF st = "ok" THEN FlushNext(dcall)
                             ELSE Return(dcall, "eio") /\ UNCHANGED <<dcache, dq>>
    [] dcall.op = "sync" -> Return([dcall EXCEPT !.op = "flush"], st) /\ UNCHANGED <<dcache, dq>>
    [] dcall.op \in {"crash", "stop"} -> CrashNext(dcall)

\* The poll sees a completion, whosever it is, and reads the status byte ...
Poll ==
  /\ dcall.pc = "wait" /\ dhw.used # dseen
  /\ dseen' = (dseen + 1) % Wrap
  /\ Answered(IF dq.status = "ok" THEN "ok" ELSE "eio")
  /\ UNCHANGED <<dsc, dhw, dlim>>
\* ... or gives up; the device still has the request.
Timeout ==
  /\ dcall.pc = "wait" /\ dhw.used = dseen /\ dlim.late < dsc.timeouts
  /\ dlim' = [dlim EXCEPT !.late = @ + 1]
  /\ Answered("eio")
  /\ UNCHANGED <<dsc, dseen, dhw>>

\* A system call. Writes and flushes are counted, and one of them may be the
\* crash point.
Call(op, b, data) == [NoCall EXCEPT !.op = op, !.blk = b, !.data = data]
CrashPoint == [NoCall EXCEPT !.op = "crash", !.pc = "crash", !.was = Media]
Free == dcall.pc = "ret" /\ dlim.calls < MaxCalls
Counted == dlim' = [dlim EXCEPT !.calls = @ + 1]
Stops == /\ dsc.crash /\ dcall' = CrashPoint /\ UNCHANGED <<dcache, dq, dack>>
nx_blk_read ==
  /\ Free /\ Counted
  /\ \E b \in Blocks, n \in 1..IoMax :
       /\ b + n <= NBlocks
       /\ Request("in", b, [i \in 1..n |-> Blank]) /\ Waits(Call("read", b, [i \in 1..n |-> Blank]))
  /\ UNCHANGED <<dsc, dcache, dseen, dhw>>
nx_blk_write ==
  /\ Free /\ Counted
  /\ \E b \in Blocks, n \in 1..IoMax, v \in Data :
       /\ b + n <= NBlocks
       /\ LET c == Call("write", b, [i \in 1..n |-> v])
          IN IF dsc.ro THEN Return(c, "eio") /\ UNCHANGED <<dcache, dq>>
             ELSE \/ Stops
                  \/ Cached /\ CachePut([c EXCEPT !.i = 1], dcache)
                  \/ ~Cached /\ Request("out", b, c.data) /\ Waits(c) /\ UNCHANGED dcache
  /\ UNCHANGED <<dsc, dseen, dhw>>
nx_blk_flush ==
  /\ Free /\ Counted
  /\ \/ Stops
     \/ FlushNext(Call("flush", 0, <<>>))
  /\ UNCHANGED <<dsc, dseen, dhw>>

Next == nx_blk_read \/ nx_blk_write \/ nx_blk_flush \/ Put \/ Crash \/ Poll \/ Timeout \/ Fetch \/ Complete
Spec == Init /\ [][Next]_diskVars

----------------------------------------------------------------------------
TypeOK == /\ dcall.pc \in {"ret", "wait", "put", "crash", "off"}
          /\ Len(dcache) <= dsc.pages
          /\ \A b \in Blocks : dhw.disk[b] \in dhw.may[b] /\ dhw.may[b] \subseteq Data \cup {Blank, Torn}

\* A flush that returns 0 has made every completed write durable: each block
\* whose last write was answered with success can be found with nothing else
\* after the power is lost (BLK_FLUSH, docs/m4-store.md:109).
FlushDurable ==
  dcall.op = "flush" /\ dcall.pc = "ret" /\ dcall.res = "ok"
    => \A b \in Blocks : dack[b] = Unknown \/ Media[b] = {dack[b]}

\* A read that succeeds returns for every block what its last successful write
\* put there, from the device or from the cache (nx_blk_read).
ReadsLast ==
  dcall.op = "read" /\ dcall.pc = "ret" /\ dcall.res = "ok"
    => \A b \in Span(dcall) : dack[b] = Unknown \/ dcall.data[b - dcall.blk + 1] = dack[b]

\* Whatever the policy, a crash point leaves in each block something that a
\* loss of power there could have left (crash).
CrashPlausible == dcall.pc = "off" => \A b \in Blocks : dhw.disk[b] \in dcall.was[b]

\* What was written before a successful flush is on the medium, reads return
\* what was written last, and a crash point leaves of each block what was
\* flushed or written since (nx_blk_flush, nx_blk_read, crash).
DiskSound == TypeOK /\ FlushDurable /\ ReadsLast /\ CrashPlausible

BD == INSTANCE BlockDev WITH vol <- Vol, media <- Media
DevStep == \/ dcall.op \in {"crash", "stop"}
           \/ Vol' = Vol /\ Media' = Media
           \/ \E b \in Blocks, n \in 1..IoMax : \E W \in [b .. b + n - 1 -> Data] :
                b + n <= NBlocks /\ (BD!DevWrite(W) \/ BD!DevWriteError(W))
           \/ BD!DevFlush

\* Up to a crash point the kernel's device is the one the store is checked on:
\* what reads return, and what may survive, changes only as BlockDev says.
Implements == [][DevStep]_diskVars
=============================================================================
