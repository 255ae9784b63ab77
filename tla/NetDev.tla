------------------------------- MODULE NetDev ------------------------------
(***************************************************************************)
(* The network card (kernel/dev/virtio_net.c over virtio.c) and the calls  *)
(* NET_SEND and NET_RECV (kernel/syscall.c).  The device runs beside the   *)
(* kernel: it fills receive buffers and takes the transmit page whenever   *)
(* the rings let it.  Ring indices wrap.  Frames are numbered.             *)
(***************************************************************************)
EXTENDS Integers, Sequences, FiniteSets

CONSTANTS RxBufs,     \* NX_VNET_RX_BUFS, the size of the receive ring
          IdxWrap,    \* ring indices are taken modulo this (2^16)
          Losses,     \* loss_rx and loss_tx: every N-th frame is dropped, 0 for none
          MaxIn, MaxOut, MaxWait   \* bounds on the instance

VARIABLES nring,  \* the receive queue: rings, indices, buffers
          ntx,    \* the transmit queue: its page, a request, its completion
          ncall,  \* the call under way
          nwire   \* history: frames to us and from us; the loss setting and its counters
netVars == <<nring, ntx, ncall, nwire>>

Bufs == 0 .. RxBufs - 1
Inc(i) == (i + 1) % IdxWrap
NoFrame == [n |-> 0, good |-> FALSE]
Idle == [pc |-> "idle", id |-> 0, buf |-> NoFrame, keep |-> FALSE, waited |-> 0, todo |-> <<>>]

\* init_net: every buffer is posted.
Init ==
  /\ nring = [avail |-> [i \in Bufs |-> i], aidx |-> RxBufs % IdxWrap, taken |-> 0,
              used |-> [i \in Bufs |-> [id |-> 0, good |-> FALSE]], uidx |-> 0, seen |-> 0,
              buf |-> [i \in Bufs |-> NoFrame]]
  /\ ntx = [page |-> 0, busy |-> FALSE, done |-> FALSE, dead |-> FALSE]
  /\ ncall = Idle
  /\ nwire \in [in : {<<>>}, given : {<<>>}, out : {<<>>}, passed : {0}, ok : {{}}, lost : {{}},
                rxseen : {0}, txseen : {0}, loss : Losses]

nx_virtq_submit(r, id) == [r EXCEPT !.avail[r.aidx % RxBufs] = id, !.aidx = Inc(@)]

\* Every N-th frame is dropped for a test.
Drops(seen) == nwire.loss > 0 /\ seen % nwire.loss = 0

\* NET_RECV: the ring is polled, then a tick is slept, until the time is over.
sys_net_recv ==
  /\ ncall.pc = "idle" /\ ncall' = [Idle EXCEPT !.pc = "poll"]
  /\ UNCHANGED <<nring, ntx, nwire>>
RecvEmpty ==
  /\ ncall.pc = "poll" /\ ncall.todo = <<>> /\ nring.uidx = nring.seen
  /\ ncall' = IF ncall.waited >= MaxWait THEN Idle ELSE [ncall EXCEPT !.waited = @ + 1]
  /\ UNCHANGED <<nring, ntx, nwire>>

\* BROKEN: the buffer is posted before it is copied.
OrderEarly ==
  <<"post", "copy">>

\* nx_net_poll: the frame is copied out before its buffer is posted again.
Order ==
  <<"copy", "post">>
nx_net_poll ==
  /\ ncall.pc = "poll" /\ ncall.todo = <<>> /\ nring.uidx # nring.seen
  /\ LET e == nring.used[nring.seen % RxBufs]
         n == nwire.rxseen + 1
     IN /\ ncall' = [ncall EXCEPT !.id = e.id, !.todo = Order, !.keep = e.good /\ ~Drops(n)]
        /\ nwire' = [nwire EXCEPT !.rxseen = IF e.good THEN n ELSE @]
  /\ nring' = [nring EXCEPT !.seen = Inc(@)]
  /\ UNCHANGED ntx

\* What is left of the turn; then the frame is returned, or the next one looked for.
After(c) == IF c.todo # <<>> THEN c ELSE IF c.keep THEN Idle ELSE [c EXCEPT !.buf = NoFrame]
Gives(c) == nwire' = IF c.todo = <<>> /\ c.keep THEN [nwire EXCEPT !.given = Append(@, c.buf)] ELSE nwire
Copies ==
  /\ ncall.todo # <<>> /\ Head(ncall.todo) = "copy"
  /\ LET c == [ncall EXCEPT !.todo = Tail(@), !.buf = IF ncall.keep THEN nring.buf[ncall.id] ELSE @]
     IN ncall' = After(c) /\ Gives(c)
  /\ UNCHANGED <<nring, ntx>>
post_rx ==
  /\ ncall.todo # <<>> /\ Head(ncall.todo) = "post"
  /\ LET c == [ncall EXCEPT !.todo = Tail(@)] IN ncall' = After(c) /\ Gives(c)
  /\ nring' = nx_virtq_submit(nring, ncall.id)
  /\ UNCHANGED ntx

\* NET_SEND: refused while the link is down, dropped for a test, or copied to the
\* page and submitted.
nx_net_send ==
  LET k == nwire.passed + 1
      n == nwire.txseen + 1
  IN /\ ncall.pc = "idle" /\ k <= MaxOut
     /\ \/ /\ nwire' = [nwire EXCEPT !.passed = k]      \* link down
           /\ UNCHANGED <<ntx, ncall>>
        \/ /\ Drops(n) /\ nwire' = [nwire EXCEPT !.passed = k, !.txseen = n, !.ok = @ \cup {k}, !.lost = @ \cup {k}]
           /\ UNCHANGED <<ntx, ncall>>
        \/ /\ ~Drops(n) /\ nwire' = [nwire EXCEPT !.passed = k, !.txseen = n]
           /\ ntx' = [ntx EXCEPT !.page = k, !.busy = TRUE]
           /\ ncall' = [Idle EXCEPT !.pc = "send"]
     /\ UNCHANGED nring
SendDone ==
  /\ ncall.pc = "send" /\ ntx.done
  /\ ntx' = [ntx EXCEPT !.done = FALSE] /\ ncall' = Idle
  /\ nwire' = [nwire EXCEPT !.ok = @ \cup {nwire.passed}]
  /\ UNCHANGED nring
\* TX_POLL_LIMIT, met only with a device that answers no more.
SendTimeout ==
  /\ ncall.pc = "send" /\ ntx.dead /\ ~ntx.done
  /\ ncall' = Idle /\ UNCHANGED <<nring, ntx, nwire>>

\* The device (external).
DevReceives ==
  /\ Len(nwire.in) < MaxIn /\ nring.taken # nring.aidx
  /\ \E good \in BOOLEAN :
       LET id == nring.avail[nring.taken % RxBufs]
           f == [n |-> Len(nwire.in) + 1, good |-> good]
       IN /\ nring' = [nring EXCEPT !.taken = Inc(@), !.buf[id] = f, !.uidx = Inc(@),
                                    !.used[nring.uidx % RxBufs] = [id |-> id, good |-> good]]
          /\ nwire' = [nwire EXCEPT !.in = Append(@, f)]
  /\ UNCHANGED <<ntx, ncall>>
DevSends ==
  /\ ntx.busy /\ ~ntx.dead
  /\ ntx' = [ntx EXCEPT !.busy = FALSE, !.done = TRUE]
  /\ nwire' = [nwire EXCEPT !.out = Append(@, ntx.page)]
  /\ UNCHANGED <<nring, ncall>>
DevDies ==
  /\ ~ntx.dead /\ ntx' = [ntx EXCEPT !.dead = TRUE]
  /\ UNCHANGED <<nring, ncall, nwire>>

Next == \/ sys_net_recv \/ RecvEmpty \/ nx_net_poll \/ Copies \/ post_rx
        \/ nx_net_send \/ SendDone \/ SendTimeout
        \/ DevReceives \/ DevSends \/ DevDies
Spec == Init /\ [][Next]_netVars

----------------------------------------------------------------------------
\* The buffers from a ring position up to another.
Between(from, to) == {i \in 0 .. IdxWrap - 1 : (i - from) % IdxWrap < (to - from) % IdxWrap}
Posted == {nring.avail[i % RxBufs] : i \in Between(nring.taken, nring.aidx)}
Filled == {nring.used[i % RxBufs].id : i \in Between(nring.seen, nring.uidx)}
InHand == IF \E i \in 1..Len(ncall.todo) : ncall.todo[i] = "post" THEN {ncall.id} ELSE {}

\* Every receive buffer is in one place: posted, filled, or in the driver's hand.
\* No buffer is leaked or posted twice, with indices that wrap (post_rx).
TypeOK ==
  /\ Posted \cup Filled \cup InHand = Bufs
  /\ Cardinality(Between(nring.taken, nring.aidx)) + Cardinality(Between(nring.seen, nring.uidx)) + Cardinality(InHand) = RxBufs

\* Callers get the frames the device took in, in order, each once and whole,
\* but for those of a wrong size and every N-th; none is left behind when the
\* used ring is empty (nx_net_poll).
Good == SelectSeq(nwire.in, LAMBDA f : f.good)
Kept == LET S == {i \in 1..Len(Good) : ~Drops(i)}
        IN [j \in 1..Cardinality(S) |-> Good[CHOOSE i \in S : Cardinality({x \in S : x <= i}) = j]]
RxExact ==
  /\ Len(nwire.given) <= Len(Kept) /\ nwire.given = SubSeq(Kept, 1, Len(nwire.given))
  /\ ncall.pc = "idle" /\ nring.uidx = nring.seen => nwire.given = Kept

\* A frame whose NET_SEND succeeded is on the wire once and whole, before any
\* later one, unless it was dropped for a test; a failed one at most once
\* (nx_net_send waits for its completion before the page is used again).
TxExact ==
  /\ \A k \in nwire.ok \ nwire.lost : \E i \in 1..Len(nwire.out) : nwire.out[i] = k
  /\ \A i \in 2..Len(nwire.out) : nwire.out[i - 1] < nwire.out[i]
=============================================================================
