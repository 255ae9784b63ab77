-------------------------------- MODULE Tcp --------------------------------
(***************************************************************************)
(* lib/net/tcp.c: two endpoints running the TCP of the network stack over  *)
(* a link that loses, duplicates and reorders segments.  C connects, S has *)
(* a listener; the programs on top write, read and close.                  *)
(*                                                                         *)
(* Sequence numbers wrap at Modulus (2^32 in the code, seq_lt and seq_le   *)
(* compare across the wrap).  A byte is its number in the stream it is     *)
(* written to, so a byte out of place shows.  Times are left out: a timer  *)
(* may fire when nothing is under way, and too early as one of the faults. *)
(* Round-trip estimates only set the time of the next firing.              *)
(***************************************************************************)
EXTENDS Integers, FiniteSets, Sequences, SequencesExt

CONSTANTS
    Scenarios,      \* [mss, rcvbuf, sndbuf, cwnd, ooo : Nat, bytes : [C, S -> Nat], faults : Nat, abort : BOOLEAN]
    Modulus,        \* sequence numbers
    Iss,            \* initial sequence number of each side
    Retries,        \* NET_TCP_SYN_RETRIES, NET_TCP_DATA_RETRIES
    DupAcks         \* duplicate acknowledgements before a fast retransmit

ASSUME TcpAssumption == Modulus > 8 /\ Iss["C"] \in 0..(Modulus - 1) /\ Iss["S"] \in 0..(Modulus - 1)

Sides == {"C", "S"}
Peer(e) == IF e = "C" THEN "S" ELSE "C"

VARIABLES
    sc,         \* the scenario of this behaviour
    conn,       \* struct tcp_conn of each side
    app,        \* each program: open, closing (in tcp_close) or closed
    todo,       \* number of bytes each program has still to write
    got,        \* bytes each program has read
    eof,        \* tcp_read returned 0
    net,        \* segments on the way to each side
    faults      \* faults so far
vars == <<sc, conn, app, todo, got, eof, net, faults>>

Plus(s, n) == (s + n) % Modulus
Dist(s, t) == (t - s) % Modulus
seq_lt(s, t) == Dist(s, t) \in 1..(Modulus \div 2 - 1)
seq_le(s, t) == s = t \/ seq_lt(s, t)
Later(s, t) == IF seq_lt(s, t) THEN t ELSE s

---------------------------------------------------------------------------
(* Segments and what sending them does.  An operation on a connection      *)
(* yields the connection and the segments it sends, in order.              *)

R(t, out) == [t |-> t, out |-> out]
Then(r, s) == R(s.t, r.out \o s.out)

rcv_window(t) == sc.rcvbuf - Len(t.rbuf)

Seg(t, seq, fl, data) ==
    [seq |-> seq, ack |-> IF "ACK" \in fl THEN t.rcv_nxt ELSE 0, fl |-> fl, wnd |-> rcv_window(t), data |-> data]

\* Data from the send buffer at seq.
Data(t, seq, n) ==
    Seg(t, seq, {"ACK"}, SubSeq(t.sbuf, Dist(t.sbuf_seq, seq) + 1, Dist(t.sbuf_seq, seq) + n))

send_reset(seq, ack, with) ==
    [seq |-> seq, ack |-> ack, fl |-> IF with THEN {"RST", "ACK"} ELSE {"RST"}, wnd |-> 0, data |-> <<>>]

init_conn(e, st) ==
    [state |-> st, iss |-> Iss[e], snd_una |-> Iss[e], snd_nxt |-> Iss[e], snd_max |-> Iss[e], snd_wnd |-> 0,
     sbuf |-> <<>>, sbuf_seq |-> Plus(Iss[e], 1), fin_queued |-> FALSE, fin_sent |-> FALSE,
     fin_seq |-> -1, fin_acked |-> FALSE, rcv_nxt |-> 0, rbuf |-> <<>>, ooo |-> {},
     fin_received |-> FALSE, timer |-> FALSE, retries |-> 0, dupacks |-> 0, recover |-> -1,
     err |-> "OK", used |-> TRUE, orphan |-> FALSE]

fail_conn(t, err) ==
    [t EXCEPT !.err = IF @ = "OK" THEN err ELSE @, !.state = "CLOSED", !.timer = FALSE]

\* snd_nxt moves to n; the timer runs.
Sent(t, n) == [t EXCEPT !.snd_nxt = n, !.snd_max = Later(@, n), !.timer = TRUE]

outputHandshake(t) ==
    IF seq_lt(t.snd_nxt, Plus(t.iss, 1))
    THEN R(Sent(t, Plus(t.iss, 1)),
           <<Seg(t, t.iss, IF t.state = "SYN_SENT" THEN {"SYN"} ELSE {"SYN", "ACK"}, <<>>)>>)
    ELSE R(t, <<>>)

Least(a, b) == IF a < b THEN a ELSE b

\* Data as far as the window allows, in segments of at most mss bytes ...
outputData(t) ==
    LET avail == Dist(t.snd_nxt, Plus(t.sbuf_seq, Len(t.sbuf)))
        flight == Dist(t.snd_una, t.snd_nxt)
        wnd == Least(t.snd_wnd, sc.cwnd * sc.mss)
        n == Least(avail, IF wnd > flight THEN wnd - flight ELSE 0)
        pieces == [i \in 1..((n + sc.mss - 1) \div sc.mss) |->
                     Data(t, Plus(t.snd_nxt, (i - 1) * sc.mss), Least(sc.mss, n - (i - 1) * sc.mss))]
    IN  IF ~seq_lt(t.snd_nxt, Plus(t.sbuf_seq, Len(t.sbuf))) THEN R(t, <<>>)
        ELSE IF t.snd_wnd = 0 /\ flight = 0       \* a probe: snd_nxt stays
        THEN R([t EXCEPT !.snd_max = Later(@, Plus(t.snd_nxt, 1)), !.timer = TRUE], <<Data(t, t.snd_nxt, 1)>>)
        ELSE IF n = 0 THEN R(t, <<>>)
        ELSE R(Sent(t, Plus(t.snd_nxt, n)), pieces)

\* ... and then the FIN.
outputFin(t) ==
    IF t.fin_queued /\ ~t.fin_sent /\ t.snd_nxt = Plus(t.sbuf_seq, Len(t.sbuf))
    THEN R([Sent(t, Plus(t.snd_nxt, 1)) EXCEPT
                !.fin_sent = TRUE, !.fin_seq = t.snd_nxt,
                !.state = CASE @ = "ESTABLISHED" -> "FIN_WAIT_1" [] @ = "CLOSE_WAIT" -> "LAST_ACK" [] OTHER -> @],
           <<Seg(t, t.snd_nxt, {"ACK", "FIN"}, <<>>)>>)
    ELSE R(t, <<>>)

\* What there is to send; a pure ACK if one is due and nothing else goes out.
output(t, ack) ==
    LET d == outputData(t)
        f == Then(d, outputFin(d.t))
        r == CASE t.state \in {"SYN_SENT", "SYN_RCVD"} -> outputHandshake(t)
               [] t.state \in {"ESTABLISHED", "CLOSE_WAIT", "FIN_WAIT_1", "CLOSING", "LAST_ACK"} -> f
               [] OTHER -> R(t, <<>>)
    IN  IF ack /\ r.out = <<>> /\ t.state \notin {"SYN_SENT", "SYN_RCVD"}
        THEN R(r.t, <<Seg(t, t.snd_nxt, {"ACK"}, <<>>)>>) ELSE r

\* The segment at snd_una once more, without touching snd_nxt.
resend_first(t) ==
    CASE t.sbuf # <<>> /\ t.snd_una = t.sbuf_seq ->
            R([t EXCEPT !.timer = TRUE], <<Data(t, t.snd_una, Least(sc.mss, Len(t.sbuf)))>>)
      [] t.fin_seq # -1 /\ t.snd_una = t.fin_seq ->
            R([t EXCEPT !.timer = TRUE], <<Seg(t, t.fin_seq, {"ACK", "FIN"}, <<>>)>>)
      [] OTHER -> R(t, <<>>)

---------------------------------------------------------------------------
(* Receiving.                                                              *)

\* Acknowledged data leaves the send buffer.
Acked(t, ack) ==
    LET d == IF seq_lt(t.sbuf_seq, ack) THEN Least(Dist(t.sbuf_seq, ack), Len(t.sbuf)) ELSE 0
    IN  [t EXCEPT !.sbuf = SubSeq(@, d + 1, Len(@)), !.sbuf_seq = Plus(@, d),
                  !.fin_acked = @ \/ (t.fin_seq # -1 /\ seq_lt(t.fin_seq, ack)),
                  !.snd_una = ack, !.snd_nxt = Later(@, ack),
                  !.retries = 0, !.dupacks = 0, !.timer = ack # t.snd_max]

process_ack(t, g, pure) ==
    LET a == Acked(t, g.ack)
        \* a partial acknowledgement in recovery: the next hole
        n == IF t.recover = -1 THEN R(a, <<>>)
             ELSE IF seq_lt(g.ack, t.recover) THEN resend_first(a)
             ELSE R([a EXCEPT !.recover = -1], <<>>)
        d == [t EXCEPT !.dupacks = @ + 1]
        r == CASE seq_lt(t.snd_una, g.ack) /\ seq_le(g.ack, t.snd_max) -> n
               [] g.ack = t.snd_una /\ t.snd_una # t.snd_max /\ pure ->
                    IF g.wnd = 0 THEN R([t EXCEPT !.retries = 0], <<>>)
                    ELSE IF d.dupacks = DupAcks /\ t.recover = -1
                    THEN resend_first([d EXCEPT !.recover = t.snd_max])
                    ELSE R([d EXCEPT !.dupacks = Least(@, DupAcks + 1)], <<>>)
               [] OTHER -> R(t, <<>>)
    IN  R([r.t EXCEPT !.snd_wnd = g.wnd], r.out)

enter_time_wait(t) == [t EXCEPT !.state = "TIME_WAIT", !.timer = FALSE]

\* Our FIN is acknowledged.
after_ack(t) ==
    CASE t.fin_acked /\ t.state = "FIN_WAIT_1" -> [t EXCEPT !.state = "FIN_WAIT_2"]
      [] t.fin_acked /\ t.state = "CLOSING" -> enter_time_wait(t)
      [] t.fin_acked /\ t.state = "LAST_ACK" -> [t EXCEPT !.state = "CLOSED", !.timer = FALSE]
      [] OTHER -> t

rbuf_append(t, data) == [t EXCEPT !.rbuf = @ \o data, !.rcv_nxt = Plus(@, Len(data))]

\* BROKEN: a segment out of order moves rcv_nxt.
ooo_storeSkips(t, seq, data) == [t EXCEPT !.rcv_nxt = Plus(seq, Len(data))]

ooo_store(t, seq, data) ==
    IF seq_lt(t.rcv_nxt, seq) /\ Cardinality(t.ooo) < sc.ooo /\ ~ \E o \in t.ooo : o.seq = seq
    THEN [t EXCEPT !.ooo = @ \cup {[seq |-> seq, data |-> data]}] ELSE t

\* One kept segment that reaches rcv_nxt: what is new of it is appended.
MergeOne(t) ==
    LET left == {o \in t.ooo : ~seq_le(Plus(o.seq, Len(o.data)), t.rcv_nxt)}
        next == {o \in left : seq_le(o.seq, t.rcv_nxt)}
        o == CHOOSE o \in next : TRUE
        new == SubSeq(o.data, Dist(o.seq, t.rcv_nxt) + 1, Len(o.data))
    IN  IF next = {} \/ Len(new) > rcv_window(t) THEN [t EXCEPT !.ooo = left]
        ELSE [rbuf_append(t, new) EXCEPT !.ooo = left \ {o}]

\* At most sc.ooo segments are kept, so so many passes take all of them.
ooo_merge(t) == MergeOne(MergeOne(MergeOne(t)))

SegLen(g) == Len(g.data) + Cardinality(g.fl \cap {"SYN", "FIN"})

\* The segment overlaps the receive window.
in_window(t, g) ==
    LET w == rcv_window(t)
        In(s) == seq_le(t.rcv_nxt, s) /\ seq_lt(s, Plus(t.rcv_nxt, w))
    IN  IF SegLen(g) = 0 THEN IF w > 0 THEN In(g.seq) ELSE g.seq = t.rcv_nxt
        ELSE w > 0 /\ (In(g.seq) \/ In(Plus(g.seq, SegLen(g) - 1)))

\* For no connection: a listener takes a SYN, all else but a RST is reset.
Unexpected(e, t, g) ==
    CASE t.used /\ t.state = "LISTEN" /\ g.fl = {"SYN"} ->
            output([init_conn(e, "SYN_RCVD") EXCEPT !.rcv_nxt = Plus(g.seq, 1), !.snd_wnd = g.wnd], FALSE)
      [] "RST" \in g.fl -> R(t, <<>>)
      [] "ACK" \in g.fl -> R(t, <<send_reset(g.ack, 0, FALSE)>>)
      [] OTHER -> R(t, <<send_reset(0, Plus(g.seq, SegLen(g)), TRUE)>>)

InSynSent(t, g) ==
    CASE "ACK" \in g.fl /\ g.ack # Plus(t.iss, 1) ->
            R(t, IF "RST" \in g.fl THEN <<>> ELSE <<send_reset(g.ack, 0, FALSE)>>)
      [] "RST" \in g.fl -> R(IF "ACK" \in g.fl THEN fail_conn(t, "CONN_REFUSED") ELSE t, <<>>)
      [] {"SYN", "ACK"} \subseteq g.fl ->
            output([t EXCEPT !.rcv_nxt = Plus(g.seq, 1), !.snd_una = g.ack, !.snd_wnd = g.wnd,
                             !.retries = 0, !.timer = FALSE, !.state = "ESTABLISHED"], TRUE)
      [] OTHER -> R(t, <<>>)

Reset(t, g) ==
    CASE ~in_window(t, g) /\ g.seq # t.rcv_nxt -> t
      [] t.state = "SYN_RCVD" -> fail_conn(t, "CONN_REFUSED")
      [] t.state \in {"TIME_WAIT", "LAST_ACK", "CLOSING"} -> [t EXCEPT !.state = "CLOSED"]
      [] OTHER -> fail_conn(t, "CONN_RESET")

\* Outside the window the acknowledgement still counts, and is answered unless
\* the segment was a pure one.
OutOfWindow(t, g) ==
    LET p == process_ack(t, g, SegLen(g) = 0)
        a == IF "ACK" \in g.fl /\ t.state # "SYN_RCVD" THEN R(after_ack(p.t), p.out) ELSE R(t, <<>>)
    IN  IF a.t.state = "CLOSED" THEN a ELSE Then(a, output(a.t, SegLen(g) > 0))

TakesData(t) == t.state \in {"ESTABLISHED", "FIN_WAIT_1", "FIN_WAIT_2"}

\* The peer's FIN, once all before it is here.
TakeFin(t) ==
    LET f == [t EXCEPT !.fin_received = TRUE, !.rcv_nxt = Plus(@, 1)]
    IN  CASE t.state = "ESTABLISHED" -> [f EXCEPT !.state = "CLOSE_WAIT"]
          [] t.state = "FIN_WAIT_1" /\ ~t.fin_acked -> [f EXCEPT !.state = "CLOSING"]
          [] t.state \in {"FIN_WAIT_1", "FIN_WAIT_2"} -> enter_time_wait(f)
          [] OTHER -> f

\* Data and FIN of a segment in the window: the part that is here already is cut
\* off; data further on is kept for later, and a FIN behind it is not looked at.
Text(t, g) ==
    LET cut == IF g.data # <<>> /\ seq_lt(g.seq, t.rcv_nxt) THEN Dist(g.seq, t.rcv_nxt) ELSE 0
        data == SubSeq(g.data, cut + 1, Len(g.data))
        seq == IF cut > 0 THEN t.rcv_nxt ELSE g.seq
        d == SubSeq(data, 1, Least(Len(data), rcv_window(t)))
        next == seq = t.rcv_nxt /\ TakesData(t)
        a == CASE data = <<>> -> t
               [] data # <<>> /\ next -> ooo_merge(rbuf_append(t, d))
               [] data # <<>> /\ ~next /\ TakesData(t) -> ooo_store(t, seq, data)
               [] OTHER -> t
        fin == "FIN" \in g.fl /\ (data = <<>> \/ (next /\ d = data))
        now == fin /\ Plus(seq, Len(data)) = a.rcv_nxt /\ ~t.fin_received
    IN  output(IF now THEN TakeFin(a) ELSE a, g.data # <<>> \/ now \/ (fin /\ t.fin_received))

tcp_input(e, t, g) ==
    LET s == IF t.state = "SYN_RCVD" THEN [t EXCEPT !.state = "ESTABLISHED"] ELSE t
        p == process_ack(s, g, SegLen(g) = 0)
        a == R(after_ack(p.t), p.out)
    IN  CASE ~t.used \/ t.state \in {"CLOSED", "LISTEN"} -> Unexpected(e, t, g)
          [] t.used /\ t.state = "SYN_SENT" -> InSynSent(t, g)
          [] OTHER ->
             CASE "RST" \in g.fl -> R(Reset(t, g), <<>>)
               [] "RST" \notin g.fl /\ ~in_window(t, g) -> OutOfWindow(t, g)
               [] OTHER ->
                  CASE "SYN" \in g.fl -> R(fail_conn(t, "CONN_RESET"), <<Seg(t, t.snd_nxt, {"RST"}, <<>>)>>)
                    [] g.fl \cap {"SYN", "ACK"} = {} -> R(t, <<>>)
                    [] g.fl \cap {"SYN", "ACK"} = {"ACK"} ->
                       IF t.state = "SYN_RCVD" /\ g.ack # Plus(t.iss, 1)
                       THEN R(t, <<send_reset(g.ack, 0, FALSE)>>)
                       ELSE IF a.t.state = "CLOSED" THEN a ELSE Then(a, Text(a.t, g))

\* The retransmission timer: back to the oldest byte that is not acknowledged.
retransmit(t) ==
    LET s == [t EXCEPT !.timer = FALSE, !.retries = @ + 1]
        b == [s EXCEPT !.recover = -1, !.dupacks = 0, !.snd_nxt = t.snd_una,
                       !.fin_sent = @ /\ t.fin_acked]
        r == output(b, FALSE)
    IN  IF s.retries > Retries
        THEN R(fail_conn(s, IF t.state = "SYN_SENT" THEN "CONN_TIMEOUT" ELSE "UNACKED_TIMEOUT"), <<>>)
        ELSE R([r.t EXCEPT !.timer = TRUE], r.out)

---------------------------------------------------------------------------
(* tcp_connect has sent the SYN and waits.                                 *)
Init ==
    /\ sc \in Scenarios
    /\ LET c == output(init_conn("C", "SYN_SENT"), FALSE)
       IN  /\ conn = [C |-> c.t, S |-> init_conn("S", "LISTEN")]
           /\ net = [C |-> <<>>, S |-> c.out]
    /\ app = [e \in Sides |-> "open"]
    /\ todo = sc.bytes
    /\ got = [e \in Sides |-> <<>>] /\ eof = [e \in Sides |-> FALSE] /\ faults = 0

\* The connection of e becomes r.t, and what it sends is on the way.
Becomes(e, r) ==
    /\ conn' = [conn EXCEPT ![e] = r.t]
    /\ net' = [net EXCEPT ![Peer(e)] = @ \o r.out]

Fault == faults < sc.faults /\ faults' = faults + 1
programs == <<app, todo, got, eof>>

\* net_poll takes a frame.
Receive(e) ==
    /\ net[e] # <<>>
    /\ LET r == tcp_input(e, conn[e], Head(net[e]))
       IN  /\ conn' = [conn EXCEPT ![e] = r.t]
           /\ net' = [net EXCEPT ![e] = Tail(@), ![Peer(e)] = @ \o r.out]
    /\ UNCHANGED <<sc, programs, faults>>

\* The link loses the next segment, repeats it, or lets the one after it pass.
Disturbed(q) ==
    {Tail(q), Append(q, Head(q))} \cup (IF Len(q) > 1 THEN {<<q[2], q[1]>> \o SubSeq(q, 3, Len(q))} ELSE {})
Disturb(e) ==
    /\ net[e] # <<>> /\ Fault /\ \E q \in Disturbed(net[e]) : net' = [net EXCEPT ![e] = q]
    /\ UNCHANGED <<sc, programs, conn>>

Quiet == net["C"] = <<>> /\ net["S"] = <<>>

\* The wait in tcp_close is over: it does not poll again.
Waited(e) == app[e] = "closing" /\ (conn[e].state \in {"CLOSED", "TIME_WAIT", "FIN_WAIT_2"} \/ conn[e].err # "OK")

\* tcp_timers: the retransmission timer, in time or too early; TIME_WAIT and a
\* closed connection its owner has left run out.
Ticking(e) == conn[e].used /\ (conn[e].timer \/ conn[e].state = "TIME_WAIT" \/ (conn[e].orphan /\ conn[e].state = "CLOSED"))

\* The timeout doubles with every retry: the side with fewer is first.
InTime(e) ==
    Quiet /\ (conn[e].timer /\ conn[Peer(e)].used /\ conn[Peer(e)].timer => conn[e].retries <= conn[Peer(e)].retries)

tcp_timers(e) ==
    /\ Ticking(e) /\ ~Waited(e)
    /\ \/ InTime(e) /\ UNCHANGED faults
       \/ ~InTime(e) /\ Fault
    /\ LET t == IF conn[e].state = "TIME_WAIT" THEN [conn[e] EXCEPT !.state = "CLOSED"] ELSE conn[e]
       IN  Becomes(e, IF t.orphan /\ t.state = "CLOSED" THEN R([t EXCEPT !.used = FALSE], <<>>)
                      ELSE IF t.timer THEN retransmit(t) ELSE R(t, <<>>))
    /\ UNCHANGED <<sc, programs>>

can_send(t) == t.state \in {"ESTABLISHED", "CLOSE_WAIT"} /\ ~t.fin_queued

CanWrite(e) == app[e] = "open" /\ todo[e] > 0 /\ can_send(conn[e]) /\ Len(conn[e].sbuf) < sc.sndbuf

\* As much as the send buffer takes; the rest waits.
tcp_write(e) ==
    /\ CanWrite(e)
    /\ LET n == Least(todo[e], sc.sndbuf - Len(conn[e].sbuf))
           done == sc.bytes[e] - todo[e]
       IN  /\ todo' = [todo EXCEPT ![e] = @ - n]
           /\ Becomes(e, output([conn[e] EXCEPT !.sbuf = @ \o [i \in 1..n |-> done + i]], FALSE))
    /\ UNCHANGED <<sc, app, got, eof, faults>>

CanRead(e) == app[e] = "open" /\ conn[e].rbuf # <<>>

\* A reader that frees a nearly full buffer sends a window update.
tcp_read(e) ==
    /\ CanRead(e)
    /\ \E n \in 1..Len(conn[e].rbuf) :
        /\ got' = [got EXCEPT ![e] = @ \o SubSeq(conn[e].rbuf, 1, n)]
        /\ LET t == [conn[e] EXCEPT !.rbuf = SubSeq(@, n + 1, Len(@))]
           IN  Becomes(e, IF rcv_window(conn[e]) < sc.mss /\ t.state # "CLOSED" THEN output(t, TRUE) ELSE R(t, <<>>))
    /\ UNCHANGED <<sc, app, todo, eof, faults>>

\* ... which returns 0 at the end of the stream.
AtEnd(e) == app[e] = "open" /\ conn[e].rbuf = <<>> /\ conn[e].fin_received /\ conn[e].err = "OK" /\ ~eof[e]
tcp_readEnd(e) ==
    /\ AtEnd(e) /\ eof' = [eof EXCEPT ![e] = TRUE]
    /\ UNCHANGED <<sc, conn, net, app, todo, got, faults>>

\* C closes when it has written all and read what it expects, S after the end.
WantsClose(e) ==
    /\ app[e] = "open" /\ todo[e] = 0 /\ can_send(conn[e])
    /\ IF e = "C" THEN Len(got["C"]) = sc.bytes["S"] ELSE eof["S"]
tcp_close(e) ==
    /\ WantsClose(e)
    /\ app' = [app EXCEPT ![e] = "closing"]
    /\ Becomes(e, output([conn[e] EXCEPT !.fin_queued = TRUE], FALSE))
    /\ UNCHANGED <<sc, todo, got, eof, faults>>

\* A connection that is still needed stays on alone.
CloseEnds(e) ==
    /\ Waited(e)
    /\ app' = [app EXCEPT ![e] = "closed"]
    /\ conn' = [conn EXCEPT ![e] = IF @.state \in {"TIME_WAIT", "FIN_WAIT_2"}
                                   THEN [@ EXCEPT !.orphan = TRUE] ELSE [@ EXCEPT !.used = FALSE]]
    /\ UNCHANGED <<sc, net, todo, got, eof, faults>>

\* A program that meets an error frees the connection.
GaveUp(e) == app[e] = "open" /\ conn[e].err # "OK" /\ conn[e].rbuf = <<>>
Abandon(e) ==
    /\ GaveUp(e)
    /\ app' = [app EXCEPT ![e] = "closed"] /\ conn' = [conn EXCEPT ![e].used = FALSE]
    /\ UNCHANGED <<sc, net, todo, got, eof, faults>>

\* tcp_abort, tcp_close that times out, and a connection left alone too long.
tcp_abort(e) ==
    /\ sc.abort /\ Fault /\ conn[e].used /\ conn[e].state # "LISTEN"
    /\ app' = [app EXCEPT ![e] = "closed"]
    /\ Becomes(e, R([conn[e] EXCEPT !.used = FALSE],
                    IF conn[e].state \in {"CLOSED", "TIME_WAIT"} \/ conn[e].orphan THEN <<>>
                    ELSE <<Seg(conn[e], conn[e].snd_nxt, {"RST", "ACK"}, <<>>)>>))
    /\ UNCHANGED <<sc, todo, got, eof>>

Runs(e) == tcp_write(e) \/ tcp_read(e) \/ tcp_readEnd(e) \/ tcp_close(e) \/ CloseEnds(e) \/ Abandon(e)
CanRun(e) == CanWrite(e) \/ CanRead(e) \/ AtEnd(e) \/ WantsClose(e) \/ Waited(e) \/ GaveUp(e)

Next == \E e \in Sides : Receive(e) \/ Disturb(e) \/ tcp_timers(e) \/ Runs(e) \/ tcp_abort(e)

\* The next segment leaves the link: it is received, or lost, which happens
\* finitely often.
Leaves(e) == Len(net'[e]) < Len(net[e])

\* Both hosts poll, time passes, the programs run (weak fairness, with the
\* guards written out).
Fairness ==
    \A e \in Sides :
        /\ []<>(net[e] = <<>>) \/ []<><<Leaves(e)>>_vars
        /\ []<>~(Ticking(e) /\ InTime(e) /\ ~Waited(e)) \/ []<><<tcp_timers(e)>>_vars
        /\ []<>~CanRun(e) \/ []<><<Runs(e)>>_vars

Spec == Init /\ [][Next]_vars /\ Fairness

---------------------------------------------------------------------------
(* Properties.                                                             *)

Stream(n) == [i \in 1..n |-> i]
Arrived(e) == got[e] \o conn[e].rbuf

\* The buffers keep within their limits, and the send sequence numbers stay in
\* order across the wrap: snd_una <= snd_nxt <= snd_max, and the send buffer
\* starts at the oldest byte not acknowledged (tcp.c:106, tcp.c:232).
TypeOK ==
    \A e \in Sides : LET t == conn[e] IN
        /\ Len(t.sbuf) <= sc.sndbuf /\ Len(t.rbuf) <= sc.rcvbuf /\ Cardinality(t.ooo) <= sc.ooo
        /\ seq_le(t.snd_una, t.snd_nxt) /\ seq_le(t.snd_nxt, t.snd_max)
        /\ t.sbuf # <<>> => Dist(t.snd_una, t.sbuf_seq) <= 1
        /\ t.retries <= Retries + 1

\* Each program reads the bytes the other wrote, in order, none missing, none
\* twice, none of another place, whatever the link loses, repeats or reorders
\* and wherever a segment overlaps what is there (tcp_input, tcp.c:560).
InOrder == \A e \in Sides : Arrived(e) = Stream(Len(Arrived(e))) /\ Len(Arrived(e)) <= sc.bytes[Peer(e)]

\* The end of the stream is the end: a FIN is taken only after every byte the
\* peer wrote before it (tcp.c:589).
EndIsEnd == \A e \in Sides : conn[e].fin_received => Len(Arrived(e)) = sc.bytes[Peer(e)]

\* What leaves the send buffer has arrived: an acknowledgement, also an old or a
\* reordered one, never frees a byte the peer does not have (tcp.c:232).
FreedArrived ==
    \A e \in Sides : conn[e].state \notin {"LISTEN", "SYN_SENT", "SYN_RCVD"} =>
        sc.bytes[e] - todo[e] - Len(conn[e].sbuf) <= Len(Arrived(Peer(e)))

\* A program that has seen its close end in FIN_WAIT_2 or TIME_WAIT can rely on
\* it: all it wrote has arrived, and the end with it (tcp_close, tcp.c:808).
ClosedDelivered ==
    \A e \in Sides : conn[e].orphan => Len(Arrived(Peer(e))) = sc.bytes[e] /\ conn[Peer(e)].fin_received

Delivered == \A e \in Sides : /\ got[e] = Stream(sc.bytes[Peer(e)]) /\ conn[e].err = "OK"
                             /\ ~conn[e].used /\ app[e] = "closed"

\* With fewer faults than retries everything arrives, both programs see the end
\* without an error and both slots are free again: no window stays shut, no
\* timer stays off and no state waits for ever (tcp.c:106, tcp.c:607).
Finishes == ~sc.abort => <>[]Delivered
=============================================================================
