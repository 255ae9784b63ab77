-------------------------------- MODULE Tls --------------------------------
(***************************************************************************)
(* The TLS 1.3 client (lib/tls/tls13.c): handshake, record layer, key      *)
(* updates, reading and closing, against a server that may split and join  *)
(* its messages in any legal way, over a transport that delivers a record  *)
(* in parts, times out, ends or is reset.                                  *)
(*                                                                         *)
(* A secret is the transcript it is derived from, so two sides hold the    *)
(* same key only if they hashed the same messages.  A record names the key *)
(* and the sequence number it was sealed with and opens only under both.   *)
(* A handshake message is two fragments; bytes are units.                  *)
(***************************************************************************)
EXTENDS Naturals, Sequences, FiniteSets

CONSTANTS Scenarios,     \* what the server sends, does wrong, how many fragments it
                         \* puts into a record, and how the transport may end early
          MaxWrites,     \* application writes of the client
          MaxTimeouts    \* receive timeouts

VARIABLES tc,     \* struct tls_conn, with the records it has sent in tc.out
          tpc,    \* where the client is
          srv,    \* the server
          wire,   \* records on their way to the client
          link,   \* "up", "fin": ended by the server, "reset"
          app,    \* what the application wrote, read and saw of the end
          nonces, \* the (key, number) pairs the client sealed with, and how many records
          sc      \* the scenario

tlsVars == <<tc, tpc, srv, wire, link, app, nonces, sc>>

Ok == "ok"
Plain == [dir |-> "none", label |-> "none", th |-> <<>>, n |-> 0]

----------------------------------------------------------------------------
(* Keys.                                                                   *)

\* derive_secret: a traffic secret of the transcript so far.
derive_secret(dir, label, th) == [dir |-> dir, label |-> label, th |-> th, n |-> 0]

\* set_keys: new keys start counting at zero.
set_keys(d, key) == [key |-> key, seq |-> 0]

\* The next generation of a traffic secret ("traffic upd").
NextSecret(key) == [key EXCEPT !.n = @ + 1]

----------------------------------------------------------------------------
(* Records the client sends.                                               *)

\* send_record: sealed under the write key when enc; lost if the transport is.
send_record(c, type, m, enc) ==
  LET r == [type |-> type, m |-> m, key |-> IF enc THEN c.wr.key ELSE Plain,
            seq |-> IF enc THEN c.wr.seq ELSE 0]
  IN [c EXCEPT !.wr.seq = IF enc THEN @ + 1 ELSE @,
               !.out = IF link = "reset" THEN @ ELSE Append(@, r)]

\* What send_raw returns.
Sent == IF link = "reset" THEN "conn_reset" ELSE Ok

TlsErrors == {"tls_alert", "tls_protocol", "tls_decrypt", "tls_unsupported",
              "cert_untrusted", "cert_expired", "cert_name", "cert_bad", "bad_signature"}

\* fail: the first error stays, and the server is told of one of ours.
fail(c, err, alert, enc) ==
  LET kept == [c EXCEPT !.err = IF @ = Ok THEN err ELSE @]
  IN IF alert # "none" /\ err # "tls_alert" /\ err \in TlsErrors
     THEN send_record(kept, "alert", alert, enc) ELSE kept

\* tls_connect returns an error.
Failed(c, err) == [c EXCEPT !.err = err]

----------------------------------------------------------------------------
(* Records the client receives.                                            *)

\* read_record: the record r, or what is left of it after the part in c->rec.
\* The result is the connection with ret set: ok, or the error.
read_record(c, r, enc) ==
  LET d == [c EXCEPT !.rec = 0]
      outer == IF r.key = Plain THEN r.type ELSE "appdata"
      bad(err, alert) == [fail(d, err, alert, enc) EXCEPT !.ret = err]
      plain == [d EXCEPT !.type = r.type, !.plain = r.m, !.ret = Ok,
                         !.rd.seq = IF enc THEN @ + 1 ELSE @]
  IN IF c.rec = 0 /\ r.begun THEN bad("tls_protocol", "decode_error")  \* not a header
     ELSE IF r.type = "ccs"
     THEN IF c.state >= 3 THEN bad("tls_protocol", "unexpected_message")
          ELSE [d EXCEPT !.type = "none", !.ret = "again"]
     ELSE IF outer \notin IF enc THEN {"appdata"} ELSE {"handshake", "alert"}
     THEN bad("tls_protocol", "unexpected_message")
     ELSE IF enc /\ <<r.key, r.seq>> # <<c.rd.key, c.rd.seq>>
     THEN bad("tls_decrypt", "bad_record_mac")
     ELSE IF r.type # "alert" THEN plain
     ELSE IF r.m = "close_notify" THEN [plain EXCEPT !.closed = TRUE, !.plain = <<>>]
     ELSE [plain EXCEPT !.plain = <<>>, !.err = "tls_alert", !.ret = "tls_alert"]

\* A complete message at the front of the handshake buffer.
Whole(c) == Len(c.hs) >= 2

\* consume_handshake: the message is hashed into the transcript and dropped.
consume_handshake(c, hash) ==
  [c EXCEPT !.hs = SubSeq(@, 3, Len(@)),
            !.th = IF hash THEN Append(@, c.hs[1].name) ELSE @]

----------------------------------------------------------------------------
(* The handshake.                                                          *)

Conn0 == [state |-> 0, err |-> Ok, ret |-> Ok, closed |-> FALSE, rec |-> 0,
          type |-> "none", plain |-> <<>>, hs |-> <<>>, th |-> <<>>, expect |-> "SH",
          rd |-> [key |-> Plain, seq |-> 0], wr |-> [key |-> Plain, seq |-> 0],
          out |-> <<>>]

Init ==
  /\ tc = Conn0 /\ tpc = "start" /\ link = "up" /\ wire = <<>> /\ nonces = [used |-> {}, count |-> 0]
  /\ srv = [stage |-> "hello", todo |-> <<>>, th |-> <<>>, opens |-> TRUE, sent |-> 0,
            rd |-> [key |-> Plain, seq |-> 0], wr |-> [key |-> Plain, seq |-> 0]]
  /\ app = [wrote |-> 0, read |-> <<>>, end |-> "none", timeouts |-> 0]
  /\ sc \in Scenarios

\* The step leaves the connection as c, the client at p.
Client(c, p) ==
  /\ tc' = c /\ tpc' = p
  /\ nonces' = LET new == {i \in Len(tc.out) + 1..Len(c.out) : c.out[i].key # Plain}
               IN [used |-> nonces.used \cup {<<c.out[i].key, c.out[i].seq>> : i \in new},
                   count |-> nonces.count + Cardinality(new)]
  /\ UNCHANGED sc

\* client_hello: the first message of the transcript, in one plain record.
client_hello(c) == send_record([c EXCEPT !.th = Append(@, "CH")], "handshake", "CH", FALSE)

\* tls_connect: without randomness or a host name there is no handshake.
tls_connect ==
  /\ tpc = "start"
  /\ \/ LET c == client_hello(Conn0)
        IN IF Sent # Ok THEN Client(Failed(c, Sent), "over")
           ELSE Client([c EXCEPT !.state = 1], "connect")
     \/ \E err \in {"entropy", "bad_arg"} : Client(Failed(Conn0, err), "over")
  /\ UNCHANGED <<srv, wire, link, app>>

\* server_hello: why the message is refused, and with which alert.
server_hello(m) ==
  CASE m.wrong = "hrr"     -> <<"tls_unsupported", "handshake_failure">>
    [] m.wrong = "session" -> <<"tls_protocol", "illegal_parameter">>
    [] m.wrong = "suite"   -> <<"tls_unsupported", "illegal_parameter">>
    [] m.wrong = "version" -> <<"tls_unsupported", "protocol_version">>
    [] m.wrong = "point"   -> <<"tls_protocol", "illegal_parameter">>
    [] OTHER               -> <<Ok, "none">>

\* encrypted_extensions, certificate (with what nx_x509_verify_chain says of
\* the chain) and certificate_verify over the transcript th.
alert_for(err) == CASE err = "cert_expired"   -> "certificate_expired"
                    [] err = "cert_untrusted" -> "unknown_ca"
                    [] OTHER                  -> "bad_certificate"
encrypted_extensions(m) ==
  IF m.wrong = "alpn" THEN <<"tls_protocol", "illegal_parameter">> ELSE <<Ok, "none">>
certificate(m) ==
  IF m.wrong \in TlsErrors THEN <<m.wrong, alert_for(m.wrong)>> ELSE <<Ok, "none">>
certificate_verify(m, th) ==
  IF m.wrong = "scheme" THEN <<"tls_unsupported", "illegal_parameter">>
  ELSE IF m.wrong = "signature" \/ m.over # th THEN <<"bad_signature", "decrypt_error">>
  ELSE <<Ok, "none">>

\* The server's Finished authenticates the transcript.
finished(m, th) ==
  IF m.wrong = "mac" \/ m.over # th THEN <<"tls_decrypt", "decrypt_error">> ELSE <<Ok, "none">>

\* The message m handled at its place in the flight.
Verdict(m, th) == CASE m.name = "SH"   -> server_hello(m)
                    [] m.name = "EE"   -> encrypted_extensions(m)
                    [] m.name = "CERT" -> certificate(m)
                    [] m.name = "CV"   -> certificate_verify(m, th)
                    [] m.name = "FIN"  -> finished(m, th)
                    [] OTHER           -> <<Ok, "none">>

After == [SH |-> "EE", EE |-> "CERT", CERT |-> "CV", CV |-> "FIN", FIN |-> "none"]

\* The ServerHello gives the handshake keys of both directions.
HandshakeKeys(c) == [c EXCEPT !.rd = set_keys(@, derive_secret("s", "hs", c.th)),
                              !.wr = set_keys(@, derive_secret("c", "hs", c.th)), !.state = 2]

\* The client's Finished goes out under the handshake key; then both
\* directions change to the application keys.
Finish(c) ==
  LET th == c.th
      s == send_record([c EXCEPT !.th = Append(@, "CFIN")], "handshake", "FIN", TRUE)
  IN IF Sent # Ok THEN Failed(s, Sent)
     ELSE [s EXCEPT !.rd = set_keys(@, derive_secret("s", "ap", th)),
                    !.wr = set_keys(@, derive_secret("c", "ap", th)), !.state = 3]

\* One message of the flight: it must be the one expected, and it is hashed
\* only after it was checked.
Message(c) ==
  LET m == c.hs[1]
      enc == c.state = 2
      v == Verdict(m, c.th)
      next == [consume_handshake(c, TRUE) EXCEPT !.expect = After[m.name]]
  IN IF enc /\ m.name = "CREQ"
     THEN [fail(c, "tls_unsupported", "handshake_failure", enc) EXCEPT !.ret = "tls_unsupported"]
     ELSE IF m.name # c.expect
     THEN [fail(c, "tls_protocol", "unexpected_message", enc) EXCEPT !.ret = "tls_protocol"]
     ELSE IF v[1] # Ok THEN [fail(c, v[1], v[2], enc) EXCEPT !.ret = v[1]]
     ELSE CASE m.name = "SH"  -> HandshakeKeys(next)
            [] m.name = "FIN" -> Finish(next)
            [] OTHER          -> next

HandshakeMessage ==
  /\ tpc = "connect" /\ Whole(tc)
  /\ LET c == Message(tc)
     IN Client(c, IF c.err # Ok THEN "over" ELSE IF c.state = 3 THEN "idle" ELSE "connect")
  /\ UNCHANGED <<srv, wire, link, app>>

\* read_handshake: more of the handshake, in a record of its own.
HandshakeRecord ==
  /\ tpc = "connect" /\ ~Whole(tc) /\ wire # <<>>
  /\ LET enc == tc.state = 2
         c == read_record(tc, Head(wire), enc)
         d == IF c.ret \notin {Ok, "again"} THEN Failed(c, c.ret)
              ELSE IF c.ret = "again" THEN c
              ELSE IF c.closed THEN fail(c, "tls_protocol", "none", enc)
              ELSE IF c.type # "handshake" THEN fail(c, "tls_protocol", "unexpected_message", enc)
              ELSE [c EXCEPT !.hs = @ \o c.plain, !.plain = <<>>]
     IN Client(d, IF d.err # Ok THEN "over" ELSE "connect")
  /\ wire' = Tail(wire)
  /\ UNCHANGED <<srv, link, app>>

\* What a receive reports when no record is complete: a timeout, the end of
\* the stream, or a reset.
NoRecord(err) == \/ err = "net_timeout" /\ link = "up" /\ app.timeouts < MaxTimeouts
                 \/ err = "peer_closed" /\ link = "fin" /\ wire = <<>>
                 \/ err = "conn_reset" /\ link = "reset"

\* The handshake ends with the transport's error.
HandshakeCut ==
  /\ tpc = "connect" /\ ~Whole(tc)
  /\ \E err \in {"net_timeout", "peer_closed", "conn_reset"} :
       /\ NoRecord(err)
       /\ Client(Failed(tc, err), "over")
       /\ app' = [app EXCEPT !.timeouts = IF err = "net_timeout" THEN @ + 1 ELSE @]
  /\ UNCHANGED <<srv, wire, link>>

----------------------------------------------------------------------------
(* Application data.                                                       *)

\* tls_write: one record, or two when the data is longer than a record.
tls_write ==
  /\ tpc = "idle" /\ app.wrote < MaxWrites
  /\ \E n \in 1..2 :
       LET one == send_record(tc, "appdata", "req", TRUE)
           c == IF n = 1 \/ Sent # Ok THEN one ELSE send_record(one, "appdata", "req", TRUE)
       IN IF tc.err # Ok \/ tc.state # 3 THEN Client(tc, "idle") /\ UNCHANGED app
          ELSE Client(IF Sent # Ok THEN Failed(c, Sent) ELSE c, "idle") /\ app' = [app EXCEPT !.wrote = @ + 1]
  /\ UNCHANGED <<srv, wire, link>>

\* tls_read is called.
tls_read ==
  /\ tpc = "idle" /\ app.end = "none"
  /\ Client(tc, "read") /\ UNCHANGED <<srv, wire, link, app>>

\* What the loop of tls_read finds before it asks for a record.
HasData(c) == c.plain # <<>> /\ c.type = "appdata"
AtEnd(c) ==
  c.closed
ReadReturns ==
  /\ tpc = "read"
  /\ \/ /\ HasData(tc)
        /\ Client([tc EXCEPT !.plain = Tail(@)], "idle")
        /\ app' = [app EXCEPT !.read = Append(@, Head(tc.plain))]
     \/ /\ ~HasData(tc) /\ AtEnd(tc)
        /\ Client(tc, "idle") /\ app' = [app EXCEPT !.end = "clean"]
     \/ /\ ~HasData(tc) /\ ~AtEnd(tc) /\ tc.err # Ok
        /\ Client(tc, "idle") /\ app' = [app EXCEPT !.end = "cut"]
  /\ UNCHANGED <<srv, wire, link>>

Asks(c) == ~HasData(c) /\ ~AtEnd(c) /\ c.err = Ok

\* A record came: data, an alert, or messages after the handshake.
ReadRecord ==
  /\ tpc = "read" /\ Asks(tc) /\ wire # <<>>
  /\ LET c == read_record(tc, Head(wire), TRUE)
         err == IF c.ret # Ok /\ c.err = Ok THEN Failed(c, c.ret) ELSE c
     IN IF c.ret # Ok THEN Client(err, "read")
        ELSE IF c.type = "handshake"
        THEN Client([c EXCEPT !.hs = @ \o c.plain, !.plain = <<>>], "post")
        ELSE Client(c, "read")
  /\ wire' = Tail(wire)
  /\ UNCHANGED <<srv, link, app>>

\* BROKEN: the answer is sealed with the new key.
UpdateKeysFirst(c, requested) ==
  LET r == [c EXCEPT !.rd = set_keys(@, NextSecret(c.rd.key))]
      w == [r EXCEPT !.wr = set_keys(@, NextSecret(c.wr.key))]
  IN IF ~requested THEN r ELSE send_record(w, "handshake", "KU", TRUE)

\* post_handshake: a KeyUpdate changes the read key, and the write key after
\* the answer went out under the old one; a NewSessionTicket is ignored.
UpdateKeys(c, requested) ==
  LET r == [c EXCEPT !.rd = set_keys(@, NextSecret(c.rd.key))]
      s == send_record(r, "handshake", "KU", TRUE)
  IN IF ~requested THEN r
     ELSE IF Sent # Ok THEN Failed(s, Sent)
     ELSE [s EXCEPT !.wr = set_keys(@, NextSecret(c.wr.key))]
post_handshake ==
  /\ tpc = "post"
  /\ LET name == tc.hs[1].name
         c == CASE name \in {"KU", "KUR"} -> UpdateKeys(tc, name = "KUR")
                [] name = "NST"           -> tc
                [] OTHER -> fail(tc, "tls_protocol", "unexpected_message", TRUE)
     IN IF ~Whole(tc) THEN Client(tc, "read")
        ELSE IF c.err # Ok THEN Client(c, "read")
        ELSE Client(consume_handshake(c, FALSE), "post")
  /\ UNCHANGED <<srv, wire, link, app>>

\* A part of a record arrived and the rest did not in time: the part stays in
\* c->rec, the connection stays usable; any other end is final.
ReadCut ==
  /\ tpc = "read" /\ Asks(tc)
  /\ \/ /\ NoRecord("net_timeout")
        /\ Client(tc, "idle") /\ app' = [app EXCEPT !.timeouts = @ + 1]
     \/ \E err \in {"peer_closed", "conn_reset"} :
          NoRecord(err) /\ Client(Failed(tc, err), "read") /\ UNCHANGED app
  /\ UNCHANGED <<srv, wire, link>>

\* fill: part of the next record arrives while a call waits for it.
fill ==
  /\ \/ tpc = "connect" /\ ~Whole(tc)
     \/ tpc = "read" /\ Asks(tc)
  /\ wire # <<>> /\ tc.rec = 0 /\ ~wire[1].begun
  /\ Client([tc EXCEPT !.rec = 1], tpc)
  /\ wire' = [wire EXCEPT ![1].begun = TRUE]
  /\ UNCHANGED <<srv, link, app>>

\* tls_close.
tls_close ==
  /\ tpc = "idle"
  /\ LET c == IF tc.state = 3 /\ tc.err = Ok THEN send_record(tc, "alert", "close_notify", TRUE) ELSE tc
     IN Client([c EXCEPT !.state = 4], "over")
  /\ UNCHANGED <<srv, wire, link, app>>

----------------------------------------------------------------------------
(* The server (external): what RFC 8446 has it send, in records of its own  *)
(* choosing, or what the scenario has it do wrong.                          *)

Flight == <<"EE", "CERT", "CV", "FIN">>
Conformant == sc.wrong = <<"none", "none">> /\ sc.flight = Flight

Msg(name, th) == [name |-> name, over |-> th,
                  wrong |-> IF sc.wrong[1] = name THEN sc.wrong[2] ELSE "none"]
\* The fragments of the messages names, sent after the transcript th.
Frags(names, th) == [i \in 1..2 * Len(names) |->
                       LET k == (i + 1) \div 2 IN Msg(names[k], th \o SubSeq(names, 1, k - 1))]

Sealed(type, m) == [type |-> type, m |-> m, key |-> srv.wr.key, seq |-> srv.wr.seq, begun |-> FALSE]
Server(s) == srv' = s /\ UNCHANGED <<tpc, link, app, nonces, sc>>

SrvHello ==
  /\ srv.stage = "hello" /\ tc.out # <<>>
  /\ Server([srv EXCEPT !.stage = "sh", !.th = <<"CH">>, !.todo = Frags(<<"SH">>, <<"CH">>)])
  /\ tc' = [tc EXCEPT !.out = Tail(@)]
  /\ UNCHANGED wire

\* The next record of the handshake: one or more fragments.
SrvSends ==
  /\ srv.todo # <<>> /\ link = "up"
  /\ \E k \in 1..Len(srv.todo) :
       /\ k \in sc.packs \/ k = Len(srv.todo)
       /\ wire' = Append(wire, Sealed("handshake", SubSeq(srv.todo, 1, k)))
       /\ Server([srv EXCEPT !.todo = SubSeq(@, k + 1, Len(@)), !.wr.seq = @ + 1])
  /\ UNCHANGED tc

\* After the ServerHello the flight, under the handshake keys; after the
\* flight the application keys.
SrvFlight ==
  /\ srv.stage = "sh" /\ srv.todo = <<>> /\ link = "up"
  /\ LET th == Append(srv.th, "SH")
     IN Server([srv EXCEPT !.stage = "flight", !.th = th, !.todo = Frags(sc.flight, th),
                           !.wr = set_keys(@, derive_secret("s", "hs", th)),
                           !.rd = set_keys(@, derive_secret("c", "hs", th))])
  /\ wire' = IF sc.ccs THEN Append(wire, [Sealed("ccs", <<>>) EXCEPT !.key = Plain]) ELSE wire
  /\ UNCHANGED tc
SrvReady ==
  /\ srv.stage = "flight" /\ srv.todo = <<>>
  /\ LET th == srv.th \o sc.flight
     IN Server([srv EXCEPT !.stage = "app", !.th = th,
                           !.wr = set_keys(@, derive_secret("s", "ap", th))])
  /\ UNCHANGED <<tc, wire>>

\* The next thing the scenario has the server send.
SrvApp ==
  /\ srv.stage = "app" /\ srv.sent < Len(sc.app) /\ srv.todo = <<>> /\ link = "up"
  /\ LET item == sc.app[srv.sent + 1]
         next == [srv EXCEPT !.sent = @ + 1, !.wr.seq = @ + 1]
         m == Msg(item, <<>>)
     IN CASE item = "data"  -> /\ wire' = Append(wire, Sealed("appdata", <<srv.sent + 1>>))
                               /\ Server(next)
          [] item \in {"close_notify", "alert"} -> wire' = Append(wire, Sealed("alert", item)) /\ Server(next)
          [] item = "ccs"   -> /\ wire' = Append(wire, [Sealed("ccs", <<>>) EXCEPT !.key = Plain])
                               /\ Server([srv EXCEPT !.sent = @ + 1])
          [] item \in {"KU", "KUR"} -> /\ wire' = Append(wire, Sealed("handshake", <<m, m>>))
                                       /\ Server([next EXCEPT !.wr = set_keys(@, NextSecret(srv.wr.key))])
          [] OTHER          -> UNCHANGED wire /\ Server([srv EXCEPT !.sent = @ + 1, !.todo = <<m, m>>])
  /\ UNCHANGED tc

\* The server opens what the client sent.
SrvRecv ==
  /\ srv.stage # "hello" /\ tc.out # <<>>
  /\ LET r == Head(tc.out)
         s == [srv EXCEPT !.rd.seq = @ + 1,
                          !.opens = @ /\ (r.key = Plain \/ <<r.key, r.seq>> = <<srv.rd.key, srv.rd.seq>>)]
     IN /\ (r.m = "FIN" => srv.stage = "app")
        /\ Server(CASE r.m = "FIN" -> [s EXCEPT !.rd = set_keys(@, derive_secret("c", "ap", srv.th))]
                    [] r.m = "KU"  -> [s EXCEPT !.rd = set_keys(@, NextSecret(srv.rd.key))]
                    [] OTHER       -> s)
  /\ tc' = [tc EXCEPT !.out = Tail(@)]
  /\ UNCHANGED wire

\* The transport ends: after all was sent, or early.
LinkEnds ==
  /\ link = "up"
  /\ \E how \in {"fin", "reset"} :
       /\ how \in sc.cuts \/ (how = "fin" /\ srv.stage = "app" /\ srv.sent = Len(sc.app) /\ srv.todo = <<>>)
       /\ link' = how
       /\ wire' = IF how = "reset" THEN <<>> ELSE wire
       /\ tc' = IF how = "reset" THEN [tc EXCEPT !.out = <<>>, !.rec = 0] ELSE tc
  /\ UNCHANGED <<tpc, srv, app, nonces, sc>>

----------------------------------------------------------------------------
Connects == tls_connect \/ HandshakeMessage \/ HandshakeRecord \/ HandshakeCut
Reads == tls_read \/ ReadReturns \/ ReadRecord \/ post_handshake \/ ReadCut
Serves == SrvHello \/ SrvSends \/ SrvFlight \/ SrvReady \/ SrvApp \/ SrvRecv
Next == Connects \/ Reads \/ fill \/ tls_write \/ tls_close \/ Serves \/ LinkEnds

\* The client's calls run on, and the server and the network make progress.
Fairness == WF_tlsVars(Connects \/ Reads) /\ WF_tlsVars(Serves)
Spec == Init /\ [][Next]_tlsVars /\ Fairness

----------------------------------------------------------------------------
TypeOK ==
  /\ tc.state \in 0..4 /\ tc.rec \in 0..1 /\ link \in {"up", "fin", "reset"}
  /\ tpc \in {"start", "connect", "idle", "read", "post", "over"}
  /\ tc.err \in TlsErrors \cup {Ok, "entropy", "bad_arg", "net_timeout", "peer_closed", "conn_reset"}
  /\ app.end \in {"none", "clean", "cut"}

\* A connection is established only with a server that sent the whole flight
\* in order, every message of which was verified, and whose transcript is the
\* client's (tls_connect).
Authenticated == tc.state = 3 => Conformant /\ tc.th = <<"CH", "SH">> \o Flight \o <<"CFIN">>

\* No two records are ever sealed with the same key and sequence number, key
\* updates, alerts and the change to the application keys included (send_record,
\* set_keys).
NonceOnce == Cardinality(nonces.used) = nonces.count

\* The two sides never lose step: what the client sends opens under the key the
\* server has reached, and a conformant server never meets a TLS error however
\* it splits its messages and whenever receives time out (read_record, fill,
\* post_handshake).
InStep == /\ srv.opens
          /\ Conformant /\ (\A i \in 1..Len(sc.app) : sc.app[i] \in {"data", "NST", "KU", "KUR", "close_notify"})
               => tc.err \notin TlsErrors

\* What tls_read returned is a prefix of what the server sent, and it reports
\* the end only after close_notify and all the data: a stream cut short is
\* never taken for a complete one.
DataSent == SelectSeq([i \in 1..Len(sc.app) |-> i], LAMBDA i : sc.app[i] = "data")
EndIsEnd ==
  /\ Len(app.read) <= Len(DataSent) /\ app.read = SubSeq(DataSent, 1, Len(app.read))
  /\ app.end = "clean" => app.read = DataSent /\ srv.sent = Len(sc.app)

ReadOut == (\E i \in 1..Len(sc.app) : sc.app[i] = "close_notify")
             => app.end # "none" \/ tpc = "over" \/ tc.err # Ok

\* If the server closes in order and nothing fails, the client that keeps
\* reading gets everything and sees the end (tls_read).
Drained == <>[]ReadOut
=============================================================================
