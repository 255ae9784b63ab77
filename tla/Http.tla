-------------------------------- MODULE Http -------------------------------
(***************************************************************************)
(* How an answer of the provider is read: the incremental HTTP/1.1 parser  *)
(* (lib/http/http.c, http_feed), the event-stream parser behind it         *)
(* (sse_feed) and the assembly of the message (lib/http/messages.c,        *)
(* msg_event), as exchange() of user/core/provider.c drives them with      *)
(* pieces of the stream cut at any place.                                  *)
(*                                                                         *)
(* A token [k, v] stands for one or more bytes: "cr", "lf", "semi", a hex  *)
(* digit, a header line, a field name of the event stream, or a word that  *)
(* names an event of the scenario.                                         *)
(***************************************************************************)
EXTENDS Integers, Sequences, SequencesExt

CONSTANTS Answers,    \* what the server may answer, each with its encoding
          PieceSizes, \* how much a read may return, besides all there is
          HeadMax, LineMax, DataMax, TrailerMax, BlocksMax, ArenaMax, SizeMax  \* buffers

VARIABLES hp,    \* struct http_resp, struct sse and struct msg_stream
          hin,   \* what the stream still holds
          hres,  \* what exchange() returned ("busy" before)
          hsc    \* the answer

httpVars == <<hp, hin, hres, hsc>>

T(k, v) == [k |-> k, v |-> v]

----------------------------------------------------------------------------
(* Assembly of the message.                                                *)

Msg0 == [started |-> FALSE, stopped |-> FALSE, open |-> 0, blocks |-> <<>>, stop |-> "none"]

\* msg_error_code: what an error event means for the request.
msg_error_code(type) ==
  CASE type = "overloaded_error" -> "overloaded"
    [] type = "rate_limit_error" -> "rate_limit"
    [] type = "api_error" -> "server_error"
    [] type \in {"authentication_error", "permission_error"} -> "auth"
    [] type \in {"invalid_request_error", "request_too_large"} -> "bad_request"
    [] type = "not_found_error" -> "not_found"
    [] OTHER -> "stream_error"

Good(m) == [m |-> m, e |-> "ok"]
Bad(m, e) == [m |-> m, e |-> e]

\* append: a string goes to the arena and to the open block.
Held(m) == FoldLeft(LAMBDA n, b : n + Len(b.text), 0, m.blocks)
append(m, text) ==
  IF Held(m) >= ArenaMax THEN Bad(m, "too_large")
  ELSE Good([m EXCEPT !.blocks[m.open].text = Append(@, text)])

\* The events of a message that has started. A block of text may begin with text.
BlockStart(m, d) ==
  LET n == Len(m.blocks) + 1
      b == [m EXCEPT !.blocks = Append(@, [type |-> d.type, text |-> <<>>, closed |-> FALSE]), !.open = n]
  IN IF m.open # 0 \/ d.index # Len(m.blocks) THEN Bad(m, "malformed")
     ELSE IF n > BlocksMax THEN Bad(m, "too_large")
     ELSE IF d.type = "unnamed_tool" THEN Bad(b, "malformed")
     ELSE IF d.type = "text" /\ d.text # 0 THEN append(b, d.text) ELSE Good(b)
BlockDelta(m, d) ==
  IF m.open = 0 \/ d.index # m.open - 1 THEN Bad(m, "malformed")
  ELSE IF <<d.type, m.blocks[m.open].type>> \in {<<"text_delta", "text">>, <<"input_json_delta", "tool_use">>}
  THEN append(m, d.text)
  ELSE IF m.blocks[m.open].type = "other" THEN Good(m) ELSE Bad(m, "malformed")
BlockStop(m, d) ==
  IF m.open = 0 \/ d.index # m.open - 1 THEN Bad(m, "malformed")
  ELSE Good([m EXCEPT !.blocks[m.open].closed = TRUE, !.open = 0])

\* msg_event: one event with its payload d; a payload may name no type.
msg_event(m, name, d) ==
  CASE d.name \notin {name, "untyped"} -> Bad(m, "malformed")
    [] name = "ping" -> Good(m)
    [] name = "error" -> Bad(m, msg_error_code(d.type))
    [] name = "message_start" -> IF m.started THEN Bad(m, "malformed") ELSE Good([m EXCEPT !.started = TRUE])
    [] ~m.started \/ m.stopped -> Bad(m, "malformed")
    [] name = "content_block_start" -> BlockStart(m, d)
    [] name = "content_block_delta" -> BlockDelta(m, d)
    [] name = "content_block_stop" -> BlockStop(m, d)
    [] name = "message_delta" -> Good([m EXCEPT !.stop = IF d.type = "none" THEN @ ELSE d.type])
    [] name = "message_stop" -> IF m.open # 0 THEN Bad(m, "malformed") ELSE Good([m EXCEPT !.stopped = TRUE])
    [] OTHER -> Bad(m, "malformed")

\* msg_finish: may the assembled message be used?
msg_finish(m) ==
  IF ~m.stopped THEN "truncated"
  ELSE IF m.stop = "none" \/ \E i \in 1..Len(m.blocks) : ~m.blocks[i].closed THEN "malformed"
  ELSE IF \E i \in 1..Len(m.blocks) : m.blocks[i].type = "tool_use" /\ m.blocks[i].text = <<0>> THEN "bad_tool"
  ELSE IF m.stop = "tool_use" /\ \A i \in 1..Len(m.blocks) : m.blocks[i].type # "tool_use" THEN "malformed"
  ELSE "ok"

----------------------------------------------------------------------------
(* The event stream.                                                       *)

Sse0 == [event |-> 0, data |-> <<>>, have |-> FALSE, line |-> <<>>, skip |-> FALSE]

\* An empty line hands the event on. Its data is JSON only as one word.
Dispatch(p) ==
  LET s == p.sse
      r == IF Len(s.data) # 1 THEN Bad(p.msg, "malformed")
           ELSE msg_event(p.msg, IF s.event = 0 THEN "message" ELSE hsc.events[s.event].name,
                          hsc.events[s.data[1]])
      q == [p EXCEPT !.sse.event = 0, !.sse.data = <<>>, !.sse.have = FALSE]
  IN IF ~s.have THEN q
     ELSE [q EXCEPT !.msg = r.m, !.res = IF r.e = "ok" THEN @ ELSE r.e]

\* sse_line: a field adds to the event; comments and other fields are ignored.
sse_line(p) ==
  LET l == p.sse.line
      d == [p EXCEPT !.sse.line = <<>>]
      words == [i \in 1..(Len(l) - 1) |-> l[i + 1].v]
  IN CASE l = <<>> -> Dispatch(d)
       [] l # <<>> /\ l[1].k = "data:" ->
            IF Len(d.sse.data) + Len(words) >= DataMax THEN [d EXCEPT !.res = "too_large"]
            ELSE [d EXCEPT !.sse.data = @ \o words, !.sse.have = TRUE]
       [] l # <<>> /\ l[1].k = "event:" -> [d EXCEPT !.sse.event = IF words = <<>> THEN 0 ELSE words[1]]
       [] OTHER -> d

\* sse_feed, one byte: a line ends with CR, LF or both.
sse_char(p, c) ==
  LET q == [p EXCEPT !.sse.skip = FALSE]
  IN IF p.res # "more" THEN p
     ELSE IF p.sse.skip /\ c.k = "lf" THEN q
     ELSE IF c.k \in {"cr", "lf"} THEN sse_line([q EXCEPT !.sse.skip = c.k = "cr"])
     ELSE IF Len(q.sse.line) + 1 >= LineMax THEN [q EXCEPT !.res = "too_large"]
     ELSE [q EXCEPT !.sse.line = Append(@, c)]

\* sse_feed: byte by byte, in two halves as http_feed below.
RECURSIVE sse_feed(_, _)
sse_feed(p, data) ==
  LET n == Len(data)  h == n \div 2
  IN IF n = 1 THEN sse_char(p, data[1])
     ELSE CHOOSE r \in {sse_feed(half, SubSeq(data, h + 1, n)) : half \in {sse_feed(p, SubSeq(data, 1, h))}} : TRUE

----------------------------------------------------------------------------
(* The HTTP response.                                                      *)

Resp0 == [state |-> "head", head |-> <<>>, status |-> 0, chunked |-> FALSE, length |-> -1,
          close |-> FALSE, sse |-> FALSE, retry |-> 0, bytes |-> 0, cstate |-> "size", crem |-> 0, cline |-> 0]
Parser0 == [r |-> Resp0, sse |-> Sse0, msg |-> Msg0, res |-> "more", used |-> 0,
            ok |-> FALSE, body |-> <<>>, got |-> FALSE]

\* body_sink: an answer 200 must be an event stream; others keep the body.
body_sink(p, data) ==
  IF p.r.status # 200 THEN p
  ELSE IF ~p.ok /\ ~p.r.sse THEN [p EXCEPT !.res = "malformed"]
  ELSE sse_feed([p EXCEPT !.ok = TRUE], data)

\* emit: decoded body bytes go to the sink.
emit(p, data) ==
  body_sink([p EXCEPT !.r.bytes = @ + Len(data), !.body = @ \o data], data)

\* parse_head: the header lines, once the empty line came. The last of a
\* repeated field counts; two lengths must agree; HTTP/1.0 ("status10") means
\* the connection ends.
parse_head(r) ==
  LET at(k) == {i \in 1..Len(r.head) : r.head[i].k = k}
      has(k) == at(k) # {}
      last(k, none) == IF has(k) THEN r.head[CHOOSE i \in at(k) : \A j \in at(k) : j <= i].v ELSE none
  IN IF has("junk") \/ r.head[1].k \notin {"status", "status10"}
        \/ \E i, j \in at("length") : r.head[i].v # r.head[j].v
     THEN [r EXCEPT !.status = 0]
     ELSE [r EXCEPT !.status = r.head[1].v, !.chunked = has("chunked"), !.length = last("length", -1),
                    !.close = has("close") \/ has("status10"), !.retry = last("retry", 0),
                    !.sse = last("type", 0) = 1]

\* What the parser does with the body once the header section is complete.
AfterHead(p) ==
  LET r == parse_head(p.r)
  IN CASE r.status = 0 \/ r.status = 101 -> [p EXCEPT !.res = "malformed_http"]
       [] r.status \in 100..199 -> [p EXCEPT !.r = Resp0]
       [] r.status \in {204, 304} \/ (~r.chunked /\ r.length = 0) ->
            [p EXCEPT !.r = [r EXCEPT !.state = "done"], !.res = "done"]
       [] OTHER -> [p EXCEPT !.r = [r EXCEPT !.state = IF r.chunked THEN "chunked"
                                                       ELSE IF r.length > 0 THEN "length" ELSE "close"]]

\* S_HEAD, one byte.
HeadByte(p, c) ==
  LET h == Append(p.r.head, c)  n == Len(h)
      ends(k) == n > k /\ h[n - k].k = "lf"
      blank == c.k = "lf" /\ (ends(1) \/ (ends(2) /\ h[n - 1].k = "cr"))
      q == [p EXCEPT !.r.head = h]
  IN IF Len(p.r.head) >= HeadMax - 1 THEN [p EXCEPT !.res = "too_large"]
     ELSE IF blank THEN AfterHead(q) ELSE q

\* S_BODY_CHUNKED outside the data, one byte.
SizeDone(p) == [p EXCEPT !.r.cline = 0, !.r.cstate = IF p.r.crem > 0 THEN "data" ELSE "trailer"]
BadHttp(p) == [p EXCEPT !.res = "malformed_http"]
ChunkByte(p, c) ==
  CASE p.r.cstate = "size" ->
         (CASE c.k = "hex" -> IF p.r.crem > SizeMax THEN BadHttp(p)
                              ELSE [p EXCEPT !.r.crem = @ * 16 + c.v, !.r.cline = @ + 1]
            [] p.r.cline = 0 -> BadHttp(p)
            [] c.k = "semi" -> [p EXCEPT !.r.cstate = "ext"]
            [] c.k = "cr" -> [p EXCEPT !.r.cstate = "size_lf"]
            [] c.k = "lf" -> SizeDone(p)
            [] OTHER -> BadHttp(p))
    [] p.r.cstate = "ext" -> (CASE c.k = "cr" -> [p EXCEPT !.r.cstate = "size_lf"]
                                [] c.k = "lf" -> SizeDone(p)
                                [] OTHER -> p)
    [] p.r.cstate = "size_lf" -> IF c.k = "lf" THEN SizeDone(p) ELSE BadHttp(p)
    [] p.r.cstate = "data_cr" -> (CASE c.k = "cr" -> [p EXCEPT !.r.cstate = "data_lf"]
                                    [] c.k = "lf" -> [p EXCEPT !.r.cstate = "size"]
                                    [] OTHER -> BadHttp(p))
    [] p.r.cstate = "data_lf" -> IF c.k = "lf" THEN [p EXCEPT !.r.cstate = "size"] ELSE BadHttp(p)
    [] p.r.cstate = "trailer" ->
         (CASE c.k = "lf" -> IF p.r.cline = 0 THEN [p EXCEPT !.r.state = "done", !.res = "done"]
                             ELSE [p EXCEPT !.r.cline = 0]
            [] c.k = "cr" -> p
            [] OTHER -> IF p.r.cline + 1 > TrailerMax THEN [p EXCEPT !.res = "too_large"]
                        ELSE [p EXCEPT !.r.cline = @ + 1])

\* S_BODY_LEN and C_DATA: as much of the piece as still belongs to the body.
Least(a, b) == IF a < b THEN a ELSE b
BodyPiece(p, in) ==
  LET n == Least(Len(in), p.r.length - p.r.bytes)
      q == emit(p, SubSeq(in, 1, n))
  IN [n |-> n, p |-> IF q.res = "more" /\ q.r.bytes = q.r.length
                     THEN [q EXCEPT !.r.state = "done", !.res = "done"] ELSE q]

\* BROKEN: a chunk ends with the piece.
ChunkPieceForgets(p, in) ==
  LET n == Least(Len(in), p.r.crem)
      q == emit(p, SubSeq(in, 1, n))
  IN [n |-> n, p |-> [q EXCEPT !.r.crem = 0, !.r.cstate = "data_cr"]]

ChunkPiece(p, in) ==
  LET n == Least(Len(in), p.r.crem)
      q == emit(p, SubSeq(in, 1, n))
  IN [n |-> n, p |-> [q EXCEPT !.r.crem = @ - n, !.r.cstate = IF p.r.crem = n THEN "data_cr" ELSE @]]

\* One turn of the loop of http_feed, and how many bytes it took.
Turn(p, in) ==
  CASE p.r.state = "head" -> [p |-> HeadByte(p, in[1]), n |-> 1]
    [] p.r.state = "length" -> BodyPiece(p, in)
    [] p.r.state = "close" -> [p |-> emit(p, in), n |-> Len(in)]
    [] p.r.state = "chunked" /\ p.r.cstate = "data" -> ChunkPiece(p, in)
    [] OTHER -> [p |-> ChunkByte(p, in[1]), n |-> 1]

\* http_feed: turns until the piece is used up, the message ends or an error
\* occurs. 2^k turns are two halves (the one-element set has TLC evaluate the
\* first before the second), and 2^10 are more than any piece here needs.
RECURSIVE Turns(_, _)
Turns(s, k) ==
  IF s.in = <<>> \/ s.p.res # "more" THEN s
  ELSE IF k > 0 THEN CHOOSE r \in {Turns(half, k - 1) : half \in {Turns(s, k - 1)}} : TRUE
  ELSE LET t == Turn(s.p, s.in)
       IN [p |-> [t.p EXCEPT !.used = @ + t.n], in |-> SubSeq(s.in, t.n + 1, Len(s.in))]
http_feed(p, in) == Turns([p |-> p, in |-> in], 10).p

\* http_eof_completes: the end of the connection ends the body.
http_eof_completes(r) == r.state \in {"close", "done"}

----------------------------------------------------------------------------
(* exchange: reading the answer.                                           *)

\* nx_err_from_http.
nx_err_from_http(status) == CASE status \in 200..299 -> "ok"
                              [] status \in {401, 403} -> "auth"
                              [] status = 404 -> "not_found"
                              [] status = 429 -> "rate_limit"
                              [] status = 529 -> "overloaded"
                              [] status \in 500..599 -> "server_error"
                              [] status \in 400..499 -> "bad_request"
                              [] OTHER -> "malformed_http"

\* The message is complete: what the attempt returns.
Outcome(p) ==
  LET e == msg_finish(p.msg)
  IN IF p.r.status # 200 THEN nx_err_from_http(p.r.status)
     ELSE IF ~p.ok THEN "malformed"
     ELSE IF e = "truncated" THEN "malformed" ELSE e

Ended(p) == CASE p.res = "more" -> "busy"
              [] p.res = "done" -> Outcome(p)
              [] OTHER -> p.res

\* m5_tls_read returned the next n tokens.
Piece(n) ==
  /\ hres = "busy" /\ n \in 1..Len(hin)
  /\ hp' = http_feed([hp EXCEPT !.got = TRUE], SubSeq(hin, 1, n))
  /\ hin' = SubSeq(hin, n + 1, Len(hin))
  /\ hres' = Ended(hp')
  /\ UNCHANGED hsc

\* It returned 0 (close_notify), or an error: the stream was cut or is silent.
Closed ==
  /\ hres = "busy"
  /\ hres' = IF http_eof_completes(hp.r) THEN Outcome(hp)
             ELSE IF hp.got THEN "truncated" ELSE "peer_closed"
  /\ UNCHANGED <<hp, hin, hsc>>
Broken ==
  /\ hres = "busy"
  /\ hres' = "recv_error"
  /\ UNCHANGED <<hp, hin, hsc>>

----------------------------------------------------------------------------
(* The server's side (external): an answer and its encoding.               *)

Eol(style) == CASE style = "crlf" -> <<T("cr", 0), T("lf", 0)>>
                [] style = "lf" -> <<T("lf", 0)>>
                [] style = "cr" -> <<T("cr", 0)>>

\* The event stream of the answer's events.
EventTokens(style, i) ==
  <<T("event:", 0), T("word", i)>> \o Eol(style) \o <<T("data:", 0), T("word", i)>> \o Eol(style) \o Eol(style)
BodyOf(a) == FlattenSeq([i \in 1..Len(a.events) |-> EventTokens(a.eol, i)])

HeadOf(a, n) ==
  FlattenSeq([i \in 1..Len(a.head) |-> <<a.head[i]>> \o Eol(a.heol)]
             \o (CASE a.framing = "length" -> <<<<T("length", n)>> \o Eol(a.heol)>>
                   [] a.framing = "chunked" -> <<<<T("chunked", 0)>> \o Eol(a.heol)>>
                   [] OTHER -> <<>>)
             \o <<Eol(a.heol)>>)

\* The body cut into chunks of at most a.chunk bytes (below 16: one digit).
Chunks(body, c) == [i \in 1..((Len(body) + c - 1) \div c) |-> SubSeq(body, (i - 1) * c + 1, Least(i * c, Len(body)))]
Chunked(a, body) ==
  LET ext == IF a.ext THEN <<T("semi", 0), T("word", 1)>> ELSE <<>>
      one(c) == <<T("hex", Len(c))>> \o ext \o Eol(a.heol) \o c \o Eol(a.heol)
      cs == Chunks(body, a.chunk)
  IN FlattenSeq([i \in 1..Len(cs) |-> one(cs[i])]) \o <<T("hex", 0)>> \o Eol(a.heol)
     \o (IF a.ext THEN <<T("word", 1)>> \o Eol(a.heol) ELSE <<>>) \o Eol(a.heol)

Encoded(a) ==
  LET body == BodyOf(a)
  IN a.before \o HeadOf(a, Len(body)) \o IF a.framing = "chunked" THEN Chunked(a, body) ELSE body

Init == /\ hsc \in {[a EXCEPT !.body = BodyOf(a), !.wire = Encoded(a)] : a \in Answers}
        /\ hp = Parser0 /\ hres = "busy" /\ hin = hsc.wire \o hsc.after

Next == (\E n \in PieceSizes \cup {Len(hin)} : Piece(n)) \/ Closed \/ Broken

Spec == Init /\ [][Next]_httpVars

----------------------------------------------------------------------------
TypeOK == /\ hp.res \in {"more", "done", "malformed_http", "malformed", "too_large", "overloaded", "rate_limit",
                         "server_error", "auth", "bad_request", "not_found", "stream_error"}
          /\ hp.msg.open \in 0..Len(hp.msg.blocks) /\ Len(hp.r.head) < HeadMax
          /\ Len(hp.sse.line) < LineMax /\ Len(hp.sse.data) < DataMax
          /\ Len(hp.msg.blocks) <= BlocksMax /\ Held(hp.msg) <= ArenaMax

Taken == Len(hsc.wire) + Len(hsc.after) - Len(hin)

\* However the stream is cut into pieces, the parser is where one piece would
\* have taken it ("a response split at any byte boundary is parsed the same
\* way", lib/include/nanox/http.h). After an error only the error and the
\* message built so far are compared: the rest is not read again.
SplitFree ==
  LET whole == http_feed([Parser0 EXCEPT !.got = hp.got], SubSeq(hsc.wire \o hsc.after, 1, Taken))
  IN /\ hp.res = whole.res /\ hp.msg = whole.msg
     /\ hp.res \in {"more", "done"} => hp = whole

\* http_feed finds the end of a well-formed answer exactly: the body it handed
\* on is the one that was encoded, what follows on the connection is untouched,
\* and it does not wait for more.
BodyExact ==
  hsc.valid =>
    /\ hp.res = "done" => hp.used = Len(hsc.wire) /\ hp.body = hsc.body
    /\ hp.body = SubSeq(hsc.body, 1, Len(hp.body))
    /\ Taken >= Len(hsc.wire) /\ hsc.framing # "close" => hp.res # "more"

\* A whole message, said without a parser: one start first, one stop last, a
\* reason, no error, and blocks numbered in order, each one's events between
\* its start and its stop.
Named(ev, names) == {i \in 1..Len(ev) : ev[i].name \in names}
BlockEvents == {"content_block_start", "content_block_delta", "content_block_stop"}
WholeMessage(ev) ==
  LET main == SelectSeq(ev, LAMBDA e : e.name # "ping")
      of(i) == SelectSeq(ev, LAMBDA e : e.name \in BlockEvents /\ e.index = i)
      blocks == SelectSeq(ev, LAMBDA e : e.name \in BlockEvents)
      n == Len(SelectSeq(ev, LAMBDA e : e.name = "content_block_start"))
  IN /\ Len(main) >= 2 /\ main[1].name = "message_start" /\ main[Len(main)].name = "message_stop"
     /\ \A i \in 2..(Len(main) - 1) : main[i].name \in BlockEvents \cup {"message_delta"}
     /\ \E i \in Named(ev, {"message_delta"}) : ev[i].type # "none"
     /\ blocks = FlattenSeq([i \in 1..n |-> of(i - 1)])
     /\ \A i \in 0..(n - 1) :
          /\ of(i)[1].name = "content_block_start" /\ of(i)[Len(of(i))].name = "content_block_stop"
          /\ \A k \in 2..(Len(of(i)) - 1) : of(i)[k].name = "content_block_delta"

\* The text the server sent for block i.
TextOf(ev, i) ==
  LET sent == SelectSeq(ev, LAMBDA e : /\ e.name \in {"content_block_start", "content_block_delta"}
                                       /\ e.index = i /\ e.text # 0)
  IN [k \in 1..Len(sent) |-> sent[k].text]

\* What exchange() hands on is what the server sent as one whole message, block
\* by block, up to the point where the stream ended.
IsAnswer ==
  \E n \in 0..Len(hsc.events) :
    LET ev == SubSeq(hsc.events, 1, n)
    IN /\ WholeMessage(ev)
       /\ Len(hp.msg.blocks) = Len(SelectSeq(ev, LAMBDA e : e.name = "content_block_start"))
       /\ \A i \in 1..Len(hp.msg.blocks) :
            hp.msg.blocks[i].type # "other" => hp.msg.blocks[i].text = TextOf(ev, i - 1)

\* An attempt answered with status 200 succeeds only with a whole message: a
\* truncated or garbled event stream never passes for an answer (exchange,
\* msg_event, msg_finish).
AnswerWhole == hres = "ok" /\ hp.r.status = 200 => IsAnswer

=============================================================================
