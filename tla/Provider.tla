------------------------------ MODULE Provider -----------------------------
(***************************************************************************)
(* The provider client of bin/core: one model request after the other over *)
(* one TLS connection that is kept open between them (user/core/provider.c *)
(* exchange and prv_request, user/core/m5tls.c), and the conversation the  *)
(* agent builds from the answers (lib/http/messages.c conv_*,              *)
(* user/core/agent.c op_agent_ask). Tls.tla and Http.tla model the layers  *)
(* below; here a response is its first bytes, any number of events that    *)
(* add nothing to the message (pings, comments), and its rest.             *)
(*                                                                         *)
(* The server answers the requests of a connection in order. It may also   *)
(* stay silent, answer late, go on without end, or close or reset the      *)
(* connection at any time.                                                 *)
(***************************************************************************)
EXTENDS Integers, Sequences, SequencesExt

CONSTANTS Kinds,      \* the responses the server may give
          Attempts,   \* provider.attempts
          StepsMax,   \* AGENT_STEPS_MAX
          MaxAsks, MaxProbes  \* bounds on the instance

VARIABLES pcl,    \* the client's control: op_agent_ask, prv_request, exchange
          pconn,  \* m5tls.c: the connection as the client sees it
          pnet,   \* the connection as the server sees it, and what is under way
          pconv,  \* struct msg_conv
          plog    \* history: sends of this attempt, whose response came last

provVars == <<pcl, pconn, pnet, pconv, plog>>

Closed0 == [open |-> FALSE, tcp |-> "none", notify |-> FALSE, host |-> "none"]
Net0 == [up |-> FALSE, queue |-> <<>>, stream |-> <<>>, going |-> FALSE, end |-> "none"]
Client0 == [pc |-> "idle", req |-> 0, attempt |-> 0, round |-> 0, reused |-> FALSE, got |-> FALSE, e |-> "ok",
            kind |-> "none", steps |-> 0, asks |-> 0, probes |-> 0, result |-> "none"]

Init == /\ pcl = Client0 /\ pconn = Closed0 /\ pnet = Net0
        /\ pconv = [msgs |-> <<>>, pending |-> FALSE]
        /\ plog = [sent |-> 0, of |-> 0, stray |-> FALSE]

----------------------------------------------------------------------------
(* The conversation: messages [role, items].                               *)

close_pending(c) == [c EXCEPT !.pending = FALSE]
begin_msg(c, role) == [close_pending(c) EXCEPT !.msgs = Append(@, [role |-> role, items |-> <<>>])]
Add(c, item) == [c EXCEPT !.msgs[Len(c.msgs)].items = Append(@, item)]

conv_user_text(c) == Add(begin_msg(c, "user"), "text")

\* conv_assistant: the blocks of the answer; an empty one becomes a text "-".
conv_assistant(c, uses) ==
  LET b == begin_msg(c, "assistant")
  IN IF uses = <<>> THEN Add(b, "text") ELSE FoldLeft(Add, b, uses)

\* conv_tool_result: the results of one answer share one message of the user.
conv_tool_result(c, id) ==
  Add(IF c.pending THEN c ELSE [begin_msg(c, "user") EXCEPT !.pending = TRUE], id)

\* run_tools: every tool use gets one result, an accepted call or a refusal.
run_tools(c, uses) == FoldLeft(conv_tool_result, c, uses)

----------------------------------------------------------------------------
(* m5tls.c.                                                                *)

\* m5_tls_close: what was under way on the connection is lost with it.
m5_tls_close ==
  /\ pconn' = Closed0
  /\ pnet' = Net0

m5_tls_is_open == pconn.open /\ ~pconn.notify /\ pconn.tcp = "established"

\* nx_err_retryable; m5_tls_open and the attempt end with one of these.
Retryable == {"net", "peer_closed", "conn_reset", "timeout", "truncated", "rate_limit"}
OpenErrors == {"net", "tls", "config"}
nx_err_retryable(e) == e \in Retryable

\* m5_tls_open: name, TCP and handshake succeed, or the call leaves nothing open.
m5_tls_open(host, e) ==
  IF e = "ok"
  THEN /\ pconn' = [open |-> TRUE, tcp |-> "established", notify |-> FALSE, host |-> host]
       /\ pnet' = [Net0 EXCEPT !.up = TRUE]
  ELSE m5_tls_close

----------------------------------------------------------------------------
(* exchange and prv_request.                                               *)

\* msg_request_body, which the conversation may be too long for, and the
\* first attempt of prv_request.
Request(c, steps) ==
  /\ pconv' = close_pending(c)
  /\ \/ /\ pcl' = [pcl EXCEPT !.pc = "attempt", !.req = @ + 1, !.attempt = 1, !.round = 0, !.steps = steps]
        /\ plog' = [plog EXCEPT !.sent = 0]
     \/ pcl' = [pcl EXCEPT !.pc = "ended", !.e = "resources"] /\ UNCHANGED plog

\* A round of exchange: the open connection, or a new one.
Reuse ==
  /\ pcl.pc = "attempt" /\ m5_tls_is_open
  /\ pcl' = [pcl EXCEPT !.pc = "write", !.reused = TRUE]
  /\ UNCHANGED <<pconn, pnet, pconv, plog>>
Connect(e) ==
  /\ pcl.pc = "attempt" /\ ~m5_tls_is_open
  /\ m5_tls_open("provider", e)
  /\ pcl' = IF e = "ok" THEN [pcl EXCEPT !.pc = "write", !.reused = FALSE]
            ELSE [pcl EXCEPT !.pc = "tried", !.e = e, !.kind = "none"]
  /\ UNCHANGED <<pconv, plog>>

\* m5_tls_write: the request is sent; on a connection whose peer is gone it may
\* still seem to be.  The write fails if the connection was reset, if the peer
\* closed, or if nothing is acknowledged in time.
Sends == plog' = [plog EXCEPT !.sent = @ + 1, !.stray = @ \/ pconn.host # "provider"]
Write ==
  /\ pcl.pc = "write"
  /\ pcl' = [pcl EXCEPT !.pc = "read", !.got = FALSE, !.e = "ok", !.kind = "none"]
  /\ pnet' = IF pnet.up THEN [pnet EXCEPT !.queue = Append(@, pcl.req)] ELSE pnet
  /\ Sends /\ UNCHANGED <<pconn, pconv>>
WriteFails ==
  /\ pcl.pc = "write"
  /\ \E e \in {"timeout"} \cup (IF pnet.end = "reset" THEN {"conn_reset"} ELSE {})
              \cup (IF pnet.end = "fin" THEN {"peer_closed"} ELSE {}) :
       pcl' = [pcl EXCEPT !.pc = "over", !.e = e, !.got = FALSE, !.kind = "none"]
  /\ Sends /\ UNCHANGED <<pconn, pnet, pconv>>

\* nx_err_from_http of 204 is NXE_OK.
ResultOf(kind) == CASE kind = "rate_limit" -> "rate_limit"
                    [] kind = "bad_request" -> "bad_request"
                    [] kind = "garbled" -> "malformed"
                    [] OTHER -> "ok"
\* m5_tls_read and http_feed: the first bytes of a response, more of it, and
\* its rest.  Nothing limits how often more may come.
Read ==
  /\ pcl.pc = "read" /\ pnet.stream # <<>>
  /\ LET i == Head(pnet.stream)
     IN /\ pcl' = CASE i.part \in {"first", "more"} -> [pcl EXCEPT !.got = TRUE]
                    [] i.part = "rest" -> [pcl EXCEPT !.pc = "over", !.kind = i.kind, !.got = TRUE,
                                                      !.e = IF i.kind = "garbled" THEN "malformed" ELSE "ok"]
                    [] i.part = "notify" -> [pcl EXCEPT !.pc = "over", !.e = IF pcl.got THEN "truncated" ELSE "peer_closed"]
        /\ pconn' = IF i.part = "notify" THEN [pconn EXCEPT !.notify = TRUE] ELSE pconn
        /\ plog' = IF i.part = "rest" THEN [plog EXCEPT !.of = i.of] ELSE plog
  /\ pnet' = [pnet EXCEPT !.stream = Tail(@)]
  /\ UNCHANGED pconv

\* recv_error: the connection ended without close_notify or was reset, or
\* nothing came within provider.timeout_ms (which an answer may still race).
Gone(e) == pcl' = [pcl EXCEPT !.pc = "over", !.e = e]
ReadFails ==
  /\ pcl.pc = "read"
  /\ \/ pnet.end = "reset" /\ Gone("conn_reset")
     \/ pnet.end = "fin" /\ pnet.stream = <<>> /\ Gone("peer_closed")
     \/ Gone("timeout")
  /\ UNCHANGED <<pconn, pnet, pconv, plog>>

\* exchange after the read loop: a stale kept-alive connection is replaced
\* once; an error closes the connection; "connection: close" closes it too; a
\* status other than 200 leaves it open.
Stale == pcl.e # "ok" /\ pcl.reused /\ ~pcl.got /\ pcl.e \in {"peer_closed", "conn_reset", "truncated"}

\* BROKEN: the connection is kept after an error.
OverKeeps ==
  /\ pcl.pc = "over"
  /\ pcl' = [pcl EXCEPT !.pc = "tried", !.e = IF @ = "ok" THEN ResultOf(pcl.kind) ELSE @]
  /\ UNCHANGED <<pconn, pnet, pconv, plog>>

Over ==
  /\ pcl.pc = "over"
  /\ IF Stale
     THEN /\ m5_tls_close
          /\ pcl' = IF pcl.round = 0 THEN [pcl EXCEPT !.pc = "attempt", !.round = 1]
                    ELSE [pcl EXCEPT !.pc = "tried", !.e = "peer_closed"]
     ELSE /\ pcl' = [pcl EXCEPT !.pc = "tried", !.e = IF @ = "ok" THEN ResultOf(pcl.kind) ELSE @]
          /\ IF pcl.e # "ok" \/ pcl.kind = "close" THEN m5_tls_close ELSE UNCHANGED <<pconn, pnet>>
  /\ UNCHANGED <<pconv, plog>>

\* prv_request: after an attempt, wait and try again, or return.
Again ==
  /\ pcl.pc = "tried" /\ nx_err_retryable(pcl.e) /\ pcl.attempt < Attempts
  /\ pcl' = [pcl EXCEPT !.pc = "attempt", !.attempt = @ + 1, !.round = 0]
  /\ plog' = [plog EXCEPT !.sent = 0]
  /\ UNCHANGED <<pconn, pnet, pconv>>
Done == pcl.pc = "tried" /\ ~(nx_err_retryable(pcl.e) /\ pcl.attempt < Attempts)

----------------------------------------------------------------------------
(* op_agent_ask.                                                           *)

Ask ==
  /\ pcl.pc = "idle" /\ pcl.asks < MaxAsks
  /\ pconv' = conv_user_text([msgs |-> <<>>, pending |-> FALSE])
  /\ pcl' = [pcl EXCEPT !.pc = "attempt", !.asks = @ + 1, !.req = @ + 1, !.attempt = 1, !.round = 0, !.steps = 1]
  /\ plog' = [plog EXCEPT !.sent = 0]
  /\ UNCHANGED <<pconn, pnet>>

\* The request failed, the answer has no tool use, or the tools run and the
\* loop goes on while there are steps left.
AskFails ==
  /\ Done /\ pcl.e # "ok"
  /\ pcl' = [pcl EXCEPT !.pc = "ended"]
  /\ UNCHANGED <<pconn, pnet, pconv, plog>>
AskAnswered ==
  /\ Done /\ pcl.e = "ok" /\ pcl.kind # "tools"
  /\ pconv' = conv_assistant(pconv, <<>>)
  /\ pcl' = [pcl EXCEPT !.pc = "ended"]
  /\ UNCHANGED <<pconn, pnet, plog>>
Uses == <<ToString(pcl.req), "b" \o ToString(pcl.req)>>
AskTools ==
  /\ Done /\ pcl.e = "ok" /\ pcl.kind = "tools"
  /\ LET c == run_tools(conv_assistant(pconv, Uses), Uses)
     IN IF pcl.steps < StepsMax THEN Request(c, pcl.steps + 1)
        ELSE pconv' = c /\ pcl' = [pcl EXCEPT !.pc = "ended", !.e = "no_answer"] /\ UNCHANGED plog
  /\ UNCHANGED <<pconn, pnet>>
AskEnds ==
  /\ pcl.pc = "ended"
  /\ pcl' = [pcl EXCEPT !.pc = "idle", !.result = pcl.e]
  /\ UNCHANGED <<pconn, pnet, pconv, plog>>

\* tls.probe: another host, over the one connection there is.  What the probe
\* meets does not matter: the connection is closed again.
op_tls_probe(e) ==
  /\ pcl.pc = "idle" /\ pcl.probes < MaxProbes
  /\ m5_tls_open("other", e)
  /\ pcl' = [pcl EXCEPT !.pc = IF e = "ok" THEN "probe" ELSE @, !.probes = @ + 1]
  /\ UNCHANGED <<pconv, plog>>
ProbeEnds ==
  /\ pcl.pc = "probe"
  /\ m5_tls_close /\ pcl' = [pcl EXCEPT !.pc = "idle"]
  /\ UNCHANGED <<pconv, plog>>

----------------------------------------------------------------------------
(* The server and the network (external).                                  *)

\* Head(pnet.queue) is being answered: the first part once, the last one at the
\* end, and in between a ping or a comment whenever the client has read the last.
Part(part, kind) == [part |-> part, of |-> Head(pnet.queue), kind |-> kind]
First == IF pnet.going THEN <<>> ELSE <<Part("first", "none")>>
Answering == pnet.up /\ pnet.queue # <<>> /\ UNCHANGED <<pcl, pconn, pconv, plog>>
SrvGoesOn ==
  /\ Answering /\ \A i \in 1..Len(pnet.stream) : pnet.stream[i].part # "more"
  /\ pnet' = [pnet EXCEPT !.going = TRUE, !.stream = @ \o Append(First, Part("more", "none"))]
SrvAnswer(kind) ==
  /\ Answering
  /\ pnet' = [pnet EXCEPT !.queue = Tail(@), !.going = FALSE, !.stream = @ \o Append(First, Part("rest", kind))]
\* The server's end goes away: in order, in the middle of a response, or by reset.
SrvEnds ==
  /\ pnet.up
  /\ LET gone == [pnet EXCEPT !.up = FALSE, !.end = "fin", !.queue = <<>>, !.going = FALSE]
     IN \/ pnet' = [gone EXCEPT !.stream = Append(@, [part |-> "notify", of |-> 0, kind |-> "none"])]
        \/ pnet.queue # <<>> /\ pnet' = [gone EXCEPT !.stream = @ \o First]
        \/ pnet' = [gone EXCEPT !.end = "reset", !.stream = <<>>]
  /\ UNCHANGED <<pcl, pconn, pconv, plog>>
\* net_poll, from any wait of the client: the TCP state follows the wire.
NetPoll ==
  /\ pnet.end # "none" /\ pconn.tcp = "established"
  /\ pconn' = [pconn EXCEPT !.tcp = "closing"]
  /\ UNCHANGED <<pcl, pnet, pconv, plog>>

Client == \/ Ask \/ Reuse \/ (\E e \in OpenErrors \cup {"ok"} : Connect(e)) \/ Write \/ WriteFails \/ Read \/ ReadFails
          \/ Over \/ Again \/ AskFails \/ AskAnswered \/ AskTools \/ AskEnds
          \/ (\E e \in OpenErrors \cup {"ok"} : op_tls_probe(e)) \/ ProbeEnds
Server == (\E k \in Kinds : SrvAnswer(k)) \/ SrvGoesOn \/ SrvEnds \/ NetPoll

Next == Client \/ Server

\* The client runs; nothing is assumed of the server.
Fairness == WF_provVars(Client)
Spec == Init /\ [][Next]_provVars /\ Fairness

----------------------------------------------------------------------------
TypeOK == /\ pcl.pc \in {"idle", "attempt", "write", "read", "over", "tried", "ended", "probe"}
          /\ pcl.attempt \in 0..Attempts /\ pcl.round \in 0..1 /\ pcl.steps \in 0..StepsMax
          /\ pconn.open <=> pconn.tcp # "none"
          /\ pconn.host \in {"none", "provider", "other"}

\* A response that ends an attempt belongs to the request of that attempt: an
\* answer that was late for an earlier request, or for an earlier attempt of
\* which the client gave up waiting, is never taken for this one's, although
\* both would have come over the same kept-alive connection (exchange).
AnswersThis == pcl.pc \in {"over", "tried"} /\ pcl.kind # "none" => plog.of = pcl.req

\* The request, with the key in its header, goes to the provider only: no other
\* operation leaves a connection behind that m5_tls_is_open would offer to
\* exchange ("The key goes into the x-api-key header of the encrypted request
\* and nowhere else", user/core/provider.c).
OnlyToProvider == ~plog.stray

\* One request is sent at most twice per attempt, and the second time only to
\* replace a stale connection: retries and reconnects never multiply.
SentBounded == plog.sent <= 2

\* Whenever a request is on its way the conversation is one the protocol
\* allows: roles alternate from the user on, and every tool use of an answer
\* has exactly one result, in the message right after it, in order.
Conversation ==
  pcl.pc \in {"write", "read"} =>
    LET m == pconv.msgs
    IN /\ ~pconv.pending
       /\ \A i \in 1..Len(m) : m[i].role = IF i % 2 = 1 THEN "user" ELSE "assistant"
       /\ \A i \in 1..(Len(m) - 1) : m[i].role = "assistant" => m[i + 1].items = m[i].items

\* Every ask returns, whatever the server does or fails to do, unless it sends
\* one answer without end: the timeout is between reads, and nothing limits the
\* whole (exchange).
EndlessAnswer == []<><<SrvGoesOn>>_provVars
AskReturns == EndlessAnswer \/ (pcl.pc # "idle" ~> pcl.pc = "idle")
=============================================================================
