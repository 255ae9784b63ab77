------------------------------- MODULE MCNet -------------------------------
(***************************************************************************)
(* Instances of the network's parts for TLC: TCP, TLS, certificate paths,  *)
(* HTTP, the provider's client, address resolution, the card and random    *)
(* numbers.  A behaviour is one of one part; the others keep still.        *)
(***************************************************************************)
EXTENDS Tcp

CONSTANTS TlsScenarios, MaxWrites, MaxTimeouts,                           \* Tls
          Pools, ChainMax,                                                \* Chain
          Answers, PieceSizes, HeadMax, LineMax, DataMax, TrailerMax,
          BlocksMax, ArenaMax, SizeMax,                                   \* Http
          Kinds, Attempts, StepsMax, MaxAsks, MaxProbes,                  \* Provider
          ArpEntries, ArpTtl, ArpRetry, Socks, Ports, PerTry, Tries,
          PingTime, Ids, MaxOps, MaxNow, MaxFaults,                       \* Resolver
          RxBufs, IdxWrap, Losses, MaxIn, MaxOut, MaxWait,                \* NetDev
          Bytes, SeedLen, RctCutoff, AptWindow, AptCutoff, Interval,
          EmptyMax, TriesMax, MaxCalls                                    \* Rng

VARIABLES which,
          tc, tpc, srv, wire, link, tapp, nonces, tsc,
          xpool, xcur, xdepth, xused, xsig, xres,
          hp, hin, hres, hsc,
          pcl, pconn, pnet, pconv, plog,
          rns, rop, rair, rlim,
          nring, ntx, ncall, nwire,
          gread, grand, glog

L == INSTANCE Tls WITH Scenarios <- TlsScenarios, app <- tapp, sc <- tsc
X == INSTANCE Chain
W == INSTANCE Http
P == INSTANCE Provider
Q == INSTANCE Resolver
N == INSTANCE NetDev
G == INSTANCE Rng

----------------------------------------------------------------------------
(* Connections: a window that closes; segments of one byte and of two; both *)
(* directions; and connections that are aborted.                           *)

Sc(mss, rcv, snd, c, s, f, ab) ==
    [mss |-> mss, rcvbuf |-> rcv, sndbuf |-> snd, cwnd |-> 3, ooo |-> 2,
     bytes |-> [C |-> c, S |-> s], faults |-> f, abort |-> ab]

\* A window that closes; segments of one byte and of two; both directions; and
\* connections that are aborted.
MCScenarios ==
    {Sc(2, 2, 3, 3, 0, 1, FALSE), [Sc(1, 3, 3, 3, 0, 1, FALSE) EXCEPT !.ooo = 1], Sc(2, 4, 3, 4, 0, 1, FALSE),
     Sc(2, 2, 2, 2, 2, 1, FALSE), Sc(1, 2, 2, 1, 1, 2, FALSE), Sc(1, 2, 2, 1, 1, 2, TRUE)}
MCIss == [C |-> 14, S |-> 3]

----------------------------------------------------------------------------
(* TLS servers: in order, with key updates, fragments and early ends, and  *)
(* with every message wrong in each way the client looks for.              *)

Good(a, ccs) == [wrong |-> <<"none", "none">>, flight |-> <<"EE", "CERT", "CV", "FIN">>, app |-> a, ccs |-> ccs,
                 packs |-> {}, cuts |-> {}]
Bad(m, w) == [Good(<<"data", "close_notify">>, FALSE) EXCEPT !.wrong = <<m, w>>]
Odd(f) == [Good(<<"data", "close_notify">>, FALSE) EXCEPT !.flight = f]
MCTlsScenarios ==
  {[Good(<<"data", "KUR", "data", "close_notify">>, TRUE) EXCEPT !.packs = {1}],
   [Good(<<"NST", "KU", "data", "KUR", "close_notify">>, FALSE) EXCEPT !.packs = {3}],
   [Good(<<"data", "KUR", "data", "close_notify">>, FALSE) EXCEPT !.cuts = {"fin", "reset"}],
   Good(<<"KUR", "KUR", "data", "close_notify">>, FALSE),
   Good(<<"data", "alert">>, FALSE), Good(<<"ccs">>, FALSE), Good(<<"EE">>, FALSE),
   Odd(<<"EE", "CREQ", "CERT", "CV", "FIN">>), Odd(<<"EE", "CV", "FIN">>), Odd(<<"EE", "CERT", "FIN">>)}
  \cup {Bad("SH", w) : w \in {"hrr", "session", "suite", "version", "point"}}
  \cup {Bad("CERT", w) : w \in {"cert_expired", "cert_untrusted", "cert_name"}}
  \cup {Bad("EE", "alpn"), Bad("CV", "scheme"), Bad("CV", "signature"), Bad("FIN", "mac")}

----------------------------------------------------------------------------
(* Certificates: every pool of up to two intermediates with their flaws.   *)

Cert(s, i, flaw) ==
  [subject |-> s, issuer |-> i, key |-> s, signer |-> IF flaw = "signature" THEN "other" ELSE i, valid |-> flaw # "expired",
   version |-> IF flaw = "old" THEN 1 ELSE 3, bc |-> flaw \notin {"not_ca", "old"}, sign |-> flaw # "usage",
   plen |-> IF flaw = "plen" THEN 0 ELSE -1, leaf |-> IF flaw \in {"name", "usage"} THEN flaw ELSE "fine"]
Ups == {Cert(s, i, f) : s \in {"I", "J"}, i \in {"I", "J", "R"}, f \in {"none", "signature", "expired", "not_ca", "plen"}}
       \cup {Cert("I", "R", f) : f \in {"usage", "old"}}
Roots == {<<Cert("R", "R", f)>> : f \in {"none", "expired", "not_ca", "usage", "old", "plen"}}
         \cup {<<Cert("J", "R", "none")>>, <<Cert("L", "R", "none")>>, <<Cert("R", "R", "signature"), Cert("J", "J", "none")>>}
Lists == {<<>>} \cup {<<a>> : a \in Ups} \cup {<<a, b>> : a, b \in Ups}
Leaf(i, f) == Cert("L", i, f)
MCPools ==
  {[certs |-> <<Leaf(i, "none")>> \o l, anchors |-> r] : i \in {"I", "R"}, l \in Lists, r \in Roots}
  \cup {[certs |-> <<Leaf(i, f)>> \o l, anchors |-> r] : i \in {"I", "R"}, f \in {"signature", "expired", "name", "usage"},
           l \in {x \in Lists : Len(x) < 2}, r \in Roots}
  \cup {[certs |-> <<Leaf("I", "none"), Cert("I", "J", "none"), Cert("J", "K", "none"), Cert("K", "R", "none")>>, anchors |-> r] : r \in Roots}
  \cup {[certs |-> <<>>, anchors |-> r] : r \in Roots}

----------------------------------------------------------------------------
(* Answers of the provider as HTTP.                                        *)

Tok(k, v) == [k |-> k, v |-> v]
Ev(n) == [name |-> n, index |-> 0, type |-> "none", text |-> 0]
Block(i, t, d) == <<[Ev("content_block_start") EXCEPT !.index = i, !.type = t],
                    [Ev("content_block_delta") EXCEPT !.index = i, !.type = d, !.text = i + 1],
                    [Ev("content_block_stop") EXCEPT !.index = i]>>
Delta(t) == [Ev("message_delta") EXCEPT !.type = t]
Begin == <<Ev("message_start")>>
Stop == <<Ev("message_stop")>>
TextMessage == Begin \o Block(0, "text", "text_delta") \o <<Delta("end_turn")>> \o Stop
ToolMessage == Begin \o <<Ev("ping")>> \o Block(0, "text", "text_delta") \o Block(1, "tool_use", "input_json_delta")
               \o <<Delta("tool_use")>> \o Stop
Status(n) == <<Tok("status", n), Tok("type", 1)>>
Answer(events, framing) ==
  [events |-> events, framing |-> framing, chunk |-> 5, head |-> Status(200), heol |-> "crlf", eol |-> "lf",
   ext |-> FALSE, before |-> <<>>, after |-> <<>>, body |-> <<>>, wire |-> <<>>, valid |-> TRUE]
Error(type) == [Ev("error") EXCEPT !.type = type]
Drop(s, i) == SubSeq(s, 1, i - 1) \o SubSeq(s, i + 1, Len(s))
Interim == <<Tok("status", 100), Tok("cr", 0), Tok("lf", 0), Tok("cr", 0), Tok("lf", 0)>>
MCAnswers ==
  {[Answer(TextMessage, f) EXCEPT !.eol = e, !.heol = h] :
     f \in {"length", "chunked", "close"}, e \in {"lf", "cr", "crlf"}, h \in {"lf", "crlf"}}
  \cup {[Answer(ToolMessage, "chunked") EXCEPT !.chunk = c, !.ext = TRUE, !.after = Interim] : c \in {7, 15}}
  \cup {[Answer(TextMessage, "chunked") EXCEPT !.chunk = 2]}
  \cup {[Answer(TextMessage, "length") EXCEPT !.before = Interim, !.after = Status(200)]}
  \* an event lost, doubled or out of place
  \cup {Answer(Drop(ToolMessage, i), "close") : i \in 1..Len(ToolMessage)}
  \cup {Answer(SubSeq(TextMessage, 1, i) \o <<TextMessage[i]>> \o SubSeq(TextMessage, i + 1, Len(TextMessage)), "chunked") :
          i \in 1..Len(TextMessage)}
  \cup {Answer(Begin \o [Block(0, "text", "text_delta") EXCEPT ![2].index = 1] \o <<Delta("end_turn")>> \o Stop, "length"),
        Answer(Begin \o Block(0, "other", "text_delta") \o <<Delta("tool_use")>> \o Stop, "length"),
        Answer(Begin \o Block(0, "text", "input_json_delta") \o Stop, "length"),
        Answer(Begin \o [Block(0, "tool_use", "input_json_delta") EXCEPT ![2].text = 0] \o <<Delta("tool_use")>> \o Stop, "length"),
        Answer(Begin \o Block(0, "text", "text_delta") \o Block(1, "text", "text_delta") \o Block(2, "text", "text_delta"), "length"),
        Answer(Begin \o <<Ev("new_event")>>, "length")}
  \cup {Answer(Begin \o <<Error(t)>>, "length") : t \in {"overloaded_error", "rate_limit_error", "api_error",
          "authentication_error", "invalid_request_error", "not_found_error", "x"}}
  \cup {[Answer(Begin, f) EXCEPT !.head = Status(n)] : f \in {"length", "chunked"}, n \in {400, 401, 404, 429, 500, 529}}
  \cup {[Answer(<<>>, "length") EXCEPT !.head = Status(n)] : n \in {200, 302}}
  \* the odd corners of events and lines
  \cup {Answer(Begin \o <<[Ev("content_block_start") EXCEPT !.type = "text", !.text = 7]>> \o Tail(Block(0, "text", "text_delta"))
               \o <<Ev("message_delta"), Delta("end_turn")>> \o Stop, "length"),
        Answer(Begin \o <<[Ev("content_block_start") EXCEPT !.type = "unnamed_tool"]>>, "length"),
        Answer(Begin \o [Block(0, "text", "text_delta") EXCEPT ![1].text = 7] \o [Block(1, "text", "text_delta") EXCEPT ![1].text = 8]
               \o <<Delta("end_turn")>> \o Stop, "length")}
  \cup {[Answer(TextMessage, "length") EXCEPT !.before = Status(200) \o <<Tok("lf", 0), Tok("lf", 0)>> \o b, !.valid = FALSE] :
          b \in {<<Tok(":", 0), Tok("word", 1), Tok("lf", 0), Tok("id:", 0), Tok("lf", 0), Tok("event:", 0), Tok("lf", 0), Tok("data:", 0), Tok("lf", 0), Tok("lf", 0)>>,
                 <<Tok("data:", 0), Tok("word", 1), Tok("word", 1), Tok("lf", 0), Tok("data:", 0), Tok("word", 1), Tok("lf", 0)>>,
                 <<Tok("data:", 0), Tok("word", 1), Tok("lf", 0), Tok("lf", 0)>>,
                 <<Tok("word", 1), Tok("word", 1), Tok("word", 1), Tok("word", 1)>>}}
  \cup {[Answer(TextMessage, "length") EXCEPT !.before = <<Tok("lf", 0), Tok("lf", 0)>>, !.valid = FALSE]}
  \cup {[Answer(TextMessage, "length") EXCEPT !.head = h, !.valid = FALSE] :
          h \in {<<Tok("status", 200)>>, <<Tok("status10", 200), Tok("type", 1)>>, <<Tok("status", 101)>>, <<Tok("junk", 0)>>, <<Tok("status", 200), Tok("length", 1)>>}}
  \cup {[Answer(TextMessage, "chunked") EXCEPT !.before = Status(200) \o <<Tok("lf", 0), Tok("chunked", 0), Tok("lf", 0), Tok("lf", 0)>> \o b,
          !.valid = FALSE] :
          b \in {<<Tok("lf", 0)>>, <<Tok("hex", 1), Tok("word", 1)>>, <<Tok("hex", 1), Tok("cr", 0), Tok("cr", 0)>>,
                 <<Tok("hex", 15), Tok("hex", 15), Tok("hex", 15)>>,
                 <<Tok("hex", 1), Tok("lf", 0), Tok("lf", 0), Tok("word", 1)>>, <<Tok("hex", 1), Tok("lf", 0), Tok("lf", 0), Tok("cr", 0), Tok("cr", 0)>>,
                 <<Tok("hex", 0), Tok("lf", 0), Tok("word", 1), Tok("word", 1), Tok("word", 1)>>}}
  \cup {[Answer(TextMessage, "length") EXCEPT !.head = Status(200) \o [i \in 1..10 |-> Tok("retry", 1)], !.valid = FALSE],
        [Answer(TextMessage, "length") EXCEPT !.head = Status(200) \o <<Tok("retry", 1), Tok("close", 0)>>]}

----------------------------------------------------------------------------
lVars == <<tc, tpc, srv, wire, link, tapp, nonces, tsc>>
xVars == <<xpool, xcur, xdepth, xused, xsig, xres>>
wVars == <<hp, hin, hres, hsc>>
pVars == <<pcl, pconn, pnet, pconv, plog>>
qVars == <<rns, rop, rair, rlim>>
nVars == <<nring, ntx, ncall, nwire>>
gVars == <<gread, grand, glog>>
allVars == <<which, vars, lVars, xVars, wVars, pVars, qVars, nVars, gVars>>

\* What keeps still has an initial state, or 0.
MCInit ==
  /\ which \in {"tcp", "tls", "chain", "http", "provider", "resolver", "card", "random"}
  /\ Init /\ (which # "tcp" => sc = CHOOSE s \in Scenarios : TRUE)
  /\ IF which = "tls" THEN L!Init
     ELSE tc = 0 /\ tpc = 0 /\ srv = 0 /\ wire = 0 /\ link = 0 /\ tapp = 0 /\ nonces = 0 /\ tsc = 0
  /\ IF which = "chain" THEN X!Init ELSE xpool = 0 /\ xcur = 0 /\ xdepth = 0 /\ xused = 0 /\ xsig = 0 /\ xres = 0
  /\ IF which = "http" THEN W!Init ELSE hp = 0 /\ hin = 0 /\ hres = 0 /\ hsc = 0
  /\ IF which = "provider" THEN P!Init ELSE pcl = 0 /\ pconn = 0 /\ pnet = 0 /\ pconv = 0 /\ plog = 0
  /\ IF which = "resolver" THEN Q!Init ELSE rns = 0 /\ rop = 0 /\ rair = 0 /\ rlim = 0
  /\ IF which = "card" THEN N!Init ELSE nring = 0 /\ ntx = 0 /\ ncall = 0 /\ nwire = 0
  /\ IF which = "random" THEN G!Init ELSE gread = 0 /\ grand = 0 /\ glog = 0
\* Only this part moves.
OnlyTcp == which = "tcp" /\ UNCHANGED <<which, lVars, xVars, wVars, pVars, qVars, nVars, gVars>>
OnlyTls == which = "tls" /\ UNCHANGED <<which, vars, xVars, wVars, pVars, qVars, nVars, gVars>>
OnlyChain == which = "chain" /\ UNCHANGED <<which, vars, lVars, wVars, pVars, qVars, nVars, gVars>>
OnlyHttp == which = "http" /\ UNCHANGED <<which, vars, lVars, xVars, pVars, qVars, nVars, gVars>>
OnlyProvider == which = "provider" /\ UNCHANGED <<which, vars, lVars, xVars, wVars, qVars, nVars, gVars>>
OnlyResolver == which = "resolver" /\ UNCHANGED <<which, vars, lVars, xVars, wVars, pVars, nVars, gVars>>
OnlyCard == which = "card" /\ UNCHANGED <<which, vars, lVars, xVars, wVars, pVars, qVars, gVars>>
OnlyRandom == which = "random" /\ UNCHANGED <<which, vars, lVars, xVars, wVars, pVars, qVars, nVars>>
MCNext == \/ OnlyTcp /\ Next
          \/ OnlyTls /\ L!Next
          \/ OnlyChain /\ X!Next
          \/ OnlyHttp /\ W!Next
          \/ OnlyProvider /\ P!Next
          \/ OnlyResolver /\ Q!Next
          \/ OnlyCard /\ N!Next
          \/ OnlyRandom /\ G!Next

\* The fairness of the parts: hosts poll, time passes, programs run, TLS
\* servers go on; the provider and the network need not.
ClientRuns == \/ OnlyTls /\ (L!Connects \/ L!Reads)
              \/ OnlyProvider /\ P!Client
              \/ OnlyResolver /\ Q!Runs
              \/ OnlyRandom /\ (G!nx_rng_read \/ G!ReadFails \/ G!gather)
ServerRuns == OnlyTls /\ L!Serves
Ticks(e) == which = "tcp" /\ Ticking(e) /\ InTime(e) /\ ~Waited(e)
MCFairness ==
  /\ WF_allVars(ClientRuns) /\ WF_allVars(ServerRuns)
  /\ \A e \in Sides :
       /\ []<>(which # "tcp" \/ net[e] = <<>>) \/ []<><<which = "tcp" /\ Leaves(e)>>_vars
       /\ []<>~Ticks(e) \/ []<><<which = "tcp" /\ tcp_timers(e)>>_vars
       /\ []<>(which # "tcp" \/ ~CanRun(e)) \/ []<><<which = "tcp" /\ Runs(e)>>_vars
MCSpec == MCInit /\ [][MCNext]_allVars /\ MCFairness

----------------------------------------------------------------------------
(* The properties, each with what it says about the part in its module.    *)

\* What is read is what was written, in order and to its end; buffered bytes
\* are let go only once they arrived, and a connection that closed delivered
\* everything (tcp_input, ooo_store, after_ack).
TcpExact == which = "tcp" => TypeOK /\ InOrder /\ EndIsEnd /\ FreedArrived /\ ClosedDelivered

\* Data is read only from a server that proved who it is, no key and sequence
\* number seal two records, both sides use the keys of the same update, and a
\* cut connection is not taken for the end (certificate_verify, send_record,
\* post_handshake, tls_read).
TlsSound == which = "tls" => L!TypeOK /\ L!Authenticated /\ L!NonceOnce /\ L!InStep /\ L!EndIsEnd

\* A path that verifies is sound, and one is found where the search must find
\* one (nx_x509_verify_chain).
ChainRight == which = "chain" => X!TypeOK /\ X!ChainSound /\ X!ChainFound

\* How the stream is cut into reads does not matter, the body reaches the sink
\* byte for byte, and a complete answer is the message the server sent
\* (http_feed, sse_feed, msg_finish).
HttpRight == which = "http" => W!TypeOK /\ W!SplitFree /\ W!BodyExact /\ W!AnswerWhole

\* An answer belongs to the request it is returned for; requests go to the
\* provider's host only and a bounded number of times; the conversation stays
\* well formed (exchange, op_tls_probe, prv_request, conv_tool_result).
ProviderSound ==
  which = "provider" => P!TypeOK /\ P!AnswersThis /\ P!OnlyToProvider /\ P!SentBounded /\ P!Conversation

\* A reply belongs to the operation it is returned for, an operation that ended
\* leaves no socket, and none outlives its deadline (icmp_input, net_dns_a,
\* net_ping).
ResolverSound == which = "resolver" => Q!TypeOK /\ Q!RepliesMatch /\ Q!SocketsFreed /\ Q!InTime

\* Callers get the frames the card took in, in order, once, and a frame sent is
\* on the wire once, in order (nx_net_poll, nx_net_send).
CardExact == which = "card" => N!TypeOK /\ N!RxExact /\ N!TxExact

\* No random output repeats, and each rests on healthy entropy
\* (nx_drbg_generate, gather, m5_random).
RandomSound == which = "random" => G!TypeOK /\ G!OutputsDiffer /\ G!SeedsHealthy

Settled == CASE which = "tcp" -> sc.abort \/ Delivered
             [] which = "tls" -> L!ReadOut
             [] which = "provider" -> pcl.pc = "idle"
             [] which = "resolver" -> rop.pc = "idle"
             [] which = "random" -> gread.for = "none"
             [] OTHER -> TRUE

\* Connections finish, readers see the end, asks, pings and resolutions return
\* and gathering entropy ends: Tcp's Finishes, Tls's Drained, Provider's
\* AskReturns, Resolver's Returns and Rng's GatherEnds in one formula.  The only
\* exception is an ask whose answer the provider goes on sending without end.
EndlessAnswer == []<><<which = "provider" /\ P!SrvGoesOn>>_pVars
CallsEnd == []<>Settled \/ EndlessAnswer
=============================================================================
