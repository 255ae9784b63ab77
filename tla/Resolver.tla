------------------------------ MODULE Resolver -----------------------------
(***************************************************************************)
(* Address resolution of the network stack of bin/core (lib/net/net.c):    *)
(* the ARP cache, one-datagram UDP sockets, DNS queries and ICMP echo, as  *)
(* net.ping and net.resolve (user/core/m5net.c) run them.  One operation   *)
(* runs at a time and polls the device while it waits.                     *)
(*                                                                         *)
(* A frame that is sent is replaced by its reply right away; the reply may *)
(* come late, out of order, twice or never, as if either had been delayed  *)
(* or lost.  A tick is one time-out of net_poll; the times of the code are *)
(* given in ticks.                                                         *)
(***************************************************************************)
EXTENDS Integers, FiniteSets

CONSTANTS ArpEntries, ArpTtl, ArpRetry,  \* NET_ARP_*
          Socks, Ports,                  \* NET_UDP_SOCKS, the ephemeral ports
          PerTry, Tries, PingTime,       \* the waits of net_dns_a and net_ping
          Ids,                           \* what random32 may return
          MaxOps, MaxNow, MaxFaults      \* bounds on the instance

VARIABLES rns,   \* struct netstack
          rop,   \* the running operation
          rair,  \* the frames under way
          rlim   \* link state and how many faults have happened

resVars == <<rns, rop, rair, rlim>>

NoArp == [ip |-> "none", mac |-> 0, t |-> 0]
NoSock == [port |-> 0, have |-> FALSE, dg |-> [from |-> "none", id |-> 0, says |-> "none", n |-> 0]]
Idle == [pc |-> "idle", what |-> "none", n |-> 0, deadline |-> 0, arpdl |-> 0, until |-> 0, attempt |-> 0,
         sock |-> 0, id |-> 0, res |-> "none", of |-> 0]

Init == /\ rns = [now |-> 1, arp |-> [i \in 1..ArpEntries |-> NoArp], last |-> [ip |-> "none", t |-> 0],
                  sock |-> [i \in 1..Socks |-> NoSock], port |-> 1,
                  ping |-> [id |-> 0, seq |-> 0, got |-> FALSE, of |-> 0]]
        /\ rop = Idle /\ rair = {} /\ rlim = [link |-> TRUE, faults |-> 0]

----------------------------------------------------------------------------
(* Ethernet and ARP.                                                       *)

\* eth_send: nothing leaves while the link is down.
eth_send(f) == IF rlim.link THEN {f} ELSE {}

arp_lookup(ns, ip) == \E i \in 1..ArpEntries : ns.arp[i].ip = ip /\ ns.now - ns.arp[i].t < ArpTtl

\* arp_learn: the entry of the address, or else the oldest one.
Oldest(ns) == CHOOSE i \in 1..ArpEntries :
                \A j \in 1..ArpEntries : \/ ns.arp[i].t < ns.arp[j].t
                                         \/ ns.arp[i].t = ns.arp[j].t /\ i <= j
arp_learn(ns, ip, mac) ==
  LET own == {i \in 1..ArpEntries : ns.arp[i].ip = ip}
      slot == IF own # {} THEN CHOOSE i \in own : \A j \in own : i <= j ELSE Oldest(ns)
  IN [ns EXCEPT !.arp[slot] = [ip |-> ip, mac |-> mac, t |-> ns.now]]

\* arp_request: not again for the address of the last request within the interval.
Asks(ns, ip) == ~(ns.last.ip = ip /\ ns.now - ns.last.t < ArpRetry)
arp_request(ns, ip) == IF Asks(ns, ip) THEN [ns EXCEPT !.last = [ip |-> ip, t |-> ns.now]] ELSE ns
ArpFrames(ns, ip) == IF Asks(ns, ip) THEN eth_send([t |-> "arp_rep", ip |-> ip, mac |-> 1]) ELSE {}

\* ip_output: what is sent to hop, and what that does to the stack.
OutFrames(ns, hop, f) == IF arp_lookup(ns, hop) THEN eth_send(f) ELSE ArpFrames(ns, hop)
OutState(ns, hop) == IF arp_lookup(ns, hop) THEN ns ELSE arp_request(ns, hop)

----------------------------------------------------------------------------
(* net_poll: one frame.                                                    *)

\* udp_input: a newer datagram replaces the one that is waiting.
udp_input(ns, f) ==
  [ns EXCEPT !.sock = [i \in 1..Socks |-> IF ns.sock[i].port = f.port
                                          THEN [ns.sock[i] EXCEPT !.have = TRUE, !.dg = f.dg] ELSE ns.sock[i]]]

\* BROKEN: any echo reply counts.
icmp_inputAny(ns, f) == [ns EXCEPT !.ping.got = TRUE, !.ping.of = f.n]

\* icmp_input: an echo reply counts only with the identifier and the sequence
\* number of the echo that is waited for.
icmp_input(ns, f) ==
  IF f.id = ns.ping.id /\ f.seq = ns.ping.seq THEN [ns EXCEPT !.ping.got = TRUE, !.ping.of = f.n] ELSE ns

\* The frames for us: [ns, out].
ForUs == {"arp_rep", "arp_req", "echo_req", "echo_rep", "dg"}
Input(ns, f) ==
  CASE f.t = "arp_rep" -> [ns |-> arp_learn(ns, f.ip, f.mac), out |-> {}]
    [] f.t = "arp_req" -> [ns |-> arp_learn(ns, f.ip, f.mac), out |-> {}]
    [] f.t = "echo_req" -> [ns |-> OutState(ns, "gw"), out |-> IF arp_lookup(ns, "gw") THEN {} ELSE ArpFrames(ns, "gw")]
    [] f.t = "echo_rep" -> [ns |-> icmp_input(ns, f), out |-> {}]
    [] f.t = "dg" -> [ns |-> udp_input(ns, f), out |-> {}]

\* A frame arrives, perhaps not for the last time, or the wait ends.
net_poll(ns, sent) ==
  \/ /\ ns.now < MaxNow
     /\ rns' = [ns EXCEPT !.now = @ + 1] /\ rair' = rair \cup sent /\ UNCHANGED rlim
  \/ \E f \in {g \in rair : g.t \in ForUs} : \E again \in BOOLEAN :
       /\ again => rlim.faults < MaxFaults
       /\ rns' = Input(ns, f).ns
       /\ rair' = (IF again THEN rair ELSE rair \ {f}) \cup sent \cup Input(ns, f).out
       /\ rlim' = IF again THEN [rlim EXCEPT !.faults = @ + 1] ELSE rlim

----------------------------------------------------------------------------
(* The operations.                                                         *)

Hop == IF rop.what = "ping" THEN "peer" ELSE "gw"   \* net_next_hop

Return(res, of) == rop' = [Idle EXCEPT !.n = rop.n, !.what = rop.what, !.res = res, !.of = of]

\* net_ping and net_dns_a begin. A DNS query needs a socket
\* (SocketsFreed: there always is one, NXE_LOC_RESOURCES is never returned).
op_net_ping ==
  /\ rop.pc = "idle" /\ rop.n < MaxOps
  /\ rop' = [Idle EXCEPT !.pc = "arp", !.what = "ping", !.n = rop.n + 1,
                         !.deadline = rns.now + PingTime, !.arpdl = rns.now + PingTime]
  /\ UNCHANGED <<rns, rair, rlim>>
Free == {i \in 1..Socks : rns.sock[i].port = 0}
op_net_resolve ==
  /\ rop.pc = "idle" /\ rop.n < MaxOps /\ Free # {}
  /\ LET s == CHOOSE i \in Free : \A j \in Free : i <= j
     IN /\ rns' = [rns EXCEPT !.sock[s] = [NoSock EXCEPT !.port = rns.port], !.port = (@ % Ports) + 1]
        /\ \E id \in Ids :
             rop' = [Idle EXCEPT !.pc = "dns", !.what = "dns", !.n = rop.n + 1, !.id = id,
                                 !.deadline = rns.now + PerTry * Tries, !.sock = s, !.res = "dns_timeout"]
  /\ UNCHANGED <<rair, rlim>>

\* net_dns_a, the head of the loop over the attempts, and its ways out.
udp_close(s) == rns' = [rns EXCEPT !.sock[s] = NoSock]
DnsEnds(res, of) ==
  Return(res, of) /\ udp_close(rop.sock) /\ UNCHANGED <<rair, rlim>>
Least(a, b) == IF a < b THEN a ELSE b
DnsAttempt ==
  /\ rop.pc = "dns"
  /\ IF rop.attempt = Tries \/ rns.now >= rop.deadline THEN DnsEnds(rop.res, 0)
     ELSE IF ~rlim.link THEN DnsEnds("link_down", 0)
     ELSE /\ rop' = [rop EXCEPT !.pc = "arp", !.arpdl = Least(rop.deadline, rns.now + PerTry)]
          /\ UNCHANGED <<rns, rair, rlim>>

\* net_arp_resolve, one turn.
ArpFails(res) ==
  /\ IF rop.what = "ping" THEN Return(res, 0)
     ELSE rop' = [rop EXCEPT !.pc = "dns", !.attempt = @ + 1, !.res = res]
  /\ UNCHANGED <<rns, rair, rlim>>
net_arp_resolve ==
  /\ rop.pc = "arp"
  /\ IF arp_lookup(rns, Hop) THEN rop' = [rop EXCEPT !.pc = "send"] /\ UNCHANGED <<rns, rair, rlim>>
     ELSE IF ~rlim.link THEN ArpFails("link_down")
     ELSE IF rns.now >= rop.arpdl THEN ArpFails("arp_timeout")
     ELSE net_poll(arp_request(rns, Hop), ArpFrames(rns, Hop)) /\ UNCHANGED rop

\* The echo is sent: a new identifier, the next sequence number.
SendPing ==
  /\ rop.pc = "send" /\ rop.what = "ping"
  /\ \E id \in Ids :
       LET ns == [rns EXCEPT !.ping = [id |-> id, seq |-> rns.ping.seq + 1, got |-> FALSE, of |-> 0]]
       IN /\ rns' = OutState(ns, Hop)
          /\ rair' = rair \cup OutFrames(ns, Hop, [t |-> "echo_rep", id |-> id, seq |-> ns.ping.seq, n |-> rop.n])
  /\ IF ~rlim.link THEN Return("link_down", 0) ELSE rop' = [rop EXCEPT !.pc = "pong"]
  /\ UNCHANGED rlim
\* The query is sent; every attempt sends the same one. The reply is an
\* address or an error: NXE_DNS_NOTFOUND and NXE_DNS_BAD_REPLY end net_dns_a alike.
SendQuery ==
  /\ rop.pc = "send" /\ rop.what = "dns"
  /\ IF ~rlim.link THEN DnsEnds("link_down", 0)
     ELSE /\ rns' = OutState(rns, Hop)
          /\ \E says \in {"ok", "error"} :
               rair' = rair \cup OutFrames(rns, Hop, [t |-> "dg", port |-> rns.sock[rop.sock].port,
                                             dg |-> [from |-> "dns", id |-> rop.id, says |-> says, n |-> rop.n]])
          /\ rop' = [rop EXCEPT !.pc = "recv", !.until = Least(rop.deadline, rns.now + PerTry)]
          /\ UNCHANGED rlim

\* net_ping waits for the reply.
PingWaits ==
  /\ rop.pc = "pong"
  /\ IF rns.ping.got THEN Return("ok", rns.ping.of) /\ UNCHANGED <<rns, rair, rlim>>
     ELSE IF rns.now >= rop.deadline THEN Return("timeout", 0) /\ UNCHANGED <<rns, rair, rlim>>
     ELSE net_poll(rns, {}) /\ UNCHANGED rop

\* net_dns_a waits for the reply: one from elsewhere, or with another
\* identifier, is dropped (dns_parse_response); an empty datagram ends the
\* attempt like a time-out, for udp_recv returns its length.
Theirs(dg) ==
  dg.from = "dns" /\ dg.id = rop.id
DnsWaits ==
  /\ rop.pc = "recv"
  /\ LET s == rns.sock[rop.sock]
     IN IF rns.now >= rop.until
        THEN rop' = [rop EXCEPT !.pc = "dns", !.attempt = @ + 1, !.res = "dns_timeout"] /\ UNCHANGED <<rns, rair, rlim>>
        ELSE IF ~s.have THEN net_poll(rns, {}) /\ UNCHANGED rop
        ELSE IF s.dg.says = "nothing"
        THEN /\ rop' = [rop EXCEPT !.pc = "dns", !.attempt = @ + 1, !.res = "dns_timeout"]
             /\ rns' = [rns EXCEPT !.sock[rop.sock].have = FALSE] /\ UNCHANGED <<rair, rlim>>
        ELSE IF Theirs(s.dg) THEN DnsEnds(s.dg.says, s.dg.n)
        ELSE rns' = [rns EXCEPT !.sock[rop.sock].have = FALSE] /\ UNCHANGED <<rop, rair, rlim>>

----------------------------------------------------------------------------
(* The network (external).                                                 *)

\* The link changes, or somebody sends us something.
Strays == {[t |-> "arp_req", ip |-> "peer", mac |-> 2], [t |-> "echo_req"]}
          \cup {[t |-> "dg", port |-> IF rns.port = 1 THEN Ports ELSE rns.port - 1,
                 dg |-> [from |-> "other", id |-> 1, says |-> says, n |-> 0]] : says \in {"ok", "nothing"}}
Fault ==
  /\ rlim.faults < MaxFaults /\ rop.pc # "idle"
  /\ \/ rlim' = [link |-> ~rlim.link, faults |-> rlim.faults + 1] /\ UNCHANGED rair
     \/ \E f \in Strays : rair' = rair \cup {f} /\ rlim' = [rlim EXCEPT !.faults = @ + 1]
  /\ UNCHANGED <<rns, rop>>

Runs == DnsAttempt \/ net_arp_resolve \/ SendPing \/ SendQuery \/ PingWaits \/ DnsWaits
Next == op_net_ping \/ op_net_resolve \/ Runs \/ Fault

\* The operation keeps running, and its polls end.
Fairness == WF_resVars(Runs)
Spec == Init /\ [][Next]_resVars /\ Fairness

----------------------------------------------------------------------------
TypeOK == /\ rop.pc \in {"idle", "dns", "arp", "send", "pong", "recv"} /\ rop.attempt \in 0..Tries
          /\ rns.now \in 1..MaxNow /\ rns.port \in 1..Ports
          /\ \A i \in 1..Socks : rns.sock[i].port \in 0..Ports
          /\ \A i, j \in 1..ArpEntries : rns.arp[i].ip = rns.arp[j].ip /\ i # j => rns.arp[i].ip = "none"

\* What an operation reports is the reply to what it sent: an echo reply or a
\* DNS answer that belongs to an earlier operation and comes late, or comes
\* from elsewhere, never ends this one (icmp_input, net_dns_a).
RepliesMatch == rop.pc = "idle" /\ rop.res \in {"ok", "error"} => rop.of = rop.n

\* Between operations no UDP socket is in use, whichever way the last one
\* ended: net_dns_a never runs out of sockets.
SocketsFreed == rop.pc = "idle" => Free = 1..Socks

\* No operation outstays its time, however its tries and its waits for ARP
\* add up (net_ping, net_dns_a).
InTime == rop.pc # "idle" => rns.now <= rop.deadline

\* Every ping and every resolution returns, whatever the network does.
Returns == rop.pc # "idle" ~> rop.pc = "idle"
=============================================================================
