------------------------------- MODULE Chain -------------------------------
(***************************************************************************)
(* The search for a path from a server's certificate to a trust anchor     *)
(* (lib/tls/x509.c, nx_x509_verify_chain), one turn of its loop per step,  *)
(* over the certificate lists of an instance.                              *)
(***************************************************************************)
EXTENDS Integers, Sequences, FiniteSets

CONSTANTS Pools,     \* [certs, anchors]: sequences of certificates, the leaf first
          ChainMax   \* NX_CHAIN_MAX

\* A certificate (struct nx_cert): subject, issuer and the key that signed it;
\* valid now; version; bc: it has basic constraints and they say CA; sign: no key
\* usage, or one that allows to sign certificates; plen: the path length, -1 for
\* none; leaf: what is wrong with it as a server's certificate.
VARIABLES xpool, xcur, xdepth, xused, xsig, xres
chainVars == <<xpool, xcur, xdepth, xused, xsig, xres>>

Certs == xpool.certs
Anchors == xpool.anchors

\* BROKEN: the path length is off by one.
can_issueLong(c, below) ==
  (c.version = 3 => c.bc) /\ c.sign /\ (c.plen >= 0 => below < c.plen)

\* Certificates before version 3 have no extensions to say that they are a CA's.
can_issue(c, below) ==
  (c.version = 3 => c.bc) /\ c.sign /\ (c.plen >= 0 => below <= c.plen)

same_name(c, issuer) == c.issuer = issuer.subject
nx_x509_check_signature(c, issuer) == c.signer = issuer.key
Issued(c, issuer) == same_name(c, issuer) /\ nx_x509_check_signature(c, issuer)

\* What is checked before the search: a certificate, its names, its usages.
LeafError(p) ==
  IF p.certs = <<>> THEN "bad" ELSE IF p.certs[1].leaf = "name" THEN "name" ELSE IF p.certs[1].leaf = "usage" THEN "bad" ELSE "none"

Init == /\ xpool \in Pools
        /\ xcur = 1 /\ xdepth = 0 /\ xused = {1} /\ xsig = FALSE
        /\ xres = LeafError(xpool)

Ends(e) == xres' = e /\ UNCHANGED <<xpool, xcur, xdepth, xused, xsig>>

\* The first of the indices that the loop over a list stops at.
FirstOf(S) == CHOOSE i \in S : \A j \in S : i <= j

\* used |= 1u << i
Mark(i) ==
  xused \cup {i}

\* One turn: an anchor that issued the current certificate, the certificate
\* itself as an anchor, or the next certificate of the server's list.
Turn ==
  LET c == Certs[xcur]
      by == {i \in 1..Len(Anchors) : Issued(c, Anchors[i])}
      a == Anchors[FirstOf(by)]
      ups == {i \in 2..Len(Certs) : i \notin xused /\ Issued(c, Certs[i])}
      up == FirstOf(ups)
      \* the signatures that failed before the search of a list stopped
      badA == \E i \in 1..Len(Anchors) : same_name(c, Anchors[i]) /\ ~nx_x509_check_signature(c, Anchors[i])
      badC == \E i \in 2..Len(Certs) : /\ i \notin xused /\ same_name(c, Certs[i]) /\ ~nx_x509_check_signature(c, Certs[i])
                                       /\ ups # {} => i < up
  IN /\ xres = "none" /\ xdepth < ChainMax
     /\ \/ ~c.valid /\ Ends("expired")
        \/ c.valid /\ by # {} /\ ~a.valid /\ Ends("expired")
        \/ c.valid /\ by # {} /\ a.valid /\ ~can_issue(a, xdepth) /\ Ends("bad")
        \/ c.valid /\ by # {} /\ a.valid /\ can_issue(a, xdepth) /\ Ends("ok")
        \/ c.valid /\ by = {} /\ (\E i \in 1..Len(Anchors) : Anchors[i] = c) /\ Ends("ok")
        \/ /\ c.valid /\ by = {} /\ \A i \in 1..Len(Anchors) : Anchors[i] # c
           /\ \/ ups # {} /\ ~can_issue(Certs[up], xdepth) /\ Ends("bad")
              \/ /\ ups # {} /\ can_issue(Certs[up], xdepth)
                 /\ xcur' = up /\ xused' = Mark(up) /\ xdepth' = xdepth + 1
                 /\ xsig' = (xsig \/ badA \/ badC) /\ UNCHANGED <<xpool, xres>>
              \/ ups = {} /\ Ends(IF xsig \/ badA \/ badC THEN "signature" ELSE "untrusted")
TooLong == xres = "none" /\ xdepth = ChainMax /\ Ends("untrusted")
Next == Turn \/ TooLong
Spec == Init /\ [][Next]_chainVars

----------------------------------------------------------------------------
\* The search marks the certificates on its path, each once.
TypeOK == /\ xcur \in xused /\ xdepth \in 0..ChainMax /\ xsig \in BOOLEAN
          /\ (xres = "none" => Cardinality(xused) = xdepth + 1)

\* A path: distinct certificates from the leaf up, each valid, each let to issue
\* what is below it, the last one an anchor or issued by one.
MayIssue(c, cas) == c.sign /\ (c.bc \/ c.version # 3) /\ c.plen \in {-1} \cup cas..10
PathTo(p) ==
  LET n == Len(p)
      last == Certs[p[n]]
  IN /\ p[1] = 1 /\ \A i, j \in 1..n : p[i] = p[j] => i = j
     /\ \A i \in 1..n : Certs[p[i]].valid
     /\ \A i \in 2..n : Issued(Certs[p[i - 1]], Certs[p[i]]) /\ MayIssue(Certs[p[i]], i - 2)
     /\ \E i \in 1..Len(Anchors) :
          Anchors[i] = last \/ (Issued(last, Anchors[i]) /\ Anchors[i].valid /\ MayIssue(Anchors[i], n - 1))
HasPath == /\ Certs # <<>> /\ Certs[1].leaf = "fine"
           /\ \E n \in 1..Len(Certs) : n <= ChainMax /\ \E p \in [1..n -> 1..Len(Certs)] : PathTo(p)

\* A server is accepted only if a path leads from its certificate to an anchor,
\* with every signature, date, right to issue and path length on it in order
\* (nx_x509_verify_chain).
ChainSound == xres = "ok" => HasPath

\* A path is found whenever there is one and no certificate has two issuers to
\* choose from: the search never turns back, so a list with two certificates of
\* one name and key may be refused although a path exists (the loop over certs).
ChainFound ==
  LET all == {Certs[i] : i \in 1..Len(Certs)} \cup {Anchors[i] : i \in 1..Len(Anchors)}
      plain == \A c \in all : Cardinality({u \in all : Issued(c, u)} \ {c}) <= 1
  IN xres \notin {"none", "ok"} /\ plain => ~HasPath
=============================================================================
