-------------------------------- MODULE Rng --------------------------------
(***************************************************************************)
(* Random numbers: the entropy device (kernel/dev/virtio_net.c, ENTROPY),  *)
(* the health test and the generator (lib/crypto/drbg.c), and how the core *)
(* seeds, uses and reseeds it (user/core/m5net.c).  The generator's secret *)
(* state is the history of what went into it.                              *)
(***************************************************************************)
EXTENDS Integers, Sequences, FiniteSets

CONSTANTS Bytes, SeedLen,                   \* NX_DRBG_SEED_LEN bytes of entropy
          RctCutoff, AptWindow, AptCutoff,  \* the health test
          Interval,                         \* NX_DRBG_RESEED_INTERVAL
          EmptyMax, TriesMax,               \* empty answers of the device; tries of gather
          MaxCalls

VARIABLES gread,  \* gather under way and its read of the device
          grand,  \* the generator and rng_ok
          glog    \* history: the outputs, what each seed was, the calls
rngVars == <<gread, grand, glog>>

\* A run of RctCutoff equal bytes, or more than AptCutoff of one in a window.
nx_entropy_health(b) ==
  /\ b # <<>>
  /\ \A i \in 1..(Len(b) - RctCutoff + 1) : \E j \in i..(i + RctCutoff - 1) : b[j] # b[i]
  /\ \A w \in {i \in 1..Len(b) : i % AptWindow = 1} : \A x \in Bytes :
       Cardinality({i \in w..(w + AptWindow - 1) : i <= Len(b) /\ b[i] = x}) <= AptCutoff

NoRead == [for |-> "none", buf |-> <<>>, empty |-> 0, tries |-> 0]
Gather(why) == [NoRead EXCEPT !.for = why]

\* m5_init calls seed.
Init ==
  /\ gread = Gather("seed")
  /\ grand = [ok |-> FALSE, seeds |-> 0, gens |-> 0, counter |-> 0]
  /\ glog = [out |-> <<>>, seedOf |-> <<>>, calls |-> 0]

\* nx_drbg_instantiate and nx_drbg_reseed: the seed goes into the state, and
\* the interval starts again.
Seeded(g) == [g EXCEPT !.ok = TRUE, !.seeds = @ + 1, !.counter = 1]

\* BROKEN: the state does not move on.
nx_drbg_generateStill(g) ==
  [g EXCEPT !.counter = @ + 1]

\* nx_drbg_generate: what comes out is a function of the state, which moves on.
nx_drbg_generate(g) ==
  [g EXCEPT !.counter = @ + 1, !.gens = @ + 1]
Output(g) == [seeds |-> g.seeds, gens |-> g.gens]
Gives(g, log) == grand' = nx_drbg_generate(g) /\ glog' = [log EXCEPT !.out = Append(@, Output(g))]

\* m5_random: refused without a healthy generator or for too much at once.
MustReseed(g) ==
  g.counter > Interval
m5_random ==
  LET log == [glog EXCEPT !.calls = @ + 1]
  IN /\ gread.for = "none" /\ glog.calls < MaxCalls
     /\ \/ /\ glog' = log /\ UNCHANGED <<gread, grand>>    \* ~rng_ok, or a request too long
        \/ grand.ok /\ ~MustReseed(grand) /\ Gives(grand, log) /\ UNCHANGED gread
        \/ grand.ok /\ MustReseed(grand) /\ gread' = Gather("reseed") /\ glog' = log /\ UNCHANGED grand

\* nx_rng_read: pieces of any length until enough; too many empty ones, or no
\* answer at all, is an error.
Piece(p) ==
  gread' = IF p = <<>> THEN [gread EXCEPT !.empty = @ + 1] ELSE [gread EXCEPT !.buf = @ \o p]
Reading == gread.for # "none" /\ Len(gread.buf) < SeedLen
nx_rng_read ==
  /\ Reading
  /\ \E n \in 0..(SeedLen - Len(gread.buf)) : \E p \in [1..n -> Bytes] :
       /\ (n = 0 => gread.empty < EmptyMax)
       /\ Piece(p)
  /\ UNCHANGED <<grand, glog>>
GatherFails ==
  /\ gread' = NoRead /\ grand' = [grand EXCEPT !.ok = FALSE] /\ UNCHANGED glog
ReadFails == Reading /\ GatherFails

\* BROKEN: the tries are not counted.
RetryUncounted ==
  Gather(gread.for)

\* gather: what fails the health test is read again, up to TriesMax times.
Retry ==
  [Gather(gread.for) EXCEPT !.tries = gread.tries + 1]
gather ==
  /\ gread.for # "none" /\ Len(gread.buf) = SeedLen
  /\ \/ /\ ~nx_entropy_health(gread.buf) /\ gread.tries + 1 < TriesMax
        /\ gread' = Retry
        /\ UNCHANGED <<grand, glog>>
     \/ /\ ~nx_entropy_health(gread.buf) /\ gread.tries + 1 >= TriesMax
        /\ GatherFails
     \/ /\ nx_entropy_health(gread.buf) /\ gread' = NoRead
        /\ LET log == [glog EXCEPT !.seedOf = Append(@, gread.buf)]
           IN IF gread.for = "seed" THEN grand' = Seeded(grand) /\ glog' = log
              ELSE Gives(Seeded(grand), log)

Next == m5_random \/ nx_rng_read \/ ReadFails \/ gather
\* The device answers or the driver's limit ends the wait.
Fairness == WF_rngVars(nx_rng_read \/ ReadFails \/ gather)
Spec == Init /\ [][Next]_rngVars /\ Fairness

----------------------------------------------------------------------------
\* One interval never gives more than Interval outputs (the reseed counter of
\* nx_drbg_generate).
TypeOK ==
  /\ gread.for \in {"none", "seed", "reseed"} /\ Len(gread.buf) <= SeedLen
  /\ gread.empty \in 0..EmptyMax /\ gread.tries \in 0..TriesMax
  /\ \A s \in 0..grand.seeds : Cardinality({i \in 1..Len(glog.out) : glog.out[i].seeds = s}) <= Interval

\* No output repeats: the state moves on with every request, across reseeds.
OutputsDiffer == \A i, j \in 1..Len(glog.out) : glog.out[i] = glog.out[j] => i = j

\* Every output rests on entropy without a repeated run and without a byte
\* that dominates, the last seed included; a stuck device yields none (seed,
\* m5_random, gather).
Stuck(b) == \/ \E i \in 1..(Len(b) - RctCutoff + 1) : Cardinality({b[j] : j \in i..(i + RctCutoff - 1)}) = 1
            \/ \E x \in Bytes : Len(SelectSeq(SubSeq(b, 1, AptWindow), LAMBDA y : y = x)) > AptCutoff
SeedsHealthy == \A i \in 1..Len(glog.out) :
                  glog.out[i].seeds >= 1 /\ \A s \in 1..glog.out[i].seeds : ~Stuck(glog.seedOf[s])

\* Gathering entropy ends, whatever the device answers (nx_rng_read counts the
\* empty answers, gather its tries).
GatherEnds == []<>(gread.for = "none")
=============================================================================
