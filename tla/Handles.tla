------------------------------ MODULE Handles ------------------------------
(***************************************************************************)
(* Handle tables (kernel/obj/handle.c): what a handle value stands for     *)
(* after it was closed, duplicated with fewer rights or moved to another   *)
(* task by a message, and its slot was used again.                         *)
(***************************************************************************)
EXTENDS Integers

CONSTANTS Tables, HandleSlots, GenMax,   \* NX_HANDLE_SLOTS, NX_HANDLE_GEN_MAX
          Objects, Rights,               \* Rights: "dup", "move" and others
          MaxSteps                       \* a bound on the instance

VARIABLES ht,      \* [Tables -> [slots -> entry]]
          hmoving, \* the entry a message carries, or none
          hissued, \* history: every handle value handed out, and how often its
                   \* slot was freed since it went
          hsteps

handleVars == <<ht, hmoving, hissued, hsteps>>
HSlots == 0 .. HandleSlots - 1
Free == "free"

\* encode packs the slot into a byte.
HandleConstants == /\ HandleSlots \in Nat /\ HandleSlots < 256 /\ GenMax \in Nat \ {0}
                   /\ Free \notin Objects /\ {"dup", "move"} \subseteq Rights

\* encode
encode(i, gen) == gen * 256 + i + 1

\* BROKEN: a slot keeps its generation.
bumpNot(gen) ==
  gen

bump(gen) ==
  IF gen >= GenMax THEN 1 ELSE gen + 1

\* nx_ht_install: the first free slot, and the value that names it.
FreeSlots(t) == {i \in HSlots : ht[t][i].obj = Free}
First(S) == CHOOSE i \in S : \A j \in S : i <= j
Issue(t, i, o, r) == hissued \cup {[t |-> t, h |-> encode(i, ht[t][i].gen), slot |-> i, obj |-> o, freed |-> 0,
                                    live |-> TRUE]}
nx_ht_install(t, o, r) ==
  /\ FreeSlots(t) # {}
  /\ LET i == First(FreeSlots(t))
     IN /\ ht' = [ht EXCEPT ![t][i] = [@ EXCEPT !.obj = o, !.rights = r]]
        /\ hissued' = Issue(t, i, o, r)

\* entry: what the value h names in table t.
entry(t, h) == {i \in HSlots : h % 256 = i + 1 /\ ht[t][i].obj # Free /\ ht[t][i].gen = h \div 256}
nx_ht_lookup(t, h, need) == {i \in entry(t, h) : need \subseteq ht[t][i].rights}

\* nx_ht_close and nx_ht_take empty the slot.
Gone(t, i) == {IF x.t = t /\ x.slot = i THEN [x EXCEPT !.live = FALSE, !.freed = IF @ < GenMax THEN @ + 1 ELSE @] ELSE x : x \in hissued}
Empty(t, i) == /\ ht' = [ht EXCEPT ![t][i] = [obj |-> Free, rights |-> {}, gen |-> bump(@.gen)]]
               /\ hissued' = Gone(t, i)
nx_ht_close(t, h) == /\ \E i \in entry(t, h) : Empty(t, i)
                     /\ UNCHANGED hmoving

nx_ht_dup(t, h, r) ==
  /\ \E i \in nx_ht_lookup(t, h, {"dup"}) : r \subseteq ht[t][i].rights /\ nx_ht_install(t, ht[t][i].obj, r)
  /\ UNCHANGED hmoving
nx_ht_take(t, h, r) ==
  /\ hmoving.obj = Free
  /\ \E i \in nx_ht_lookup(t, h, {"move"}) :
       r \subseteq ht[t][i].rights /\ hmoving' = [obj |-> ht[t][i].obj, rights |-> r] /\ Empty(t, i)
\* The receiver installs what the message carries (sys_ipc_recv).
Receive(t) == /\ hmoving.obj # Free /\ nx_ht_install(t, hmoving.obj, hmoving.rights)
              /\ hmoving' = [obj |-> Free, rights |-> {}]

\* nx_ht_init, and each object granted once, one of them with every right.
FirstRights(o) == IF o = CHOOSE x \in Objects : TRUE THEN Rights ELSE {"dup", "move"}
Init == /\ ht = [t \in Tables |-> [i \in HSlots |-> [obj |-> Free, rights |-> {}, gen |-> 1]]]
        /\ hmoving = [obj |-> Free, rights |-> {}] /\ hissued = {} /\ hsteps = 0
Granted(o) == hmoving.obj = o \/ \E x \in hissued : x.obj = o
Grants == \E t \in Tables, o \in Objects : ~Granted(o) /\ nx_ht_install(t, o, FirstRights(o)) /\ UNCHANGED hmoving

Values == {x.h : x \in hissued}
Next == /\ hsteps < MaxSteps /\ hsteps' = hsteps + 1
        /\ \/ Grants
           \/ \E t \in Tables : Receive(t)
           \/ \E t \in Tables, h \in Values : \/ nx_ht_close(t, h)
                                              \/ \E r \in SUBSET Rights : nx_ht_dup(t, h, r) \/ nx_ht_take(t, h, r)
Spec == Init /\ [][Next]_handleVars

----------------------------------------------------------------------------
TypeOK == \A t \in Tables : \A i \in HSlots : ht[t][i].gen \in 1..GenMax /\ (ht[t][i].obj = Free => ht[t][i].rights = {})

\* A value names what it was handed out for until it is closed or moved, and
\* then nothing until its slot was freed GenMax times: an old identifier does
\* not reach a new object (handle.h, entry, bump).
StaleRejected ==
  \A x \in hissued : IF x.live THEN entry(x.t, x.h) = {x.slot} /\ ht[x.t][x.slot].obj = x.obj
                     ELSE x.freed >= GenMax \/ entry(x.t, x.h) = {}

\* Rights are only kept or dropped: however a handle was duplicated and moved,
\* it carries no right that the first handle of the object did not (nx_ht_dup,
\* nx_ht_take).
RightsKept ==
  /\ \A t \in Tables, i \in HSlots : ht[t][i].obj # Free => ht[t][i].rights \subseteq FirstRights(ht[t][i].obj)
  /\ hmoving.obj # Free => hmoving.rights \subseteq FirstRights(hmoving.obj)

\* A closed handle's value finds nothing until the generation wraps, and no
\* handle gains a right on its way through duplicates and messages (bump,
\* nx_ht_dup, nx_ht_take).
HandlesSound == TypeOK /\ StaleRejected /\ RightsKept
=============================================================================
