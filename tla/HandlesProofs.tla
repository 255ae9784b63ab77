--------------------------- MODULE HandlesProofs ----------------------------
(***************************************************************************)
(* Handle tables of any size up to 255 slots, any number of tables and any *)
(* number of generations: no stale value reaches a new object before its   *)
(* slot was freed GenMax times, and no right is gained.                    *)
(***************************************************************************)
EXTENDS Handles, WellFoundedInduction, TLAPS

USE Zenon

Entries == [obj : Objects \cup {Free}, rights : SUBSET Rights, gen : 1..GenMax]
Issued == [t : Tables, h : Nat, slot : HSlots, obj : Objects, freed : 0..GenMax, live : BOOLEAN]

Typed == /\ ht \in [Tables -> [HSlots -> Entries]]
         /\ hmoving \in [obj : Objects \cup {Free}, rights : SUBSET Rights]
         /\ hissued \subseteq Issued
         /\ \A t \in Tables, i \in HSlots : ht[t][i].obj = Free => ht[t][i].rights = {}

\* After as many frees as x has seen, fewer than GenMax, the generation of a
\* slot that had g is the freed-th after g.
After(g, n) == IF g + n <= GenMax THEN g + n ELSE g + n - GenMax

\* A value handed out was made from the slot and a generation; as long as its
\* slot was freed less than GenMax times the slot's generation tells how often.
Aged == \A x \in hissued :
          \E g \in 1..GenMax :
            /\ x.h = encode(x.slot, g)
            /\ x.live => x.freed = 0 /\ ht[x.t][x.slot].obj = x.obj
            /\ ~x.live => x.freed > 0
            /\ x.freed < GenMax => ht[x.t][x.slot].gen = After(g, x.freed)

IInv == Typed /\ Aged /\ RightsKept

LEMMA EncodeSplits ==
    ASSUME HandleConstants, NEW i \in HSlots, NEW g \in 1..GenMax
    PROVE  encode(i, g) \in Nat /\ encode(i, g) % 256 = i + 1 /\ encode(i, g) \div 256 = g
<1>1. i \in Int /\ 0 <= i /\ i + 1 < 256 /\ g \in Int /\ g >= 1
  BY SMTT(30) DEF HandleConstants, HSlots
<1> QED
  BY <1>1, SMTT(30) DEF encode

\* The loop of nx_ht_install finds a slot if there is one.
LEMMA FirstFree == ASSUME HandleConstants, NEW t, FreeSlots(t) # {} PROVE First(FreeSlots(t)) \in FreeSlots(t)
<1> DEFINE R == OpToRel(<, Nat)
<1>1. \A x, y \in Nat : x < y => <<x, y>> \in R
  BY DEF OpToRel
<1>2. IsWellFoundedOn(R, Nat)
  BY NatLessThanWellFounded
<1> HIDE DEF R
<1>3. FreeSlots(t) \subseteq Nat
  BY SMTT(30) DEF FreeSlots, HSlots, HandleConstants
<1>4. PICK x \in FreeSlots(t) : \A y \in FreeSlots(t) : ~(<<y, x>> \in R)
  BY <1>2, <1>3, WFMin
<1>5. ASSUME NEW y \in FreeSlots(t) PROVE x <= y
  <2>1. x \in Nat /\ y \in Nat
    BY <1>3
  <2>2. ~(y < x)
    BY <1>1, <1>4, <2>1
  <2> QED
    BY <2>1, <2>2, SMTT(30)
<1>6. \E i \in FreeSlots(t) : \A j \in FreeSlots(t) : i <= j
  BY <1>5
<1> QED
  BY <1>6 DEF First

LEMMA BumpAges ==
    ASSUME HandleConstants, NEW g \in 1..GenMax, NEW n \in 0..GenMax, n + 1 < GenMax
    PROVE  bump(After(g, n)) = After(g, n + 1)
BY SMTT(30) DEF HandleConstants, bump, After

LEMMA BumpTyped == ASSUME HandleConstants, NEW g \in 1..GenMax PROVE bump(g) \in 1..GenMax
BY SMTT(30) DEF HandleConstants, bump

LEMMA InitIInv == ASSUME HandleConstants, Init PROVE IInv
<1>1. GenMax \in Nat /\ 1 \in 1..GenMax
  BY SMTT(30) DEF HandleConstants
<1>2. Typed
  BY <1>1 DEF Init, Typed, Entries, HandleConstants
<1>3. Aged /\ RightsKept
  BY DEF Init, Aged, RightsKept
<1> QED
  BY <1>2, <1>3 DEF IInv

\* An object in a new slot, with rights that its first handle had.
LEMMA InstallStep ==
    ASSUME HandleConstants, IInv, NEW t \in Tables, NEW o \in Objects, NEW r \in SUBSET Rights,
           r \subseteq FirstRights(o), nx_ht_install(t, o, r)
    PROVE  /\ ht' \in [Tables -> [HSlots -> Entries]] /\ hissued' \subseteq Issued
           /\ \A u \in Tables, i \in HSlots : ht'[u][i].obj = Free => ht'[u][i].rights = {}
           /\ Aged'
           /\ \A u \in Tables, i \in HSlots : ht'[u][i].obj # Free => ht'[u][i].rights \subseteq FirstRights(ht'[u][i].obj)
<1> DEFINE s == First(FreeSlots(t))
           e == [ht[t][s] EXCEPT !.obj = o, !.rights = r]
           y == [t |-> t, h |-> encode(s, ht[t][s].gen), slot |-> s, obj |-> o, freed |-> 0, live |-> TRUE]
<1>1. /\ s \in HSlots /\ ht[t][s].obj = Free /\ ht' = [ht EXCEPT ![t][s] = e]
      /\ hissued' = hissued \cup {y}
  BY FirstFree DEF nx_ht_install, FreeSlots, Issue
<1> HIDE DEF s
<1>2. ht \in [Tables -> [HSlots -> Entries]] /\ hissued \subseteq Issued /\ ht[t][s] \in Entries
  BY <1>1 DEF IInv, Typed
<1>3. e \in Entries /\ e.obj = o /\ e.rights = r /\ e.gen = ht[t][s].gen /\ e.gen \in 1..GenMax
  BY <1>2 DEF Entries
<1>4. y \in Issued
  BY <1>1, <1>2, <1>3, EncodeSplits, SMTT(30) DEF Issued, HandleConstants
<1> HIDE DEF e
<1>5. ht' \in [Tables -> [HSlots -> Entries]] /\ hissued' \subseteq Issued
  BY <1>1, <1>2, <1>3, <1>4
<1>6. /\ ht'[t][s] = e
      /\ \A u \in Tables, i \in HSlots : (u # t \/ i # s) => ht'[u][i] = ht[u][i]
  BY <1>1, <1>2
<1>7. o # Free
  BY DEF HandleConstants
<1>8. ASSUME NEW u \in Tables, NEW i \in HSlots
      PROVE  /\ ht'[u][i].obj = Free => ht'[u][i].rights = {}
             /\ ht'[u][i].obj # Free => ht'[u][i].rights \subseteq FirstRights(ht'[u][i].obj)
  BY <1>3, <1>6, <1>7, SMTT(30) DEF IInv, Typed, RightsKept
<1>9. ASSUME NEW x \in hissued'
      PROVE  \E g \in 1..GenMax :
                /\ x.h = encode(x.slot, g)
                /\ x.live => x.freed = 0 /\ ht'[x.t][x.slot].obj = x.obj
                /\ ~x.live => x.freed > 0
                /\ x.freed < GenMax => ht'[x.t][x.slot].gen = After(g, x.freed)
  <2>1. CASE x = y
    <3>1. /\ x.h = encode(s, ht[t][s].gen) /\ x.slot = s /\ x.t = t /\ x.live /\ x.freed = 0 /\ x.obj = o
          /\ After(e.gen, 0) = e.gen
      BY <1>3, <2>1, SMTT(30) DEF After
    <3> QED
      BY <1>3, <1>6, <3>1
  <2>2. CASE x \in hissued
    <3>1. PICK g \in 1..GenMax :
                /\ x.h = encode(x.slot, g)
                /\ x.live => x.freed = 0 /\ ht[x.t][x.slot].obj = x.obj
                /\ ~x.live => x.freed > 0
                /\ x.freed < GenMax => ht[x.t][x.slot].gen = After(g, x.freed)
      BY <2>2 DEF IInv, Aged
    <3>2. x.t \in Tables /\ x.slot \in HSlots /\ x.obj # Free
      BY <1>2, <2>2 DEF Issued, HandleConstants
    <3>3. ht'[x.t][x.slot].gen = ht[x.t][x.slot].gen
      BY <1>3, <1>6, <3>2
    <3>4. x.live => ht'[x.t][x.slot].obj = x.obj
      BY <1>1, <1>6, <3>1, <3>2
    <3> QED
      BY <3>1, <3>3, <3>4
  <2> QED
    BY <1>1, <2>1, <2>2
<1>10. Aged'
  BY <1>9 DEF Aged
<1> QED
  BY <1>5, <1>8, <1>10

\* A slot emptied: every value handed out for it has seen one more free.
LEMMA EmptyStep ==
    ASSUME HandleConstants, IInv, NEW t \in Tables, NEW s \in HSlots, Empty(t, s)
    PROVE  /\ ht' \in [Tables -> [HSlots -> Entries]] /\ hissued' \subseteq Issued
           /\ \A u \in Tables, i \in HSlots : ht'[u][i].obj = Free => ht'[u][i].rights = {}
           /\ Aged'
           /\ \A u \in Tables, i \in HSlots : ht'[u][i].obj # Free => ht'[u][i].rights \subseteq FirstRights(ht'[u][i].obj)
<1> DEFINE e == [obj |-> Free, rights |-> {}, gen |-> bump(ht[t][s].gen)]
<1>1. /\ ht \in [Tables -> [HSlots -> Entries]] /\ hissued \subseteq Issued /\ ht[t][s] \in Entries
      /\ ht[t][s].gen \in 1..GenMax
  BY DEF IInv, Typed, Entries
<1>2. ht' = [ht EXCEPT ![t][s] = e]
  BY <1>1 DEF Empty
<1>3. e \in Entries /\ e.obj = Free /\ e.rights = {} /\ e.gen = bump(ht[t][s].gen)
  BY <1>1, BumpTyped DEF Entries
<1> HIDE DEF e
<1>4. ht' \in [Tables -> [HSlots -> Entries]]
  BY <1>1, <1>2, <1>3
<1>5. /\ ht'[t][s] = e
      /\ \A u \in Tables, i \in HSlots : (u # t \/ i # s) => ht'[u][i] = ht[u][i]
  BY <1>1, <1>2
<1>6. ASSUME NEW u \in Tables, NEW i \in HSlots
      PROVE  /\ ht'[u][i].obj = Free => ht'[u][i].rights = {}
             /\ ht'[u][i].obj # Free => ht'[u][i].rights \subseteq FirstRights(ht'[u][i].obj)
  BY <1>3, <1>5, SMTT(30) DEF IInv, Typed, RightsKept
<1>7. ASSUME NEW x \in hissued'
      PROVE  /\ x \in Issued
             /\ \E g \in 1..GenMax :
                /\ x.h = encode(x.slot, g)
                /\ x.live => x.freed = 0 /\ ht'[x.t][x.slot].obj = x.obj
                /\ ~x.live => x.freed > 0
                /\ x.freed < GenMax => ht'[x.t][x.slot].gen = After(g, x.freed)
  <2>1. PICK w \in hissued :
           x = IF w.t = t /\ w.slot = s
               THEN [w EXCEPT !.live = FALSE, !.freed = IF @ < GenMax THEN @ + 1 ELSE @] ELSE w
    BY DEF Empty, Gone
  <2>2. w \in Issued
    BY <1>1
  <2>3. PICK g \in 1..GenMax :
                /\ w.h = encode(w.slot, g)
                /\ w.live => w.freed = 0 /\ ht[w.t][w.slot].obj = w.obj
                /\ ~w.live => w.freed > 0
                /\ w.freed < GenMax => ht[w.t][w.slot].gen = After(g, w.freed)
    BY DEF IInv, Aged
  <2>4. CASE w.t = t /\ w.slot = s
    <3>0. PICK n : n = IF w.freed < GenMax THEN w.freed + 1 ELSE w.freed
      OBVIOUS
    <3>a. x = [w EXCEPT !.live = FALSE, !.freed = n]
      BY <2>1, <2>2, <2>4, <3>0 DEF Issued
    <3>b. w.freed \in 0..GenMax /\ GenMax \in Nat \ {0} /\ n \in 0..GenMax
      BY <2>2, <3>0, SMTT(30) DEF Issued, HandleConstants
    <3>c. /\ x.h = w.h /\ x.slot = w.slot /\ x.t = w.t /\ x.obj = w.obj /\ x.freed = n /\ x.live = FALSE
          /\ x \in Issued
      BY <2>2, <3>a, <3>b DEF Issued
    <3>1. /\ w.freed \in 0..GenMax /\ GenMax \in Nat \ {0}
          /\ x.h = w.h /\ x.slot = s /\ x.t = t /\ ~x.live /\ x.obj = w.obj
          /\ x.freed = IF w.freed < GenMax THEN w.freed + 1 ELSE w.freed
          /\ x \in Issued
      BY <2>4, <3>0, <3>b, <3>c
    <3>2. x.freed > 0
      BY <3>1, SMTT(30)
    <3>3. ASSUME x.freed < GenMax PROVE ht'[t][s].gen = After(g, x.freed)
      <4>1. x.freed = w.freed + 1 /\ w.freed + 1 < GenMax
        BY <3>1, <3>3
      <4>2. ht[t][s].gen = After(g, w.freed)
        BY <2>3, <2>4, <3>1, <4>1
      <4> QED
        BY <1>3, <1>5, <3>1, <4>1, <4>2, BumpAges, SMTT(30)
    <3>4. x.h = encode(x.slot, g)
      BY <2>3, <2>4, <3>1
    <3>5. x.freed < GenMax => ht'[x.t][x.slot].gen = After(g, x.freed)
      BY <3>1, <3>3
    <3>6. ~x.live /\ x \in Issued
      BY <3>1
    <3> QED
      BY <3>2, <3>4, <3>5, <3>6
  <2>5. CASE ~(w.t = t /\ w.slot = s)
    <3>1. x = w /\ w.t \in Tables /\ w.slot \in HSlots
      BY <2>1, <2>2, <2>5 DEF Issued
    <3>2. ht'[w.t][w.slot] = ht[w.t][w.slot]
      BY <1>5, <2>5, <3>1
    <3> QED
      BY <2>2, <2>3, <3>1, <3>2
  <2> QED
    BY <2>4, <2>5
<1>8. Aged'
  BY <1>7 DEF Aged
<1> QED
  BY <1>4, <1>6, <1>7, <1>8

LEMMA StepIInv == ASSUME HandleConstants, IInv, [Next]_handleVars PROVE IInv'
<1>1. /\ ht \in [Tables -> [HSlots -> Entries]] /\ hissued \subseteq Issued
      /\ hmoving \in [obj : Objects \cup {Free}, rights : SUBSET Rights]
      /\ \A t \in Tables, i \in HSlots : ht[t][i] \in Entries
  BY DEF IInv, Typed
<1>2. CASE UNCHANGED handleVars
  BY <1>2 DEF handleVars, IInv, Typed, Aged, RightsKept
<1>3. ASSUME NEW t \in Tables, NEW o \in Objects, nx_ht_install(t, o, FirstRights(o)), UNCHANGED hmoving
      PROVE  IInv'
  <2>1. FirstRights(o) \in SUBSET Rights
    BY DEF FirstRights, HandleConstants
  <2>2. /\ ht' \in [Tables -> [HSlots -> Entries]] /\ hissued' \subseteq Issued
        /\ \A u \in Tables, i \in HSlots : ht'[u][i].obj = Free => ht'[u][i].rights = {}
        /\ Aged'
        /\ \A u \in Tables, i \in HSlots : ht'[u][i].obj # Free => ht'[u][i].rights \subseteq FirstRights(ht'[u][i].obj)
    BY <1>3, <2>1, InstallStep
  <2> QED
    BY <1>1, <1>3, <2>2 DEF IInv, Typed, RightsKept
<1>4. ASSUME NEW t \in Tables, Receive(t) PROVE IInv'
  <2>1. /\ hmoving.obj \in Objects /\ hmoving.rights \in SUBSET Rights
        /\ hmoving.rights \subseteq FirstRights(hmoving.obj) /\ nx_ht_install(t, hmoving.obj, hmoving.rights)
    BY <1>1, <1>4 DEF Receive, IInv, RightsKept
  <2>2. /\ ht' \in [Tables -> [HSlots -> Entries]] /\ hissued' \subseteq Issued
        /\ \A u \in Tables, i \in HSlots : ht'[u][i].obj = Free => ht'[u][i].rights = {}
        /\ Aged'
        /\ \A u \in Tables, i \in HSlots : ht'[u][i].obj # Free => ht'[u][i].rights \subseteq FirstRights(ht'[u][i].obj)
    BY <2>1, InstallStep
  <2>3. hmoving' = [obj |-> Free, rights |-> {}]
    BY <1>4 DEF Receive
  <2>4. hmoving' \in [obj : Objects \cup {Free}, rights : SUBSET Rights] /\ hmoving'.obj = Free
    BY <2>3
  <2> QED
    BY <2>2, <2>4 DEF IInv, Typed, RightsKept
<1>5. ASSUME NEW t \in Tables, NEW h, nx_ht_close(t, h) PROVE IInv'
  <2>1. PICK i \in HSlots : Empty(t, i)
    BY <1>5 DEF nx_ht_close, entry
  <2>2. /\ ht' \in [Tables -> [HSlots -> Entries]] /\ hissued' \subseteq Issued
        /\ \A u \in Tables, j \in HSlots : ht'[u][j].obj = Free => ht'[u][j].rights = {}
        /\ Aged'
        /\ \A u \in Tables, j \in HSlots : ht'[u][j].obj # Free => ht'[u][j].rights \subseteq FirstRights(ht'[u][j].obj)
    BY <2>1, EmptyStep
  <2>3. hmoving' = hmoving
    BY <1>5 DEF nx_ht_close
  <2> QED
    BY <1>1, <2>2, <2>3 DEF IInv, Typed, RightsKept
<1>6. ASSUME NEW t \in Tables, NEW h, NEW r \in SUBSET Rights, nx_ht_dup(t, h, r) PROVE IInv'
  <2>1. PICK i \in HSlots : ht[t][i].obj # Free /\ r \subseteq ht[t][i].rights /\ nx_ht_install(t, ht[t][i].obj, r)
    BY <1>6 DEF nx_ht_dup, nx_ht_lookup, entry
  <2>2. ht[t][i].obj \in Objects /\ r \subseteq FirstRights(ht[t][i].obj)
    BY <1>1, <2>1 DEF Entries, IInv, RightsKept
  <2>3. /\ ht' \in [Tables -> [HSlots -> Entries]] /\ hissued' \subseteq Issued
        /\ \A u \in Tables, j \in HSlots : ht'[u][j].obj = Free => ht'[u][j].rights = {}
        /\ Aged'
        /\ \A u \in Tables, j \in HSlots : ht'[u][j].obj # Free => ht'[u][j].rights \subseteq FirstRights(ht'[u][j].obj)
    BY <2>1, <2>2, InstallStep
  <2>4. hmoving' = hmoving
    BY <1>6 DEF nx_ht_dup
  <2> QED
    BY <1>1, <2>3, <2>4 DEF IInv, Typed, RightsKept
<1>7. ASSUME NEW t \in Tables, NEW h, NEW r \in SUBSET Rights, nx_ht_take(t, h, r) PROVE IInv'
  <2>1. PICK i \in HSlots : /\ ht[t][i].obj # Free /\ r \subseteq ht[t][i].rights /\ Empty(t, i)
                            /\ hmoving' = [obj |-> ht[t][i].obj, rights |-> r]
    BY <1>7 DEF nx_ht_take, nx_ht_lookup, entry
  <2>2. ht[t][i].obj \in Objects /\ r \subseteq FirstRights(ht[t][i].obj)
    BY <1>1, <2>1 DEF Entries, IInv, RightsKept
  <2>3. /\ ht' \in [Tables -> [HSlots -> Entries]] /\ hissued' \subseteq Issued
        /\ \A u \in Tables, j \in HSlots : ht'[u][j].obj = Free => ht'[u][j].rights = {}
        /\ Aged'
        /\ \A u \in Tables, j \in HSlots : ht'[u][j].obj # Free => ht'[u][j].rights \subseteq FirstRights(ht'[u][j].obj)
    BY <2>1, EmptyStep
  <2>4. /\ hmoving' \in [obj : Objects \cup {Free}, rights : SUBSET Rights]
        /\ hmoving'.obj = ht[t][i].obj /\ hmoving'.rights = r
    BY <2>1, <2>2
  <2> QED
    BY <2>2, <2>3, <2>4 DEF IInv, Typed, RightsKept
<1> QED
  BY <1>2, <1>3, <1>4, <1>5, <1>6, <1>7 DEF Next, Grants

\* The generation in a value tells a live handle from a stale one.
LEMMA Sound == ASSUME HandleConstants, IInv PROVE HandlesSound
<1>1. ht \in [Tables -> [HSlots -> Entries]] /\ hissued \subseteq Issued
  BY DEF IInv, Typed
<1>2. TypeOK
  BY <1>1 DEF IInv, Typed, TypeOK, Entries
<1>3. ASSUME NEW x \in hissued
      PROVE  IF x.live THEN entry(x.t, x.h) = {x.slot} /\ ht[x.t][x.slot].obj = x.obj
                       ELSE x.freed >= GenMax \/ entry(x.t, x.h) = {}
  <2>1. PICK g \in 1..GenMax :
                /\ x.h = encode(x.slot, g)
                /\ x.live => x.freed = 0 /\ ht[x.t][x.slot].obj = x.obj
                /\ ~x.live => x.freed > 0
                /\ x.freed < GenMax => ht[x.t][x.slot].gen = After(g, x.freed)
    BY DEF IInv, Aged
  <2>2. /\ x.t \in Tables /\ x.slot \in HSlots /\ x.obj # Free /\ x.live \in BOOLEAN
        /\ x.freed \in 0..GenMax /\ GenMax \in Nat \ {0} /\ HSlots \subseteq Int
    BY <1>1, SMTT(30) DEF Issued, HandleConstants, HSlots
  <2>3. PICK k \in Nat : k = x.h /\ k % 256 = x.slot + 1 /\ k \div 256 = g
    <3>1. /\ encode(x.slot, g) \in Nat /\ encode(x.slot, g) % 256 = x.slot + 1
          /\ encode(x.slot, g) \div 256 = g
      BY <2>2, EncodeSplits
    <3> QED
      BY <2>1, <3>1
  <2>4. \A i \in HSlots : (k % 256 = i + 1) <=> (i = x.slot)
    <3>1. \A i, j \in Int : (j + 1 = i + 1) <=> (i = j)
      BY SMTT(30)
    <3>2. \A i \in HSlots : (x.slot + 1 = i + 1) <=> (i = x.slot)
      BY <2>2, <3>1
    <3> QED
      BY <2>3, <3>2
  <2>5. entry(x.t, x.h) = {i \in {x.slot} : ht[x.t][i].obj # Free /\ ht[x.t][i].gen = g}
    <3>1. entry(x.t, k) = {i \in HSlots : i = x.slot /\ ht[x.t][i].obj # Free /\ ht[x.t][i].gen = g}
      BY <2>3, <2>4 DEF entry
    <3> QED
      BY <2>2, <2>3, <3>1, SMTT(30)
  <2>6. CASE x.live
    <3>1. After(g, 0) = g
      BY SMTT(30) DEF After, HandleConstants
    <3> QED
      BY <2>1, <2>2, <2>5, <2>6, <3>1, SMTT(30)
  <2>7. CASE ~x.live /\ x.freed < GenMax
    <3>1. After(g, x.freed) # g
      BY <2>1, <2>2, <2>7, SMTT(30) DEF After
    <3> QED
      BY <2>1, <2>5, <2>7, <3>1
  <2> QED
    BY <2>2, <2>6, <2>7, SMTT(30)
<1> QED
  BY <1>2, <1>3 DEF HandlesSound, StaleRejected, IInv

\* However handles are granted, duplicated, moved and closed: a value names what
\* it was handed out for while it lives, a stale one names nothing before its
\* slot was freed GenMax times (bump, entry), and no handle has a right that the
\* first handle of its object lacked (nx_ht_dup, nx_ht_take).
THEOREM HandlesAreSound == ASSUME HandleConstants PROVE Spec => []HandlesSound
<1>1. Init => IInv
  BY InitIInv
<1>2. IInv /\ [Next]_handleVars => IInv'
  BY StepIInv
<1>3. IInv => HandlesSound
  BY Sound
<1> QED
  BY <1>1, <1>2, <1>3, PTL DEF Spec
=============================================================================
