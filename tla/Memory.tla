------------------------------ MODULE Memory -------------------------------
(***************************************************************************)
(* Kernel memory: the page allocator (kernel/mm/pmm.c), page tables (pt.c) *)
(* and address spaces (vmm.c), as tasks, memory objects and drivers use    *)
(* them.  One CPU with interrupts off: an operation is one step, every     *)
(* failure half-way included.                                              *)
(*                                                                         *)
(* Pages are numbered; a virtual address is <<slot, directory, entry>>:    *)
(* the two middle levels of the four are one, the code treats them alike.  *)
(***************************************************************************)
EXTENDS Integers, Sequences, FiniteSets, TLC

CONSTANTS Regions,             \* the boot memory map: set of [type, first, last]
          Storage,             \* the pages of the bitmaps (nx_pmm_find_storage)
          Slots,               \* task slots
          Vmos, VmoPages,      \* memory objects and their size
          MmioPages,           \* device pages that get mapped
          MaxOps               \* a bound on the instance: operations

VARIABLES mm,     \* struct nx_pmm, the contents of the tables, nx_kernel_root
          mtask,  \* [Slots -> [root, maps]], root 0 when the slot is free
          mvmo,   \* [Vmos -> the sequence of its pages]
          mabs,   \* history: what has been mapped and not unmapped
          mops    \* how many operations there were

memVars == <<mm, mtask, mvmo, mabs, mops>>

NPages == 1 + CHOOSE n \in {r.last : r \in Regions} : \A r \in Regions : r.last <= n
Image == 0              \* PML4 slot 0: the kernel image
UserSlot == 1           \* slots 1 .. 255
Physmap == 2            \* slots 256 and up: RAM, kernel stacks, device pages
Stacks == 3
Devices == 4
Top == 0..4
Index == 0..1
NoEntry == [t |-> "none", pa |-> 0, u |-> FALSE, own |-> FALSE]

----------------------------------------------------------------------------
(* pmm.c                                                                   *)

\* nx_pmm_add_type: the pages of the regions of a type become managed.
nx_pmm_add_type(m, type) ==
  LET new == (UNION {r.first .. r.last : r \in {q \in Regions : q.type = type}} \ m.managed) \ Storage
  IN [m EXCEPT !.managed = @ \cup new, !.free = @ + Cardinality(new)]

\* nx_pmm_alloc: the first free page from next on, around the end; 0 if none.
Way(m, p) == (p - m.next + NPages) % NPages
nx_pmm_alloc(m) ==
  LET can == m.managed \ m.used
  IN IF m.free = 0 \/ can = {} THEN [m |-> m, pa |-> 0]
     ELSE LET p == CHOOSE q \in can : \A r \in can : Way(m, q) <= Way(m, r)
          IN [m |-> [m EXCEPT !.used = @ \cup {p}, !.free = @ - 1, !.next = (p + 1) % NPages], pa |-> p]

\* nx_page_free of each page of a set of places that hold one; nx_pmm_free
\* refuses a page that is not managed or not in use, and that is a panic.
FreeAll(m, places) ==
  LET ps == {x.pa : x \in places}
  IN [m EXCEPT !.used = @ \ ps, !.free = @ + Cardinality(ps),
               !.panic = @ \/ ~(ps \subseteq m.used \cap m.managed) \/ Cardinality(ps) # Cardinality(places)]
nx_page_free(m, p) == FreeAll(m, {[pa |-> p]})

----------------------------------------------------------------------------
(* pt.c                                                                    *)

Zeroed(a) == IF a.pa = 0 THEN a
             ELSE [a EXCEPT !.m.tab[a.pa] = [i \in Top |-> NoEntry], !.m.tables = @ + 1]
new_table(m) == Zeroed(nx_pmm_alloc(m))

\* One turn of walk_create: the table below entry i, made if there is none.
Link(w, i, u, a) ==
  IF a.pa = 0 THEN [w EXCEPT !.st = "nomem"]
  ELSE [w EXCEPT !.m = [a.m EXCEPT !.tab[w.t][i] = [t |-> "table", pa |-> a.pa, u |-> u, own |-> FALSE]],
                 !.t = a.pa]
Step(w, i, u) ==
  IF w.st # "ok" THEN w
  ELSE LET e == w.m.tab[w.t][i]
       IN CASE e.t = "large" -> [w EXCEPT !.st = "exists"]
            [] e.t = "table" -> [w EXCEPT !.m.tab[w.t][i].u = @ \/ u, !.t = e.pa]
            [] e.t = "none" -> Link(w, i, u, new_table(w.m))
Second(w, va, level, u) == IF level = 1 THEN w ELSE Step(w, va[2], u)
walk_create(m, root, va, level, u) ==
  Second(Step([m |-> m, t |-> root, st |-> "ok"], va[1], u), va, level, u)

\* nx_pt_map of a page (level 0) or a large page (level 1): [m, st].
Enter(w, i, e) ==
  IF w.st # "ok" THEN [m |-> w.m, st |-> w.st]
  ELSE IF w.m.tab[w.t][i].t # "none" THEN [m |-> w.m, st |-> "exists"]
  ELSE [m |-> [w.m EXCEPT !.tab[w.t][i] = e], st |-> "ok"]
nx_pt_map(m, root, va, pa, level, u, own) ==
  Enter(walk_create(m, root, va, level, u), IF level = 1 THEN va[2] ELSE va[3],
        [t |-> IF level = 1 THEN "large" ELSE "leaf", pa |-> pa, u |-> u, own |-> own])

\* find_leaf: the entry that maps va, and where it is.
find_leaf(m, root, va) ==
  LET e2 == m.tab[root][va[1]]
      e1 == m.tab[e2.pa][va[2]]
  IN IF e2.t = "none" THEN [e |-> NoEntry, t |-> 0, i |-> 0, u |-> FALSE]
     ELSE IF e1.t # "table" THEN [e |-> e1, t |-> e2.pa, i |-> va[2], u |-> e2.u]
     ELSE [e |-> m.tab[e1.pa][va[3]], t |-> e1.pa, i |-> va[3], u |-> e2.u /\ e1.u]
nx_pt_query(m, root, va) == find_leaf(m, root, va).e
nx_pt_unmap(m, root, va) ==
  LET l == find_leaf(m, root, va)
  IN IF l.e = NoEntry THEN m ELSE [m EXCEPT !.tab[l.t][l.i] = NoEntry]

\* nx_pt_destroy_slots on the user half: leaves the task owns and all tables.
Below(m, t) == {[t |-> t, i |-> i, e |-> m.tab[t][i], pa |-> m.tab[t][i].pa] : i \in Top}
Tables(m, ts) == {x \in UNION {Below(m, t) : t \in ts} : x.e.t = "table"}
Leaves(m, ts) == {x \in UNION {Below(m, t) : t \in ts} : x.e.t = "leaf"}

\* BROKEN: the middle tables are not freed.
DestroyLeavesDirs(m, root) ==
  LET pd == {x \in Tables(m, {root}) : x.i = UserSlot}
      pt == Tables(m, {x.pa : x \in pd})
      owned == {x \in Leaves(m, {x.pa : x \in pt}) : x.e.own}
  IN [FreeAll(FreeAll(m, owned), pt) EXCEPT !.tables = @ - Cardinality(pt)]

nx_pt_destroy_slots(m, root) ==
  LET pd == {x \in Tables(m, {root}) : x.i = UserSlot}
      pt == Tables(m, {x.pa : x \in pd})
      owned == {x \in Leaves(m, {x.pa : x \in pt}) : x.e.own}
  IN [FreeAll(FreeAll(FreeAll(m, owned), pt), pd) EXCEPT !.tables = @ - Cardinality(pt) - Cardinality(pd)]

----------------------------------------------------------------------------
(* vmm.c and task.c: address spaces and kernel stacks.                     *)

\* nx_vmm_init: the kernel image, a table for every upper slot, the physmap.
KernelHalf(m) ==
  LET a == new_table(m)
      b == new_table(a.m)
      c == new_table(b.m)
      T(x) == [t |-> "table", pa |-> x.pa, u |-> FALSE, own |-> FALSE]
  IN [c.m EXCEPT !.tab[m.root] = [@ EXCEPT ![Physmap] = T(a), ![Stacks] = T(b), ![Devices] = T(c)]]
ImageVa == <<Image, 0, 0>>
PhysVa == <<Physmap, 0, 0>>
nx_vmm_init(m) ==
  LET root == new_table(m)
      image == nx_pt_map([root.m EXCEPT !.root = root.pa], root.pa, ImageVa, 0, 0, FALSE, FALSE).m
  IN nx_pt_map(KernelHalf(image), root.pa, PhysVa, 0, 1, FALSE, FALSE).m

\* nx_as_create: slot 0 and the upper half are the kernel's.
SharesKernel(a, root) ==
  IF a.pa = 0 THEN a
  ELSE [a EXCEPT !.m.tab[a.pa] = [i \in Top |-> IF i = UserSlot THEN NoEntry ELSE a.m.tab[root][i]]]
nx_as_create(m) == SharesKernel(new_table(m), m.root)
nx_as_destroy(m, root) ==
  [nx_page_free(nx_pt_destroy_slots(m, root), root) EXCEPT !.tables = @ - 1]

\* map_new_page and kstack_alloc: the page goes back if it cannot be mapped.
OrFree(p, pa) == IF p.st = "ok" THEN p ELSE [m |-> nx_page_free(p.m, pa), st |-> p.st]
MapPage(a, root, va, u, own) ==
  IF a.pa = 0 THEN [m |-> a.m, st |-> "nomem"]
  ELSE OrFree(nx_pt_map(a.m, root, va, a.pa, 0, u, own), a.pa)
MapNew(r, root, va, u, own) == IF r.st # "ok" THEN r ELSE MapPage(nx_pmm_alloc(r.m), root, va, u, own)
StackVa(s) == <<Stacks, s % 2, s \div 2>>
kstack_free(m, s) ==
  LET e == nx_pt_query(m, m.root, StackVa(s))
  IN IF e = NoEntry THEN m ELSE nx_page_free(nx_pt_unmap(m, m.root, StackVa(s)), e.pa)

\* nx_utask_create: stack, address space, the image and the user stack, or nothing.
CodeVa == <<UserSlot, 0, 0>>
UStackVa == <<UserSlot, 2, 1>>
UserVas == {UserSlot} \X Top \X Index
KernelVas == {ImageVa, PhysVa} \cup {StackVa(s) : s \in Slots} \cup {<<Devices, 0, x>> : x \in MmioPages}
Mapped(m, root, vas) == [va \in {v \in vas : nx_pt_query(m, root, v) # NoEntry} |-> nx_pt_query(m, root, va).pa]
nx_utask_create(s) ==
  /\ mtask[s].root = 0
  /\ LET k == MapNew([m |-> mm, st |-> "ok"], mm.root, StackVa(s), FALSE, FALSE)
         a == nx_as_create(k.m)
         img == MapNew([m |-> a.m, st |-> "ok"], a.pa, CodeVa, TRUE, TRUE)
         stk == MapNew(img, a.pa, UStackVa, TRUE, TRUE)
     IN IF k.st # "ok" THEN mm' = k.m /\ UNCHANGED <<mtask, mabs>>
        ELSE IF a.pa = 0 THEN mm' = kstack_free(a.m, s) /\ UNCHANGED <<mtask, mabs>>
        ELSE IF stk.st # "ok" THEN mm' = kstack_free(nx_as_destroy(stk.m, a.pa), s) /\ UNCHANGED <<mtask, mabs>>
        ELSE /\ mm' = stk.m
             /\ mtask' = [mtask EXCEPT ![s] = [root |-> a.pa, maps |-> {}]]
             /\ mabs' = [mabs EXCEPT !.user[s] = Mapped(stk.m, a.pa, {CodeVa, UStackVa}),
                                     !.kernel = Mapped(stk.m, mm.root, {StackVa(s)}) @@ @]
  /\ UNCHANGED mvmo

\* reap: the address space and the kernel stack.
reap(s) ==
  /\ mtask[s].root # 0
  /\ mm' = kstack_free(nx_as_destroy(mm, mtask[s].root), s)
  /\ mtask' = [mtask EXCEPT ![s] = [root |-> 0, maps |-> {}]]
  /\ mabs' = [mabs EXCEPT !.user[s] = <<>>, !.kernel = [va \in DOMAIN @ \ {StackVa(s)} |-> @[va]]]
  /\ UNCHANGED mvmo

----------------------------------------------------------------------------
(* Memory objects, devices, boot memory.                                   *)

\* nx_vmo_create: all pages or none; vmo_destroy once no task maps it.
Places(ps) == {[i |-> i, pa |-> ps[i]] : i \in 1..Len(ps)}
nx_vmo_create(v) ==
  /\ mvmo[v] = <<>>
  /\ LET got[i \in 0..VmoPages] ==
           IF i = 0 THEN [m |-> mm, ps |-> <<>>]
           ELSE LET a == nx_pmm_alloc(got[i - 1].m)
                IN [m |-> a.m, ps |-> IF a.pa = 0 THEN got[i - 1].ps ELSE Append(got[i - 1].ps, a.pa)]
         r == got[VmoPages]
     IN IF Len(r.ps) = VmoPages THEN mm' = r.m /\ mvmo' = [mvmo EXCEPT ![v] = r.ps]
        ELSE mm' = FreeAll(r.m, Places(r.ps)) /\ UNCHANGED mvmo
  /\ UNCHANGED <<mtask, mabs>>
vmo_destroy(v) ==
  /\ mvmo[v] # <<>> /\ \A s \in Slots : v \notin mtask[s].maps
  /\ mm' = FreeAll(mm, Places(mvmo[v])) /\ mvmo' = [mvmo EXCEPT ![v] = <<>>]
  /\ UNCHANGED <<mtask, mabs>>

\* sys_vmo_map: what was mapped is undone on failure, the tables that were
\* made for it stay until the task ends.
VmoVa(i) == <<UserSlot, i - 1, i % 2>>     \* the end of one table, then the next
sys_vmo_map(s, v) ==
  LET root == mtask[s].root
      map[i \in 0..VmoPages] ==
        IF i = 0 THEN [m |-> mm, st |-> "ok", n |-> 0]
        ELSE IF map[i - 1].st # "ok" THEN map[i - 1]
        ELSE LET r == nx_pt_map(map[i - 1].m, root, VmoVa(i), mvmo[v][i], 0, TRUE, FALSE)
             IN [m |-> r.m, st |-> r.st, n |-> IF r.st = "ok" THEN i ELSE i - 1]
      done == map[VmoPages]
      undo[j \in 0..done.n] == IF j = 0 THEN done.m ELSE nx_pt_unmap(undo[j - 1], root, VmoVa(j))
  IN /\ root # 0 /\ mvmo[v] # <<>> /\ mtask[s].maps = {}
     /\ IF \E i \in 1..VmoPages : nx_pt_query(mm, root, VmoVa(i)) # NoEntry THEN UNCHANGED <<mm, mtask, mabs>>
        ELSE IF done.st = "ok"
        THEN /\ mm' = done.m /\ mtask' = [mtask EXCEPT ![s].maps = {v}]
             /\ mabs' = [mabs EXCEPT !.user[s] = Mapped(done.m, root, {VmoVa(i) : i \in 1..VmoPages}) @@ @]
        ELSE mm' = undo[done.n] /\ UNCHANGED <<mtask, mabs>>
     /\ UNCHANGED mvmo

\* nx_vmm_map_mmio; a failure is a panic.
nx_vmm_map_mmio(x) ==
  /\ LET va == <<Devices, 0, x>>
         r == nx_pt_map(mm, mm.root, va, NPages + x, 0, FALSE, FALSE)
     IN /\ nx_pt_query(mm, mm.root, va) = NoEntry
        /\ r.st = "ok" /\ mm' = r.m
        /\ mabs' = [mabs EXCEPT !.kernel = (va :> NPages + x) @@ @]
  /\ UNCHANGED <<mtask, mvmo>>

reclaim_boot_memory ==
  /\ ~mm.reclaimed
  /\ mm' = [nx_pmm_add_type(nx_pmm_add_type(mm, "boot"), "stack") EXCEPT !.reclaimed = TRUE]
  /\ UNCHANGED <<mtask, mvmo, mabs>>

\* nx_pmm_setup and nx_vmm_init.
Pmm0 == [used |-> {}, managed |-> {}, free |-> 0, next |-> 0, tab |-> [p \in 0 .. NPages - 1 |-> [i \in Top |-> NoEntry]],
         tables |-> 0, root |-> 0, panic |-> FALSE, reclaimed |-> FALSE]
Init == /\ mm = nx_vmm_init(nx_pmm_add_type(Pmm0, "usable"))
        /\ mtask = [s \in Slots |-> [root |-> 0, maps |-> {}]]
        /\ mvmo = [v \in Vmos |-> <<>>]
        /\ mabs = [user |-> [s \in Slots |-> <<>>], kernel |-> (ImageVa :> 0) @@ (PhysVa :> 0)]
        /\ mops = 0

Next == /\ mops < MaxOps /\ mops' = mops + 1
        /\ \/ \E s \in Slots : nx_utask_create(s) \/ reap(s) \/ \E v \in Vmos : sys_vmo_map(s, v)
           \/ \E v \in Vmos : nx_vmo_create(v) \/ vmo_destroy(v)
           \/ \E x \in MmioPages : nx_vmm_map_mmio(x)
           \/ reclaim_boot_memory
Spec == Init /\ [][Next]_memVars

----------------------------------------------------------------------------
Roots == {mm.root} \cup ({mtask[s].root : s \in Slots} \ {0})
AllTables == LET pd == {x.pa : x \in Tables(mm, Roots)} IN Roots \cup pd \cup {x.pa : x \in Tables(mm, pd)}

\* nx_pmm_alloc's count of free pages is right, the bitmaps are never handed
\* out, and no page was ever freed twice (nx_page_free does not panic).
TypeOK == /\ mm.used \subseteq mm.managed /\ mm.managed \cap Storage = {}
          /\ mm.free = Cardinality(mm.managed \ mm.used)
          /\ ~mm.panic

\* Every page in use is exactly one thing - a page table, a page a task owns,
\* a kernel stack or a page of a memory object - whatever ran out of memory
\* half-way: none is lost and none serves twice (nx_utask_create, sys_vmo_map,
\* nx_as_destroy).
Owned == {x \in Leaves(mm, AllTables) : x.e.own \/ x.pa \in {mabs.kernel[va] : va \in DOMAIN mabs.kernel \cap {StackVa(s) : s \in Slots}}}
PagesExact ==
  LET objs == UNION {{mvmo[v][i] : i \in 1..Len(mvmo[v])} : v \in Vmos}
      owned == {x.pa : x \in Owned}
  IN /\ mm.used = AllTables \cup owned \cup objs
     /\ Cardinality(mm.used) = Cardinality(AllTables) + Cardinality(Owned) + VmoPages * Cardinality({v \in Vmos : mvmo[v] # <<>>})
     /\ mm.tables = Cardinality(AllTables)

\* A query in any address space finds what was mapped there and not unmapped,
\* and nothing else; the kernel's mappings are the same in all of them, those
\* made after the address space included (nx_as_create, nx_pt_map, nx_pt_query).
QueryExact ==
  \A s \in Slots \cup {0} :
    LET root == IF s = 0 THEN mm.root ELSE mtask[s].root
        abs == IF s = 0 THEN mabs.kernel ELSE mabs.user[s] @@ mabs.kernel
    IN root # 0 => \A va \in UserVas \cup KernelVas :
                     LET e == nx_pt_query(mm, root, va)
                     IN IF va \in DOMAIN abs THEN e # NoEntry /\ e.pa = abs[va] ELSE e = NoEntry

\* User code reaches exactly the pages mapped for it: on the way to each of
\* them every level has the user bit, on the way to a kernel page some level
\* has not, although the tables are shared (walk_create).
UserReach ==
  \A s \in Slots : mtask[s].root # 0 =>
    \A va \in UserVas \cup KernelVas :
      LET l == find_leaf(mm, mtask[s].root, va)
      IN (l.e # NoEntry /\ l.e.u /\ l.u) <=> va \in DOMAIN mabs.user[s]
=============================================================================
