---------------------------- MODULE StorePromise ----------------------------
(***************************************************************************)
(* Store as an implementation of DurableStore: what a caller of the store  *)
(* sees of its generations.                                                *)
(***************************************************************************)
EXTENDS Store

\* What a caller sees of a generation.
Seen(root) == IF root = NoRoot THEN NoRoot
              ELSE [gen |-> root.gen, parent |-> root.parent,
                    obj |-> [n \in Objs(root) |-> root.obj[n].val]]

Promise == INSTANCE DurableStore
             WITH None <- NoRoot,
                  view <- IF mounted THEN Seen(cur) ELSE NoRoot,
                  saved <- Seen(saved),
                  doubt <- {Seen(r) : r \in doubt}

\* st_commit and st_mount implement the durability protocol: a generation
\* reported saved is the one found after any power loss, or a newer one whose
\* commit was under way, whole.
ImplementsPromise == Promise!Spec
=============================================================================
