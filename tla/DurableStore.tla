---------------------------- MODULE DurableStore ----------------------------
(***************************************************************************)
(* What the store promises its callers (docs/m4-store.md, sections 5, 6):  *)
(* commits are atomic, a commit reported saved survives any power loss,    *)
(* and a commit whose outcome is unknown either happened or did not.       *)
(*                                                                         *)
(*   view   the state the mounted store shows, None when not mounted;      *)
(*   saved  the last state reported saved;                                 *)
(*   doubt  the states committed since then whose outcome is not known.    *)
(***************************************************************************)
EXTENDS Integers

CONSTANT None
VARIABLES view, saved, doubt

vars == <<view, saved, doubt>>

GenOf(s) == IF s = None THEN 0 ELSE s.gen

Init == view = None /\ saved = None /\ doubt = {}

\* A commit reaches the point where a power loss may leave its effect.  It is
\* built on the state its caller sees.  A device error unmounts the store.
Try == \E s \in doubt' :
          /\ s.gen > GenOf(saved) /\ s.gen > GenOf(view) /\ s.parent = GenOf(view)
          /\ doubt' = doubt \cup {s}
          /\ view' \in {view, None}
          /\ UNCHANGED saved

\* The commit is reported saved.
Save == /\ saved' \in doubt /\ doubt' = {}
        /\ view' \in {view, saved'}

Mount == /\ view = None /\ view' \in {saved} \cup doubt
         /\ UNCHANGED <<saved, doubt>>

Unmount == view' = None /\ UNCHANGED <<saved, doubt>>

\* After a power loss the state is the saved one or one in doubt.  A newer one
\* in doubt that is not found now may still be found after a later power loss,
\* until the next commit is saved; an older one is gone.
Reboot == /\ view = None /\ saved' \in {saved} \cup doubt
          /\ doubt' \subseteq {s \in doubt : s.gen > GenOf(saved')}
          /\ UNCHANGED view

Next == Try \/ Save \/ Mount \/ Unmount \/ Reboot

Spec == Init /\ [][Next]_vars
=============================================================================
