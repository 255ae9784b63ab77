------------------------------ MODULE BlockDev ------------------------------
(***************************************************************************)
(* The block device under the store (kernel/dev/blk.c over virtio-blk): a  *)
(* write may stay in a write-back cache until a flush returns, unflushed   *)
(* writes reach the medium in any order, torn, or not at all.              *)
(*                                                                         *)
(*   vol[b]    what a read of block b returns while the power is on;       *)
(*   media[b]  every content block b may be found to have after the power  *)
(*             is lost now.                                                *)
(***************************************************************************)
EXTENDS Integers

CONSTANT NBlocks              \* capacity of the device, in blocks

ASSUME NBlocksAssumption == NBlocks \in Nat /\ NBlocks > 2

VARIABLES vol, media

devVars == <<vol, media>>

Blocks == 0 .. NBlocks - 1

\* A half-written block: no checksum in it verifies.
Torn == [t |-> "torn"]

\* A block never written: zeros, without any magic number.
Blank == [t |-> "blank"]

DevInit == /\ vol = [b \in Blocks |-> Blank]
           /\ media = [b \in Blocks |-> {Blank}]

\* nx_blk_write of the contents W (a function on the blocks written) succeeds.
DevWrite(W) ==
    /\ vol' = [b \in Blocks |-> IF b \in DOMAIN W THEN W[b] ELSE vol[b]]
    /\ media' = [b \in Blocks |-> IF b \in DOMAIN W THEN media[b] \cup {W[b], Torn}
                                                    ELSE media[b]]

\* nx_blk_write reports an error: any part of the request may have been done.
DevWriteError(W) ==
    /\ \E done \in [DOMAIN W -> {"old", "new", "torn"}] :
          vol' = [b \in Blocks |->
                    IF b \notin DOMAIN W THEN vol[b]
                    ELSE CASE done[b] = "old"  -> vol[b]
                           [] done[b] = "new"  -> W[b]
                           [] done[b] = "torn" -> Torn]
    /\ media' = [b \in Blocks |-> IF b \in DOMAIN W THEN media[b] \cup {W[b], Torn}
                                                    ELSE media[b]]

\* nx_blk_flush succeeds: what a read returns is what the medium holds.
DevFlush == /\ media' = [b \in Blocks |-> {vol[b]}]
            /\ UNCHANGED vol

\* nx_blk_flush fails: some of the cache may have been written back, and the
\* cache keeps all of it.
DevFlushError == UNCHANGED devVars

(***************************************************************************)
(* Power loss.  The outcome of each block with an unflushed write is       *)
(* chosen by DevSettle, block by block, before anything is read again.     *)
(***************************************************************************)
Unsettled == {b \in Blocks : \E c, d \in media[b] : c # d}

DevPowerLoss == /\ vol' = [b \in Blocks |-> IF b \in Unsettled THEN Blank ELSE vol[b]]
                /\ UNCHANGED media

DevSettle == \E b \in Unsettled :
                /\ \A c \in Unsettled : b <= c
                /\ \E c \in media[b] : /\ vol' = [vol EXCEPT ![b] = c]
                                       /\ media' = [media EXCEPT ![b] = {c}]

\* The medium damages a block at rest.
DevRot(b) == /\ vol' = [vol EXCEPT ![b] = Torn]
             /\ media' = [media EXCEPT ![b] = {Torn}]
=============================================================================
