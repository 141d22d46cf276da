----------------------------- MODULE BlobStore ------------------------------
(***************************************************************************)
(* What the sync server promises for one vault: a register whose version   *)
(* goes up by one each time, and only when, a different blob is stored.    *)
(* Module Sync is shown to implement this one when pushes do not overlap.  *)
(***************************************************************************)
EXTENDS Naturals

CONSTANTS Blob,     \* the bundles a client may push
          Nothing   \* the content before the first push

VARIABLES blob, number

BInit == blob = Nothing /\ number = 0

Store(b) ==
    /\ b # blob
    /\ blob' = b
    /\ number' = number + 1

BNext == \E b \in Blob : Store(b)

BSpec == BInit /\ [][BNext]_<<blob, number>>

=============================================================================
