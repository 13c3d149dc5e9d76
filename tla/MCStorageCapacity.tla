-------------------------- MODULE MCStorageCapacity --------------------------
(* An attachment, a source image and a generation that do not all fit, one lot. *)
EXTENDS StorageCapacity, TLC

CONSTANTS attachment, media, image, lot1

MCMaxBytes == attachment :> 1 @@ media :> 1 @@ image :> 3

MCSize == attachment :> 1 @@ media :> 1 @@ image :> 2

MCLotBytes == lot1 :> 1

MCSymmetry == Permutations(Callers)
=============================================================================
