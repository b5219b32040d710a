-------------------------- MODULE MCUploadStorage --------------------------
(* Instances of UploadStorage for TLC: their constants are model values and
   numbers, which the configurations give. *)
EXTENDS UploadStorage
=============================================================================
