-------------------------------- MODULE Null --------------------------------
(***************************************************************************)
(* The value of what is not set, the same for every model of the boats     *)
(* that are followed, so that their proofs can stand in one module.        *)
(***************************************************************************)
CONSTANT None \* NULL in a column, None in Python, null in the page
=============================================================================
