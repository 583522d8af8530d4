------------------------------ MODULE MCListing ------------------------------
(***************************************************************************)
(* Instances of Listing for TLC.                                           *)
(***************************************************************************)
EXTENDS Listing

(* Ids a client names: a job named twice, and two jobs out of order. *)
MCGiven == {<<1, 1>>, <<2, 1>>}

=============================================================================
