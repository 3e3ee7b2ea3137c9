------------------------------- MODULE MCListing -------------------------------
(* Small instances of Listing for TLC. *)
EXTENDS Listing

MCRow == 1..5
MCFilter == {1..5, {1, 3, 4}}
================================================================================
