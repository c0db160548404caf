---------------------------- MODULE MCVtableView ----------------------------
(* Vtables of up to three slots, two functions, and two symbols of which one *)
(* is decodable, under every content of the database.                        *)
EXTENDS VtableView
=============================================================================
