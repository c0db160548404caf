---------------------------- MODULE MCSearchView ----------------------------
(* Lists of up to six records in a view of up to two rows, so that windows *)
(* of three to five elements begin, end and lie inside the list; two queries *)
(* and one change of a record per list.                                      *)
EXTENDS SearchView
=============================================================================
