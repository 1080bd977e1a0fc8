--------------------------- MODULE MCIndexRefresh ---------------------------
(***************************************************************************)
(* Small instances of IndexRefresh.  A tick is two seconds.                *)
(***************************************************************************)
EXTENDS IndexRefresh
=============================================================================
