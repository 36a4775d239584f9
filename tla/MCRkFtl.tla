------------------------------- MODULE MCRkFtl -------------------------------
(***************************************************************************)
(* A flash of two blocks of two pages for RkFtl.  Page numbers of a PPA    *)
(* take one bit and block numbers two, so that a PPA may name a page       *)
(* outside the flash (6) or carry the SLC flag (8).  The second region has *)
(* one page only.                                                          *)
(***************************************************************************)
EXTENDS RkFtl, TLC

MCMapPages ==
    (0 :> (0 :> 3 @@ 1 :> Invalid @@ 2 :> 9)) @@ (1 :> (0 :> 2 @@ 1 :> 6 @@ 2 :> 3))
    @@ [p \in 2..3 |-> [i \in 0..2 |-> p]]

MCRegionTables ==
    { 0 :> Invalid @@ 1 :> Invalid, 0 :> 0 @@ 1 :> 1, 0 :> 9 @@ 1 :> Invalid,
      0 :> 6 @@ 1 :> 1 }
=============================================================================
