------------------------- MODULE MCNetconsoleTarget --------------------------
(***************************************************************************)
(* The lengths of the code, and messages around the lengths that matter:   *)
(* with a release of 8 bytes, 992 bytes fill a packet exactly.             *)
(***************************************************************************)
EXTENDS NetconsoleTarget

MCMsgs == {m \in [len: {13, 991, 992, 993, 1000, 1001, 2014}, hdr: {12, 90}] :
               m.hdr < m.len}
=============================================================================
