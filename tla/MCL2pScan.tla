------------------------------ MODULE MCL2pScan ------------------------------
(***************************************************************************)
(* A device of twice as many pages as a 32-bit offset reaches, as the 8    *)
(* GiB flash of the board is.                                              *)
(***************************************************************************)
EXTENDS L2pScan

MCFlashes ==
    [Pages -> {p \in [ok: BOOLEAN, tag: {1}, magic: {DataMagic, 0}, age: 6..8,
                  lpn: Lpns] :
                   (~p.ok \/ p.magic = 0) => p.age = 6 /\ p.lpn = 0}]
=============================================================================
