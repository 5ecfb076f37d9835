------------------------------ MODULE MCHotPlug ------------------------------
(***************************************************************************)
(* Two ports, a flash drive and a card reader with two slots; tables small *)
(* enough to fill.                                                         *)
(***************************************************************************)
EXTENDS HotPlug

CONSTANTS flash, reader

MCSlots == [d \in Drives |-> IF d = reader THEN 2 ELSE 1]
==============================================================================
