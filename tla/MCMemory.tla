------------------------------ MODULE MCMemory ------------------------------
(***************************************************************************)
(* Instance of Memory: tables of 3 entries, a heap of two pages (40 and    *)
(* 41, the last of its level-1 table), the page behind it in another       *)
(* table.  Frames 0 to 4 are the bootloader's: the four tables of page 0   *)
(* and its frame.                                                          *)
(***************************************************************************)
EXTENDS Memory, TLC

Region(s, e, u) == [start |-> s, end |-> e, usable |-> u]

(* From too little for the heap, over exactly enough, to enough for some   *)
(* of the callers; regions out of order, split and empty.                  *)
MCMaps ==
    {<<Region(0, 5, FALSE), Region(5, 9, TRUE)>>,
     <<Region(7, 10, TRUE), Region(0, 5, FALSE), Region(5, 7, TRUE)>>,
     <<Region(0, 5, FALSE), Region(5, 8, TRUE), Region(8, 8, TRUE), Region(10, 14, TRUE)>>,
     <<Region(0, 5, FALSE), Region(5, 15, TRUE)>>}

Table(i, f) == [j \in 0 .. 2 |-> IF i = j THEN f ELSE None]

MCBootTables ==
    (0 :> Table(0, 1)) @@ (1 :> Table(0, 2)) @@ (2 :> Table(0, 3)) @@ (3 :> Table(0, 4))

(* The window: pages 3 to 5, a huge page in the second entry of table 2.   *)
MCHugeEntries == {<<2, 1>>}
=============================================================================
