---------------------------- MODULE AddressSpace ----------------------------
(***************************************************************************)
(* What paging promises: a map from pages to frames that only grows.  A    *)
(* page gets a frame once, no frame serves two pages, and no mapping is    *)
(* ever changed or lost.                                                   *)
(***************************************************************************)
CONSTANTS Pages, Frames, None

VARIABLE space

(* The bootloader hands over a space in which some pages are mapped. *)
Init ==
    /\ space \in [Pages -> Frames \cup {None}]
    /\ \A p, q \in Pages : p # q /\ space[p] # None => space[p] # space[q]

MapPage(p, f) ==
    /\ space[p] = None
    /\ \A q \in Pages : space[q] # f
    /\ space' = [space EXCEPT ![p] = f]

Next == \E p \in Pages, f \in Frames : MapPage(p, f)

Spec == Init /\ [][Next]_space
=============================================================================
