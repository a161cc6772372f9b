------------------------- MODULE MCFindTransaction -------------------------
(***************************************************************************)
(* The searches in every chain of bounded length and height.  The first    *)
(* anchoring transaction is at height 0, later ones repeat a height in a   *)
(* transition or grow.                                                     *)
(***************************************************************************)
EXTENDS FindTransaction

CONSTANTS
    MaxLength, \* bound on the length of the chain
    MaxHeight  \* bound on the anchored heights

BoundedChains ==
    {heights \in UNION {[1..n -> 0..MaxHeight] : n \in 0..MaxLength} :
        /\ heights # <<>> => heights[1] = 0
        /\ \A i \in 2..Len(heights) : heights[i - 1] <= heights[i]}

BoundedQueries == -1..(MaxHeight + 1)
=============================================================================
