--------------------------- MODULE FindTransaction ---------------------------
(***************************************************************************)
(* The public API call find_transaction (src/api.rs): a binary search for  *)
(* the anchoring transaction of a height.  The call reads one snapshot of  *)
(* the database, of which the heights of transactions_chain are kept, and  *)
(* its loop takes one step per iteration.  Positions count from 0, as in   *)
(* the code.                                                               *)
(***************************************************************************)
EXTENDS Integers, Sequences

CONSTANTS
    Chains, \* the sequences of anchored heights of the snapshots
    Queries \* the heights asked for; -1 stands for an absent height

VARIABLES
    chain,  \* the heights of tx_chain
    height, \* the argument
    base,
    size,
    pc,     \* "loop", "check" or "done"
    result  \* position of the transaction that is returned

vars == <<chain, height, base, size, pc, result>>

\* The heights that push_anchoring_transaction stores never decrease.
ASSUME ChainsAssumption ==
    /\ Chains \subseteq Seq(Nat)
    /\ \A heights \in Chains : \A i, j \in DOMAIN heights :
          i <= j => heights[i] <= heights[j]

ASSUME QueriesAssumption == Queries \subseteq Nat \cup {-1}

TypeOK ==
    /\ chain \in Chains
    /\ height \in Queries
    /\ base \in Nat
    /\ size \in Nat
    /\ pc \in {"loop", "check", "done"}
    /\ result \in Nat

\* The height in the payload of the transaction at a position.
HeightAt(index) == chain[index + 1]

\* Variant: an empty chain is not told apart.
InitWithoutEmpty ==
    /\ chain \in Chains
    /\ height \in Queries
    /\ base = 0
    /\ size = Len(chain)
    /\ IF chain = <<>> \/ height = -1
         THEN pc = "done" /\ result = Len(chain) - 1
         ELSE pc = "loop" /\ result = 0

(***************************************************************************)
(* An empty chain and an absent height need no search: the first position  *)
(* is proved to be empty, or the last transaction is returned.             *)
(***************************************************************************)
Init ==
    /\ chain \in Chains
    /\ height \in Queries
    /\ base = 0
    /\ size = Len(chain)
    /\ IF chain = <<>> \/ height = -1
         THEN /\ pc = "done"
              /\ result = IF chain = <<>> THEN 0 ELSE Len(chain) - 1
         ELSE /\ pc = "loop"
              /\ result = 0

\* Variant: an interval of odd size loses a position.
IterateDropping ==
    /\ pc = "loop"
    /\ size > 1
    /\ LET mid == base + size \div 2
       IN base' = IF HeightAt(mid) > height THEN base ELSE mid
    /\ size' = size \div 2
    /\ UNCHANGED <<chain, height, pc, result>>

\* Variant: the search never leaves an interval of two positions.
IterateKeeping ==
    /\ pc = "loop"
    /\ size > 1
    /\ LET mid == base + (size - 1) \div 2
       IN base' = IF HeightAt(mid) > height THEN base ELSE mid
    /\ size' = size - (size - 1) \div 2
    /\ UNCHANGED <<chain, height, pc, result>>

\* Variant: the interval is not made smaller.
IterateWhole ==
    /\ pc = "loop"
    /\ size > 1
    /\ LET mid == base + size \div 2
       IN base' = IF HeightAt(mid) > height THEN base ELSE mid
    /\ UNCHANGED <<chain, height, size, pc, result>>

Iterate ==
    /\ pc = "loop"
    /\ size > 1
    /\ LET half == size \div 2
           mid == base + half
       IN /\ base' = IF HeightAt(mid) > height THEN base ELSE mid
          /\ size' = size - half
    /\ UNCHANGED <<chain, height, pc, result>>

Leave ==
    /\ pc = "loop"
    /\ size <= 1
    /\ pc' = "check"
    /\ UNCHANGED <<chain, height, base, size, result>>

\* The transaction at base, or its successor if it anchors a smaller height.
CheckBase ==
    /\ pc = "check"
    /\ LET closest == base + (IF HeightAt(base) < height THEN 1 ELSE 0)
       IN result' = IF closest < Len(chain) - 1 THEN closest ELSE Len(chain) - 1
    /\ pc' = "done"
    /\ UNCHANGED <<chain, height, base, size>>

Next == Iterate \/ Leave \/ CheckBase

Spec == Init /\ [][Next]_vars /\ WF_vars(Next)

-----------------------------------------------------------------------------
Found == pc = "done" /\ chain # <<>> /\ height # -1

\* The positions that the search reads are positions of the chain, so that
\* tx_chain.get(index).unwrap() does not panic.
IndexIsInChain ==
    /\ pc = "loop" /\ size > 1 => base + size \div 2 < Len(chain)
    /\ pc = "check" => base < Len(chain)
    /\ pc = "done" /\ chain # <<>> => result < Len(chain)

\* If a height at or above the given one is anchored, the least such height is
\* returned.  If it is the given one and a transition has anchored it twice, the
\* last of its transactions is returned.
FoundIsClosest ==
    Found =>
        \A index \in 0..(Len(chain) - 1) : HeightAt(index) >= height =>
            /\ height <= HeightAt(result) /\ HeightAt(result) <= HeightAt(index)
            /\ HeightAt(index) = height => index <= result

\* The search ends.
Terminates == <>(pc = "done")
=============================================================================
