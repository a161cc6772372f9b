----------------------- MODULE FindTransactionProofs -----------------------
(***************************************************************************)
(* The binary search of find_transaction is right for every chain of       *)
(* heights that do not decrease, whatever its length.                      *)
(***************************************************************************)
EXTENDS FindTransaction, SequenceTheorems, TLAPS

(***************************************************************************)
(* The invariant of the loop: the interval [base, base + size) lies within *)
(* the chain, heights behind it are above the given one, and the height at *)
(* base is not, unless base has never moved.                               *)
(***************************************************************************)
Searching ==
    /\ height \in Nat
    /\ size \in Nat \ {0}
    /\ base + size <= Len(chain)
    /\ base = 0 \/ HeightAt(base) <= height
    /\ \A index \in 0..(Len(chain) - 1) : base + size <= index => HeightAt(index) > height

SearchInv ==
    /\ TypeOK
    /\ pc = "loop" => Searching
    /\ pc = "check" => Searching /\ size = 1
    /\ pc = "done" /\ chain # <<>> => result < Len(chain)
    /\ FoundIsClosest

\* The chain of a search that is under way.
LEMMA ChainFacts ==
  ASSUME TypeOK
  PROVE  /\ Len(chain) \in Nat
         /\ chain # <<>> <=> Len(chain) > 0
         /\ \A i \in 0..(Len(chain) - 1) : HeightAt(i) \in Nat
         /\ \A i, j \in 0..(Len(chain) - 1) : i <= j => HeightAt(i) <= HeightAt(j)
<1>1. chain \in Seq(Nat) /\ chain \in Chains
  BY ChainsAssumption DEF TypeOK
<1>2. /\ Len(chain) \in Nat /\ DOMAIN chain = 1..Len(chain)
      /\ chain # <<>> <=> Len(chain) > 0
  BY <1>1, LenProperties, EmptySeq
<1>3. \A i \in 0..(Len(chain) - 1) : i + 1 \in DOMAIN chain
  BY <1>2
<1>4. \A i \in 0..(Len(chain) - 1) : HeightAt(i) \in Nat
  BY <1>1, <1>2, <1>3, ElementOfSeq DEF HeightAt
<1>5. \A i, j \in 0..(Len(chain) - 1) : i <= j => HeightAt(i) <= HeightAt(j)
  BY <1>1, <1>3, ChainsAssumption DEF HeightAt
<1>. QED
  BY <1>2, <1>4, <1>5

\* The search starts with the whole chain.
LEMMA SearchInit == Init => SearchInv
<1>. SUFFICES ASSUME Init PROVE SearchInv
  OBVIOUS
<1>1. chain \in Seq(Nat) /\ height \in Nat \cup {-1}
  BY ChainsAssumption, QueriesAssumption DEF Init
<1>2. Len(chain) \in Nat /\ (chain # <<>> <=> Len(chain) > 0)
  BY <1>1, LenProperties, EmptySeq
<1>. QED
  BY <1>1, <1>2 DEF Init, SearchInv, TypeOK, Searching, FoundIsClosest, Found

\* An iteration keeps the invariant of the loop.
LEMMA SearchIterate == SearchInv /\ Iterate => SearchInv'
<1>. SUFFICES ASSUME SearchInv, Iterate PROVE SearchInv'
  OBVIOUS
<1>. DEFINE half == size \div 2
            mid == base + half
<1>1. /\ TypeOK /\ Searching /\ size > 1
      /\ base \in Nat /\ size \in Nat
  BY DEF SearchInv, Iterate, TypeOK
<1>2. /\ half \in Nat \ {0} /\ half <= size - half
      /\ mid \in 0..(Len(chain) - 1)
  BY <1>1, ChainFacts DEF Searching
<1>3. /\ base' = IF HeightAt(mid) > height THEN base ELSE mid
      /\ size' = size - half
      /\ UNCHANGED <<chain, height, pc, result>>
      /\ pc = "loop"
  BY DEF Iterate
<1>. HIDE DEF half
<1>4. /\ base' \in Nat /\ size' \in Nat \ {0}
      /\ base' + size' <= Len(chain)
  BY <1>1, <1>2, <1>3, ChainFacts DEF Searching
<1>5. HeightAt(mid) \in Nat /\ height \in Nat
  BY <1>1, <1>2, ChainFacts DEF Searching
<1>6. base' = 0 \/ HeightAt(base') <= height
  BY <1>1, <1>3, <1>5 DEF Searching
<1>7. \A index \in 0..(Len(chain) - 1) : base' + size' <= index => HeightAt(index) > height
  <2>. SUFFICES ASSUME NEW index \in 0..(Len(chain) - 1), base' + size' <= index
       PROVE  HeightAt(index) > height
    OBVIOUS
  <2>2. CASE HeightAt(mid) > height
    <3>1. base' + size' = base + size - half
      BY <1>1, <1>2, <1>3, <2>2
    <3>2. mid <= index
      BY <1>1, <1>2, <3>1
    <3>3. HeightAt(mid) <= HeightAt(index) /\ HeightAt(index) \in Nat
      BY <1>1, <1>2, <3>2, ChainFacts
    <3>. QED
      BY <1>5, <2>2, <3>3
  <2>3. CASE ~(HeightAt(mid) > height)
    <3>1. base' + size' = base + size
      BY <1>1, <1>2, <1>3, <2>3
    <3>. QED
      BY <1>1, <3>1 DEF Searching
  <2>. QED
    BY <2>2, <2>3
<1>8. Searching'
  BY <1>3, <1>4, <1>5, <1>6, <1>7 DEF Searching, HeightAt
<1>9. TypeOK'
  BY <1>1, <1>3, <1>4 DEF TypeOK
<1>. QED
  BY <1>3, <1>8, <1>9 DEF SearchInv, FoundIsClosest, Found

\* The check of the last position returns the closest transaction.
LEMMA SearchCheck == SearchInv /\ CheckBase => SearchInv'
<1>. SUFFICES ASSUME SearchInv, CheckBase PROVE SearchInv'
  OBVIOUS
<1>. DEFINE last == Len(chain) - 1
<1>1. /\ TypeOK /\ Searching /\ size = 1
      /\ base \in 0..last /\ last \in Nat
  BY ChainFacts DEF SearchInv, CheckBase, TypeOK, Searching
<1>2. /\ UNCHANGED <<chain, height, base, size>>
      /\ pc' = "done"
      /\ result' = IF HeightAt(base) < height /\ base < last THEN base + 1 ELSE base
  BY <1>1, ChainFacts DEF CheckBase
<1>3. result' \in base..last
  BY <1>1, <1>2
<1>4. ASSUME NEW index \in 0..last, HeightAt(index) >= height
      PROVE  /\ height <= HeightAt(result') /\ HeightAt(result') <= HeightAt(index)
             /\ HeightAt(index) = height => index <= result'
  <2>1. /\ HeightAt(index) \in Nat /\ HeightAt(base) \in Nat /\ HeightAt(result') \in Nat
        /\ height \in Nat
    BY <1>1, <1>3, ChainFacts DEF Searching
  <2>2. \A i, j \in 0..last : i <= j => HeightAt(i) <= HeightAt(j)
    BY <1>1, ChainFacts
  <2>3. \A i \in (base + 1)..last : HeightAt(i) > height
    BY <1>1 DEF Searching
  <2>4. base = 0 \/ HeightAt(base) <= height
    BY <1>1 DEF Searching
  <2>. HIDE DEF last
  <2>5. CASE HeightAt(base) < height
    <3>1. ~(index <= base)
      BY <1>1, <1>4, <2>1, <2>2, <2>5
    <3>2. result' = base + 1 /\ result' <= index
      BY <1>1, <1>2, <2>5, <3>1
    <3>3. HeightAt(result') > height /\ HeightAt(result') <= HeightAt(index)
      BY <1>1, <1>3, <2>2, <2>3, <3>2
    <3>. QED
      BY <2>1, <3>3
  <2>6. CASE ~(HeightAt(base) < height)
    <3>1. result' = base /\ height <= HeightAt(base)
      BY <1>2, <2>1, <2>6
    <3>2. HeightAt(base) <= HeightAt(index)
      <4>1. CASE base <= index
        BY <1>1, <2>2, <4>1
      <4>2. CASE index < base
        BY <1>1, <1>4, <2>1, <2>4, <4>2
      <4>. QED
        BY <1>1, <4>1, <4>2
    <3>3. HeightAt(index) = height => index <= base
      BY <1>1, <2>1, <2>3
    <3>. QED
      BY <3>1, <3>2, <3>3
  <2>. QED
    BY <2>5, <2>6
<1>5. FoundIsClosest'
  BY <1>2, <1>4 DEF FoundIsClosest, Found, HeightAt
<1>6. TypeOK' /\ result' < Len(chain')
  BY <1>1, <1>2, <1>3 DEF TypeOK
<1>. QED
  BY <1>2, <1>5, <1>6 DEF SearchInv

\* Every step of the search keeps the invariant.
LEMMA SearchNext == SearchInv /\ [Next]_vars => SearchInv'
<1>1. ASSUME SearchInv, Leave
      PROVE  SearchInv'
  <2>1. Searching /\ size = 1 /\ TypeOK
    BY <1>1 DEF SearchInv, Leave, Searching
  <2>. QED
    BY <1>1, <2>1 DEF SearchInv, Leave, TypeOK, Searching, HeightAt, FoundIsClosest, Found
<1>2. ASSUME SearchInv, UNCHANGED vars
      PROVE  SearchInv'
  BY <1>2 DEF SearchInv, vars, TypeOK, Searching, HeightAt, FoundIsClosest, Found
<1>. QED
  BY <1>1, <1>2, SearchIterate, SearchCheck DEF Next

\* The invariant holds throughout the search.
LEMMA SearchInvariant == Spec => []SearchInv
BY SearchInit, SearchNext, PTL DEF Spec

\* The variables of find_transaction keep their types; base and size, both usize,
\* never become negative.
THEOREM SearchTyped == Spec => []TypeOK
<1>1. SearchInv => TypeOK
  BY DEF SearchInv
<1>. QED
  BY <1>1, SearchInvariant, PTL

\* IndexIsInChain for every chain and every height: no get(index).unwrap() of the
\* search is past the end.
THEOREM IndexInChain == Spec => []IndexIsInChain
<1>1. SearchInv => IndexIsInChain
  <2>. SUFFICES ASSUME SearchInv PROVE IndexIsInChain
    OBVIOUS
  <2>1. TypeOK
    BY DEF SearchInv
  <2>. QED
    BY <2>1, ChainFacts DEF SearchInv, IndexIsInChain, Searching, TypeOK
<1>. QED
  BY <1>1, SearchInvariant, PTL

\* FoundIsClosest for every chain and every height.
THEOREM FoundClosest == Spec => []FoundIsClosest
<1>1. SearchInv => FoundIsClosest
  BY DEF SearchInv
<1>. QED
  BY <1>1, SearchInvariant, PTL

\* Every iteration leaves a smaller interval that is not empty, and the loop is not
\* entered again: with the fairness of the call this is why the search ends.
THEOREM SearchShrinks == Spec => [][\/ pc = "loop" /\ pc' = "loop" /\ size' \in 1..(size - 1)
                                    \/ pc = "loop" /\ pc' = "check" /\ size' = 1
                                    \/ pc = "check" /\ pc' = "done"]_vars
<1>1. SearchInv /\ [Next]_vars =>
        [\/ pc = "loop" /\ pc' = "loop" /\ size' \in 1..(size - 1)
         \/ pc = "loop" /\ pc' = "check" /\ size' = 1
         \/ pc = "check" /\ pc' = "done"]_vars
  <2>. SUFFICES ASSUME SearchInv, Next
                PROVE  \/ pc = "loop" /\ pc' = "loop" /\ size' \in 1..(size - 1)
                       \/ pc = "loop" /\ pc' = "check" /\ size' = 1
                       \/ pc = "check" /\ pc' = "done"
    OBVIOUS
  <2>1. CASE Iterate
    BY <2>1 DEF Iterate, SearchInv, TypeOK
  <2>2. CASE Leave
    BY <2>2 DEF Leave, SearchInv, Searching, TypeOK
  <2>3. CASE CheckBase
    BY <2>3 DEF CheckBase
  <2>. QED
    BY <2>1, <2>2, <2>3 DEF Next
<1>. QED
  BY <1>1, SearchInvariant, PTL DEF Spec
=============================================================================
