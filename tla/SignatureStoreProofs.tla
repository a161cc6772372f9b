------------------------ MODULE SignatureStoreProofs ------------------------
(***************************************************************************)
(* For any number of inputs, anchoring nodes and fields: the stored        *)
(* signatures are those that were sent, a witness has them in the order of *)
(* the nodes, and the stored configuration is the one that was given.      *)
(***************************************************************************)
EXTENDS SignatureStore, BytesProofs, FiniteSetTheorems

-----------------------------------------------------------------------------
(***************************************************************************)
(* The order of a finite set of numbers.                                   *)
(***************************************************************************)
\* Every element has a rank of its own, and every rank is that of an element.
LEMMA RankFacts ==
  ASSUME NEW S, S \subseteq Int, IsFiniteSet(S)
  PROVE  /\ Cardinality(S) \in Nat
         /\ \A x \in S : Rank(x, S) \in 1..Cardinality(S)
         /\ \A x, y \in S : x < y => Rank(x, S) < Rank(y, S)
         /\ \A i \in 1..Cardinality(S) : \E x \in S : Rank(x, S) = i
<1>. DEFINE Upto(x) == {y \in S : y <= x}
            n == Cardinality(S)
<1>1. n \in Nat
  BY FS_CardinalityType
<1>2. ASSUME NEW x \in S
      PROVE  /\ IsFiniteSet(Upto(x)) /\ Cardinality(Upto(x)) \in 1..n
  <2>1. IsFiniteSet(Upto(x)) /\ Cardinality(Upto(x)) <= n
    <3>1. Upto(x) \in SUBSET S
      OBVIOUS
    <3>. HIDE DEF Upto
    <3>. QED
      BY <3>1, FS_Subset
  <2>2. x \in Upto(x)
    OBVIOUS
  <2>. HIDE DEF Upto
  <2>3. Cardinality(Upto(x)) \in Nat /\ Cardinality(Upto(x)) # 0
    BY <2>1, <2>2, FS_CardinalityType, FS_EmptySet
  <2>. QED
    BY <1>1, <2>1, <2>3
<1>3. ASSUME NEW x \in S, NEW y \in S, x < y
      PROVE  Cardinality(Upto(x)) < Cardinality(Upto(y))
  <2>1. x \in Int /\ y \in Int /\ \A z \in S : z \in Int /\ (z <= x => z <= y)
    BY <1>3
  <2>2. y <= y /\ ~(y <= x)
    BY <1>3, <2>1
  <2>3. Upto(x) \in SUBSET Upto(y) /\ y \in Upto(y) /\ y \notin Upto(x)
    BY <2>1, <2>2, Zenon
  <2>. HIDE DEF Upto
  <2>4. /\ Cardinality(Upto(x)) <= Cardinality(Upto(y))
        /\ Cardinality(Upto(y)) # Cardinality(Upto(x))
    BY <1>2, <2>3, FS_Subset
  <2>. QED
    BY <1>1, <1>2, <2>4
<1>. DEFINE rank == [x \in S |-> Cardinality(Upto(x))]
<1>4. rank \in Injection(S, 1..n)
  <2>. HIDE DEF Upto, n
  <2>1. rank \in [S -> 1..n]
    BY <1>2
  <2>2. ASSUME NEW x \in S, NEW y \in S, rank[x] = rank[y] PROVE x = y
    <3>1. x \in Int /\ y \in Int
      OBVIOUS
    <3>2. ~(x < y) /\ ~(y < x)
      BY <1>1, <1>2, <1>3, <2>2
    <3>. QED
      BY <3>1, <3>2
  <2>. HIDE DEF rank
  <2>3. DOMAIN rank = S
    BY <2>1
  <2>. QED
    BY <2>1, <2>2, <2>3, Zenon DEF Injection, IsInjective
<1>5. rank \in Surjection(S, 1..n)
  <2>1. IsFiniteSet(1..n) /\ Cardinality(1..n) = n
    BY <1>1, FS_Interval
  <2>. HIDE DEF rank
  <2>. QED
    BY <1>4, <2>1, FS_Injection
<1>6. \A i \in 1..n : \E x \in S : Cardinality(Upto(x)) = i
  BY <1>5 DEF Surjection
<1>7. \A x : Rank(x, S) = Cardinality(Upto(x))
  BY DEF Rank
<1>. HIDE DEF Upto
<1>. QED
  BY <1>1, <1>2, <1>3, <1>6, <1>7

\* The elements are found at their ranks, and nothing else is.
LEMMA InOrderFacts ==
  ASSUME NEW S, S \subseteq Int, IsFiniteSet(S)
  PROVE  /\ Cardinality(S) \in Nat
         /\ InOrder(S) \in [1..Cardinality(S) -> S]
         /\ \A x \in S : Rank(x, S) \in 1..Cardinality(S) /\ InOrder(S)[Rank(x, S)] = x
         /\ \A i \in 1..Cardinality(S) : Rank(InOrder(S)[i], S) = i
<1>. DEFINE n == Cardinality(S)
<1>1. /\ n \in Nat
      /\ \A x \in S : Rank(x, S) \in 1..n
      /\ \A x, y \in S : x < y => Rank(x, S) < Rank(y, S)
      /\ \A i \in 1..n : \E x \in S : Rank(x, S) = i
  BY RankFacts
<1>. HIDE DEF n
<1>2. ASSUME NEW i \in 1..n
      PROVE  InOrder(S)[i] \in S /\ Rank(InOrder(S)[i], S) = i
  <2>1. InOrder(S)[i] = CHOOSE x \in S : Rank(x, S) = i
    BY DEF InOrder, n
  <2>. QED
    BY <1>1, <2>1, Zenon
<1>3. ASSUME NEW x \in S, NEW y \in S, Rank(x, S) = Rank(y, S) PROVE x = y
  <2>1. x \in Int /\ y \in Int /\ Rank(x, S) \in Nat
    BY <1>1
  <2>2. ~(x < y) /\ ~(y < x)
    BY <1>1, <1>3, <2>1
  <2>. QED
    BY <2>1, <2>2
<1>4. ASSUME NEW x \in S PROVE InOrder(S)[Rank(x, S)] = x
  BY <1>1, <1>2, <1>3, Zenon
<1>5. InOrder(S) \in [1..n -> S]
  <2>1. InOrder(S) = [i \in 1..n |-> InOrder(S)[i]]
    BY DEF InOrder, n
  <2>. QED
    BY <1>2, <2>1, Zenon
<1>. QED
  BY <1>1, <1>2, <1>4, <1>5 DEF n

\* The greatest number of a set, when there is one.
LEMMA LastOfFacts ==
  ASSUME NEW S, S \subseteq Int, NEW x \in S, \A y \in S : y <= x
  PROVE  LastOf(S) = x
<1>1. LastOf(S) \in S /\ \A y \in S : y <= LastOf(S)
  BY Zenon DEF LastOf
<1>2. LastOf(S) \in Int /\ x \in Int /\ x <= LastOf(S) /\ LastOf(S) <= x
  BY <1>1
<1>. QED
  BY <1>2

-----------------------------------------------------------------------------
(***************************************************************************)
(* The encodings of the key of an input and of its signatures.             *)
(***************************************************************************)
\* The numbers of a length are finitely many.
LEMMA NumbersFacts ==
  ASSUME NEW len \in Nat
  PROVE  Numbers(len) \subseteq Nat /\ IsFiniteSet(Numbers(len))
<1>1. Powers(len)[len] \in Nat
  BY PowersDef
<1>2. 0 \in Int /\ Powers(len)[len] - 1 \in Int
  BY <1>1
<1>3. IsFiniteSet(Numbers(len))
  BY <1>2, FS_Interval, Zenon DEF Numbers
<1>4. Numbers(len) \subseteq Nat
  BY <1>1 DEF Numbers
<1>. QED
  BY <1>3, <1>4

\* The identifier and the index are read back from the bytes of a key.
LEMMA KeyReadBack ==
  ASSUME NEW txid \in TxIds, NEW input \in Inputs
  PROVE  TxInputIdRead(TxInputIdWrite(txid, input)) = <<txid, input>>
<1>. DEFINE index == WriteLittleEndian(input, InputLen)
            bytes == TxInputIdWrite(txid, input)
            S == 0..(Byte - 1)
<1>1. HashLen \in Nat /\ InputLen \in Nat /\ txid \in ByteStrings(HashLen) /\ input \in Numbers(InputLen)
  BY ByteAssumption, StoreAssumption
<1>2. input \in Nat
  BY <1>1, NumbersFacts
<1>3. txid \in Seq(S) /\ Len(txid) = HashLen
  BY <1>1, ByteStringFacts, Zenon
<1>4. index \in Seq(S) /\ Len(index) = InputLen
  BY <1>1, <1>2, WriteType, ByteStringFacts, Zenon
<1>5. ReadLittleEndian(index) = input
  BY <1>1, WrittenIsReadBack, Zenon
<1>6. bytes = txid \o index
  BY DEF TxInputIdWrite
<1>. HIDE DEF index, bytes, S
<1>7. /\ SubSeq(bytes, 1, Len(txid)) = txid
      /\ SubSeq(bytes, Len(txid) + 1, Len(txid) + Len(index)) = index
  BY <1>3, <1>4, <1>6, CutConcat, Zenon
<1>8. TxInputIdRead(bytes) = <<txid, input>>
  BY <1>3, <1>4, <1>5, <1>7, Zenon DEF TxInputIdRead
<1>. QED
  BY <1>8 DEF bytes

\* The signatures of an input are read back from the message of a BinaryMap.
LEMMA MapReadBack ==
  ASSUME NEW D \in SUBSET NodeIds, NEW R, NEW map \in [D -> R]
  PROVE  BinaryMapFromPb(BinaryMapToPb(map)) = map
<1>. DEFINE n == Cardinality(D)
            nodes == InOrder(D)
            pairs == BinaryMapToPb(map)
<1>1. NodeIdLen \in Nat /\ D \subseteq Numbers(NodeIdLen) /\ DOMAIN map = D
  BY StoreAssumption
<1>2. D \subseteq Nat /\ D \subseteq Int /\ IsFiniteSet(D)
  BY <1>1, NumbersFacts, FS_Subset
<1>3. /\ n \in Nat /\ nodes \in [1..n -> D]
      /\ \A x \in D : Rank(x, D) \in 1..n /\ nodes[Rank(x, D)] = x
      /\ \A i \in 1..n : Rank(nodes[i], D) = i
  BY <1>2, InOrderFacts
<1>4. pairs = [i \in 1..n |-> KeyValue(nodes[i], map[nodes[i]])]
  BY <1>1, <1>3 DEF BinaryMapToPb
<1>. HIDE DEF n, nodes, pairs
<1>5. ASSUME NEW i \in 1..n
      PROVE  ReadLittleEndian(pairs[i].key) = nodes[i] /\ pairs[i].value = map[nodes[i]]
  <2>1. pairs[i].key = WriteLittleEndian(nodes[i], NodeIdLen) /\ pairs[i].value = map[nodes[i]]
    BY <1>4 DEF KeyValue
  <2>2. nodes[i] \in Numbers(NodeIdLen)
    BY <1>1, <1>3
  <2>. QED
    BY <1>1, <2>1, <2>2, WrittenIsReadBack, Zenon
<1>6. DOMAIN pairs = 1..n
  BY <1>4
<1>7. {ReadLittleEndian(pairs[i].key) : i \in DOMAIN pairs} = D
  <2>1. ASSUME NEW x \in D
        PROVE  \E i \in DOMAIN pairs : x = ReadLittleEndian(pairs[i].key)
    BY <1>3, <1>5, <1>6, Zenon
  <2>2. ASSUME NEW i \in DOMAIN pairs
        PROVE  ReadLittleEndian(pairs[i].key) \in D
    <3>1. i \in 1..n /\ nodes[i] \in D
      BY <1>3, <1>6
    <3>. QED
      BY <1>5, <3>1, Zenon
  <2>. QED
    BY <2>1, <2>2
<1>8. ASSUME NEW x \in D
      PROVE  LET same == {i \in DOMAIN pairs : ReadLittleEndian(pairs[i].key) = x}
             IN pairs[LastOf(same)].value = map[x]
  <2>. DEFINE same == {i \in DOMAIN pairs : ReadLittleEndian(pairs[i].key) = x}
              r == Rank(x, D)
  <2>1. r \in 1..n /\ nodes[r] = x
    BY <1>3
  <2>2. r \in same
    BY <1>5, <1>6, <2>1
  <2>3. ASSUME NEW i \in same PROVE i = r
    <3>1. i \in 1..n /\ ReadLittleEndian(pairs[i].key) = x
      BY <1>6
    <3>2. nodes[i] = x
      BY <1>5, <3>1, Zenon
    <3>. QED
      BY <1>3, <3>1, <3>2
  <2>4. same \subseteq Int /\ \A i \in same : i <= r
    BY <1>6, <2>1, <2>3
  <2>. HIDE DEF same, r
  <2>5. LastOf(same) = r
    BY <2>2, <2>4, LastOfFacts
  <2>. QED
    BY <1>5, <2>1, <2>5 DEF same
<1>9. BinaryMapFromPb(pairs) =
        [x \in D |-> pairs[LastOf({i \in DOMAIN pairs : ReadLittleEndian(pairs[i].key) = x})].value]
  BY <1>7, Zenon DEF BinaryMapFromPb
<1>10. BinaryMapFromPb(pairs) = [x \in D |-> map[x]]
  BY <1>8, <1>9
<1>. QED
  BY <1>10 DEF pairs

-----------------------------------------------------------------------------
(***************************************************************************)
(* The stored signatures: under the key of each input that was signed the  *)
(* message of the map from the nodes that signed it to their signatures.   *)
(***************************************************************************)
NodesOf(txid, input) == {n \in NodeIds : <<txid, input, n>> \in DOMAIN signed}

MapOf(txid, input) == [n \in NodesOf(txid, input) |-> signed[<<txid, input, n>>]]

StoreInv ==
    /\ signed \in [DOMAIN signed -> Signatures]
    /\ DOMAIN signed \subseteq TxIds \X Inputs \X NodeIds
    /\ DOMAIN transaction_signatures = {TxInputIdWrite(s[1], s[2]) : s \in DOMAIN signed}
    /\ \A s \in DOMAIN signed :
          transaction_signatures[TxInputIdWrite(s[1], s[2])] = BinaryMapToPb(MapOf(s[1], s[2]))

\* What was signed is a triple.
LEMMA SignedFacts ==
  ASSUME StoreInv, NEW s \in DOMAIN signed
  PROVE  /\ s[1] \in TxIds /\ s[2] \in Inputs /\ s[3] \in NodeIds
         /\ s = <<s[1], s[2], s[3]>>
         /\ s[3] \in NodesOf(s[1], s[2])
<1>1. s \in TxIds \X Inputs \X NodeIds
  BY DEF StoreInv
<1>2. /\ s[1] \in TxIds /\ s[2] \in Inputs /\ s[3] \in NodeIds
      /\ s = <<s[1], s[2], s[3]>>
  BY <1>1
<1>. QED
  BY <1>2 DEF NodesOf

\* The map of an input is one from nodes to signatures.
LEMMA MapOfType ==
  ASSUME StoreInv, NEW txid, NEW input
  PROVE  /\ NodesOf(txid, input) \in SUBSET NodeIds
         /\ MapOf(txid, input) \in [NodesOf(txid, input) -> Signatures]
<1>1. \A n \in NodesOf(txid, input) : signed[<<txid, input, n>>] \in Signatures
  BY DEF StoreInv, NodesOf
<1>. QED
  BY <1>1 DEF NodesOf, MapOf

\* What is read for an input is its map.
LEMMA InputIsRead ==
  ASSUME StoreInv, NEW txid \in TxIds, NEW input \in Inputs
  PROVE  InputSignatures(txid, input) = MapOf(txid, input)
<1>. DEFINE key == TxInputIdWrite(txid, input)
<1>1. ASSUME NEW s \in DOMAIN signed, key = TxInputIdWrite(s[1], s[2])
      PROVE  s[1] = txid /\ s[2] = input
  <2>1. TxInputIdRead(key) = <<txid, input>>
    BY KeyReadBack
  <2>2. TxInputIdRead(TxInputIdWrite(s[1], s[2])) = <<s[1], s[2]>>
    BY SignedFacts, KeyReadBack
  <2>3. <<txid, input>> = <<s[1], s[2]>>
    BY <1>1, <2>1, <2>2
  <2>. QED
    BY <2>3
<1>2. InputSignatures(txid, input) = IF key \in DOMAIN transaction_signatures
                                       THEN BinaryMapFromPb(transaction_signatures[key]) ELSE <<>>
  BY DEF InputSignatures
<1>. HIDE DEF key
<1>3. CASE key \in DOMAIN transaction_signatures
  <2>1. PICK s \in DOMAIN signed : key = TxInputIdWrite(s[1], s[2])
    BY <1>3 DEF StoreInv
  <2>2. transaction_signatures[key] = BinaryMapToPb(MapOf(txid, input))
    BY <1>1, <2>1 DEF StoreInv
  <2>3. BinaryMapFromPb(BinaryMapToPb(MapOf(txid, input))) = MapOf(txid, input)
    BY MapOfType, MapReadBack
  <2>. QED
    BY <1>2, <1>3, <2>2, <2>3
<1>4. CASE key \notin DOMAIN transaction_signatures
  <2>1. ASSUME NEW n \in NodesOf(txid, input) PROVE FALSE
    <3>1. <<txid, input, n>> \in DOMAIN signed
      BY DEF NodesOf
    <3>. DEFINE s == <<txid, input, n>>
    <3>2. TxInputIdWrite(s[1], s[2]) \in DOMAIN transaction_signatures
      BY <3>1 DEF StoreInv
    <3>. QED
      BY <1>4, <3>2 DEF key
  <2>2. NodesOf(txid, input) = {}
    BY <2>1
  <2>3. MapOf(txid, input) = <<>>
    BY <2>2 DEF MapOf
  <2>. QED
    BY <1>2, <1>4, <2>3
<1>. QED
  BY <1>3, <1>4

\* A signature is added to the map of its input and to no other.
LEMMA PutKeepsStore ==
  ASSUME StoreInv, NEW txid \in TxIds, NEW input \in Inputs, NEW node \in NodeIds,
         NEW signature \in Signatures, PutSignature(txid, input, node, signature)
  PROVE  StoreInv'
<1>. DEFINE t == <<txid, input, node>>
            key == TxInputIdWrite(txid, input)
<1>1. signed' = Put(signed, t, signature)
  BY DEF PutSignature
<1>2. transaction_signatures' =
        Put(transaction_signatures, key, BinaryMapToPb(Put(MapOf(txid, input), node, signature)))
  BY InputIsRead DEF PutSignature
<1>3. /\ DOMAIN signed' = DOMAIN signed \cup {t}
      /\ signed'[t] = signature
      /\ \A s \in DOMAIN signed : s # t => signed'[s] = signed[s]
  BY <1>1 DEF Put
<1>4. /\ signed' \in [DOMAIN signed' -> Signatures]
      /\ DOMAIN signed' \subseteq TxIds \X Inputs \X NodeIds
  BY <1>1, <1>3 DEF StoreInv, Put
<1>5. MapOf(txid, input)' = Put(MapOf(txid, input), node, signature)
  <2>1. NodesOf(txid, input)' = NodesOf(txid, input) \cup {node}
    BY <1>3 DEF NodesOf
  <2>2. ASSUME NEW n \in NodesOf(txid, input)'
        PROVE  signed'[<<txid, input, n>>] = IF n = node THEN signature ELSE MapOf(txid, input)[n]
    <3>1. CASE n = node
      BY <1>3, <3>1
    <3>2. CASE n # node
      <4>1. n \in NodesOf(txid, input) /\ <<txid, input, n>> # t /\ <<txid, input, n>> \in DOMAIN signed
        BY <2>1, <3>2 DEF NodesOf
      <4>. QED
        BY <1>3, <3>2, <4>1 DEF MapOf
    <3>. QED
      BY <3>1, <3>2
  <2>3. DOMAIN MapOf(txid, input) = NodesOf(txid, input)
    BY DEF MapOf
  <2>. QED
    BY <2>1, <2>2, <2>3 DEF MapOf, Put
<1>6. ASSUME NEW s \in DOMAIN signed, <<s[1], s[2]>> # <<txid, input>>
      PROVE  MapOf(s[1], s[2])' = MapOf(s[1], s[2]) /\ TxInputIdWrite(s[1], s[2]) # key
  <2>1. \A n : <<s[1], s[2], n>> # t
    BY <1>6
  <2>2. NodesOf(s[1], s[2])' = NodesOf(s[1], s[2])
    BY <1>3, <2>1 DEF NodesOf
  <2>3. \A n \in NodesOf(s[1], s[2]) : signed'[<<s[1], s[2], n>>] = signed[<<s[1], s[2], n>>]
    BY <1>3, <2>1 DEF NodesOf
  <2>4. MapOf(s[1], s[2])' = MapOf(s[1], s[2])
    BY <2>2, <2>3 DEF MapOf
  <2>5. TxInputIdRead(key) = <<txid, input>> /\ TxInputIdRead(TxInputIdWrite(s[1], s[2])) = <<s[1], s[2]>>
    BY SignedFacts, KeyReadBack
  <2>. QED
    BY <1>6, <2>4, <2>5
<1>7. /\ DOMAIN transaction_signatures' = DOMAIN transaction_signatures \cup {key}
      /\ transaction_signatures'[key] = BinaryMapToPb(MapOf(txid, input)')
      /\ \A k \in DOMAIN transaction_signatures : k # key =>
            transaction_signatures'[k] = transaction_signatures[k]
  BY <1>2, <1>5 DEF Put
<1>8. DOMAIN transaction_signatures' = {TxInputIdWrite(s[1], s[2]) : s \in DOMAIN signed'}
  <2>1. TxInputIdWrite(t[1], t[2]) = key
    OBVIOUS
  <2>. HIDE DEF t, key
  <2>. QED
    BY <1>3, <1>7, <2>1 DEF StoreInv
<1>9. ASSUME NEW s \in DOMAIN signed'
      PROVE  transaction_signatures'[TxInputIdWrite(s[1], s[2])] = BinaryMapToPb(MapOf(s[1], s[2])')
  <2>1. CASE s[1] = txid /\ s[2] = input
    BY <1>7, <2>1
  <2>2. CASE ~(s[1] = txid /\ s[2] = input)
    <3>1. s \in DOMAIN signed /\ <<s[1], s[2]>> # <<txid, input>>
      BY <1>3, <2>2
    <3>2. TxInputIdWrite(s[1], s[2]) \in DOMAIN transaction_signatures
      BY <3>1 DEF StoreInv
    <3>. QED
      BY <1>6, <1>7, <3>1, <3>2 DEF StoreInv
  <2>. QED
    BY <2>1, <2>2
<1>. QED
  BY <1>4, <1>8, <1>9 DEF StoreInv

\* It holds in every state.
LEMMA StoreInvariant == StoreSpec => []StoreInv
<1>1. StoreInit => StoreInv
  BY DEF StoreInit, StoreInv
<1>2. StoreInv /\ [StoreNext]_storeVars => StoreInv'
  <2>. SUFFICES ASSUME StoreInv, [StoreNext]_storeVars PROVE StoreInv'
    OBVIOUS
  <2>1. ASSUME UNCHANGED <<transaction_signatures, signed>> PROVE StoreInv'
    BY <2>1 DEF StoreInv, MapOf, NodesOf
  <2>2. ASSUME NEW name, NEW value, WriteParam(name, value) PROVE StoreInv'
    BY <2>1, <2>2 DEF WriteParam
  <2>3. CASE Initialize
    BY <2>1, <2>3 DEF Initialize
  <2>4. CASE UNCHANGED storeVars
    BY <2>1, <2>4 DEF storeVars
  <2>. QED
    BY <2>2, <2>3, <2>4, PutKeepsStore DEF StoreNext
<1>. QED
  BY <1>1, <1>2, PTL DEF StoreSpec

\* The signatures that are read for an input are those that the nodes sent for it: the
\* layout of TxInputId keeps the keys of any two inputs apart, and the conversions of
\* BinaryMap lose and change nothing, for any number of nodes and inputs.
THEOREM SignaturesKept == StoreSpec => []SignaturesAreKept
<1>1. StoreInv => SignaturesAreKept
  <2>. SUFFICES ASSUME StoreInv PROVE SignaturesAreKept
    OBVIOUS
  <2>1. {TxInputIdRead(key) : key \in DOMAIN transaction_signatures}
          = {<<s[1], s[2]>> : s \in DOMAIN signed}
    <3>1. \A s \in DOMAIN signed : TxInputIdRead(TxInputIdWrite(s[1], s[2])) = <<s[1], s[2]>>
      BY SignedFacts, KeyReadBack
    <3>2. DOMAIN transaction_signatures = {TxInputIdWrite(s[1], s[2]) : s \in DOMAIN signed}
      BY DEF StoreInv
    <3>. QED
      BY <3>1, <3>2
  <2>2. ASSUME NEW s \in DOMAIN signed
        PROVE  /\ DOMAIN InputSignatures(s[1], s[2])
                    = {t[3] : t \in {u \in DOMAIN signed : u[1] = s[1] /\ u[2] = s[2]}}
               /\ InputSignatures(s[1], s[2])[s[3]] = signed[s]
    <3>1. /\ s[1] \in TxIds /\ s[2] \in Inputs /\ s = <<s[1], s[2], s[3]>>
          /\ s[3] \in NodesOf(s[1], s[2])
      BY SignedFacts
    <3>2. InputSignatures(s[1], s[2]) = MapOf(s[1], s[2])
      BY <3>1, InputIsRead
    <3>3. NodesOf(s[1], s[2]) = {t[3] : t \in {u \in DOMAIN signed : u[1] = s[1] /\ u[2] = s[2]}}
      <4>1. ASSUME NEW n \in NodesOf(s[1], s[2])
            PROVE  \E t \in {u \in DOMAIN signed : u[1] = s[1] /\ u[2] = s[2]} : n = t[3]
        <5>. DEFINE t == <<s[1], s[2], n>>
        <5>1. t \in DOMAIN signed /\ t[1] = s[1] /\ t[2] = s[2] /\ n = t[3]
          BY DEF NodesOf
        <5>. HIDE DEF t
        <5>. QED
          BY <5>1
      <4>2. ASSUME NEW t \in DOMAIN signed, t[1] = s[1], t[2] = s[2]
            PROVE  t[3] \in NodesOf(s[1], s[2])
        BY <4>2, SignedFacts
      <4>. QED
        BY <4>1, <4>2
    <3>4. MapOf(s[1], s[2])[s[3]] = signed[s]
      BY <3>1 DEF MapOf
    <3>5. DOMAIN MapOf(s[1], s[2]) = NodesOf(s[1], s[2])
      BY DEF MapOf
    <3>. QED
      BY <3>2, <3>3, <3>4, <3>5
  <2>. QED
    BY <2>1, <2>2 DEF SignaturesAreKept
<1>. QED
  BY <1>1, StoreInvariant, PTL

\* The place of a signature among those of its input is the rank of its node.
LEMMA PlaceIsRank ==
  ASSUME StoreInv, NEW u \in DOMAIN signed
  PROVE  Cardinality({v \in DOMAIN signed : v[1] = u[1] /\ v[2] = u[2] /\ v[3] <= u[3]})
           = Rank(u[3], NodesOf(u[1], u[2]))
<1>. DEFINE S == {n \in NodesOf(u[1], u[2]) : n <= u[3]}
            T == {v \in DOMAIN signed : v[1] = u[1] /\ v[2] = u[2] /\ v[3] <= u[3]}
            f == [n \in S |-> <<u[1], u[2], n>>]
<1>1. IsFiniteSet(S)
  <2>1. IsFiniteSet(NodeIds)
    BY StoreAssumption, NumbersFacts, FS_Subset
  <2>2. S \in SUBSET NodeIds
    BY DEF NodesOf
  <2>. QED
    BY <2>1, <2>2, FS_Subset
<1>2. f \in [S -> T]
  <2>1. ASSUME NEW n \in S PROVE <<u[1], u[2], n>> \in T
    BY DEF NodesOf
  <2>. HIDE DEF S, T
  <2>. QED
    BY <2>1
<1>3. f \in Injection(S, T)
  <2>1. ASSUME NEW a \in S, NEW b \in S, f[a] = f[b] PROVE a = b
    <3>1. <<u[1], u[2], a>> = <<u[1], u[2], b>>
      BY <2>1
    <3>. QED
      BY <3>1
  <2>2. DOMAIN f = S
    OBVIOUS
  <2>. HIDE DEF f, S, T
  <2>. QED
    BY <1>2, <2>1, <2>2, Zenon DEF Injection, IsInjective
<1>4. f \in Surjection(S, T)
  <2>1. ASSUME NEW v \in T PROVE \E n \in S : f[n] = v
    <3>1. /\ v = <<v[1], v[2], v[3]>> /\ v[1] = u[1] /\ v[2] = u[2]
          /\ v[3] \in NodesOf(v[1], v[2]) /\ v[3] <= u[3]
      BY SignedFacts
    <3>2. v[3] \in S
      BY <3>1
    <3>3. f[v[3]] = <<u[1], u[2], v[3]>>
      BY <3>2
    <3>. QED
      BY <3>1, <3>2, <3>3
  <2>. HIDE DEF f, S, T
  <2>. QED
    BY <1>2, <2>1 DEF Surjection
<1>5. Cardinality(T) = Cardinality(S)
  <2>. HIDE DEF f, S, T
  <2>1. ExistsBijection(S, T)
    BY <1>3, <1>4 DEF ExistsBijection, Bijection
  <2>. QED
    BY <1>1, <2>1, FS_Bijection
<1>. QED
  BY <1>5 DEF Rank

\* The witness of an input has the signatures in the order of the anchoring nodes, for
\* any number of nodes with identifiers of any length, in whatever order they signed.
THEOREM WitnessInNodeOrder == StoreSpec => []WitnessIsInNodeOrder
<1>1. StoreInv => WitnessIsInNodeOrder
  <2>. SUFFICES ASSUME StoreInv PROVE WitnessIsInNodeOrder
    OBVIOUS
  <2>1. ASSUME NEW u \in DOMAIN signed
        PROVE  LET place == Cardinality({v \in DOMAIN signed :
                                            v[1] = u[1] /\ v[2] = u[2] /\ v[3] <= u[3]})
               IN Values(InputSignatures(u[1], u[2]))[place] = signed[u]
    <3>. DEFINE D == NodesOf(u[1], u[2])
                map == MapOf(u[1], u[2])
                r == Rank(u[3], D)
    <3>1. /\ u[1] \in TxIds /\ u[2] \in Inputs /\ u[3] \in D
          /\ u = <<u[1], u[2], u[3]>>
      BY SignedFacts
    <3>2. InputSignatures(u[1], u[2]) = map /\ DOMAIN map = D /\ map[u[3]] = signed[u]
      BY <3>1, InputIsRead DEF MapOf
    <3>3. D \subseteq Int /\ IsFiniteSet(D)
      <4>1. D \subseteq NodeIds /\ NodeIds \subseteq Numbers(NodeIdLen) /\ NodeIdLen \in Nat
        BY StoreAssumption DEF NodesOf
      <4>2. Numbers(NodeIdLen) \subseteq Nat /\ IsFiniteSet(Numbers(NodeIdLen))
        BY <4>1, NumbersFacts
      <4>. HIDE DEF D
      <4>. QED
        BY <4>1, <4>2, FS_Subset
    <3>. HIDE DEF D, map
    <3>4. /\ InOrder(D) \in [1..Cardinality(D) -> D]
          /\ r \in 1..Cardinality(D) /\ InOrder(D)[r] = u[3]
      BY <3>1, <3>3, InOrderFacts
    <3>5. Values(map)[r] = map[u[3]]
      BY <3>2, <3>4 DEF Values
    <3>6. Cardinality({v \in DOMAIN signed : v[1] = u[1] /\ v[2] = u[2] /\ v[3] <= u[3]}) = r
      BY PlaceIsRank, Zenon DEF D
    <3>. QED
      BY <3>2, <3>5, <3>6
  <2>. QED
    BY <2>1 DEF WitnessIsInNodeOrder
<1>. QED
  BY <1>1, StoreInvariant, PTL

-----------------------------------------------------------------------------
(***************************************************************************)
(* The configuration: its message has the fields in four groups, and each  *)
(* field is read from its group.                                           *)
(***************************************************************************)
\* The places from one number to another are in order.
LEMMA IntervalInOrder ==
  ASSUME NEW a \in Nat, NEW k \in Nat
  PROVE  /\ Cardinality((a + 1)..(a + k)) = k
         /\ \A i \in 1..k : InOrder((a + 1)..(a + k))[i] = a + i
<1>. DEFINE S == (a + 1)..(a + k)
<1>1. ASSUME NEW i \in 0..k
      PROVE  IsFiniteSet((a + 1)..(a + i)) /\ Cardinality((a + 1)..(a + i)) = i
  <2>. DEFINE b == a + 1
              c == a + i
  <2>1. b \in Int /\ c \in Int /\ (IF b > c THEN 0 ELSE c - b + 1) = i
    OBVIOUS
  <2>. HIDE DEF b, c
  <2>2. IsFiniteSet(b..c) /\ Cardinality(b..c) = i
    BY <2>1, FS_Interval
  <2>. QED
    BY <2>2 DEF b, c
<1>2. k \in 0..k
  OBVIOUS
<1>3. S \subseteq Int /\ IsFiniteSet(S) /\ Cardinality(S) = k
  BY <1>1, <1>2
<1>4. ASSUME NEW i \in 1..k PROVE InOrder(S)[i] = a + i
  <2>1. a + i \in S /\ {y \in S : y <= a + i} = (a + 1)..(a + i) /\ i \in 0..k
    OBVIOUS
  <2>2. Rank(a + i, S) = i
    BY <1>1, <2>1 DEF Rank
  <2>. HIDE DEF S
  <2>. QED
    BY <1>3, <2>1, <2>2, InOrderFacts
<1>. QED
  BY <1>3, <1>4

\* A scalar that is written is read back from its group, also when it is 0.
LEMMA ScalarReadBack ==
  ASSUME NEW message, NEW name, NEW value, NEW a \in Nat,
         Places(message, name) = (a + 1)..(a + Len(ScalarField(name, value))),
         value # 0 => message[a + 1].value = value
  PROVE  Scalar(message, name) = value
<1>1. CASE value = 0
  <2>1. Len(ScalarField(name, value)) = 0
    BY <1>1 DEF ScalarField
  <2>2. Places(message, name) = {}
    BY <2>1
  <2>. QED
    BY <1>1, <2>2 DEF Scalar
<1>2. CASE value # 0
  <2>1. Len(ScalarField(name, value)) = 1
    BY <1>2 DEF ScalarField
  <2>2. Places(message, name) = {a + 1}
    BY <2>1
  <2>3. LastOf({a + 1}) = a + 1
    BY LastOfFacts
  <2>. QED
    BY <1>2, <2>2, <2>3 DEF Scalar
<1>. QED
  BY <1>1, <1>2

IsConcat(r, s, t) ==
    /\ Len(r) = Len(s) + Len(t)
    /\ \A i \in 1..(Len(s) + Len(t)) : r[i] = IF i <= Len(s) THEN s[i] ELSE t[i - Len(s)]

\* The elements of a concatenation.
LEMMA ConcatFacts ==
  ASSUME NEW S, NEW s \in Seq(S), NEW t \in Seq(S)
  PROVE  s \o t \in Seq(S) /\ IsConcat(s \o t, s, t)
BY ConcatProperties DEF IsConcat

Joins(m, A, B, C, D) ==
    /\ DOMAIN m = 1..(Len(A) + Len(B) + Len(C) + Len(D))
    /\ \A i \in 1..Len(A) : m[i] = A[i]
    /\ \A i \in 1..Len(B) : m[Len(A) + i] = B[i]
    /\ \A i \in 1..Len(C) : m[Len(A) + Len(B) + i] = C[i]
    /\ \A i \in 1..Len(D) : m[Len(A) + Len(B) + Len(C) + i] = D[i]

\* The elements of four groups.
LEMMA FourGroups ==
  ASSUME NEW S, NEW A \in Seq(S), NEW B \in Seq(S), NEW C \in Seq(S), NEW D \in Seq(S)
  PROVE  Joins(A \o B \o C \o D, A, B, C, D)
<1>. DEFINE ab == A \o B
            abc == ab \o C
            m == abc \o D
            a == Len(A)
            b == Len(B)
            c == Len(C)
            d == Len(D)
<1>1. a \in Nat /\ b \in Nat /\ c \in Nat /\ d \in Nat
  BY LenProperties
<1>2. ab \in Seq(S) /\ IsConcat(ab, A, B)
  BY ConcatFacts, Zenon
<1>. HIDE DEF ab
<1>3. abc \in Seq(S) /\ IsConcat(abc, ab, C)
  BY <1>2, ConcatFacts, Zenon
<1>. HIDE DEF abc
<1>4. m \in Seq(S) /\ IsConcat(m, abc, D)
  BY <1>3, ConcatFacts, Zenon
<1>. HIDE DEF m
<1>5. /\ Len(ab) = a + b /\ Len(abc) = a + b + c /\ Len(m) = a + b + c + d
      /\ \A i \in 1..(a + b) : ab[i] = IF i <= a THEN A[i] ELSE B[i - a]
      /\ \A i \in 1..(a + b + c) : abc[i] = IF i <= a + b THEN ab[i] ELSE C[i - (a + b)]
      /\ \A i \in 1..(a + b + c + d) : m[i] = IF i <= a + b + c THEN abc[i] ELSE D[i - (a + b + c)]
  <2>1. Len(ab) = a + b /\ \A i \in 1..(a + b) : ab[i] = IF i <= a THEN A[i] ELSE B[i - a]
    BY <1>2 DEF IsConcat
  <2>2. /\ Len(abc) = a + b + c
        /\ \A i \in 1..(a + b + c) : abc[i] = IF i <= a + b THEN ab[i] ELSE C[i - (a + b)]
    BY <1>3, <2>1 DEF IsConcat
  <2>3. /\ Len(m) = a + b + c + d
        /\ \A i \in 1..(a + b + c + d) : m[i] = IF i <= a + b + c THEN abc[i] ELSE D[i - (a + b + c)]
    BY <1>4, <2>2 DEF IsConcat
  <2>. QED
    BY <2>1, <2>2, <2>3
<1>. HIDE DEF a, b, c, d
<1>6. DOMAIN m = 1..(a + b + c + d)
  BY <1>4, <1>5, LenProperties
<1>7. ASSUME NEW i \in 1..a PROVE m[i] = A[i]
  <2>1. /\ i \in 1..(a + b) /\ i <= a /\ i \in 1..(a + b + c) /\ i <= a + b
        /\ i \in 1..(a + b + c + d) /\ i <= a + b + c
    BY <1>1
  <2>. QED
    BY <1>5, <2>1
<1>8. ASSUME NEW i \in 1..b PROVE m[a + i] = B[i]
  <2>. DEFINE j == a + i
  <2>1. /\ j \in 1..(a + b) /\ ~(j <= a) /\ j - a = i
        /\ j \in 1..(a + b + c) /\ j <= a + b
        /\ j \in 1..(a + b + c + d) /\ j <= a + b + c
    BY <1>1
  <2>. HIDE DEF j
  <2>2. m[j] = B[i]
    BY <1>5, <2>1
  <2>. QED
    BY <2>2 DEF j
<1>9. ASSUME NEW i \in 1..c PROVE m[a + b + i] = C[i]
  <2>. DEFINE j == a + b + i
  <2>1. /\ j \in 1..(a + b + c) /\ ~(j <= a + b) /\ j - (a + b) = i
        /\ j \in 1..(a + b + c + d) /\ j <= a + b + c
    BY <1>1
  <2>. HIDE DEF j
  <2>2. m[j] = C[i]
    BY <1>5, <2>1
  <2>. QED
    BY <2>2 DEF j
<1>10. ASSUME NEW i \in 1..d PROVE m[a + b + c + i] = D[i]
  <2>. DEFINE j == a + b + c + i
  <2>1. /\ j \in 1..(a + b + c + d) /\ ~(j <= a + b + c) /\ j - (a + b + c) = i
    BY <1>1
  <2>. HIDE DEF j
  <2>2. m[j] = D[i]
    BY <1>5, <2>1
  <2>. QED
    BY <2>2 DEF j
<1>11. Joins(m, A, B, C, D)
  BY <1>6, <1>7, <1>8, <1>9, <1>10 DEF Joins, a, b, c, d
<1>. QED
  BY <1>11 DEF m, abc, ab

HasName(group, name) == \A i \in 1..Len(group) : group[i].name = name

ArePlaces(m, A, B, C, D) ==
    /\ Places(m, "network") = (0 + 1)..(0 + Len(A))
    /\ Places(m, "anchoring_keys") = (Len(A) + 1)..(Len(A) + Len(B))
    /\ Places(m, "anchoring_interval")
         = (Len(A) + Len(B) + 1)..(Len(A) + Len(B) + Len(C))
    /\ Places(m, "transaction_fee")
         = (Len(A) + Len(B) + Len(C) + 1)..(Len(A) + Len(B) + Len(C) + Len(D))

\* The places of the fields of a message that has them in four groups.
LEMMA MessageGroups ==
  ASSUME NEW A, NEW B, NEW C, NEW D, NEW m, Joins(m, A, B, C, D),
         Len(A) \in Nat, Len(B) \in Nat, Len(C) \in Nat, Len(D) \in Nat,
         HasName(A, "network"), HasName(B, "anchoring_keys"),
         HasName(C, "anchoring_interval"), HasName(D, "transaction_fee")
  PROVE  ArePlaces(m, A, B, C, D)
<1>. DEFINE a == Len(A)
            b == Len(B)
            c == Len(C)
            d == Len(D)
            I == 1..(a + b + c + d)
            I1 == (0 + 1)..(0 + a)
            I2 == (a + 1)..(a + b)
            I3 == (a + b + 1)..(a + b + c)
            I4 == (a + b + c + 1)..(a + b + c + d)
<1>1. a \in Nat /\ b \in Nat /\ c \in Nat /\ d \in Nat
  OBVIOUS
<1>2. /\ DOMAIN m = I
      /\ \A i \in 1..a : m[i] = A[i] /\ A[i].name = "network"
      /\ \A i \in 1..b : m[a + i] = B[i] /\ B[i].name = "anchoring_keys"
      /\ \A i \in 1..c : m[a + b + i] = C[i] /\ C[i].name = "anchoring_interval"
      /\ \A i \in 1..d : m[a + b + c + i] = D[i] /\ D[i].name = "transaction_fee"
  BY DEF Joins, HasName
<1>. HIDE DEF a, b, c, d
<1>3. \A i \in I1 : m[i].name = "network"
  BY <1>1, <1>2
<1>4. ASSUME NEW i \in I2 PROVE m[i].name = "anchoring_keys"
  <2>1. i - a \in 1..b /\ a + (i - a) = i
    BY <1>1
  <2>. QED
    BY <1>2, <2>1
<1>5. ASSUME NEW i \in I3 PROVE m[i].name = "anchoring_interval"
  <2>1. i - (a + b) \in 1..c /\ a + b + (i - (a + b)) = i
    BY <1>1
  <2>. QED
    BY <1>2, <2>1
<1>6. ASSUME NEW i \in I4 PROVE m[i].name = "transaction_fee"
  <2>1. i - (a + b + c) \in 1..d /\ a + b + c + (i - (a + b + c)) = i
    BY <1>1
  <2>. QED
    BY <1>2, <2>1
<1>7. /\ \A i \in I : i \in I1 \/ i \in I2 \/ i \in I3 \/ i \in I4
      /\ I1 \subseteq I /\ I2 \subseteq I /\ I3 \subseteq I /\ I4 \subseteq I
  BY <1>1
<1>8. DOMAIN m = I
  BY <1>2
<1>. HIDE DEF I, I1, I2, I3, I4
<1>9. Places(m, "network") = I1
  BY <1>3, <1>4, <1>5, <1>6, <1>7, <1>8 DEF Places
<1>10. Places(m, "anchoring_keys") = I2
  BY <1>3, <1>4, <1>5, <1>6, <1>7, <1>8 DEF Places
<1>11. Places(m, "anchoring_interval") = I3
  BY <1>3, <1>4, <1>5, <1>6, <1>7, <1>8 DEF Places
<1>12. Places(m, "transaction_fee") = I4
  BY <1>3, <1>4, <1>5, <1>6, <1>7, <1>8 DEF Places
<1>. QED
  BY <1>9, <1>10, <1>11, <1>12 DEF I1, I2, I3, I4, a, b, c, d, ArePlaces

FieldNames == {"network", "anchoring_keys", "anchoring_interval", "transaction_fee"}

FieldsOf(V) == [name : FieldNames, value : V]

\* A scalar is a group of at most one field.
LEMMA ScalarGroup ==
  ASSUME NEW V, NEW name \in FieldNames, NEW value \in V
  PROVE  /\ ScalarField(name, value) \in Seq(FieldsOf(V))
         /\ HasName(ScalarField(name, value), name)
         /\ Len(ScalarField(name, value)) \in Nat
         /\ value # 0 => /\ Len(ScalarField(name, value)) = 1
                         /\ ScalarField(name, value)[1].value = value
<1>1. CASE value = 0
  <2>1. ScalarField(name, value) = <<>>
    BY <1>1 DEF ScalarField
  <2>2. <<>> \in Seq(FieldsOf(V)) /\ Len(<<>>) = 0
    BY EmptySeq, Zenon
  <2>3. HasName(<<>>, name)
    BY <2>2 DEF HasName
  <2>. QED
    BY <1>1, <2>1, <2>2, <2>3
<1>2. CASE value # 0
  <2>. DEFINE f == [name |-> name, value |-> value]
  <2>1. ScalarField(name, value) = <<f>>
    BY <1>2 DEF ScalarField
  <2>2. f \in FieldsOf(V) /\ f.name = name /\ f.value = value
    BY DEF FieldsOf
  <2>. HIDE DEF f
  <2>. QED
    BY <2>1, <2>2 DEF HasName
<1>. QED
  BY <1>1, <1>2

KeyFields(keys) == [n \in DOMAIN keys |-> [name |-> "anchoring_keys", value |-> keys[n]]]

Message(number, keys, interval, fee) ==
    ScalarField("network", number) \o KeyFields(keys)
        \o ScalarField("anchoring_interval", interval) \o ScalarField("transaction_fee", fee)

\* The keys are a group of as many fields.
LEMMA KeyGroup ==
  ASSUME NEW V, NEW keys \in Seq(V)
  PROVE  /\ KeyFields(keys) \in Seq(FieldsOf(V))
         /\ HasName(KeyFields(keys), "anchoring_keys")
         /\ Len(keys) \in Nat /\ Len(KeyFields(keys)) = Len(keys)
         /\ \A i \in 1..Len(keys) : KeyFields(keys)[i].value = keys[i]
<1>1. Len(keys) \in Nat /\ DOMAIN keys = 1..Len(keys) /\ \A i \in 1..Len(keys) : keys[i] \in V
  BY LenProperties
<1>2. DOMAIN KeyFields(keys) = 1..Len(keys)
  BY <1>1 DEF KeyFields
<1>3. ASSUME NEW i \in 1..Len(keys)
      PROVE  /\ KeyFields(keys)[i] \in FieldsOf(V)
             /\ KeyFields(keys)[i].name = "anchoring_keys"
             /\ KeyFields(keys)[i].value = keys[i]
  <2>. DEFINE f == [name |-> "anchoring_keys", value |-> keys[i]]
  <2>1. KeyFields(keys)[i] = f
    BY <1>1, Zenon DEF KeyFields
  <2>2. f \in FieldsOf(V) /\ f.name = "anchoring_keys" /\ f.value = keys[i]
    BY <1>1 DEF FieldsOf, FieldNames
  <2>. QED
    BY <2>1, <2>2, Zenon
<1>4. KeyFields(keys) \in [1..Len(keys) -> FieldsOf(V)]
  <2>1. KeyFields(keys) = [i \in 1..Len(keys) |-> KeyFields(keys)[i]]
    BY <1>1 DEF KeyFields
  <2>. QED
    BY <1>3, <2>1
<1>5. KeyFields(keys) \in Seq(FieldsOf(V)) /\ Len(KeyFields(keys)) = Len(keys)
  <2>. DEFINE f == KeyFields(keys)
              T == FieldsOf(V)
              n == Len(keys)
  <2>1. n \in Nat /\ f \in [1..n -> T]
    BY <1>1, <1>4
  <2>. HIDE DEF f, T, n
  <2>2. f \in Seq(T)
    BY <2>1, SeqDef
  <2>3. Len(f) = n
    BY <2>1, <2>2, LenProperties
  <2>. QED
    BY <2>2, <2>3 DEF f, T, n
<1>6. HasName(KeyFields(keys), "anchoring_keys")
  BY <1>3, <1>5, Zenon DEF HasName
<1>. QED
  BY <1>1, <1>3, <1>5, <1>6, Zenon

IsReadAs(m, number, keys, interval, fee) ==
    /\ Scalar(m, "network") = number
    /\ ValuesOf(m, "anchoring_keys") = keys
    /\ Scalar(m, "anchoring_interval") = interval
    /\ Scalar(m, "transaction_fee") = fee

\* Every field of a configuration is read back from the message.
LEMMA MessageReadBack ==
  ASSUME NEW V, NEW number \in V, NEW keys \in Seq(V), NEW interval \in V, NEW fee \in V
  PROVE  IsReadAs(Message(number, keys, interval, fee), number, keys, interval, fee)
<1>. DEFINE S == FieldsOf(V)
            A == ScalarField("network", number)
            B == KeyFields(keys)
            C == ScalarField("anchoring_interval", interval)
            D == ScalarField("transaction_fee", fee)
            m == Message(number, keys, interval, fee)
            a == Len(A)
            b == Len(B)
            c == Len(C)
<1>0. /\ "network" \in FieldNames
      /\ "anchoring_interval" \in FieldNames /\ "transaction_fee" \in FieldNames
  BY DEF FieldNames
<1>1. /\ A \in Seq(S) /\ HasName(A, "network") /\ Len(A) \in Nat
      /\ number # 0 => Len(A) = 1 /\ A[1].value = number
  BY <1>0, ScalarGroup, Zenon
<1>2. /\ B \in Seq(S) /\ HasName(B, "anchoring_keys")
      /\ Len(keys) \in Nat /\ Len(B) = Len(keys)
      /\ \A i \in 1..Len(keys) : B[i].value = keys[i]
  BY KeyGroup, Zenon
<1>3. /\ C \in Seq(S) /\ HasName(C, "anchoring_interval") /\ Len(C) \in Nat
      /\ interval # 0 => Len(C) = 1 /\ C[1].value = interval
  BY <1>0, ScalarGroup, Zenon
<1>4. /\ D \in Seq(S) /\ HasName(D, "transaction_fee") /\ Len(D) \in Nat
      /\ fee # 0 => Len(D) = 1 /\ D[1].value = fee
  BY <1>0, ScalarGroup, Zenon
<1>5. Joins(m, A, B, C, D)
  <2>1. m = A \o B \o C \o D
    BY Zenon DEF Message
  <2>. HIDE DEF m, A, B, C, D, S
  <2>. QED
    BY <1>1, <1>2, <1>3, <1>4, <2>1, FourGroups, Zenon
<1>6. /\ Places(m, "network") = (0 + 1)..(0 + a)
      /\ Places(m, "anchoring_keys") = (a + 1)..(a + b)
      /\ Places(m, "anchoring_interval") = (a + b + 1)..(a + b + c)
      /\ Places(m, "transaction_fee") = (a + b + c + 1)..(a + b + c + Len(D))
  <2>1. Len(B) \in Nat
    BY <1>2
  <2>2. ArePlaces(m, A, B, C, D)
    <3>. HIDE DEF m, A, B, C, D, S
    <3>. QED
      BY <1>1, <1>2, <1>3, <1>4, <1>5, <2>1, MessageGroups, Zenon
  <2>. QED
    BY <2>2, Zenon DEF ArePlaces
<1>7. /\ \A i \in 1..Len(A) : m[i] = A[i]
      /\ \A i \in 1..Len(B) : m[a + i] = B[i]
      /\ \A i \in 1..Len(C) : m[a + b + i] = C[i]
      /\ \A i \in 1..Len(D) : m[a + b + c + i] = D[i]
  BY <1>5, Zenon DEF Joins
<1>8. a \in Nat /\ b \in Nat /\ a + b \in Nat /\ a + b + c \in Nat
  BY <1>1, <1>2, <1>3
<1>9. Scalar(m, "network") = number
  <2>1. ASSUME number # 0 PROVE m[0 + 1].value = number
    <3>1. 1 \in 1..Len(A) /\ A[1].value = number
      BY <1>1, <2>1
    <3>2. m[0 + 1] = A[1]
      BY <1>7, <3>1
    <3>. QED
      BY <3>1, <3>2
  <2>. HIDE DEF m
  <2>. QED
    BY <1>6, <2>1, ScalarReadBack
<1>10. Scalar(m, "anchoring_interval") = interval
  <2>1. ASSUME interval # 0 PROVE m[a + b + 1].value = interval
    <3>1. 1 \in 1..Len(C) /\ C[1].value = interval
      BY <1>3, <2>1
    <3>2. m[a + b + 1] = C[1]
      BY <1>7, <3>1
    <3>. QED
      BY <3>1, <3>2
  <2>. DEFINE ab == a + b
  <2>2. ab \in Nat /\ Places(m, "anchoring_interval") = (ab + 1)..(ab + Len(C))
    BY <1>6, <1>8
  <2>. HIDE DEF m, a, b
  <2>. QED
    BY <2>1, <2>2, ScalarReadBack
<1>11. Scalar(m, "transaction_fee") = fee
  <2>1. ASSUME fee # 0 PROVE m[a + b + c + 1].value = fee
    <3>1. 1 \in 1..Len(D) /\ D[1].value = fee
      BY <1>4, <2>1
    <3>2. m[a + b + c + 1] = D[1]
      BY <1>7, <3>1
    <3>. QED
      BY <3>1, <3>2
  <2>. DEFINE abc == a + b + c
  <2>2. abc \in Nat /\ Places(m, "transaction_fee") = (abc + 1)..(abc + Len(D))
    BY <1>6, <1>8
  <2>. HIDE DEF m, a, b, c
  <2>. QED
    BY <2>1, <2>2, ScalarReadBack
<1>12. ValuesOf(m, "anchoring_keys") = keys
  <2>. DEFINE P == (a + 1)..(a + b)
  <2>1. Cardinality(P) = b /\ \A i \in 1..b : InOrder(P)[i] = a + i
    BY <1>8, IntervalInOrder
  <2>2. DOMAIN InOrder(P) = 1..b
    BY <2>1 DEF InOrder
  <2>3. \A i \in 1..b : m[InOrder(P)[i]].value = keys[i]
    BY <1>2, <1>7, <2>1
  <2>4. ValuesOf(m, "anchoring_keys") = [i \in 1..b |-> m[InOrder(P)[i]].value]
    BY <1>6, <2>2 DEF ValuesOf
  <2>5. ValuesOf(m, "anchoring_keys") = [i \in 1..b |-> keys[i]]
    BY <2>3, <2>4
  <2>6. keys = [i \in 1..b |-> keys[i]]
    BY <1>2, LenProperties
  <2>. QED
    BY <2>5, <2>6
<1>. QED
  BY <1>9, <1>10, <1>11, <1>12, Zenon DEF IsReadAs

\* A repeated field of a message is read as a sequence.
LEMMA ValuesType ==
  ASSUME NEW V, NEW message \in Seq(FieldsOf(V)), NEW name
  PROVE  ValuesOf(message, name) \in Seq(V)
<1>. DEFINE P == Places(message, name)
            k == Cardinality(P)
<1>1. Len(message) \in Nat /\ DOMAIN message = 1..Len(message)
  BY LenProperties
<1>2. \A n \in DOMAIN message : message[n].value \in V
  <2>1. \A n \in DOMAIN message : message[n] \in FieldsOf(V)
    BY <1>1, ElementOfSeq, Zenon
  <2>. QED
    BY <2>1 DEF FieldsOf
<1>3. P \subseteq DOMAIN message
  BY DEF Places
<1>4. P \subseteq Int /\ IsFiniteSet(P)
  <2>1. IsFiniteSet(1..Len(message))
    BY <1>1, FS_Interval
  <2>. QED
    BY <1>1, <1>3, <2>1, FS_Subset
<1>5. k \in Nat /\ InOrder(P) \in [1..k -> P]
  BY <1>4, InOrderFacts
<1>6. ValuesOf(message, name) = [n \in 1..k |-> message[InOrder(P)[n]].value]
  BY <1>5 DEF ValuesOf
<1>. HIDE DEF P, k
<1>7. ValuesOf(message, name) \in [1..k -> V]
  BY <1>2, <1>3, <1>5, <1>6
<1>. QED
  BY <1>5, <1>7, SeqDef

\* A configuration that was read is the one that is read from what is written of it.
LEMMA ConfigReadBack ==
  ASSUME NEW V, NEW message \in Seq(FieldsOf(V)), ConfigFromPb(message) # None
  PROVE  ConfigFromPb(ConfigToPb(ConfigFromPb(message))) = ConfigFromPb(message)
<1>. DEFINE number == Scalar(message, "network")
            keys == ValuesOf(message, "anchoring_keys")
            interval == Scalar(message, "anchoring_interval")
            fee == Scalar(message, "transaction_fee")
            W == V \cup {number, interval, fee}
            networks == {n \in DOMAIN Magic : Magic[n] = number}
            network == CHOOSE n \in networks : TRUE
            config == [network |-> network, anchoring_keys |-> keys,
                       anchoring_interval |-> interval, transaction_fee |-> fee]
            m == Message(number, keys, interval, fee)
<1>1. networks # {} /\ ConfigFromPb(message) = config
  BY Zenon DEF ConfigFromPb
<1>2. Magic[network] = number
  BY <1>1
<1>3. ConfigToPb(config) = m
  <2>. HIDE DEF network, number, keys, interval, fee
  <2>. QED
    BY <1>2 DEF ConfigToPb, Message, KeyFields
<1>4. number \in W /\ keys \in Seq(W) /\ interval \in W /\ fee \in W
  <2>1. keys \in Seq(V)
    BY ValuesType, Zenon
  <2>2. V \subseteq W
    OBVIOUS
  <2>. HIDE DEF keys, W
  <2>3. keys \in Seq(W)
    BY <2>1, <2>2, SeqMonotonic, Zenon
  <2>. QED
    BY <2>3 DEF W
<1>5. /\ Scalar(m, "network") = number
      /\ ValuesOf(m, "anchoring_keys") = keys
      /\ Scalar(m, "anchoring_interval") = interval
      /\ Scalar(m, "transaction_fee") = fee
  <2>. HIDE DEF number, keys, interval, fee, W
  <2>1. IsReadAs(m, number, keys, interval, fee)
    BY <1>4, MessageReadBack, Zenon
  <2>. QED
    BY <2>1, Zenon DEF IsReadAs
<1>6. ConfigFromPb(m) = config
  <2>. HIDE DEF m
  <2>1. networks = {n \in DOMAIN Magic : Magic[n] = Scalar(m, "network")}
    BY <1>5, Zenon
  <2>. QED
    BY <1>1, <1>5, <2>1, Zenon DEF ConfigFromPb
<1>. QED
  BY <1>1, <1>3, <1>6, Zenon

Written == FieldsOf(NetworkNumbers \cup AnchoringKeys \cup Intervals \cup Fees)

\* What is stored of the configuration was written from the parameters, which do
\* not change any more.
ConfigInv ==
    /\ params \in Seq(Written)
    /\ \/ actual_config = None
       \/ /\ ConfigFromPb(params) # None
          /\ Validate(ConfigFromPb(params))
          /\ actual_config = ConfigToPb(ConfigFromPb(params))

\* ConfigIsKept for every list of networks and any number of fields, in any order
\* and with any repetitions: Config::from_pb reads back what Config::to_pb wrote of
\* the parameters that Service::initialize was given.
THEOREM ConfigKept == StoreSpec => []ConfigIsKept
<1>1. StoreInit => ConfigInv
  BY EmptySeq DEF StoreInit, ConfigInv
<1>2. ConfigInv /\ [StoreNext]_storeVars => ConfigInv'
  <2>. SUFFICES ASSUME ConfigInv, [StoreNext]_storeVars PROVE ConfigInv'
    OBVIOUS
  <2>1. ASSUME UNCHANGED <<params, actual_config>> PROVE ConfigInv'
    BY <2>1 DEF ConfigInv
  <2>2. ASSUME NEW name \in FieldNames,
               NEW value \in NetworkNumbers \cup AnchoringKeys \cup Intervals \cup Fees,
               WriteParam(name, value)
        PROVE  ConfigInv'
    <3>. DEFINE f == [name |-> name, value |-> value]
    <3>1. f \in Written
      BY DEF Written, FieldsOf
    <3>2. params' = Append(params, f) /\ actual_config' = None
      BY <2>2 DEF WriteParam
    <3>. HIDE DEF f
    <3>3. params' \in Seq(Written)
      BY <3>1, <3>2, AppendProperties DEF ConfigInv
    <3>. QED
      BY <3>2, <3>3 DEF ConfigInv
  <2>3. CASE \E txid \in TxIds, input \in Inputs, node \in NodeIds, signature \in Signatures :
                PutSignature(txid, input, node, signature)
    BY <2>1, <2>3 DEF PutSignature
  <2>4. CASE \E number \in NetworkNumbers : WriteParam("network", number)
    BY <2>2, <2>4 DEF FieldNames
  <2>5. CASE \E key \in AnchoringKeys : WriteParam("anchoring_keys", key)
    BY <2>2, <2>5 DEF FieldNames
  <2>6. CASE \E interval \in Intervals : WriteParam("anchoring_interval", interval)
    BY <2>2, <2>6 DEF FieldNames
  <2>7. CASE \E fee \in Fees : WriteParam("transaction_fee", fee)
    BY <2>2, <2>7 DEF FieldNames
  <2>8. CASE Initialize
    BY <2>8 DEF Initialize, ConfigInv
  <2>9. CASE UNCHANGED storeVars
    BY <2>1, <2>9 DEF storeVars
  <2>. QED
    BY <2>3, <2>4, <2>5, <2>6, <2>7, <2>8, <2>9 DEF StoreNext
<1>3. ConfigInv => ConfigIsKept
  BY ConfigReadBack, Zenon DEF ConfigInv, ConfigIsKept, Written
<1>. QED
  BY <1>1, <1>2, <1>3, PTL DEF StoreSpec
=============================================================================
