--------------------------- MODULE PayloadProofs ---------------------------
(***************************************************************************)
(* Payloads of any size are read back as they were built, from scripts of  *)
(* any length, and every script that is accepted is the encoding of the    *)
(* payload that is read.                                                   *)
(***************************************************************************)
EXTENDS Payload, BytesProofs

Octets == 0..(Byte - 1)

-----------------------------------------------------------------------------
(***************************************************************************)
(* The layout of a payload: its kind, its height, its hash and its txid.   *)
(***************************************************************************)
IsLaidOut(s, a, b, c, d) ==
    /\ Len(s) = Len(a) + Len(b) + Len(c) + Len(d)
    /\ SubSeq(s, 1, Len(a)) = a
    /\ SubSeq(s, Len(a) + 1, Len(a) + Len(b)) = b
    /\ SubSeq(s, Len(a) + Len(b) + 1, Len(a) + Len(b) + Len(c)) = c
    /\ SubSeq(s, Len(a) + Len(b) + Len(c) + 1, Len(s)) = d

\* Four strings that are put together are found at the sums of their lengths.
LEMMA FourParts ==
  ASSUME NEW S, NEW a \in Seq(S), NEW b \in Seq(S), NEW c \in Seq(S), NEW d \in Seq(S)
  PROVE  a \o b \o c \o d \in Seq(S) /\ IsLaidOut(a \o b \o c \o d, a, b, c, d)
<1>. DEFINE ab == a \o b
            abc == ab \o c
            s == abc \o d
<1>1. Len(a) \in Nat /\ Len(b) \in Nat /\ Len(c) \in Nat /\ Len(d) \in Nat
  BY LenProperties
<1>2. ab \in Seq(S) /\ Len(ab) = Len(a) + Len(b)
  BY ConcatProperties
<1>3. SubSeq(ab, 1, Len(a)) = a /\ SubSeq(ab, Len(a) + 1, Len(ab)) = b
  <2>1. SubSeq(ab, 1, Len(a)) = a /\ SubSeq(ab, Len(a) + 1, Len(a) + Len(b)) = b
    BY CutConcat, Zenon
  <2>. QED
    BY <1>2, <2>1, Zenon
<1>. HIDE DEF ab
<1>4. abc \in Seq(S) /\ Len(abc) = Len(a) + Len(b) + Len(c)
  <2>1. abc \in Seq(S) /\ Len(abc) = Len(ab) + Len(c)
    BY <1>2, ConcatProperties, Zenon
  <2>. QED
    BY <1>2, <2>1
<1>5. SubSeq(abc, Len(ab) + 1, Len(abc)) = c
  BY <1>2, <1>4, CutConcat
<1>6. SubSeq(abc, 1, Len(a)) = a /\ SubSeq(abc, Len(a) + 1, Len(ab)) = b
  <2>1. /\ 1 \in 1..(Len(ab) + 1) /\ Len(a) \in (1 - 1)..Len(ab)
        /\ Len(a) + 1 \in 1..(Len(ab) + 1) /\ Len(ab) \in (Len(a) + 1 - 1)..Len(ab)
    BY <1>1, <1>2
  <2>2. ASSUME NEW m \in 1..(Len(ab) + 1), NEW n \in (m - 1)..Len(ab)
        PROVE  SubSeq(abc, m, n) = SubSeq(ab, m, n)
    BY <1>2, CutFirst, Zenon
  <2>. HIDE DEF abc
  <2>. QED
    BY <1>3, <2>1, <2>2
<1>. HIDE DEF abc
<1>7. s \in Seq(S) /\ Len(s) = Len(abc) + Len(d)
  BY <1>4, ConcatProperties
<1>8. SubSeq(s, Len(abc) + 1, Len(s)) = d
  BY <1>4, <1>7, CutConcat
<1>9. /\ SubSeq(s, 1, Len(a)) = SubSeq(abc, 1, Len(a))
      /\ SubSeq(s, Len(a) + 1, Len(ab)) = SubSeq(abc, Len(a) + 1, Len(ab))
      /\ SubSeq(s, Len(ab) + 1, Len(abc)) = SubSeq(abc, Len(ab) + 1, Len(abc))
  <2>1. /\ 1 \in 1..(Len(abc) + 1) /\ Len(a) \in (1 - 1)..Len(abc)
        /\ Len(a) + 1 \in 1..(Len(abc) + 1) /\ Len(ab) \in (Len(a) + 1 - 1)..Len(abc)
        /\ Len(ab) + 1 \in 1..(Len(abc) + 1) /\ Len(abc) \in (Len(ab) + 1 - 1)..Len(abc)
    BY <1>1, <1>2, <1>4
  <2>2. ASSUME NEW m \in 1..(Len(abc) + 1), NEW n \in (m - 1)..Len(abc)
        PROVE  SubSeq(s, m, n) = SubSeq(abc, m, n)
    BY <1>4, CutFirst, Zenon
  <2>. HIDE DEF s
  <2>. QED
    BY <2>1, <2>2
<1>10. s \in Seq(S) /\ IsLaidOut(s, a, b, c, d)
  <2>. HIDE DEF s
  <2>1. Len(s) = Len(a) + Len(b) + Len(c) + Len(d)
    BY <1>1, <1>4, <1>7
  <2>. QED
    BY <1>2, <1>4, <1>5, <1>6, <1>7, <1>8, <1>9, <2>1 DEF IsLaidOut
<1>. QED
  BY <1>10 DEF s, abc, ab

\* A string is put together of its four parts.
LEMMA FourCuts ==
  ASSUME NEW S, NEW s \in Seq(S),
         NEW i \in 1..Len(s), NEW j \in i..Len(s), NEW k \in j..Len(s)
  PROVE  SubSeq(s, 1, i) \o SubSeq(s, i + 1, j) \o SubSeq(s, j + 1, k)
            \o SubSeq(s, k + 1, Len(s)) = s
<1>1. Len(s) \in Nat
  BY LenProperties
<1>2. ASSUME NEW m \in 0..Len(s), NEW n \in m..Len(s)
      PROVE  SubSeq(s, 1, m) \o SubSeq(s, m + 1, n) = SubSeq(s, 1, n)
  <2>1. 1 \in 1..(Len(s) + 1) /\ m \in (1 - 1)..Len(s)
    BY <1>1
  <2>. QED
    BY <2>1, ConcatAdjacentSubSeq, Zenon
<1>3. /\ i \in 0..Len(s) /\ j \in i..Len(s)
      /\ j \in 0..Len(s) /\ k \in j..Len(s)
      /\ k \in 0..Len(s) /\ Len(s) \in k..Len(s)
  BY <1>1
<1>4. /\ SubSeq(s, 1, i) \o SubSeq(s, i + 1, j) = SubSeq(s, 1, j)
      /\ SubSeq(s, 1, j) \o SubSeq(s, j + 1, k) = SubSeq(s, 1, k)
      /\ SubSeq(s, 1, k) \o SubSeq(s, k + 1, Len(s)) = SubSeq(s, 1, Len(s))
  BY <1>2, <1>3, Zenon
<1>5. SubSeq(s, 1, Len(s)) = s
  BY SubSeqFull
<1>. QED
  BY <1>4, <1>5, Zenon

\* The first element as a part.
LEMMA FirstCut ==
  ASSUME NEW S, NEW s \in Seq(S), Len(s) >= 1
  PROVE  SubSeq(s, 1, 1) = <<s[1]>>
<1>1. 1 \in 1..Len(s) /\ s[1] \in S
  BY LenProperties, ElementOfSeq
<1>2. SubSeq(s, 1, 1) = <<s[1]>> \o SubSeq(s, 1 + 1, 1)
  BY <1>1, SubSeqRecursiveFirst
<1>3. SubSeq(s, 1 + 1, 1) = <<>>
  BY SubSeqEmpty
<1>4. <<s[1]>> \o <<>> = <<s[1]>>
  BY <1>1, ConcatEmptySeq
<1>. QED
  BY <1>2, <1>3, <1>4

\* The parts of a payload after its kind, as parts of the bytes with the kind.
LEMMA DataParts ==
  ASSUME NEW bytes \in Seq(Octets), Len(bytes) >= 1
  PROVE  /\ Len(Tail(bytes)) = Len(bytes) - 1
         /\ \A i \in 1..Len(bytes), j \in Nat :
               i - 1 <= j /\ j <= Len(bytes) - 1 =>
                  SubSeq(Tail(bytes), i, j) = SubSeq(bytes, i + 1, j + 1)
<1>1. Len(bytes) \in Nat /\ bytes # <<>>
  BY LenProperties, EmptySeq
<1>2. Tail(bytes) = SubSeq(bytes, 2, Len(bytes)) /\ Len(Tail(bytes)) = Len(bytes) - 1
  BY <1>1, TailIsSubSeq, HeadTailProperties
<1>3. ASSUME NEW i \in 1..Len(bytes), NEW j \in Nat, i - 1 <= j, j <= Len(bytes) - 1
      PROVE  SubSeq(Tail(bytes), i, j) = SubSeq(bytes, i + 1, j + 1)
  <2>1. /\ 2 \in 1..(Len(bytes) + 1)
        /\ i \in 1..(Len(bytes) - 2 + 2) /\ j \in (i - 1)..(Len(bytes) - 2 + 1)
        /\ 2 + i - 1 = i + 1 /\ 2 + j - 1 = j + 1
    BY <1>1, <1>3
  <2>2. SubSeq(SubSeq(bytes, 2, Len(bytes)), i, j) = SubSeq(bytes, 2 + i - 1, 2 + j - 1)
    BY <2>1, CutCut
  <2>. QED
    BY <1>2, <2>1, <2>2
<1>. QED
  BY <1>2, <1>3

\* The places of the fields in the bytes of a payload.
HeightOf(bytes) == SubSeq(bytes, 2, HeightLen + 1)
HashOf(bytes) == SubSeq(bytes, HeightLen + 2, HeightLen + HashLen + 1)
TxidOf(bytes) == SubSeq(bytes, HeightLen + HashLen + 2, Len(bytes))

IsRegular(bytes) == bytes[1] = PAYLOAD_V1_KIND_REGULAR /\ Len(bytes) = HeightLen + HashLen + 1
IsRecover(bytes) == bytes[1] = PAYLOAD_V1_KIND_RECOVER /\ Len(bytes) = HeightLen + 2 * HashLen + 1

\* What is read from the bytes of either kind.
LEMMA ReadByKind ==
  ASSUME NEW bytes \in Seq(Octets), Len(bytes) >= 1
  PROVE  /\ IsRegular(bytes) =>
              Read(bytes) = [block_height  |-> ReadLittleEndian(HeightOf(bytes)),
                             block_hash    |-> HashOf(bytes),
                             prev_tx_chain |-> None]
         /\ IsRecover(bytes) =>
              Read(bytes) = [block_height  |-> ReadLittleEndian(HeightOf(bytes)),
                             block_hash    |-> HashOf(bytes),
                             prev_tx_chain |-> TxidOf(bytes)]
         /\ ~IsRegular(bytes) /\ ~IsRecover(bytes) => Read(bytes) = None
<1>. DEFINE data == Tail(bytes)
            height == ReadLittleEndian(SubSeq(data, 1, HeightLen))
            hash == SubSeq(data, HeightLen + 1, HeightLen + HashLen)
            txid == SubSeq(data, HeightLen + HashLen + 1, Len(data))
<1>1. HeightLen \in Nat /\ HashLen \in Nat /\ Len(bytes) \in Nat
  BY ByteAssumption, PayloadAssumption, LenProperties
<1>2. /\ Len(data) = Len(bytes) - 1
      /\ \A i \in 1..Len(bytes), j \in Nat :
            i - 1 <= j /\ j <= Len(bytes) - 1 =>
               SubSeq(data, i, j) = SubSeq(bytes, i + 1, j + 1)
  BY DataParts, Zenon
<1>3. /\ IsRegular(bytes) <=> bytes[1] = PAYLOAD_V1_KIND_REGULAR /\ Len(data) = HeightLen + HashLen
      /\ IsRecover(bytes) <=>
            bytes[1] = PAYLOAD_V1_KIND_RECOVER /\ Len(data) = HeightLen + 2 * HashLen
  BY <1>1, <1>2 DEF IsRegular, IsRecover
<1>4. ASSUME IsRegular(bytes) \/ IsRecover(bytes)
      PROVE  height = ReadLittleEndian(HeightOf(bytes)) /\ hash = HashOf(bytes)
  <2>1. HeightLen + HashLen + 1 <= Len(bytes)
    BY <1>1, <1>4 DEF IsRegular, IsRecover
  <2>2. SubSeq(data, 1, HeightLen) = HeightOf(bytes)
    BY <1>1, <1>2, <2>1 DEF HeightOf
  <2>3. hash = HashOf(bytes)
    BY <1>1, <1>2, <2>1 DEF HashOf
  <2>. QED
    BY <2>2, <2>3, Zenon
<1>5. ASSUME IsRecover(bytes) PROVE txid = TxidOf(bytes)
  BY <1>1, <1>2, <1>5 DEF IsRecover, TxidOf
<1>6. ~(IsRegular(bytes) /\ IsRecover(bytes))
  BY DEF IsRegular, IsRecover, PAYLOAD_V1_KIND_REGULAR, PAYLOAD_V1_KIND_RECOVER
<1>7. Read(bytes) =
        CASE bytes[1] = PAYLOAD_V1_KIND_REGULAR /\ Len(data) = HeightLen + HashLen ->
                [block_height |-> height, block_hash |-> hash, prev_tx_chain |-> None]
          [] bytes[1] = PAYLOAD_V1_KIND_RECOVER /\ Len(data) = HeightLen + 2 * HashLen ->
                [block_height |-> height, block_hash |-> hash, prev_tx_chain |-> txid]
          [] OTHER -> None
  BY DEF Read
<1>. HIDE DEF data, height, hash, txid
<1>8. /\ IsRegular(bytes) =>
           Read(bytes) = [block_height |-> height, block_hash |-> hash, prev_tx_chain |-> None]
      /\ IsRecover(bytes) =>
           Read(bytes) = [block_height |-> height, block_hash |-> hash, prev_tx_chain |-> txid]
      /\ ~IsRegular(bytes) /\ ~IsRecover(bytes) => Read(bytes) = None
  BY <1>3, <1>6, <1>7
<1>. QED
  BY <1>4, <1>5, <1>8

\* The fields have their lengths.
LEMMA FieldTypes ==
  ASSUME NEW bytes \in Seq(Octets), IsRegular(bytes) \/ IsRecover(bytes)
  PROVE  /\ HeightOf(bytes) \in ByteStrings(HeightLen)
         /\ HashOf(bytes) \in Hashes
         /\ IsRecover(bytes) => TxidOf(bytes) \in Hashes
<1>1. HeightLen \in Nat /\ HashLen \in Nat /\ Len(bytes) \in Nat
  BY ByteAssumption, PayloadAssumption, LenProperties
<1>2. HeightLen + HashLen + 1 <= Len(bytes)
  BY <1>1 DEF IsRegular, IsRecover
<1>3. ASSUME NEW m \in 1..(Len(bytes) + 1), NEW n \in (m - 1)..Len(bytes)
      PROVE  SubSeq(bytes, m, n) \in [1..(n - m + 1) -> Octets]
  BY CutType, Zenon
<1>4. HeightOf(bytes) \in ByteStrings(HeightLen)
  <2>. DEFINE m == 2
              n == HeightLen + 1
  <2>1. /\ m \in 1..(Len(bytes) + 1) /\ n \in (m - 1)..Len(bytes)
        /\ n - m + 1 = HeightLen
    BY <1>1, <1>2
  <2>2. HeightOf(bytes) = SubSeq(bytes, m, n)
    BY DEF HeightOf
  <2>. HIDE DEF m, n
  <2>3. HeightOf(bytes) \in [1..HeightLen -> Octets]
    BY <1>3, <2>1, <2>2
  <2>. QED
    BY <2>3 DEF ByteStrings, Octets
<1>5. HashOf(bytes) \in Hashes
  <2>. DEFINE m == HeightLen + 2
              n == HeightLen + HashLen + 1
  <2>1. /\ m \in 1..(Len(bytes) + 1) /\ n \in (m - 1)..Len(bytes)
        /\ n - m + 1 = HashLen
    BY <1>1, <1>2
  <2>2. HashOf(bytes) = SubSeq(bytes, m, n)
    BY DEF HashOf
  <2>. HIDE DEF m, n
  <2>3. HashOf(bytes) \in [1..HashLen -> Octets]
    BY <1>3, <2>1, <2>2
  <2>. QED
    BY <2>3 DEF Hashes, ByteStrings, Octets
<1>6. ASSUME IsRecover(bytes) PROVE TxidOf(bytes) \in Hashes
  <2>. DEFINE m == HeightLen + HashLen + 2
              n == Len(bytes)
  <2>1. /\ m \in 1..(Len(bytes) + 1) /\ n \in (m - 1)..Len(bytes)
        /\ n - m + 1 = HashLen
    BY <1>1, <1>6 DEF IsRecover
  <2>2. TxidOf(bytes) = SubSeq(bytes, m, n)
    BY DEF TxidOf
  <2>. HIDE DEF m, n
  <2>3. TxidOf(bytes) \in [1..HashLen -> Octets]
    BY <1>3, <2>1, <2>2
  <2>. QED
    BY <2>3 DEF Hashes, ByteStrings, Octets
<1>. QED
  BY <1>4, <1>5, <1>6

\* What is read is a payload, and its encoding is what it was read from.
LEMMA ReadCanonical ==
  ASSUME NEW bytes \in Seq(Octets), Len(bytes) >= 1
  PROVE  /\ Read(bytes) \in Payloads \cup {None}
         /\ Read(bytes) # None => Write(Read(bytes)) = bytes
<1>. DEFINE p == Read(bytes)
            height == ReadLittleEndian(HeightOf(bytes))
<1>1. HeightLen \in Nat /\ HashLen \in Nat /\ Len(bytes) \in Nat
  BY ByteAssumption, PayloadAssumption, LenProperties
<1>2. CASE ~IsRegular(bytes) /\ ~IsRecover(bytes)
  BY <1>2, ReadByKind
<1>3. ASSUME IsRegular(bytes) \/ IsRecover(bytes)
      PROVE  /\ height \in Heights /\ HashOf(bytes) \in Hashes
             /\ WriteLittleEndian(height, HeightLen) = HeightOf(bytes)
             /\ SubSeq(bytes, 1, 1) = <<bytes[1]>>
             /\ <<bytes[1]>> \o HeightOf(bytes) \o HashOf(bytes) \o TxidOf(bytes) = bytes
  <2>1. HeightLen + HashLen + 1 <= Len(bytes)
    BY <1>1, <1>3 DEF IsRegular, IsRecover
  <2>2. HeightOf(bytes) \in ByteStrings(HeightLen) /\ HashOf(bytes) \in Hashes
    BY <1>3, FieldTypes
  <2>3. height \in Heights /\ WriteLittleEndian(height, HeightLen) = HeightOf(bytes)
    BY <1>1, <2>2, ReadIsWrittenBack, Zenon DEF Heights
  <2>4. SubSeq(bytes, 1, 1) = <<bytes[1]>>
    BY FirstCut, Zenon
  <2>5. SubSeq(bytes, 1, 1) \o HeightOf(bytes) \o HashOf(bytes) \o TxidOf(bytes) = bytes
    <3>. DEFINE j == HeightLen + 1
                k == HeightLen + HashLen + 1
    <3>1. /\ 1 \in 1..Len(bytes) /\ j \in 1..Len(bytes) /\ k \in j..Len(bytes)
          /\ 1 + 1 = 2 /\ j + 1 = HeightLen + 2 /\ k + 1 = HeightLen + HashLen + 2
      BY <1>1, <2>1
    <3>2. SubSeq(bytes, 1, 1) \o SubSeq(bytes, 1 + 1, j) \o SubSeq(bytes, j + 1, k)
            \o SubSeq(bytes, k + 1, Len(bytes)) = bytes
      <4>. HIDE DEF j, k
      <4>. QED
        BY <3>1, FourCuts, Zenon
    <3>. QED
      BY <3>1, <3>2 DEF HeightOf, HashOf, TxidOf
  <2>. QED
    BY <2>2, <2>3, <2>4, <2>5
<1>4. CASE IsRegular(bytes)
  <2>1. p = [block_height |-> height, block_hash |-> HashOf(bytes), prev_tx_chain |-> None]
    BY <1>4, ReadByKind
  <2>. HIDE DEF p, height
  <2>2. p \in Payloads
    BY <1>3, <1>4, <2>1 DEF Payloads
  <2>3. TxidOf(bytes) = <<>>
    BY <1>1, <1>4, SubSeqEmpty DEF IsRegular, TxidOf
  <2>4. Write(p) = <<bytes[1]>> \o HeightOf(bytes) \o HashOf(bytes) \o <<>>
    BY <1>3, <1>4, <2>1 DEF Write, Kind, IsRegular
  <2>. QED
    BY <1>3, <1>4, <2>2, <2>3, <2>4 DEF p
<1>5. CASE IsRecover(bytes)
  <2>1. p = [block_height |-> height, block_hash |-> HashOf(bytes), prev_tx_chain |-> TxidOf(bytes)]
    BY <1>5, ReadByKind
  <2>. HIDE DEF p, height
  <2>2. TxidOf(bytes) \in Hashes /\ TxidOf(bytes) # None
    BY <1>5, FieldTypes, PayloadAssumption
  <2>3. p \in Payloads
    BY <1>3, <1>5, <2>1, <2>2 DEF Payloads
  <2>4. Write(p) = <<bytes[1]>> \o HeightOf(bytes) \o HashOf(bytes) \o TxidOf(bytes)
    BY <1>3, <1>5, <2>1, <2>2 DEF Write, Kind, IsRecover
  <2>. QED
    BY <1>3, <1>5, <2>3, <2>4 DEF p
<1>. QED
  BY <1>2, <1>4, <1>5

\* What is written is read back.
LEMMA WriteRead ==
  ASSUME NEW p \in Payloads
  PROVE  /\ Write(p) \in Seq(Octets)
         /\ Len(Write(p)) >= 1
         /\ Read(Write(p)) = p
<1>. DEFINE height == WriteLittleEndian(p.block_height, HeightLen)
            txid == IF p.prev_tx_chain = None THEN <<>> ELSE p.prev_tx_chain
            bytes == Write(p)
<1>1. HeightLen \in Nat /\ HashLen \in Nat
  BY ByteAssumption, PayloadAssumption
<1>2. /\ p.block_height \in Heights /\ p.block_hash \in Hashes
      /\ p.prev_tx_chain \in Hashes \cup {None}
      /\ p = [block_height |-> p.block_height, block_hash |-> p.block_hash,
              prev_tx_chain |-> p.prev_tx_chain]
  BY DEF Payloads
<1>3. ASSUME NEW len \in Nat, NEW string \in ByteStrings(len)
      PROVE  string \in Seq(Octets) /\ Len(string) = len
  BY ByteStringFacts, Zenon DEF Octets
<1>4. p.block_height \in Nat
  <2>1. Powers(HeightLen)[HeightLen] \in Nat
    BY <1>1, PowersDef
  <2>. QED
    BY <1>2, <2>1 DEF Heights, Numbers
<1>5. height \in Seq(Octets) /\ Len(height) = HeightLen
  BY <1>1, <1>3, <1>4, WriteType, Zenon
<1>6. p.block_hash \in Seq(Octets) /\ Len(p.block_hash) = HashLen
  BY <1>1, <1>2, <1>3, Zenon DEF Hashes
<1>7. /\ txid \in Seq(Octets)
      /\ Len(txid) = IF p.prev_tx_chain = None THEN 0 ELSE HashLen
  <2>1. CASE p.prev_tx_chain = None
    BY <2>1, EmptySeq
  <2>2. CASE p.prev_tx_chain # None
    <3>1. p.prev_tx_chain \in Hashes
      BY <1>2, <2>2
    <3>2. p.prev_tx_chain \in Seq(Octets) /\ Len(p.prev_tx_chain) = HashLen
      BY <1>1, <1>3, <3>1, Zenon DEF Hashes
    <3>. QED
      BY <2>2, <3>2
  <2>. QED
    BY <2>1, <2>2
<1>8. Kind(p) \in Octets /\ <<Kind(p)>> \in Seq(Octets) /\ Len(<<Kind(p)>>) = 1
  BY ByteAssumption DEF Kind, Octets, PAYLOAD_V1_KIND_REGULAR, PAYLOAD_V1_KIND_RECOVER
<1>9. bytes = <<Kind(p)>> \o height \o p.block_hash \o txid
  BY DEF Write
<1>. HIDE DEF height, txid, bytes
<1>10. /\ bytes \in Seq(Octets)
       /\ Len(bytes) = 1 + HeightLen + HashLen + Len(txid)
       /\ SubSeq(bytes, 1, 1) = <<Kind(p)>>
       /\ SubSeq(bytes, 1 + 1, 1 + HeightLen) = height
       /\ SubSeq(bytes, 1 + HeightLen + 1, 1 + HeightLen + HashLen) = p.block_hash
       /\ SubSeq(bytes, 1 + HeightLen + HashLen + 1, Len(bytes)) = txid
  <2>. DEFINE a == <<Kind(p)>>
              b == height
              c == p.block_hash
  <2>1. a \in Seq(Octets) /\ b \in Seq(Octets) /\ c \in Seq(Octets)
    BY <1>5, <1>6, <1>8
  <2>2. Len(a) = 1 /\ Len(b) = HeightLen /\ Len(c) = HashLen
    BY <1>5, <1>6, <1>8
  <2>3. bytes = a \o b \o c \o txid
    BY <1>9
  <2>. HIDE DEF a, b, c
  <2>4. bytes \in Seq(Octets) /\ IsLaidOut(bytes, a, b, c, txid)
    BY <1>7, <2>1, <2>3, FourParts, Zenon
  <2>. QED
    BY <2>2, <2>4, Zenon DEF a, b, c, IsLaidOut
<1>11. Len(bytes) \in Nat /\ Len(bytes) >= 1
  BY <1>1, <1>7, <1>10
<1>12. bytes[1] = Kind(p)
  <2>1. SubSeq(bytes, 1, 1) = <<bytes[1]>>
    BY <1>10, <1>11, FirstCut, Zenon
  <2>2. <<bytes[1]>> = <<Kind(p)>>
    BY <1>10, <2>1, Zenon
  <2>. QED
    BY <2>2
<1>13. HeightOf(bytes) = height /\ HashOf(bytes) = p.block_hash /\ TxidOf(bytes) = txid
  <2>1. /\ 1 + 1 = 2 /\ 1 + HeightLen = HeightLen + 1
        /\ 1 + HeightLen + 1 = HeightLen + 2
        /\ 1 + HeightLen + HashLen = HeightLen + HashLen + 1
        /\ 1 + HeightLen + HashLen + 1 = HeightLen + HashLen + 2
    BY <1>1
  <2>. QED
    BY <1>10, <2>1 DEF HeightOf, HashOf, TxidOf
<1>14. ReadLittleEndian(height) = p.block_height
  BY <1>1, <1>2, WrittenIsReadBack, Zenon DEF height, Heights
<1>15. CASE p.prev_tx_chain = None
  <2>1. IsRegular(bytes)
    BY <1>1, <1>7, <1>10, <1>12, <1>15 DEF IsRegular, Kind
  <2>2. Read(bytes) = [block_height |-> p.block_height, block_hash |-> p.block_hash,
                       prev_tx_chain |-> None]
    BY <1>10, <1>11, <1>13, <1>14, <2>1, ReadByKind
  <2>. QED
    BY <1>2, <1>10, <1>11, <1>15, <2>2 DEF bytes
<1>16. CASE p.prev_tx_chain # None
  <2>1. IsRecover(bytes)
    BY <1>1, <1>7, <1>10, <1>12, <1>16 DEF IsRecover, Kind
  <2>2. Read(bytes) = [block_height |-> p.block_height, block_hash |-> p.block_hash,
                       prev_tx_chain |-> p.prev_tx_chain]
    <3>1. txid = p.prev_tx_chain
      BY <1>16 DEF txid
    <3>. QED
      BY <1>10, <1>11, <1>13, <1>14, <2>1, <3>1, ReadByKind
  <2>. QED
    BY <1>2, <1>10, <1>11, <2>2 DEF bytes
<1>. QED
  BY <1>15, <1>16

-----------------------------------------------------------------------------
(***************************************************************************)
(* The scripts.                                                            *)
(***************************************************************************)
Ops == {"OP_RETURN", "OTHER", "ERROR", "PUSH"}
Instructions == [op : Ops, bytes : Seq(Octets)]
Header == PAYLOAD_PREFIX \o <<PAYLOAD_V1>>

\* The header of a payload is the prefix and the version.
LEMMA HeaderFacts ==
  /\ Header \in Seq(Octets)
  /\ Len(Header) = PAYLOAD_HEADER_LEN - 1
  /\ PAYLOAD_PREFIX \in Seq(Octets) /\ Len(PAYLOAD_PREFIX) \in Nat
  /\ <<PAYLOAD_V1>> \in Seq(Octets) /\ Len(<<PAYLOAD_V1>>) = 1
<1>1. PAYLOAD_PREFIX \in Seq(Octets) /\ Len(PAYLOAD_PREFIX) \in Nat
  BY PayloadAssumption, LenProperties DEF Octets
<1>2. <<PAYLOAD_V1>> \in Seq(Octets) /\ Len(<<PAYLOAD_V1>>) = 1
  BY ByteAssumption DEF PAYLOAD_V1, Octets
<1>3. Header \in Seq(Octets) /\ Len(Header) = Len(PAYLOAD_PREFIX) + Len(<<PAYLOAD_V1>>)
  BY <1>1, <1>2, ConcatProperties, Zenon DEF Header
<1>. QED
  BY <1>1, <1>2, <1>3 DEF PAYLOAD_HEADER_LEN

\* What has the header is the header and what comes after it.
LEMMA HeaderCut ==
  ASSUME NEW bytes \in Seq(Octets), HasHeader(bytes)
  PROVE  LET body == SubSeq(bytes, PAYLOAD_HEADER_LEN, Len(bytes)) IN
         body \in Seq(Octets) /\ Len(body) >= 1 /\ bytes = Header \o body
<1>. DEFINE n == Len(PAYLOAD_PREFIX)
            body == SubSeq(bytes, PAYLOAD_HEADER_LEN, Len(bytes))
<1>1. /\ Len(bytes) \in Nat /\ n \in Nat /\ n + 2 <= Len(bytes)
      /\ PAYLOAD_HEADER_LEN = n + 2
      /\ SubSeq(bytes, 1, n) = PAYLOAD_PREFIX
      /\ bytes[n + 1] = PAYLOAD_V1
  BY LenProperties, HeaderFacts DEF HasHeader, PAYLOAD_HEADER_LEN
<1>. HIDE DEF n
<1>2. body \in Seq(Octets) /\ Len(body) >= 1
  <2>. DEFINE m == n + 2
              k == Len(bytes)
  <2>1. m \in 1..(Len(bytes) + 1) /\ k \in (m - 1)..Len(bytes) /\ k - m + 1 >= 1
    BY <1>1
  <2>. HIDE DEF m, k
  <2>2. SubSeq(bytes, m, k) \in Seq(Octets) /\ Len(SubSeq(bytes, m, k)) = k - m + 1
    BY <2>1, CutType, Zenon
  <2>3. body = SubSeq(bytes, m, k)
    BY <1>1 DEF m, k
  <2>. QED
    BY <2>1, <2>2, <2>3
<1>3. SubSeq(bytes, 1, n + 1) = Header
  <2>1. 1 \in 1..Len(bytes) /\ n + 1 \in 1..Len(bytes) /\ (n + 1) - 1 = n
    BY <1>1
  <2>2. SubSeq(bytes, 1, n + 1) = SubSeq(bytes, 1, (n + 1) - 1) \o <<bytes[n + 1]>>
    BY <2>1, SubSeqRecursiveSecond, Zenon
  <2>. QED
    BY <1>1, <2>1, <2>2, Zenon DEF Header
<1>4. SubSeq(bytes, 1, n + 1) \o body = bytes
  <2>. DEFINE k == n + 1
              l == Len(bytes)
  <2>1. /\ 1 \in 1..(Len(bytes) + 1) /\ k \in (1 - 1)..Len(bytes)
        /\ l \in k..Len(bytes) /\ k + 1 = PAYLOAD_HEADER_LEN
    BY <1>1
  <2>. HIDE DEF k, l
  <2>2. SubSeq(bytes, 1, k) \o SubSeq(bytes, k + 1, l) = SubSeq(bytes, 1, l)
    BY <2>1, ConcatAdjacentSubSeq, Zenon
  <2>3. SubSeq(bytes, 1, Len(bytes)) = bytes
    BY SubSeqFull
  <2>. QED
    BY <2>1, <2>2, <2>3 DEF k, l
<1>. QED
  BY <1>2, <1>3, <1>4

\* The header and anything after it have the header.
LEMMA HeaderPut ==
  ASSUME NEW body \in Seq(Octets), Len(body) >= 1, NEW bytes, bytes = Header \o body
  PROVE  /\ bytes \in Seq(Octets)
         /\ HasHeader(bytes)
         /\ SubSeq(bytes, PAYLOAD_HEADER_LEN, Len(bytes)) = body
<1>. DEFINE n == Len(PAYLOAD_PREFIX)
<1>1. /\ n \in Nat /\ Len(body) \in Nat /\ Len(Header) = n + 1
      /\ PAYLOAD_HEADER_LEN = n + 2 /\ Len(Header) + 1 = PAYLOAD_HEADER_LEN
  BY LenProperties, HeaderFacts DEF PAYLOAD_HEADER_LEN
<1>2. /\ bytes \in Seq(Octets) /\ Len(bytes) = Len(Header) + Len(body)
      /\ \A i \in 1..(Len(Header) + Len(body)) :
            bytes[i] = IF i <= Len(Header) THEN Header[i] ELSE body[i - Len(Header)]
  BY HeaderFacts, ConcatProperties, Zenon
<1>3. SubSeq(bytes, 1, n) = PAYLOAD_PREFIX
  <2>1. 1 \in 1..(Len(Header) + 1) /\ n \in (1 - 1)..Len(Header)
    BY <1>1
  <2>2. SubSeq(bytes, 1, n) = SubSeq(Header, 1, n)
    BY <2>1, HeaderFacts, CutFirst, Zenon
  <2>3. SubSeq(Header, 1, n) = PAYLOAD_PREFIX
    BY HeaderFacts, CutConcat, Zenon DEF Header
  <2>. QED
    BY <2>2, <2>3
<1>4. bytes[n + 1] = PAYLOAD_V1
  <2>1. bytes[n + 1] = Header[n + 1]
    BY <1>1, <1>2
  <2>2. \A i \in 1..(n + Len(<<PAYLOAD_V1>>)) :
           Header[i] = IF i <= n THEN PAYLOAD_PREFIX[i] ELSE <<PAYLOAD_V1>>[i - n]
    BY HeaderFacts, ConcatProperties, Zenon DEF Header
  <2>3. Header[n + 1] = <<PAYLOAD_V1>>[n + 1 - n]
    <3>1. n + 1 \in 1..(n + Len(<<PAYLOAD_V1>>)) /\ ~(n + 1 <= n)
      BY <1>1, HeaderFacts
    <3>. QED
      BY <2>2, <3>1
  <2>4. n + 1 - n = 1 /\ <<PAYLOAD_V1>>[1] = PAYLOAD_V1
    BY <1>1
  <2>. QED
    BY <2>1, <2>3, <2>4
<1>5. SubSeq(bytes, PAYLOAD_HEADER_LEN, Len(bytes)) = body
  <2>1. SubSeq(bytes, Len(Header) + 1, Len(Header) + Len(body)) = body
    BY HeaderFacts, CutConcat, Zenon
  <2>. QED
    BY <1>1, <1>2, <2>1, Zenon
<1>. QED
  BY <1>1, <1>2, <1>3, <1>4, <1>5 DEF HasHeader

\* What is read from any script is a payload or none, and the script starts with the
\* instructions of the payload.
LEMMA ScriptRead ==
  ASSUME NEW s \in Seq(Instructions)
  PROVE  /\ FromScript(s) \in Payloads \cup {None}
         /\ FromScript(s) # None => SubSeq(s, 1, 2) = IntoScript(FromScript(s))
<1>. DEFINE bytes == s[2].bytes
            body == SubSeq(bytes, PAYLOAD_HEADER_LEN, Len(bytes))
            Accepted == /\ Len(s) >= 2
                        /\ s[1] = Op("OP_RETURN")
                        /\ s[2].op = "PUSH"
                        /\ HasHeader(bytes)
<1>1. CASE ~Accepted
  <2>1. FromScript(s) = None
    BY <1>1 DEF FromScript
  <2>. QED
    BY <2>1
<1>2. CASE Accepted
  <2>1. Len(s) \in Nat /\ 1 \in 1..Len(s) /\ 2 \in 1..Len(s) /\ s[2] \in Instructions
    BY <1>2, LenProperties, ElementOfSeq
  <2>2. bytes \in Seq(Octets) /\ s[2] = Instruction("PUSH", bytes)
    BY <1>2, <2>1 DEF Instructions, Instruction
  <2>3. FromScript(s) = Read(body)
    BY <1>2 DEF FromScript
  <2>. DEFINE read == Read(body)
  <2>. HIDE DEF bytes
  <2>4. body \in Seq(Octets) /\ Len(body) >= 1 /\ bytes = Header \o body
    BY <1>2, <2>2, HeaderCut, Zenon
  <2>. HIDE DEF body
  <2>5. read \in Payloads \cup {None} /\ (read # None => Write(read) = body)
    BY <2>4, ReadCanonical, Zenon
  <2>6. SubSeq(s, 1, 2) = <<s[1], s[2]>>
    <3>. DEFINE t == SubSeq(s, 1, 2)
                u == <<s[1], s[2]>>
    <3>1. 1 \in 1..(Len(s) + 1) /\ 2 \in (1 - 1)..Len(s) /\ (2 - 1) + 1 = 2
      BY <2>1
    <3>2. /\ t \in Seq(Instructions) /\ Len(t) = (2 - 1) + 1
          /\ \A i \in 1..((2 - 1) + 1) : t[i] = s[1 + i - 1]
      BY <3>1, CutType
    <3>3. u \in Seq(Instructions) /\ Len(u) = 2 /\ u[1] = s[1] /\ u[2] = s[2]
      BY <2>1, ElementOfSeq
    <3>. HIDE DEF t, u
    <3>4. t[1] = s[1] /\ t[2] = s[2] /\ Len(t) = 2
      BY <3>1, <3>2
    <3>5. Len(t) = Len(u) /\ \A i \in 1..Len(t) : t[i] = u[i]
      BY <3>3, <3>4
    <3>6. t = u
      BY <3>2, <3>3, <3>5, SeqEqual
    <3>. QED
      BY <3>6 DEF t, u
  <2>7. ASSUME read # None PROVE <<s[1], s[2]>> = IntoScript(read)
    <3>1. bytes = PAYLOAD_PREFIX \o <<PAYLOAD_V1>> \o Write(read)
      BY <2>4, <2>5, <2>7 DEF Header
    <3>. QED
      BY <1>2, <2>2, <3>1 DEF IntoScript
  <2>. QED
    BY <2>3, <2>5, <2>6, <2>7
<1>. QED
  BY <1>1, <1>2

\* A payload is read from the script that is made of it.
LEMMA ScriptBuilt ==
  ASSUME NEW p \in Payloads
  PROVE  IntoScript(p) \in Seq(Instructions) /\ FromScript(IntoScript(p)) = p
<1>. DEFINE bytes == PAYLOAD_PREFIX \o <<PAYLOAD_V1>> \o Write(p)
            s == IntoScript(p)
<1>1. Write(p) \in Seq(Octets) /\ Len(Write(p)) >= 1 /\ Read(Write(p)) = p
  BY WriteRead
<1>2. bytes = Header \o Write(p)
  BY DEF Header
<1>. HIDE DEF bytes
<1>3. /\ bytes \in Seq(Octets)
      /\ HasHeader(bytes)
      /\ SubSeq(bytes, PAYLOAD_HEADER_LEN, Len(bytes)) = Write(p)
  BY <1>1, <1>2, HeaderPut, Zenon
<1>4. s = <<Op("OP_RETURN"), Instruction("PUSH", bytes)>>
  BY DEF IntoScript, bytes
<1>5. Op("OP_RETURN") \in Instructions /\ Instruction("PUSH", bytes) \in Instructions
  BY <1>3, EmptySeq DEF Op, Instruction, Instructions, Ops
<1>6. /\ s \in Seq(Instructions) /\ Len(s) = 2
      /\ s[1] = Op("OP_RETURN") /\ s[2] = Instruction("PUSH", bytes)
  <2>. DEFINE x == Op("OP_RETURN")
              y == Instruction("PUSH", bytes)
  <2>1. x \in Instructions /\ y \in Instructions /\ s = <<x, y>>
    BY <1>4, <1>5
  <2>. HIDE DEF x, y, s
  <2>2. s \in Seq(Instructions) /\ Len(s) = 2 /\ s[1] = x /\ s[2] = y
    BY <2>1
  <2>. QED
    BY <2>2 DEF x, y
<1>7. s[2].op = "PUSH" /\ s[2].bytes = bytes
  BY <1>6 DEF Instruction
<1>. HIDE DEF s
<1>8. FromScript(s) = Read(SubSeq(bytes, PAYLOAD_HEADER_LEN, Len(bytes)))
  <2>1. /\ Len(s) >= 2 /\ s[1] = Op("OP_RETURN")
        /\ s[2].op = "PUSH" /\ HasHeader(s[2].bytes)
    BY <1>3, <1>6, <1>7
  <2>2. FromScript(s) = Read(SubSeq(s[2].bytes, PAYLOAD_HEADER_LEN, Len(s[2].bytes)))
    BY <2>1, Zenon DEF FromScript
  <2>. QED
    BY <1>7, <2>2
<1>. QED
  BY <1>1, <1>3, <1>6, <1>8 DEF s

-----------------------------------------------------------------------------
(***************************************************************************)
(* The invariant: what was built is the script of the payload that it was  *)
(* built with.                                                             *)
(***************************************************************************)
Builders == [block_height  : Heights \cup {None},
             block_hash    : Hashes \cup {None},
             prev_tx_chain : Hashes \cup {None}]

PayloadInv ==
    /\ builder \in Builders
    /\ script \in Seq(Instructions)
    /\ written # None => written \in Payloads /\ script = IntoScript(written)

\* It holds in every state.
LEMMA PayloadInvariant == PayloadSpec => []PayloadInv
<1>1. PayloadInit => PayloadInv
  BY EmptySeq DEF PayloadInit, PayloadInv, BuilderNew, Builders
<1>2. PayloadInv /\ [PayloadNext]_payloadVars => PayloadInv'
  <2>. SUFFICES ASSUME PayloadInv, [PayloadNext]_payloadVars PROVE PayloadInv'
    OBVIOUS
  <2>1. CASE UNCHANGED payloadVars
    BY <2>1 DEF PayloadInv, payloadVars
  <2>2. ASSUME NEW height \in Heights, SetField("block_height", height) PROVE PayloadInv'
    BY <2>2 DEF PayloadInv, SetField, Builders
  <2>3. ASSUME NEW hash \in Hashes, SetField("block_hash", hash) PROVE PayloadInv'
    BY <2>3 DEF PayloadInv, SetField, Builders
  <2>4. ASSUME NEW txid \in Hashes \cup {None}, SetField("prev_tx_chain", txid) PROVE PayloadInv'
    BY <2>4 DEF PayloadInv, SetField, Builders
  <2>5. CASE Build
    <3>1. builder \in Payloads
      BY <2>5 DEF PayloadInv, Build, Builders, Payloads
    <3>2. script' \in Seq(Instructions)
      BY <2>5, <3>1, ScriptBuilt DEF Build
    <3>3. builder' \in Builders
      BY <2>5 DEF Build, BuilderNew, Builders
    <3>. QED
      BY <2>5, <3>1, <3>2, <3>3 DEF PayloadInv, Build
  <2>6. ASSUME NEW op \in Ops, Push(Op(op)) PROVE PayloadInv'
    <3>1. Op(op) \in Instructions
      BY EmptySeq DEF Op, Instruction, Instructions
    <3>. QED
      BY <2>6, <3>1, AppendProperties DEF PayloadInv, Push
  <2>7. ASSUME NEW byte \in Octets, PushByte(byte) PROVE PayloadInv'
    <3>. DEFINE n == Len(script)
                last == [script[n] EXCEPT !.bytes = Append(@, byte)]
    <3>1. script \in Seq(Instructions) /\ script # <<>>
      BY <2>7 DEF PayloadInv, PushByte
    <3>2. n \in 1..Len(script) /\ script[n] \in Instructions
      BY <3>1, LenProperties, EmptySeq, ElementOfSeq
    <3>3. last \in Instructions
      BY <3>2, AppendProperties DEF Instructions
    <3>4. script' = [script EXCEPT ![n] = last]
      BY <2>7 DEF PushByte
    <3>. HIDE DEF n, last
    <3>5. script' \in Seq(Instructions)
      BY <3>1, <3>2, <3>3, <3>4, ExceptSeq
    <3>. QED
      BY <2>7, <3>5 DEF PayloadInv, PushByte
  <2>. QED
    BY <2>1, <2>2, <2>3, <2>4, <2>5, <2>6, <2>7 DEF PayloadNext, Ops, Octets
<1>. QED
  BY <1>1, <1>2, PTL DEF PayloadSpec

\* Reading never leaves the bytes that were pushed: whoever made the script, and
\* however long it is, Payload::from_script gives a payload of the right form or none.
THEOREM PayloadTyped == PayloadSpec => []PayloadTypeOK
<1>1. PayloadInv => PayloadTypeOK
  BY ScriptRead DEF PayloadInv, PayloadTypeOK
<1>. QED
  BY <1>1, PayloadInvariant, PTL

\* The payload that a transaction was built with is read back from its output, for
\* every height of any number of bytes, every hash and either kind.
THEOREM PayloadReadBack == PayloadSpec => []PayloadIsReadBack
<1>1. PayloadInv => PayloadIsReadBack
  BY ScriptBuilt DEF PayloadInv, PayloadIsReadBack
<1>. QED
  BY <1>1, PayloadInvariant, PTL

\* A payload has one encoding: a script that Payload::from_script accepts starts with
\* the instructions that into_script makes for what was read.
THEOREM PayloadCanonical == PayloadSpec => []PayloadIsCanonical
<1>1. PayloadInv => PayloadIsCanonical
  BY ScriptRead DEF PayloadInv, PayloadIsCanonical
<1>. QED
  BY <1>1, PayloadInvariant, PTL
=============================================================================
