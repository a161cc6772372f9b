---------------------------- MODULE BytesProofs ----------------------------
(***************************************************************************)
(* Little-endian integers of any length are read back as they were         *)
(* written, and every string of bytes is the encoding of one number.       *)
(***************************************************************************)
EXTENDS Bytes, SequenceTheorems, WellFoundedInduction, TLAPS

-----------------------------------------------------------------------------
(***************************************************************************)
(* Induction and recursion over the natural numbers.  A property is given  *)
(* by the set of numbers that have it, and a step of a recursion by a      *)
(* function.                                                               *)
(***************************************************************************)
\* A set of natural numbers with 0 and the successors of its elements has all.
LEMMA Induction ==
  ASSUME NEW T, T \subseteq Nat, 0 \in T, \A n \in T : n + 1 \in T
  PROVE  T = Nat
<1>. SUFFICES ASSUME Nat \ T # {} PROVE FALSE
  OBVIOUS
<1>1. PICK n \in Nat \ T : \A m \in Nat \ T : <<m, n>> \notin OpToRel(<, Nat)
  <2>. DEFINE U == Nat \ T
  <2>1. U \subseteq Nat /\ U # {}
    OBVIOUS
  <2>. HIDE DEF U
  <2>2. \E n \in U : \A m \in U : <<m, n>> \notin OpToRel(<, Nat)
    BY <2>1, WFMin, NatLessThanWellFounded, Zenon
  <2>. QED
    BY <2>2 DEF U
<1>2. \A m \in Nat \ T : ~(m < n)
  BY <1>1, Zenon DEF OpToRel
<1>3. n - 1 \in Nat /\ n - 1 < n
  OBVIOUS
<1>4. n - 1 \in T
  BY <1>2, <1>3
<1>. QED
  BY <1>4

\* The values of a recursion: the first, and every next one by the step.
IsRecursion(g, a, step, len) ==
    g[0] = a /\ \A i \in 1..len : g[i] = step[i][g[i - 1]]

\* A function on an initial segment that is defined by recursion exists.
LEMMA Recursion ==
  ASSUME NEW S, NEW a \in S, NEW step \in [Nat -> [S -> S]], NEW len \in Nat
  PROVE  \E g \in [0..len -> S] : IsRecursion(g, a, step, len)
<1>. USE DEF IsRecursion
<1>. DEFINE T == {m \in Nat : \E g \in [0..m -> S] : IsRecursion(g, a, step, m)}
<1>1. 0 \in T
  <2>. DEFINE g == [i \in 0..0 |-> a]
  <2>1. g \in [0..0 -> S] /\ IsRecursion(g, a, step, 0)
    OBVIOUS
  <2>. QED
    BY <2>1
<1>2. ASSUME NEW m \in T PROVE m + 1 \in T
  <2>1. PICK g \in [0..m -> S] : IsRecursion(g, a, step, m)
    OBVIOUS
  <2>. DEFINE h == [i \in 0..(m + 1) |-> IF i = m + 1 THEN step[m + 1][g[m]] ELSE g[i]]
  <2>2. h \in [0..(m + 1) -> S] /\ m + 1 \in Nat
    OBVIOUS
  <2>3. IsRecursion(h, a, step, m + 1)
    <3>1. h[0] = a
      BY <2>1
    <3>2. ASSUME NEW i \in 1..(m + 1) PROVE h[i] = step[i][h[i - 1]]
      BY <2>1
    <3>. QED
      BY <3>1, <3>2
  <2>. HIDE DEF h
  <2>. QED
    BY <2>2, <2>3
<1>. HIDE DEF T
<1>3. T = Nat
  <2>1. T \subseteq Nat
    BY DEF T
  <2>. QED
    BY <1>1, <1>2, <2>1, Induction
<1>. QED
  BY <1>3 DEF T

-----------------------------------------------------------------------------
(***************************************************************************)
(* The defining equations of the recursive functions.                      *)
(***************************************************************************)
\* There are Byte times as many strings with one byte more.
LEMMA PowersDef ==
  ASSUME NEW len \in Nat
  PROVE  LET power == Powers(len) IN
         /\ power \in [0..len -> Nat]
         /\ power[0] = 1
         /\ \A i \in 1..len : power[i] = Byte * power[i - 1]
<1>. DEFINE IsPower(f) == f = [i \in 0..len |-> IF i = 0 THEN 1 ELSE Byte * f[i - 1]]
<1>1. PICK step : step = [i \in Nat |-> [x \in Nat |-> Byte * x]]
  BY Zenon
<1>2. ASSUME NEW i \in Nat
      PROVE  step[i] = [x \in Nat |-> Byte * x] /\ step[i] \in [Nat -> Nat]
  <2>1. step[i] = [x \in Nat |-> Byte * x]
    BY <1>1, Zenon
  <2>2. [x \in Nat |-> Byte * x] \in [Nat -> Nat]
    BY ByteAssumption
  <2>. QED
    BY <2>1, <2>2, Zenon
<1>3. step \in [Nat -> [Nat -> Nat]]
  BY <1>1, <1>2, Zenon
<1>4. ASSUME NEW i \in 1..len, NEW x \in Nat
      PROVE  step[i][x] = Byte * x
  <2>1. i \in Nat
    OBVIOUS
  <2>2. step[i] = [y \in Nat |-> Byte * y]
    BY <1>2, <2>1, Zenon
  <2>. QED
    BY <2>2
<1>5. PICK g \in [0..len -> Nat] : g[0] = 1 /\ \A i \in 1..len : g[i] = step[i][g[i - 1]]
  <2>1. 1 \in Nat
    OBVIOUS
  <2>2. \E g \in [0..len -> Nat] : IsRecursion(g, 1, step, len)
    BY <1>3, <2>1, Recursion, Zenon
  <2>. QED
    BY <2>2, Zenon DEF IsRecursion
<1>6. ASSUME NEW i \in 1..len PROVE g[i] = Byte * g[i - 1]
  <2>1. i - 1 \in 0..len /\ g[i - 1] \in Nat
    OBVIOUS
  <2>. QED
    BY <1>4, <1>5, <2>1, Zenon
<1>7. IsPower(g)
  <2>1. \A i \in 0..len : i # 0 => i \in 1..len
    OBVIOUS
  <2>2. ASSUME NEW i \in 0..len PROVE g[i] = IF i = 0 THEN 1 ELSE Byte * g[i - 1]
    BY <1>5, <1>6, <2>1, Zenon
  <2>. QED
    BY <2>2, Zenon
<1>8. PICK power : power = Powers(len)
  BY Zenon
<1>9. power = [i \in 0..len |-> IF i = 0 THEN 1 ELSE Byte * power[i - 1]]
  <2>1. power = CHOOSE f : IsPower(f)
    BY <1>8 DEF Powers
  <2>2. IsPower(power)
    <3>. HIDE DEF IsPower
    <3>. QED
      BY <1>7, <2>1, Zenon
  <2>. QED
    BY <2>2
<1>10. ASSUME NEW i \in 0..len PROVE power[i] = IF i = 0 THEN 1 ELSE Byte * power[i - 1]
  BY <1>9, Zenon
<1>11. power[0] = 1 /\ \A i \in 1..len : power[i] = Byte * power[i - 1]
  BY <1>10
<1>12. power \in [0..len -> Nat]
  <2>. DEFINE T == {i \in Nat : i <= len => power[i] = g[i]}
  <2>1. 0 \in T
    BY <1>5, <1>11
  <2>2. ASSUME NEW i \in T, i + 1 <= len PROVE power[i + 1] = g[i + 1]
    <3>1. i + 1 \in 1..len /\ (i + 1) - 1 = i /\ power[i] = g[i]
      BY <2>2
    <3>. QED
      BY <1>6, <1>11, <3>1
  <2>3. \A i \in T : i + 1 \in T
    BY <2>2
  <2>. HIDE DEF T
  <2>4. T = Nat
    BY <2>1, <2>3, Induction DEF T
  <2>5. \A i \in 0..len : power[i] \in Nat
    BY <2>4 DEF T
  <2>. QED
    BY <1>9, <2>5, Zenon
<1>. QED
  BY <1>8, <1>11, <1>12, Zenon

\* Every byte that is written divides what is left of the number.
LEMMA QuotientsDef ==
  ASSUME NEW n \in Nat, NEW len \in Nat
  PROVE  LET rest == Quotients(n, len) IN
         /\ rest \in [0..len -> Nat]
         /\ rest[0] = n
         /\ \A i \in 1..len : rest[i] = rest[i - 1] \div Byte
<1>. DEFINE IsQuotient(f) == f = [i \in 0..len |-> IF i = 0 THEN n ELSE f[i - 1] \div Byte]
<1>1. PICK step : step = [i \in Nat |-> [x \in Nat |-> x \div Byte]]
  BY Zenon
<1>2. ASSUME NEW i \in Nat
      PROVE  step[i] = [x \in Nat |-> x \div Byte] /\ step[i] \in [Nat -> Nat]
  <2>1. step[i] = [x \in Nat |-> x \div Byte]
    BY <1>1, Zenon
  <2>2. [x \in Nat |-> x \div Byte] \in [Nat -> Nat]
    BY ByteAssumption
  <2>. QED
    BY <2>1, <2>2, Zenon
<1>3. step \in [Nat -> [Nat -> Nat]]
  BY <1>1, <1>2, Zenon
<1>4. ASSUME NEW i \in 1..len, NEW x \in Nat
      PROVE  step[i][x] = x \div Byte
  <2>1. i \in Nat
    OBVIOUS
  <2>2. step[i] = [y \in Nat |-> y \div Byte]
    BY <1>2, <2>1, Zenon
  <2>. QED
    BY <2>2
<1>5. PICK g \in [0..len -> Nat] : g[0] = n /\ \A i \in 1..len : g[i] = step[i][g[i - 1]]
  <2>1. n \in Nat
    OBVIOUS
  <2>2. \E g \in [0..len -> Nat] : IsRecursion(g, n, step, len)
    BY <1>3, <2>1, Recursion, Zenon
  <2>. QED
    BY <2>2, Zenon DEF IsRecursion
<1>6. ASSUME NEW i \in 1..len PROVE g[i] = g[i - 1] \div Byte
  <2>1. i - 1 \in 0..len /\ g[i - 1] \in Nat
    OBVIOUS
  <2>. QED
    BY <1>4, <1>5, <2>1, Zenon
<1>7. IsQuotient(g)
  <2>1. \A i \in 0..len : i # 0 => i \in 1..len
    OBVIOUS
  <2>2. ASSUME NEW i \in 0..len PROVE g[i] = IF i = 0 THEN n ELSE g[i - 1] \div Byte
    BY <1>5, <1>6, <2>1, Zenon
  <2>. QED
    BY <2>2, Zenon
<1>8. PICK rest : rest = Quotients(n, len)
  BY Zenon
<1>9. rest = [i \in 0..len |-> IF i = 0 THEN n ELSE rest[i - 1] \div Byte]
  <2>1. rest = CHOOSE f : IsQuotient(f)
    BY <1>8 DEF Quotients
  <2>2. IsQuotient(rest)
    <3>. HIDE DEF IsQuotient
    <3>. QED
      BY <1>7, <2>1, Zenon
  <2>. QED
    BY <2>2
<1>10. ASSUME NEW i \in 0..len PROVE rest[i] = IF i = 0 THEN n ELSE rest[i - 1] \div Byte
  BY <1>9, Zenon
<1>11. rest[0] = n /\ \A i \in 1..len : rest[i] = rest[i - 1] \div Byte
  BY <1>10
<1>12. rest \in [0..len -> Nat]
  <2>. DEFINE T == {i \in Nat : i <= len => rest[i] = g[i]}
  <2>1. 0 \in T
    BY <1>5, <1>11
  <2>2. ASSUME NEW i \in T, i + 1 <= len PROVE rest[i + 1] = g[i + 1]
    <3>1. i + 1 \in 1..len /\ (i + 1) - 1 = i /\ rest[i] = g[i]
      BY <2>2
    <3>. QED
      BY <1>6, <1>11, <3>1
  <2>3. \A i \in T : i + 1 \in T
    BY <2>2
  <2>. HIDE DEF T
  <2>4. T = Nat
    BY <2>1, <2>3, Induction DEF T
  <2>5. \A i \in 0..len : rest[i] \in Nat
    BY <2>4 DEF T
  <2>. QED
    BY <1>9, <2>5, Zenon
<1>. QED
  BY <1>8, <1>11, <1>12, Zenon

\* Every byte that is read is added to Byte times the value of those after it.
LEMMA SuffixValuesDef ==
  ASSUME NEW len \in Nat, NEW bytes \in ByteStrings(len), Len(bytes) = len
  PROVE  LET value == SuffixValues(bytes) IN
         /\ value \in [0..len -> Nat]
         /\ value[0] = 0
         /\ \A i \in 1..len : value[i] = bytes[len - i + 1] + Byte * value[i - 1]
<1>. DEFINE IsValue(f) == f = [i \in 0..len |-> IF i = 0 THEN 0 ELSE bytes[len - i + 1] + Byte * f[i - 1]]
<1>1. PICK step : step = [i \in Nat |-> [x \in Nat |-> (IF i \in 1..len THEN bytes[len - i + 1] ELSE 0) + Byte * x]]
  BY Zenon
<1>2. ASSUME NEW i \in Nat
      PROVE  step[i] = [x \in Nat |-> (IF i \in 1..len THEN bytes[len - i + 1] ELSE 0) + Byte * x] /\ step[i] \in [Nat -> Nat]
  <2>1. step[i] = [x \in Nat |-> (IF i \in 1..len THEN bytes[len - i + 1] ELSE 0) + Byte * x]
    BY <1>1, Zenon
  <2>2. [x \in Nat |-> (IF i \in 1..len THEN bytes[len - i + 1] ELSE 0) + Byte * x] \in [Nat -> Nat]
    BY ByteAssumption DEF ByteStrings
  <2>. QED
    BY <2>1, <2>2, Zenon
<1>3. step \in [Nat -> [Nat -> Nat]]
  BY <1>1, <1>2, Zenon
<1>4. ASSUME NEW i \in 1..len, NEW x \in Nat
      PROVE  step[i][x] = bytes[len - i + 1] + Byte * x
  <2>1. i \in Nat
    OBVIOUS
  <2>2. step[i] = [y \in Nat |-> (IF i \in 1..len THEN bytes[len - i + 1] ELSE 0) + Byte * y]
    BY <1>2, <2>1, Zenon
  <2>. QED
    BY <2>2
<1>5. PICK g \in [0..len -> Nat] : g[0] = 0 /\ \A i \in 1..len : g[i] = step[i][g[i - 1]]
  <2>1. 0 \in Nat
    OBVIOUS
  <2>2. \E g \in [0..len -> Nat] : IsRecursion(g, 0, step, len)
    BY <1>3, <2>1, Recursion, Zenon
  <2>. QED
    BY <2>2, Zenon DEF IsRecursion
<1>6. ASSUME NEW i \in 1..len PROVE g[i] = bytes[len - i + 1] + Byte * g[i - 1]
  <2>1. i - 1 \in 0..len /\ g[i - 1] \in Nat
    OBVIOUS
  <2>. QED
    BY <1>4, <1>5, <2>1, Zenon
<1>7. IsValue(g)
  <2>1. \A i \in 0..len : i # 0 => i \in 1..len
    OBVIOUS
  <2>2. ASSUME NEW i \in 0..len PROVE g[i] = IF i = 0 THEN 0 ELSE bytes[len - i + 1] + Byte * g[i - 1]
    BY <1>5, <1>6, <2>1, Zenon
  <2>. QED
    BY <2>2, Zenon
<1>8. PICK value : value = SuffixValues(bytes)
  BY Zenon
<1>9. value = [i \in 0..len |-> IF i = 0 THEN 0 ELSE bytes[len - i + 1] + Byte * value[i - 1]]
  <2>1. value = CHOOSE f : IsValue(f)
    BY <1>8 DEF SuffixValues
  <2>2. IsValue(value)
    <3>. HIDE DEF IsValue
    <3>. QED
      BY <1>7, <2>1, Zenon
  <2>. QED
    BY <2>2
<1>10. ASSUME NEW i \in 0..len PROVE value[i] = IF i = 0 THEN 0 ELSE bytes[len - i + 1] + Byte * value[i - 1]
  BY <1>9, Zenon
<1>11. value[0] = 0 /\ \A i \in 1..len : value[i] = bytes[len - i + 1] + Byte * value[i - 1]
  BY <1>10
<1>12. value \in [0..len -> Nat]
  <2>. DEFINE T == {i \in Nat : i <= len => value[i] = g[i]}
  <2>1. 0 \in T
    BY <1>5, <1>11
  <2>2. ASSUME NEW i \in T, i + 1 <= len PROVE value[i + 1] = g[i + 1]
    <3>1. i + 1 \in 1..len /\ (i + 1) - 1 = i /\ value[i] = g[i]
      BY <2>2
    <3>. QED
      BY <1>6, <1>11, <3>1
  <2>3. \A i \in T : i + 1 \in T
    BY <2>2
  <2>. HIDE DEF T
  <2>4. T = Nat
    BY <2>1, <2>3, Induction DEF T
  <2>5. \A i \in 0..len : value[i] \in Nat
    BY <2>4 DEF T
  <2>. QED
    BY <1>9, <2>5, Zenon
<1>. QED
  BY <1>8, <1>11, <1>12, Zenon

-----------------------------------------------------------------------------
(***************************************************************************)
(* The little-endian encoding.                                             *)
(***************************************************************************)
\* A string of bytes is a sequence of its length.
LEMMA ByteStringFacts ==
  ASSUME NEW len \in Nat, NEW bytes \in ByteStrings(len)
  PROVE  /\ bytes \in Seq(0..(Byte - 1))
         /\ Len(bytes) = len
         /\ \A i \in 1..len : bytes[i] \in 0..(Byte - 1)
<1>1. \A i \in 1..len : bytes[i] \in 0..(Byte - 1)
  BY DEF ByteStrings
<1>2. bytes \in Seq(0..(Byte - 1))
  BY SeqDef, Zenon DEF ByteStrings
<1>3. DOMAIN bytes = 1..len
  BY DEF ByteStrings
<1>. QED
  BY <1>1, <1>2, <1>3, LenProperties

\* A number is its lowest byte and Byte times what is left.
LEMMA DivisionFacts ==
  /\ \A n \in Nat : /\ n \div Byte \in Nat
                    /\ n % Byte \in 0..(Byte - 1)
                    /\ n = (n % Byte) + Byte * (n \div Byte)
  /\ \A byte \in 0..(Byte - 1), n \in Nat : /\ (byte + Byte * n) \div Byte = n
                                            /\ (byte + Byte * n) % Byte = byte
  /\ \A n, m \in Nat : n < Byte * m => n \div Byte < m
  /\ \A byte \in 0..(Byte - 1), n, m \in Nat : n < m => byte + Byte * n < Byte * m
<1>. SUFFICES ASSUME NEW B \in Nat \ {0, 1}
     PROVE  /\ \A n \in Nat : /\ n \div B \in Nat
                              /\ n % B \in 0..(B - 1)
                              /\ n = (n % B) + B * (n \div B)
            /\ \A byte \in 0..(B - 1), n \in Nat : /\ (byte + B * n) \div B = n
                                                   /\ (byte + B * n) % B = byte
            /\ \A n, m \in Nat : n < B * m => n \div B < m
            /\ \A byte \in 0..(B - 1), n, m \in Nat : n < m => byte + B * n < B * m
  BY ByteAssumption
<1>1. \A n \in Nat : /\ n \div B \in Nat
                     /\ n % B \in 0..(B - 1)
                     /\ n = (n % B) + B * (n \div B)
  OBVIOUS
<1>2. ASSUME NEW p \in Nat, NEW q \in Nat, p < q
      PROVE  B * p + B <= B * q
  <2>1. PICK d \in Nat : q = p + 1 + d
    <3>1. q - p - 1 \in Nat /\ q = p + 1 + (q - p - 1)
      BY <1>2
    <3>. QED
      BY <3>1
  <2>2. B * q = B * p + B + B * d
    BY <2>1
  <2>3. B * d \in Nat /\ B * p \in Nat
    OBVIOUS
  <2>. QED
    BY <2>2, <2>3
<1>3. ASSUME NEW byte \in 0..(B - 1), NEW n \in Nat
      PROVE  (byte + B * n) \div B = n /\ (byte + B * n) % B = byte
  <2>. DEFINE a == byte + B * n
              q == a \div B
              r == a % B
  <2>1. a \in Nat
    OBVIOUS
  <2>2. q \in Nat /\ r \in 0..(B - 1) /\ a = r + B * q
    BY <1>1, <2>1
  <2>. HIDE DEF q, r
  <2>3. B * q \in Nat /\ B * n \in Nat
    BY <2>2
  <2>4. q = n
    <3>1. ~(q < n)
      BY <1>2, <2>2, <2>3
    <3>2. ~(n < q)
      BY <1>2, <2>2, <2>3
    <3>. QED
      BY <2>2, <3>1, <3>2
  <2>. QED
    BY <2>2, <2>3, <2>4 DEF q, r
<1>4. ASSUME NEW n \in Nat, NEW m \in Nat, n < B * m
      PROVE  n \div B < m
  <2>. DEFINE q == n \div B
  <2>1. q \in Nat /\ n % B \in Nat /\ n = (n % B) + B * q
    BY <1>1
  <2>. HIDE DEF q
  <2>2. B * q \in Nat /\ B * m \in Nat
    BY <2>1
  <2>3. ~(m < q) /\ q # m
    BY <1>2, <1>4, <2>1, <2>2
  <2>. QED
    BY <2>1, <2>3 DEF q
<1>5. ASSUME NEW byte \in 0..(B - 1), NEW n \in Nat, NEW m \in Nat, n < m
      PROVE  byte + B * n < B * m
  <2>1. B * n \in Nat /\ B * m \in Nat /\ B * n + B <= B * m
    BY <1>2, <1>5
  <2>. QED
    BY <2>1
<1>. QED
  BY <1>1, <1>3, <1>4, <1>5

\* The parts of a number.
LEMMA LowestByte ==
  ASSUME NEW n \in Nat
  PROVE  /\ n \div Byte \in Nat
         /\ n % Byte \in 0..(Byte - 1)
         /\ n = (n % Byte) + Byte * (n \div Byte)
BY DivisionFacts, Zenon

\* The number of given parts.
LEMMA AddByte ==
  ASSUME NEW byte \in 0..(Byte - 1), NEW n \in Nat
  PROVE  (byte + Byte * n) \div Byte = n /\ (byte + Byte * n) % Byte = byte
BY DivisionFacts, Zenon

\* What is left without the lowest byte needs one byte less.
LEMMA DivideBound ==
  ASSUME NEW n \in Nat, NEW m \in Nat, n < Byte * m
  PROVE  n \div Byte < m
BY DivisionFacts, Zenon

\* A lowest byte needs one byte more.
LEMMA AddBound ==
  ASSUME NEW byte \in 0..(Byte - 1), NEW n \in Nat, NEW m \in Nat, n < m
  PROVE  byte + Byte * n < Byte * m
BY DivisionFacts, Zenon

\* The bytes of a number are a string of bytes.
LEMMA WriteType ==
  ASSUME NEW n \in Nat, NEW len \in Nat
  PROVE  WriteLittleEndian(n, len) \in ByteStrings(len)
<1>1. \A i \in 1..len : Quotients(n, len)[i - 1] \in Nat
  BY QuotientsDef
<1>. QED
  BY <1>1, LowestByte DEF WriteLittleEndian, ByteStrings

\* A number that fits into its bytes is read back from them, for any length: nothing
\* is lost when heights, input indices and node identifiers are stored.
THEOREM WrittenIsReadBack ==
  ASSUME NEW len \in Nat, NEW n \in Numbers(len)
  PROVE  ReadLittleEndian(WriteLittleEndian(n, len)) = n
<1>. DEFINE rest == Quotients(n, len)
            power == Powers(len)
            bytes == WriteLittleEndian(n, len)
            value == SuffixValues(bytes)
<1>1. /\ power \in [0..len -> Nat] /\ power[0] = 1
      /\ \A i \in 1..len : power[i] = Byte * power[i - 1]
  BY PowersDef
<1>2. n \in Nat /\ n < power[len]
  BY <1>1 DEF Numbers
<1>3. /\ rest \in [0..len -> Nat] /\ rest[0] = n
      /\ \A i \in 1..len : rest[i] = rest[i - 1] \div Byte
  BY <1>2, QuotientsDef
<1>4. bytes \in ByteStrings(len) /\ Len(bytes) = len
  BY <1>2, WriteType, ByteStringFacts
<1>5. /\ value \in [0..len -> Nat] /\ value[0] = 0
      /\ \A i \in 1..len : value[i] = bytes[len - i + 1] + Byte * value[i - 1]
  <2>. HIDE DEF bytes
  <2>. QED
    BY <1>4, SuffixValuesDef
<1>6. \A i \in 1..len : bytes[i] = rest[i - 1] % Byte
  BY DEF WriteLittleEndian
<1>. HIDE DEF rest, power, bytes, value
<1>7. rest[len] = 0
  <2>. DEFINE T == {i \in Nat : i <= len => rest[i] < power[len - i]}
  <2>1. 0 \in T
    BY <1>2, <1>3
  <2>2. ASSUME NEW i \in T, i + 1 <= len PROVE rest[i + 1] < power[len - (i + 1)]
    <3>1. rest[i + 1] = rest[i] \div Byte /\ rest[i] \in Nat
      BY <1>3, <2>2
    <3>2. /\ rest[i] < power[len - i]
          /\ power[len - i] = Byte * power[len - (i + 1)]
          /\ power[len - (i + 1)] \in Nat
      BY <1>1, <2>2
    <3>3. rest[i] < Byte * power[len - (i + 1)]
      BY <3>2
    <3>. QED
      BY <3>1, <3>2, <3>3, DivideBound, Zenon
  <2>3. \A i \in T : i + 1 \in T
    BY <2>2
  <2>. HIDE DEF T
  <2>4. T = Nat
    BY <2>1, <2>3, Induction DEF T
  <2>5. rest[len] < power[0] /\ rest[len] \in Nat
    <3>1. len \in T /\ len <= len /\ len - len = 0
      BY <2>4
    <3>. QED
      BY <1>3, <3>1 DEF T
  <2>. QED
    BY <1>1, <2>5
<1>8. value[len] = rest[0]
  <2>. DEFINE T == {i \in Nat : i <= len => value[i] = rest[len - i]}
  <2>1. 0 \in T
    BY <1>5, <1>7
  <2>2. ASSUME NEW i \in T, i + 1 <= len PROVE value[i + 1] = rest[len - (i + 1)]
    <3>. DEFINE r == rest[len - (i + 1)]
    <3>1. /\ r \in Nat
          /\ rest[len - i] = r \div Byte
          /\ bytes[len - (i + 1) + 1] = r % Byte
      BY <1>3, <1>6, <2>2
    <3>2. value[i + 1] = bytes[len - (i + 1) + 1] + Byte * value[i] /\ value[i] = rest[len - i]
      BY <1>5, <2>2
    <3>3. r = (r % Byte) + Byte * (r \div Byte)
      BY <3>1, LowestByte, Zenon
    <3>. QED
      BY <3>1, <3>2, <3>3
  <2>3. \A i \in T : i + 1 \in T
    BY <2>2
  <2>. HIDE DEF T
  <2>4. T = Nat
    BY <2>1, <2>3, Induction DEF T
  <2>. QED
    BY <2>4 DEF T
<1>. QED
  BY <1>3, <1>4, <1>8 DEF ReadLittleEndian, value, bytes

\* Every string of bytes is read as a number that fits into them, of which it is
\* the only encoding, for any length.
THEOREM ReadIsWrittenBack ==
  ASSUME NEW len \in Nat, NEW bytes \in ByteStrings(len)
  PROVE  /\ ReadLittleEndian(bytes) \in Numbers(len)
         /\ WriteLittleEndian(ReadLittleEndian(bytes), len) = bytes
<1>. DEFINE n == ReadLittleEndian(bytes)
            rest == Quotients(n, len)
            power == Powers(len)
            value == SuffixValues(bytes)
<1>1. /\ power \in [0..len -> Nat] /\ power[0] = 1
      /\ \A i \in 1..len : power[i] = Byte * power[i - 1]
  BY PowersDef
<1>2. Len(bytes) = len /\ \A i \in 1..len : bytes[i] \in 0..(Byte - 1)
  BY ByteStringFacts
<1>3. /\ value \in [0..len -> Nat] /\ value[0] = 0
      /\ \A i \in 1..len : value[i] = bytes[len - i + 1] + Byte * value[i - 1]
  BY <1>2, SuffixValuesDef
<1>4. n = value[len] /\ n \in Nat
  BY <1>2, <1>3 DEF ReadLittleEndian
<1>5. /\ rest \in [0..len -> Nat] /\ rest[0] = n
      /\ \A i \in 1..len : rest[i] = rest[i - 1] \div Byte
  <2>. HIDE DEF n
  <2>. QED
    BY <1>4, QuotientsDef
<1>. HIDE DEF n, rest, power, value
<1>6. n < power[len]
  <2>. DEFINE T == {i \in Nat : i <= len => value[i] < power[i]}
  <2>1. 0 \in T
    BY <1>1, <1>3
  <2>2. ASSUME NEW i \in T, i + 1 <= len PROVE value[i + 1] < power[i + 1]
    <3>1. /\ value[i + 1] = bytes[len - (i + 1) + 1] + Byte * value[i]
          /\ bytes[len - (i + 1) + 1] \in 0..(Byte - 1)
          /\ value[i] \in Nat
      BY <1>2, <1>3, <2>2
    <3>2. power[i + 1] = Byte * power[i] /\ power[i] \in Nat /\ value[i] < power[i]
      BY <1>1, <2>2
    <3>3. bytes[len - (i + 1) + 1] + Byte * value[i] < Byte * power[i]
      BY <3>1, <3>2, AddBound, Zenon
    <3>. QED
      BY <3>1, <3>2, <3>3
  <2>3. \A i \in T : i + 1 \in T
    BY <2>2
  <2>. HIDE DEF T
  <2>4. T = Nat
    BY <2>1, <2>3, Induction DEF T
  <2>. QED
    BY <1>4, <2>4 DEF T
<1>7. \A i \in 0..len : rest[i] = value[len - i]
  <2>. DEFINE T == {i \in Nat : i <= len => rest[i] = value[len - i]}
  <2>1. 0 \in T
    BY <1>4, <1>5
  <2>2. ASSUME NEW i \in T, i + 1 <= len PROVE rest[i + 1] = value[len - (i + 1)]
    <3>. DEFINE v == value[len - (i + 1)]
    <3>1. /\ value[len - i] = bytes[len - (len - i) + 1] + Byte * v
          /\ bytes[len - (len - i) + 1] \in 0..(Byte - 1)
          /\ v \in Nat
      BY <1>2, <1>3, <2>2
    <3>2. rest[i + 1] = value[len - i] \div Byte
      BY <1>5, <2>2
    <3>. HIDE DEF v
    <3>3. rest[i + 1] = v
      BY <3>1, <3>2, AddByte, Zenon
    <3>. QED
      BY <3>3 DEF v
  <2>3. \A i \in T : i + 1 \in T
    BY <2>2
  <2>. HIDE DEF T
  <2>4. T = Nat
    BY <2>1, <2>3, Induction DEF T
  <2>. QED
    BY <2>4 DEF T
<1>8. ASSUME NEW i \in 1..len
      PROVE  rest[i - 1] % Byte = bytes[i]
  <2>1. rest[i - 1] = value[len - i + 1]
    BY <1>7
  <2>2. value[len - i + 1] = bytes[i] + Byte * value[len - i] /\ value[len - i] \in Nat
    BY <1>3
  <2>3. bytes[i] \in 0..(Byte - 1)
    BY <1>2
  <2>4. (bytes[i] + Byte * value[len - i]) % Byte = bytes[i]
    BY <2>2, <2>3, AddByte, Zenon
  <2>. QED
    BY <2>1, <2>2, <2>4, Zenon
<1>9. WriteLittleEndian(n, len) = bytes
  BY <1>8 DEF WriteLittleEndian, ByteStrings, rest
<1>. QED
  BY <1>1, <1>4, <1>6, <1>9 DEF Numbers, n, power

-----------------------------------------------------------------------------
(***************************************************************************)
(* Layouts: strings that are put together are taken apart by their         *)
(* lengths.                                                                *)
(***************************************************************************)
\* The two parts of a concatenation.
LEMMA CutConcat ==
  ASSUME NEW S, NEW s \in Seq(S), NEW t \in Seq(S)
  PROVE  /\ SubSeq(s \o t, 1, Len(s)) = s
         /\ SubSeq(s \o t, Len(s) + 1, Len(s) + Len(t)) = t
<1>1. /\ s \o t \in Seq(S) /\ Len(s \o t) = Len(s) + Len(t)
      /\ \A i \in 1..(Len(s) + Len(t)) :
            (s \o t)[i] = IF i <= Len(s) THEN s[i] ELSE t[i - Len(s)]
  BY ConcatProperties
<1>2. \A i \in 1..(Len(s) + Len(t)) : (s \o t)[i] \in S
  BY <1>1, ElementOfSeq
<1>3. Len(s) \in Nat /\ Len(t) \in Nat
  BY LenProperties
<1>. DEFINE a == SubSeq(s \o t, 1, Len(s))
            b == SubSeq(s \o t, Len(s) + 1, Len(s) + Len(t))
<1>4. /\ a \in Seq(S) /\ Len(a) = Len(s)
      /\ \A i \in 1..Len(s) : a[i] = (s \o t)[i]
  <2>1. \A i \in 1..Len(s) : (s \o t)[i] \in S
    BY <1>2, <1>3
  <2>2. /\ a \in Seq(S) /\ Len(a) = IF 1 <= Len(s) THEN Len(s) - 1 + 1 ELSE 0
        /\ \A i \in 1..(Len(s) - 1 + 1) : a[i] = (s \o t)[1 + i - 1]
    BY <1>3, <2>1, SubSeqProperties
  <2>. HIDE DEF a
  <2>. QED
    BY <1>3, <2>2
<1>5. /\ b \in Seq(S) /\ Len(b) = Len(t)
      /\ \A i \in 1..Len(t) : b[i] = (s \o t)[Len(s) + i]
  <2>1. \A i \in (Len(s) + 1)..(Len(s) + Len(t)) : (s \o t)[i] \in S
    BY <1>2, <1>3
  <2>. DEFINE m == Len(s) + 1
              n == Len(s) + Len(t)
  <2>2. m \in Int /\ n \in Int /\ n - m + 1 = Len(t) /\ (m <= n <=> Len(t) # 0)
        /\ \A i \in 1..Len(t) : m + i - 1 = Len(s) + i
    BY <1>3
  <2>3. \A i \in m..n : (s \o t)[i] \in S
    BY <2>1
  <2>. HIDE DEF m, n
  <2>4. /\ SubSeq(s \o t, m, n) \in Seq(S)
        /\ Len(SubSeq(s \o t, m, n)) = IF m <= n THEN n - m + 1 ELSE 0
        /\ \A i \in 1..(n - m + 1) : SubSeq(s \o t, m, n)[i] = (s \o t)[m + i - 1]
    BY <2>2, <2>3, SubSeqProperties
  <2>5. b = SubSeq(s \o t, m, n)
    BY DEF m, n
  <2>. HIDE DEF b
  <2>. QED
    BY <1>3, <2>2, <2>4, <2>5
<1>. HIDE DEF a, b
<1>6. \A i \in 1..Len(a) : a[i] = s[i]
  BY <1>1, <1>3, <1>4
<1>7. \A i \in 1..Len(b) : b[i] = t[i]
  BY <1>1, <1>3, <1>5
<1>8. a = s
  BY <1>4, <1>6, SeqEqual
<1>9. b = t
  BY <1>5, <1>7, SeqEqual
<1>. QED
  BY <1>8, <1>9 DEF a, b

\* Every part of a string is a string of its length.
LEMMA CutType ==
  ASSUME NEW S, NEW s \in Seq(S), NEW m \in 1..(Len(s) + 1), NEW n \in (m - 1)..Len(s)
  PROVE  /\ SubSeq(s, m, n) \in Seq(S)
         /\ Len(SubSeq(s, m, n)) = n - m + 1
         /\ SubSeq(s, m, n) \in [1..(n - m + 1) -> S]
         /\ \A i \in 1..(n - m + 1) : SubSeq(s, m, n)[i] = s[m + i - 1]
<1>1. Len(s) \in Nat /\ \A i \in m..n : s[i] \in S
  BY LenProperties, ElementOfSeq
<1>2. /\ SubSeq(s, m, n) \in Seq(S)
      /\ Len(SubSeq(s, m, n)) = IF m <= n THEN n - m + 1 ELSE 0
      /\ \A i \in 1..(n - m + 1) : SubSeq(s, m, n)[i] = s[m + i - 1]
  BY <1>1, SubSeqProperties
<1>3. Len(SubSeq(s, m, n)) = n - m + 1
  BY <1>1, <1>2
<1>. QED
  BY <1>2, <1>3, LenProperties

\* A part of a part is a part.
LEMMA CutCut ==
  ASSUME NEW S, NEW s \in Seq(S), NEW m \in 1..(Len(s) + 1),
         NEW i \in 1..(Len(s) - m + 2), NEW j \in (i - 1)..(Len(s) - m + 1)
  PROVE  SubSeq(SubSeq(s, m, Len(s)), i, j) = SubSeq(s, m + i - 1, m + j - 1)
<1>. DEFINE t == SubSeq(s, m, Len(s))
            a == SubSeq(t, i, j)
            b == SubSeq(s, m + i - 1, m + j - 1)
<1>1. Len(s) \in Nat
  BY LenProperties
<1>2. /\ t \in Seq(S) /\ Len(t) = Len(s) - m + 1
      /\ \A k \in 1..(Len(s) - m + 1) : t[k] = s[m + k - 1]
  BY <1>1, CutType
<1>. HIDE DEF t
<1>3. /\ a \in Seq(S) /\ Len(a) = j - i + 1
      /\ \A k \in 1..(j - i + 1) : a[k] = t[i + k - 1]
  <2>1. i \in 1..(Len(t) + 1) /\ j \in (i - 1)..Len(t)
    BY <1>1, <1>2
  <2>. QED
    BY <1>2, <2>1, CutType
<1>4. /\ b \in Seq(S) /\ Len(b) = j - i + 1
      /\ \A k \in 1..(j - i + 1) : b[k] = s[m + i - 1 + k - 1]
  <2>. DEFINE p == m + i - 1
              q == m + j - 1
  <2>1. p \in 1..(Len(s) + 1) /\ q \in (p - 1)..Len(s) /\ q - p + 1 = j - i + 1
    BY <1>1
  <2>. HIDE DEF p, q
  <2>2. /\ SubSeq(s, p, q) \in Seq(S) /\ Len(SubSeq(s, p, q)) = q - p + 1
        /\ \A k \in 1..(q - p + 1) : SubSeq(s, p, q)[k] = s[p + k - 1]
    BY <2>1, CutType
  <2>. QED
    BY <2>1, <2>2 DEF p, q
<1>. HIDE DEF a, b
<1>5. ASSUME NEW k \in 1..Len(a) PROVE a[k] = b[k]
  <2>1. i + k - 1 \in 1..(Len(s) - m + 1) /\ m + (i + k - 1) - 1 = m + i - 1 + k - 1
    BY <1>1, <1>3
  <2>2. t[i + k - 1] = s[m + (i + k - 1) - 1]
    BY <1>2, <2>1
  <2>. QED
    BY <1>3, <1>4, <2>1, <2>2
<1>6. a = b
  BY <1>3, <1>4, <1>5, SeqEqual
<1>. QED
  BY <1>6 DEF a, b, t

\* A part of the first string.
LEMMA CutFirst ==
  ASSUME NEW S, NEW s \in Seq(S), NEW t \in Seq(S),
         NEW m \in 1..(Len(s) + 1), NEW n \in (m - 1)..Len(s)
  PROVE  SubSeq(s \o t, m, n) = SubSeq(s, m, n)
<1>1. Len(s) \in Nat /\ Len(t) \in Nat
  BY LenProperties
<1>2. /\ s \o t \in Seq(S) /\ Len(s \o t) = Len(s) + Len(t)
      /\ \A i \in 1..(Len(s) + Len(t)) :
            (s \o t)[i] = IF i <= Len(s) THEN s[i] ELSE t[i - Len(s)]
  BY ConcatProperties
<1>3. m \in 1..(Len(s \o t) + 1) /\ n \in (m - 1)..Len(s \o t)
  BY <1>1, <1>2
<1>. DEFINE a == SubSeq(s \o t, m, n)
            b == SubSeq(s, m, n)
<1>4. /\ a \in Seq(S) /\ Len(a) = n - m + 1
      /\ \A i \in 1..(n - m + 1) : a[i] = (s \o t)[m + i - 1]
  BY <1>2, <1>3, CutType
<1>5. /\ b \in Seq(S) /\ Len(b) = n - m + 1
      /\ \A i \in 1..(n - m + 1) : b[i] = s[m + i - 1]
  BY CutType
<1>. HIDE DEF a, b
<1>6. ASSUME NEW i \in 1..Len(a) PROVE a[i] = b[i]
  <2>1. m + i - 1 \in 1..(Len(s) + Len(t)) /\ m + i - 1 <= Len(s) /\ i \in 1..(n - m + 1)
    BY <1>1, <1>4
  <2>. QED
    BY <1>2, <1>4, <1>5, <2>1
<1>7. a = b
  BY <1>4, <1>5, <1>6, SeqEqual
<1>. QED
  BY <1>7 DEF a, b
=============================================================================
