--------------------------- MODULE WorkPath_proofs ---------------------------
(***************************************************************************)
(* The way of a work, for every number of chips, every coinbase and every  *)
(* number of merkle branches: the SHA core gets the padded messages whole, *)
(* and the driver of the chips does what its callers rely on.              *)
(***************************************************************************)
EXTENDS WorkPath, SequenceTheorems, WellFoundedInduction, TLAPS

-------------------------------------------------------------------------------
(***************************************************************************)
(* The blocks that the SHA driver writes and the padding of the standard.  *)
(***************************************************************************)

\* The messages that the firmware hashes: a message that is not padded fills its blocks.
HashCalls ==
  {c \in [count : Nat, pad : BOOLEAN, dbl : BOOLEAN] :
     \/ c.pad
     \/ c.count > 0 /\ c.count % SHA256_BLOCK_SIZE = 0}

Plain(count) == [k \in 1 .. count |-> Msg(k - 1)]
Message(call) == IF call.pad THEN Padded(call.count) ELSE Plain(call.count)

\* The full blocks of a message and the bytes after them.
Full(count) == count \div 64
Rest(count) == count % 64

\* Zero bytes of the padding after a rest of r bytes.
Zeros(r) == IF r < 56 THEN 55 - r ELSE 119 - r
LengthBytes(count) ==
  [k \in 1 .. 8 |-> IF k < 5 THEN 0 ELSE ((count * 8) \div 256^(8 - k)) % 256]

LEMMA FullAndRest ==
  ASSUME NEW count \in Nat
  PROVE  Full(count) \in Nat /\ Rest(count) \in 0 .. 63 /\ count = 64 * Full(count) + Rest(count)
BY DEF Full, Rest

LEMMA LengthByteType ==
  ASSUME NEW count \in Nat, NEW k \in 60 .. 63
  PROVE  LengthByte(count, k) \in Int
BY DEF LengthByte

\* The zeros of the standard are those that fill the last block.
LEMMA PaddedElements ==
  ASSUME NEW count \in Nat
  PROVE  /\ Padded(count) \in Seq(Int)
         /\ Len(Padded(count)) = 64 * (IF Rest(count) < 56 THEN Full(count) + 1 ELSE Full(count) + 2)
         /\ \A j \in 1 .. count : Padded(count)[j] = Msg(j - 1)
         /\ Padded(count)[count + 1] = 128
         /\ \A j \in 1 .. Zeros(Rest(count)) : Padded(count)[count + 1 + j] = 0
         /\ \A j \in 1 .. 8 :
              Padded(count)[count + 1 + Zeros(Rest(count)) + j] = LengthBytes(count)[j]
<1> DEFINE q == Full(count)
           r == Rest(count)
<1>q. q \in Nat /\ r \in 0 .. 63 /\ count = 64 * q + r
  BY FullAndRest
<1> HIDE DEF q, r
<1>s. SUFFICES
        /\ Padded(count) \in Seq(Int)
        /\ Len(Padded(count)) = 64 * (IF r < 56 THEN q + 1 ELSE q + 2)
        /\ \A j \in 1 .. count : Padded(count)[j] = Msg(j - 1)
        /\ Padded(count)[count + 1] = 128
        /\ \A j \in 1 .. Zeros(r) : Padded(count)[count + 1 + j] = 0
        /\ \A j \in 1 .. 8 : Padded(count)[count + 1 + Zeros(r) + j] = LengthBytes(count)[j]
  BY DEF q, r
<1> DEFINE plain == Plain(count)
           one   == <<128>>
           zero  == [k \in 1 .. Zeros(r) |-> 0]
           len   == LengthBytes(count)
           s     == Padded(count)
<1>1. count \in Nat /\ Zeros(r) \in 0 .. 63 /\ Zeros(r) \in Nat
  BY <1>q DEF Zeros
<1>2. (CHOOSE z \in 0 .. 63 : (count + 1 + z + 8) % 64 = 0) = Zeros(r)
  <2>1. (count + 1 + Zeros(r) + 8) % 64 = 0
    <3>1. CASE r < 56
      <4>1. count + 1 + Zeros(r) + 8 = 64 * (q + 1)
        BY <1>q, <3>1 DEF Zeros
      <4>2. QED  BY <1>q, <4>1
    <3>2. CASE ~(r < 56)
      <4>1. count + 1 + Zeros(r) + 8 = 64 * (q + 2)
        BY <1>q, <3>2 DEF Zeros
      <4>2. QED  BY <1>q, <4>1
    <3>3. QED  BY <3>1, <3>2
  <2>2. ASSUME NEW z \in 0 .. 63, (count + 1 + z + 8) % 64 = 0
        PROVE  z = Zeros(r)
    <3>1. r + 9 + z \in {64, 128}
      BY <1>q, <2>2
    <3>2. QED  BY <1>q, <3>1 DEF Zeros
  <2>3. QED  BY <1>1, <2>1, <2>2
<1>3. s = plain \o one \o zero \o len
  BY <1>2 DEF Padded, Plain, LengthBytes
<1>4. /\ plain \in Seq(Int) /\ Len(plain) = count
      /\ \A j \in 1 .. count : plain[j] = Msg(j - 1)
  BY <1>1 DEF Plain, Msg
<1>5. one \in Seq(Int) /\ Len(one) = 1 /\ one[1] = 128
  OBVIOUS
<1>6. /\ zero \in Seq(Int) /\ Len(zero) = Zeros(r)
      /\ \A j \in 1 .. Zeros(r) : zero[j] = 0
  BY <1>1
<1>7. len \in Seq(Int) /\ Len(len) = 8
  <2>1. \A k \in 1 .. 8 : (IF k < 5 THEN 0 ELSE ((count * 8) \div 256^(8 - k)) % 256) \in Int
    BY <1>1
  <2>2. QED  BY <2>1 DEF LengthBytes
<1>8. count + 1 + Zeros(r) + 8 = 64 * (IF r < 56 THEN q + 1 ELSE q + 2)
  BY <1>q DEF Zeros
<1> HIDE DEF plain, one, zero, len, s
<1>9. /\ s \in Seq(Int) /\ Len(s) = Len(plain) + Len(one) + Len(zero) + Len(len)
      /\ \A j \in 1 .. Len(plain) : s[j] = plain[j]
      /\ \A j \in 1 .. Len(one) : s[Len(plain) + j] = one[j]
      /\ \A j \in 1 .. Len(zero) : s[Len(plain) + Len(one) + j] = zero[j]
      /\ \A j \in 1 .. Len(len) : s[Len(plain) + Len(one) + Len(zero) + j] = len[j]
  <2>1. plain \in Seq(Int) /\ one \in Seq(Int) /\ zero \in Seq(Int) /\ len \in Seq(Int)
    BY <1>4, <1>5, <1>6, <1>7
  <2>2. QED  BY <1>3, <2>1
<1>10. /\ s \in Seq(Int) /\ Len(s) = count + 1 + Zeros(r) + 8
       /\ \A j \in 1 .. count : s[j] = Msg(j - 1)
       /\ s[count + 1] = 128
       /\ \A j \in 1 .. Zeros(r) : s[count + 1 + j] = 0
       /\ \A j \in 1 .. 8 : s[count + 1 + Zeros(r) + j] = len[j]
  <2>1. /\ Len(plain) = count /\ Len(one) = 1 /\ Len(zero) = Zeros(r) /\ Len(len) = 8
    BY <1>4, <1>5, <1>6, <1>7
  <2>2. /\ s \in Seq(Int) /\ Len(s) = count + 1 + Zeros(r) + 8
        /\ \A j \in 1 .. count : s[j] = plain[j]
        /\ s[count + 1] = one[1]
        /\ \A j \in 1 .. Zeros(r) : s[count + 1 + j] = zero[j]
        /\ \A j \in 1 .. 8 : s[count + 1 + Zeros(r) + j] = len[j]
    <3>1. s \in Seq(Int) /\ Len(s) = count + 1 + Zeros(r) + 8
      BY <1>9, <2>1
    <3>2. s[count + 1] = one[1]
      BY <1>9, <2>1
    <3>3. \A j \in 1 .. Zeros(r) : s[count + 1 + j] = zero[j]
      BY <1>9, <2>1
    <3>4. \A j \in 1 .. 8 : s[count + 1 + Zeros(r) + j] = len[j]
      BY <1>9, <2>1
    <3>5. QED  BY <1>9, <2>1, <3>1, <3>2, <3>3, <3>4
  <2>3. \A j \in 1 .. count : s[j] = Msg(j - 1)
    BY <2>2, <1>4, ZenonT(40)
  <2>4. \A j \in 1 .. Zeros(r) : s[count + 1 + j] = 0
    BY <2>2, <1>6, ZenonT(40)
  <2>5. s[count + 1] = 128
    BY <2>2, <1>5
  <2>6. QED  BY <2>2, <2>3, <2>4, <2>5
<1>11. QED  BY <1>8, <1>10 DEF s, len

\* A byte of the padded message, by its place in its block.
PaddedByte(count, k) ==
  IF k < Rest(count) THEN Msg(count - Rest(count) + k)
  ELSE IF k = Rest(count) THEN 128 ELSE IF k < 60 THEN 0 ELSE LengthByte(count, k)
FirstByte(count, k) ==
  IF k < Rest(count) THEN Msg(count - Rest(count) + k) ELSE IF k = Rest(count) THEN 128 ELSE 0
SecondByte(count, k) == IF k < 60 THEN 0 ELSE LengthByte(count, k)

\* The last block of the padded message, or the last two.
LEMMA LastBlocks ==
  ASSUME NEW count \in Nat
  PROVE  /\ Rest(count) < 56 => \A k \in 0 .. 63 :
              Padded(count)[64 * Full(count) + k + 1] = PaddedByte(count, k)
         /\ Rest(count) >= 56 =>
              /\ \A k \in 0 .. 63 :
                   Padded(count)[64 * Full(count) + k + 1] = FirstByte(count, k)
              /\ \A k \in 0 .. 63 :
                   Padded(count)[64 * Full(count) + 64 + k + 1] = SecondByte(count, k)
<1> DEFINE s == Padded(count)
           len == LengthBytes(count)
           q == Full(count)
           r == Rest(count)
<1>1. q \in Nat /\ r \in 0 .. 63 /\ count = 64 * q + r
  BY FullAndRest
<1>2. /\ \A j \in 1 .. count : s[j] = Msg(j - 1)
      /\ s[count + 1] = 128
      /\ \A j \in 1 .. Zeros(r) : s[count + 1 + j] = 0
      /\ \A j \in 1 .. 8 : s[count + 1 + Zeros(r) + j] = len[j]
  BY PaddedElements
<1>3. /\ \A j \in 1 .. 4 : len[j] = 0
      /\ \A k \in 60 .. 63 : len[k - 55] = LengthByte(count, k)
  BY DEF LengthBytes, LengthByte
<1> HIDE DEF s, len, q, r
<1>4. ASSUME r < 56, NEW k \in 0 .. 63
      PROVE  s[64 * q + k + 1] = PaddedByte(count, k)
  <2>1. Zeros(r) = 55 - r
    BY <1>1, <1>4 DEF Zeros
  <2>2. CASE k < r
    <3>1. s[count - r + k + 1] = Msg(count - r + k)
      BY <1>1, <1>2, <2>2
    <3>2. QED  BY <1>1, <2>2, <3>1 DEF PaddedByte, r
  <2>3. CASE k = r
    BY <1>1, <1>2, <2>3 DEF PaddedByte, r
  <2>4. CASE k > r /\ k < 56
    <3>1. k - r \in 1 .. Zeros(r)
      BY <1>1, <2>1, <2>4
    <3>2. s[count + 1 + (k - r)] = 0
      BY <1>1, <1>2, <3>1
    <3>3. count + 1 + (k - r) = 64 * q + k + 1
      BY <1>1
    <3>4. QED  BY <1>1, <2>4, <3>2, <3>3 DEF PaddedByte, r
  <2>5. CASE k >= 56
    <3>1. s[count + 1 + Zeros(r) + (k - 55)] = len[k - 55]
      BY <1>1, <1>2, <2>5
    <3>2. count + 1 + Zeros(r) + (k - 55) = 64 * q + k + 1
      BY <1>1, <2>1
    <3>3. len[k - 55] = IF k < 60 THEN 0 ELSE LengthByte(count, k)
      BY <1>1, <1>3, <2>5
    <3>4. QED  BY <1>1, <1>4, <2>5, <3>1, <3>2, <3>3 DEF PaddedByte, r
  <2>6. QED  BY <1>1, <2>2, <2>3, <2>4, <2>5
<1>5. ASSUME r >= 56, NEW k \in 0 .. 63
      PROVE  s[64 * q + k + 1] = FirstByte(count, k)
  <2>1. Zeros(r) = 119 - r
    BY <1>1, <1>5 DEF Zeros
  <2>2. CASE k < r
    <3>1. s[count - r + k + 1] = Msg(count - r + k)
      BY <1>1, <1>2, <2>2
    <3>2. QED  BY <1>1, <2>2, <3>1 DEF FirstByte, r
  <2>3. CASE k = r
    BY <1>1, <1>2, <2>3 DEF FirstByte, r
  <2>4. CASE k > r
    <3>1. k - r \in 1 .. Zeros(r)
      BY <1>1, <2>1, <2>4
    <3>2. s[count + 1 + (k - r)] = 0
      BY <1>1, <1>2, <3>1
    <3>3. count + 1 + (k - r) = 64 * q + k + 1
      BY <1>1
    <3>4. QED  BY <1>1, <2>4, <3>2, <3>3 DEF FirstByte, r
  <2>5. QED  BY <1>1, <2>2, <2>3, <2>4
<1>6. ASSUME r >= 56, NEW k \in 0 .. 63
      PROVE  s[64 * q + 64 + k + 1] = SecondByte(count, k)
  <2>1. Zeros(r) = 119 - r
    BY <1>1, <1>6 DEF Zeros
  <2>2. CASE k < 56
    <3>1. 64 + k - r \in 1 .. Zeros(r)
      BY <1>1, <2>1, <2>2, <1>6
    <3>2. s[count + 1 + (64 + k - r)] = 0
      BY <1>1, <1>2, <3>1
    <3>3. count + 1 + (64 + k - r) = 64 * q + 64 + k + 1
      BY <1>1
    <3>4. QED  BY <1>1, <2>2, <3>2, <3>3 DEF SecondByte, r
  <2>3. CASE k >= 56
    <3>1. s[count + 1 + Zeros(r) + (k - 55)] = len[k - 55]
      BY <1>1, <1>2, <2>3 DEF SecondByte, r
    <3>2. count + 1 + Zeros(r) + (k - 55) = 64 * q + 64 + k + 1
      BY <1>1, <2>1
    <3>3. len[k - 55] = IF k < 60 THEN 0 ELSE LengthByte(count, k)
      BY <1>1, <1>3, <2>3
    <3>4. QED  BY <1>1, <3>1, <3>2, <3>3 DEF SecondByte, r
  <2>4. QED  BY <1>1, <2>2, <2>3
<1>7. QED  BY <1>4, <1>5, <1>6 DEF s, q, r

\* The blocks of a message that fills its blocks, or of what comes before the padding.
LEMMA UpdateElements ==
  ASSUME NEW count \in Nat
  PROVE  /\ UpdateBlocks(count) \in Seq([0 .. 63 -> Int])
         /\ Len(UpdateBlocks(count)) = count \div 64
         /\ \A b \in 1 .. count \div 64 : \A k \in 0 .. 63 :
              UpdateBlocks(count)[b][k] = Msg(64 * (b - 1) + k)
<1>1. count \div 64 \in Nat
  OBVIOUS
<1>2. QED  BY <1>1 DEF UpdateBlocks, SHA256_BLOCK_SIZE, Msg

\* The blocks of a message are its bytes and its padding, in order.
CutInto(blocks, message) ==
  /\ Len(blocks) \in Nat \ {0}
  /\ message \in Seq(Int) /\ Len(message) = 64 * Len(blocks)
  /\ \A b \in 1 .. Len(blocks) : \A k \in 0 .. 63 :
       blocks[b][k] = message[64 * (b - 1) + k + 1]

LEMMA BlocksAreMessage ==
  ASSUME NEW c \in HashCalls
  PROVE  CutInto(Blocks(c), Message(c))
<1> DEFINE n == c.count
           q == Full(n)
           r == Rest(n)
           B == [0 .. 63 -> Int]
           u == UpdateBlocks(n)
<1>1. n \in Nat
  BY DEF HashCalls
<1>2. q \in Nat /\ r \in 0 .. 63 /\ n = 64 * q + r /\ n \div 64 = q /\ n % 64 = r
  BY <1>1, FullAndRest DEF Full, Rest
<1>3. /\ u \in Seq(B) /\ Len(u) = q
      /\ \A b \in 1 .. q : \A k \in 0 .. 63 : u[b][k] = Msg(64 * (b - 1) + k)
  BY <1>1, UpdateElements DEF Full
<1>4. /\ r < 56 => \A k \in 0 .. 63 : Padded(n)[64 * q + k + 1] = PaddedByte(n, k)
      /\ r >= 56 => /\ \A k \in 0 .. 63 : Padded(n)[64 * q + k + 1] = FirstByte(n, k)
                    /\ \A k \in 0 .. 63 : Padded(n)[64 * q + 64 + k + 1] = SecondByte(n, k)
  BY <1>1, LastBlocks
<1>5. /\ Padded(n) \in Seq(Int)
      /\ Len(Padded(n)) = 64 * (IF r < 56 THEN q + 1 ELSE q + 2)
      /\ \A j \in 1 .. n : Padded(n)[j] = Msg(j - 1)
  BY <1>1, PaddedElements, ZenonT(40)
<1>6. \A k \in 60 .. 63 : LengthByte(n, k) \in Int
  BY <1>1, LengthByteType
<1> HIDE DEF n, q, r, u
<1>7. \A b \in 1 .. q : \A k \in 0 .. 63 : 64 * (b - 1) + k + 1 \in 1 .. n
  BY <1>2
<1>8. CASE ~c.pad
  <2>1. r = 0 /\ q > 0
    BY <1>1, <1>2, <1>8 DEF HashCalls, SHA256_BLOCK_SIZE, n
  <2>2. Blocks(c) = u
    BY <1>3, <1>8 DEF Blocks, u, n
  <2>3. Message(c) = Plain(n)
    BY <1>8 DEF Message, n
  <2>4. /\ Plain(n) \in Seq(Int) /\ Len(Plain(n)) = n
        /\ \A j \in 1 .. n : Plain(n)[j] = Msg(j - 1)
    BY <1>1 DEF Plain, Msg
  <2>5. ASSUME NEW b \in 1 .. q, NEW k \in 0 .. 63
        PROVE  u[b][k] = Plain(n)[64 * (b - 1) + k + 1]
    <3> DEFINE j == 64 * (b - 1) + k + 1
    <3>1. j \in 1 .. n /\ j - 1 = 64 * (b - 1) + k
      BY <1>2, <1>7
    <3>2. u[b][k] = Msg(j - 1)
      BY <1>3, <3>1, ZenonT(40)
    <3> HIDE DEF j
    <3>3. Plain(n)[j] = Msg(j - 1)
      BY <2>4, <3>1
    <3>4. QED  BY <3>2, <3>3 DEF j
  <2>6. Len(u) = q /\ 64 * q = n /\ q \in Nat \ {0}
    BY <1>2, <1>3, <2>1
  <2>7. CutInto(u, Plain(n))
    BY <2>4, <2>5, <2>6 DEF CutInto
  <2>8. QED  BY <2>2, <2>3, <2>7
<1>9. CASE c.pad
  <2>1. Message(c) = Padded(n)
    BY <1>9 DEF Message, n
  <2>2. Blocks(c) = u \o PaddingBlocks(n)
    BY <1>9 DEF Blocks, u, n
  <2>3. ASSUME NEW b \in 1 .. q, NEW k \in 0 .. 63
        PROVE  u[b][k] = Padded(n)[64 * (b - 1) + k + 1]
    <3> DEFINE j == 64 * (b - 1) + k + 1
    <3>1. j \in 1 .. n /\ j - 1 = 64 * (b - 1) + k
      BY <1>2, <1>7
    <3>2. u[b][k] = Msg(j - 1)
      BY <1>3, <3>1, ZenonT(40)
    <3> HIDE DEF j
    <3>3. Padded(n)[j] = Msg(j - 1)
      BY <1>5, <3>1
    <3>4. QED  BY <3>2, <3>3 DEF j
  <2>4. CASE r < 56
    <3> DEFINE last == [k \in 0 .. 63 |-> PaddedByte(n, k)]
    <3>1. PaddingBlocks(n) = <<last>>
      <4>1. ~TwoBlocks(n)
        BY <1>2, <2>4 DEF TwoBlocks, SHA256_BLOCK_SIZE
      <4>2. \A k \in 0 .. 63 :
              PaddedByte(n, k) = IF k < r THEN Msg(n - r + k) ELSE IF k = r THEN 128
                                    ELSE IF k >= 60 THEN LengthByte(n, k) ELSE 0
        BY DEF PaddedByte, r
      <4>3. QED  BY <1>2, <4>1, <4>2 DEF PaddingBlocks, SHA256_BLOCK_SIZE
    <3>2. last \in B
      BY <1>1, <1>2, <1>6 DEF PaddedByte, Msg, r
    <3>3. \A k \in 0 .. 63 : last[k] = Padded(n)[64 * q + k + 1]
      BY <1>4, <2>4
    <3> DEFINE s == u \o <<last>>
    <3> HIDE DEF last, B
    <3>4. s \in Seq(B) /\ Len(s) = q + 1
      BY <1>3, <3>2
    <3>5. s[q + 1] = last /\ \A b \in 1 .. q : s[b] = u[b]
      <4>1. u \in Seq(B) /\ Len(u) = q /\ q \in Nat
        BY <1>2, <1>3
      <4>2. <<last>> \in Seq(B) /\ Len(<<last>>) = 1 /\ <<last>>[1] = last
        BY <3>2
      <4>3. QED  BY <4>1, <4>2, ConcatProperties
    <3>c. Blocks(c) = s
      BY <2>2, <3>1
    <3> HIDE DEF s
    <3>6. ASSUME NEW b \in 1 .. q + 1, NEW k \in 0 .. 63
          PROVE  s[b][k] = Padded(n)[64 * (b - 1) + k + 1]
      <4>1. CASE b = q + 1
        <5>1. 64 * (b - 1) + k + 1 = 64 * q + k + 1
          BY <1>2, <4>1
        <5>2. QED  BY <3>3, <3>5, <4>1, <5>1
      <4>2. CASE b \in 1 .. q
        BY <2>3, <3>5, <4>2, ZenonT(40)
      <4>3. b = q + 1 \/ b \in 1 .. q
        BY <1>2
      <4>4. QED  BY <4>1, <4>2, <4>3
    <3>7. Len(Padded(n)) = 64 * (q + 1) /\ q + 1 \in Nat \ {0}
      BY <1>2, <1>5, <2>4
    <3>8. CutInto(s, Padded(n))
      BY <1>5, <3>4, <3>6, <3>7 DEF CutInto
    <3>9. QED  BY <2>1, <3>c, <3>8
  <2>5. CASE r >= 56
    <3> DEFINE last  == [k \in 0 .. 63 |-> FirstByte(n, k)]
               last2 == [k \in 0 .. 63 |-> SecondByte(n, k)]
    <3>1. PaddingBlocks(n) = <<last, last2>>
      <4>1. TwoBlocks(n)
        BY <1>2, <2>5 DEF TwoBlocks, SHA256_BLOCK_SIZE
      <4>2. \A k \in 0 .. 63 :
              /\ FirstByte(n, k) = IF k < r THEN Msg(n - r + k) ELSE IF k = r THEN 128 ELSE 0
              /\ SecondByte(n, k) = IF k >= 60 THEN LengthByte(n, k) ELSE 0
        BY DEF FirstByte, SecondByte, r
      <4>3. QED  BY <1>2, <4>1, <4>2 DEF PaddingBlocks, SHA256_BLOCK_SIZE
    <3>2. last \in B /\ last2 \in B
      BY <1>1, <1>2, <1>6 DEF FirstByte, SecondByte, Msg, r
    <3>3. \A k \in 0 .. 63 : /\ last[k] = Padded(n)[64 * q + k + 1]
                             /\ last2[k] = Padded(n)[64 * q + 64 + k + 1]
      BY <1>4, <2>5
    <3> DEFINE s == u \o <<last, last2>>
    <3> HIDE DEF last, last2, B
    <3>4. s \in Seq(B) /\ Len(s) = q + 2
      BY <1>3, <3>2
    <3>5. /\ s[q + 1] = last /\ s[q + 2] = last2
          /\ \A b \in 1 .. q : s[b] = u[b]
      <4>1. u \in Seq(B) /\ Len(u) = q /\ q \in Nat
        BY <1>2, <1>3
      <4>2. /\ <<last, last2>> \in Seq(B) /\ Len(<<last, last2>>) = 2
            /\ <<last, last2>>[1] = last /\ <<last, last2>>[2] = last2
        BY <3>2
      <4>3. QED  BY <4>1, <4>2, ConcatProperties
    <3>c. Blocks(c) = s
      BY <2>2, <3>1
    <3> HIDE DEF s
    <3>6. ASSUME NEW b \in 1 .. q + 2, NEW k \in 0 .. 63
          PROVE  s[b][k] = Padded(n)[64 * (b - 1) + k + 1]
      <4>1. CASE b = q + 1
        <5>1. 64 * (b - 1) + k + 1 = 64 * q + k + 1
          BY <1>2, <4>1
        <5>2. QED  BY <3>3, <3>5, <4>1, <5>1
      <4>2. CASE b = q + 2
        <5>1. 64 * (b - 1) + k + 1 = 64 * q + 64 + k + 1
          BY <1>2, <4>2
        <5>2. QED  BY <3>3, <3>5, <4>2, <5>1, ZenonT(40)
      <4>3. CASE b \in 1 .. q
        BY <2>3, <3>5, <4>3, ZenonT(40)
      <4>4. b = q + 1 \/ b = q + 2 \/ b \in 1 .. q
        BY <1>2
      <4>5. QED  BY <4>1, <4>2, <4>3, <4>4
    <3>7. Len(Padded(n)) = 64 * (q + 2) /\ q + 2 \in Nat \ {0}
      BY <1>2, <1>5, <2>5
    <3>8. CutInto(s, Padded(n))
      BY <1>5, <3>4, <3>6, <3>7 DEF CutInto
    <3>9. QED  BY <2>1, <3>c, <3>8
  <2>6. r < 56 \/ r >= 56
    BY <1>2
  <2>7. QED  BY <2>4, <2>5, <2>6
<1>10. QED  BY <1>8, <1>9

LEMMA BlocksOfMessage ==
  ASSUME NEW c \in HashCalls
  PROVE  /\ Len(Blocks(c)) \in Nat \ {0}
         /\ Message(c) \in Seq(Int) /\ Len(Message(c)) = 64 * Len(Blocks(c))
         /\ \A b \in 1 .. Len(Blocks(c)) : \A k \in 0 .. 63 :
              Blocks(c)[b][k] = Message(c)[64 * (b - 1) + k + 1]
BY BlocksAreMessage DEF CutInto

-------------------------------------------------------------------------------
(***************************************************************************)
(* The SHA driver and its core: what the core has taken.                   *)
(***************************************************************************)
ShaTyped ==
  /\ calls \in Seq(HashCalls)
  /\ sha_pc \in {"idle", "block", "wait", "double", "waitdouble", "final"}
  /\ blk \in Nat \ {0} /\ i \in 0 .. SHA256_BLOCK_SIZE - 4
  /\ absorbed \in Seq(Int) /\ round \in 0 .. Rounds

\* The driver and the core take turns.
Turns ==
  /\ done \in BOOLEAN
  /\ sha_pc # "idle" => calls # <<>>
  /\ sha_pc = "idle" => blk = 1
  /\ sha_pc = "block" => i = 4 * round
  /\ sha_pc # "block" => i = 0
  /\ sha_pc \in {"wait", "waitdouble"} => IF done THEN round = 0 ELSE round = Rounds
  /\ sha_pc \in {"idle", "double", "final"} => round = 0

\* The core has the message up to where the driver is.
Absorbed ==
  sha_pc # "idle" =>
    /\ blk <= Len(Blocks(Head(calls)))
    /\ sha_pc = "block" => Len(absorbed) = 64 * (blk - 1) + i
    /\ sha_pc # "block" => Len(absorbed) = 64 * blk
    /\ sha_pc \in {"double", "waitdouble", "final"} => blk = Len(Blocks(Head(calls)))
    /\ \A j \in 1 .. Len(absorbed) : absorbed[j] = Message(Head(calls))[j]

\* The words of the hash that the driver has read, and of which hash.
Words ==
  /\ doubled \in BOOLEAN
  /\ sha_pc \in {"block", "wait", "double"} => ~doubled
  /\ sha_pc \in {"double", "waitdouble"} => Head(calls).dbl
  /\ sha_pc = "waitdouble" => doubled
  /\ sha_pc = "final" => doubled = Head(calls).dbl
WordsRead ==
  /\ state \in Seq(Int) /\ hash_cnt = Len(state) /\ hash_cnt <= 7
  /\ sha_pc # "final" => state = <<>>
  /\ \A k \in 1 .. Len(state) : state[k] = k - 1

ShaInv == ShaTyped /\ Turns /\ Absorbed /\ Words /\ WordsRead

\* One sequence after another, by their elements.
LEMMA ConcatElements ==
  \A S : \A s, t \in Seq(S) :
    /\ s \o t \in Seq(S) /\ Len(s \o t) = Len(s) + Len(t)
    /\ \A n \in 1 .. Len(s) : (s \o t)[n] = s[n]
    /\ \A n \in 1 .. Len(t) : (s \o t)[Len(s) + n] = t[n]
OBVIOUS

LEMMA ShaInvInit == ShaInit => ShaInv
<1> SUFFICES ASSUME ShaInit PROVE ShaInv
  OBVIOUS
<1> DEFINE C == HashCalls
<1>1. <<>> \in Seq(C) /\ <<>> \in Seq(Int) /\ Len(<<>>) = 0
  OBVIOUS
<1>2. ShaTyped
  BY <1>1 DEF ShaInit, ShaTyped, SHA256_BLOCK_SIZE, Rounds
<1>3. Turns /\ Absorbed /\ Words
  BY DEF ShaInit, Turns, Absorbed, Words
<1>4. WordsRead
  BY <1>1 DEF ShaInit, WordsRead
<1>5. QED  BY <1>2, <1>3, <1>4 DEF ShaInv

\* The message at work.
LEMMA HeadOfCalls ==
  ASSUME ShaTyped, calls # <<>>
  PROVE  /\ Head(calls) \in HashCalls /\ Head(calls).dbl \in BOOLEAN
         /\ Tail(calls) \in Seq(HashCalls)
<1> DEFINE C == HashCalls
<1>1. calls \in Seq(C)
  BY DEF ShaTyped
<1> HIDE DEF C
<1>2. Head(calls) \in C /\ Tail(calls) \in Seq(C)
  BY <1>1
<1>3. QED  BY <1>2 DEF C, HashCalls

LEMMA Sha256InitKeeps == ShaInv /\ Sha256Init => ShaInv'
<1> SUFFICES ASSUME ShaInv, Sha256Init PROVE ShaInv'
  OBVIOUS
<1>1. Len(Blocks(Head(calls))) \in Nat \ {0}
  BY HeadOfCalls, BlocksOfMessage DEF ShaInv, Sha256Init
<1>2. ShaTyped'
  BY DEF ShaInv, ShaTyped, Sha256Init, SHA256_BLOCK_SIZE, Rounds
<1>3. Turns'
  BY DEF ShaInv, Turns, Sha256Init
<1>4. Absorbed'
  BY <1>1 DEF Absorbed, Sha256Init
<1>5. Words' /\ WordsRead'
  BY DEF ShaInv, Words, WordsRead, Sha256Init
<1>6. QED  BY <1>2, <1>3, <1>4, <1>5 DEF ShaInv

LEMMA WriteWordKeeps == ShaInv /\ WriteWord => ShaInv'
<1> SUFFICES ASSUME ShaInv, WriteWord PROVE ShaInv'
  OBVIOUS
<1> DEFINE c == Head(calls)
           block == Blocks(c)[blk]
           four == [k \in 1 .. 4 |-> block[i + k - 1]]
<1>1. /\ sha_pc = "block" /\ i = 4 * round /\ round \in 0 .. 15 /\ i \in 0 .. 60
      /\ blk \in Nat \ {0} /\ calls # <<>>
  BY DEF ShaInv, ShaTyped, Turns, WriteWord, SHA256_BLOCK_SIZE, Rounds
<1>2. /\ calls' = calls /\ blk' = blk /\ state' = state /\ doubled' = doubled
      /\ hash_cnt' = hash_cnt /\ ~done' /\ absorbed' = absorbed \o four /\ round' = round + 1
      /\ IF i = 60 THEN i' = 0 /\ sha_pc' = "wait" ELSE i' = i + 4 /\ sha_pc' = "block"
  <2>1. (i + 4) % 64 = IF i = 60 THEN 0 ELSE i + 4
    BY <1>1
  <2>2. /\ calls' = calls /\ blk' = blk /\ state' = state /\ doubled' = doubled
        /\ hash_cnt' = hash_cnt /\ ~done'
    BY DEF WriteWord
  <2>3. absorbed' = absorbed \o four /\ round' = round + 1
    <3>1. round < Rounds
      BY <1>1 DEF Rounds
    <3>2. QED  BY <3>1 DEF WriteWord
  <2>4. i' = (i + 4) % 64 /\ sha_pc' = IF i' = 0 THEN "wait" ELSE "block"
    BY DEF WriteWord, BlockEnd, SHA256_BLOCK_SIZE
  <2>5. IF i = 60 THEN i' = 0 /\ sha_pc' = "wait" ELSE i' = i + 4 /\ sha_pc' = "block"
    BY <1>1, <2>1, <2>4
  <2>6. QED  BY <2>2, <2>3, <2>5
<1>3. c \in HashCalls
  BY <1>1, HeadOfCalls DEF ShaInv
<1>4. /\ Len(Blocks(c)) \in Nat \ {0}
      /\ Message(c) \in Seq(Int) /\ Len(Message(c)) = 64 * Len(Blocks(c))
      /\ \A b \in 1 .. Len(Blocks(c)) : \A k \in 0 .. 63 :
           Blocks(c)[b][k] = Message(c)[64 * (b - 1) + k + 1]
  BY <1>3, BlocksOfMessage
<1>5. /\ absorbed \in Seq(Int) /\ Len(absorbed) = 64 * (blk - 1) + i
      /\ blk \in 1 .. Len(Blocks(c))
      /\ \A j \in 1 .. Len(absorbed) : absorbed[j] = Message(c)[j]
  <2>1. /\ absorbed \in Seq(Int) /\ Len(absorbed) = 64 * (blk - 1) + i /\ blk <= Len(Blocks(c))
        /\ \A j \in 1 .. Len(absorbed) : absorbed[j] = Message(c)[j]
    BY <1>1 DEF ShaInv, ShaTyped, Absorbed
  <2>2. blk \in 1 .. Len(Blocks(c))
    <3>1. Len(Blocks(c)) \in Nat /\ blk \in Nat \ {0} /\ blk <= Len(Blocks(c))
      BY <1>1, <1>4, <2>1
    <3>2. QED  BY <3>1
  <2>3. QED  BY <2>1, <2>2
<1>6. \A k \in 1 .. 4 : block[i + k - 1] = Message(c)[Len(absorbed) + k]
  <2> SUFFICES ASSUME NEW k \in 1 .. 4
               PROVE  block[i + k - 1] = Message(c)[Len(absorbed) + k]
    OBVIOUS
  <2>1. i + k - 1 \in 0 .. 63
    BY <1>1
  <2>2. block[i + k - 1] = Message(c)[64 * (blk - 1) + (i + k - 1) + 1]
    BY <1>4, <1>5, <2>1
  <2>3. 64 * (blk - 1) + (i + k - 1) + 1 = Len(absorbed) + k
    BY <1>1, <1>5
  <2>4. QED  BY <2>2, <2>3
<1>7. \A k \in 1 .. 4 : block[i + k - 1] \in Int
  <2> SUFFICES ASSUME NEW k \in 1 .. 4 PROVE block[i + k - 1] \in Int
    OBVIOUS
  <2> DEFINE m == 64 * (blk - 1) + (i + k - 1) + 1
             n == Len(Blocks(c))
             msg == Message(c)
  <2>1. n \in Nat /\ blk \in 1 .. n /\ Len(msg) = 64 * n /\ msg \in Seq(Int)
    BY <1>4, <1>5
  <2>2. block[i + k - 1] = msg[Len(absorbed) + k]
    BY <1>6
  <2>3. m = Len(absorbed) + k
    BY <1>1, <1>5
  <2> HIDE DEF n, msg
  <2>4. m \in 1 .. 64 * n
    BY <1>1, <2>1
  <2> HIDE DEF m
  <2>5. msg[m] \in Int
    BY <2>1, <2>4
  <2>6. QED  BY <2>2, <2>3, <2>5
<1>8. four \in Seq(Int) /\ Len(four) = 4 /\ \A k \in 1 .. 4 : four[k] = block[i + k - 1]
  BY <1>7
<1> HIDE DEF c, four, block
<1>9. /\ absorbed' \in Seq(Int) /\ Len(absorbed') = Len(absorbed) + 4
      /\ \A j \in 1 .. Len(absorbed) : absorbed'[j] = absorbed[j]
      /\ \A k \in 1 .. 4 : absorbed'[Len(absorbed) + k] = four[k]
  <2>1. absorbed \in Seq(Int) /\ four \in Seq(Int) /\ Len(four) = 4 /\ absorbed' = absorbed \o four
    BY <1>2, <1>5, <1>8
  <2> DEFINE a == absorbed
             t == absorbed'
  <2> HIDE DEF a, t
  <2>2. a \in Seq(Int) /\ four \in Seq(Int) /\ Len(four) = 4 /\ t = a \o four
    BY <2>1 DEF a, t
  <2>3. /\ t \in Seq(Int) /\ Len(t) = Len(a) + 4
        /\ \A j \in 1 .. Len(a) : t[j] = a[j]
        /\ \A k \in 1 .. 4 : t[Len(a) + k] = four[k]
    <3> DEFINE I == Int
    <3>t. a \in Seq(I) /\ four \in Seq(I) /\ t = a \o four
      BY <2>2
    <3> HIDE DEF I
    <3>1. /\ a \o four \in Seq(I) /\ Len(a \o four) = Len(a) + Len(four)
          /\ \A n \in 1 .. Len(a) : (a \o four)[n] = a[n]
          /\ \A n \in 1 .. Len(four) : (a \o four)[Len(a) + n] = four[n]
      BY <3>t, ConcatElements
    <3>2. QED  BY <2>2, <3>1 DEF I
  <2>4. QED  BY <2>3 DEF a, t
<1>10. ASSUME NEW j \in 1 .. Len(absorbed')
       PROVE  absorbed'[j] = Message(c)[j]
  <2>1. CASE j \in 1 .. Len(absorbed)
    BY <1>5, <1>9, <2>1
  <2>2. CASE j > Len(absorbed)
    <3>1. j - Len(absorbed) \in 1 .. 4 /\ j = Len(absorbed) + (j - Len(absorbed))
      <4>1. /\ Len(absorbed) \in Nat /\ Len(absorbed') = Len(absorbed) + 4
            /\ j \in 1 .. Len(absorbed') /\ j > Len(absorbed)
        BY <1>5, <1>9, <2>2
      <4>2. QED  BY <4>1
    <3>2. absorbed'[Len(absorbed) + (j - Len(absorbed))] = Message(c)[Len(absorbed) + (j - Len(absorbed))]
      BY <1>6, <1>8, <1>9, <3>1
    <3>3. QED  BY <3>1, <3>2
  <2>3. QED  BY <1>5, <1>9, <2>1, <2>2
<1>11. ShaTyped'
  <2>1. i' \in 0 .. 60 /\ round' \in 0 .. 16
    <3>1. i # 60 => i + 4 \in 0 .. 60
      BY <1>1
    <3>2. i' = IF i = 60 THEN 0 ELSE i + 4
      BY <1>2
    <3>3. round' = round + 1
      BY <1>2
    <3>4. QED  BY <1>1, <3>1, <3>2, <3>3
  <2>2. sha_pc' \in {"block", "wait"}
    BY <1>2
  <2>3. QED  BY <1>2, <1>9, <2>1, <2>2 DEF ShaInv, ShaTyped, SHA256_BLOCK_SIZE, Rounds
<1>12. Turns'
  <2>1. done' = FALSE
    BY DEF WriteWord
  <2>2. sha_pc' = "block" => i' = 4 * round'
    <3>1. i = 4 * round /\ round \in 0 .. 15 /\ round' = round + 1
      BY <1>1, <1>2
    <3>2. sha_pc' = "block" => i' = i + 4
      BY <1>2
    <3>3. 4 * (round + 1) = 4 * round + 4
      BY <3>1
    <3>4. QED  BY <3>1, <3>2, <3>3
  <2>3. sha_pc' # "block" => sha_pc' = "wait" /\ i' = 0 /\ round' = 16
    BY <1>1, <1>2
  <2>4. QED  BY <1>1, <1>2, <2>1, <2>2, <2>3 DEF Turns, Rounds
<1>13. Absorbed'
  <2>1. Head(calls') = c
    BY <1>2 DEF c
  <2>2. Len(absorbed') = 64 * (blk - 1) + i + 4
    BY <1>5, <1>9
  <2>3. sha_pc' = "block" => Len(absorbed') = 64 * (blk' - 1) + i'
    BY <1>1, <1>2, <2>2
  <2>4. sha_pc' # "block" => Len(absorbed') = 64 * blk'
    BY <1>1, <1>2, <2>2
  <2>5. sha_pc' \in {"block", "wait"}
    BY <1>2
  <2>6. blk' <= Len(Blocks(c))
    BY <1>2, <1>5
  <2>7. QED  BY <1>10, <2>1, <2>3, <2>4, <2>5, <2>6 DEF Absorbed
<1>14. Words' /\ WordsRead'
  BY <1>1, <1>2 DEF ShaInv, Words, WordsRead
<1>15. QED  BY <1>11, <1>12, <1>13, <1>14 DEF ShaInv

LEMMA AfterBlockKeeps == ShaInv /\ AfterBlock => ShaInv'
<1> SUFFICES ASSUME ShaInv, AfterBlock PROVE ShaInv'
  OBVIOUS
<1> DEFINE len == Len(Blocks(Head(calls)))
<1>1. /\ sha_pc = "wait" /\ calls # <<>> /\ round = 0 /\ i = 0 /\ blk \in Nat \ {0} /\ blk <= len
      /\ Len(absorbed) = 64 * blk
  BY DEF ShaInv, ShaTyped, Turns, Absorbed, AfterBlock, LeaveBlock, Rounds
<1>2. len \in Nat \ {0} /\ Head(calls).dbl \in BOOLEAN
  BY <1>1, HeadOfCalls, BlocksOfMessage DEF ShaInv
<1>3. /\ calls' = calls /\ i' = i /\ state' = state /\ absorbed' = absorbed /\ round' = round
      /\ done' = done /\ doubled' = doubled /\ hash_cnt' = hash_cnt
  BY DEF AfterBlock, LeaveBlock, coreVars
<1>4. IF blk < len THEN blk' = blk + 1 /\ sha_pc' = "block"
      ELSE blk' = blk /\ sha_pc' = IF Head(calls).dbl THEN "double" ELSE "final"
  BY DEF AfterBlock, LeaveBlock
<1> HIDE DEF len
<1>5. ShaTyped'
  BY <1>1, <1>3, <1>4 DEF ShaInv, ShaTyped
<1>6. Turns'
  BY <1>1, <1>3, <1>4 DEF ShaInv, Turns
<1>7. Absorbed'
  <2>1. len' = len
    BY <1>3 DEF len
  <2>2. blk' <= len /\ (sha_pc' = "block" => Len(absorbed') = 64 * (blk' - 1) + i')
    BY <1>1, <1>2, <1>3, <1>4
  <2>3. sha_pc' # "block" => Len(absorbed') = 64 * blk' /\ blk' = len
    BY <1>1, <1>2, <1>3, <1>4
  <2>4. \A j \in 1 .. Len(absorbed') : absorbed'[j] = Message(Head(calls'))[j]
    BY <1>1, <1>3 DEF ShaInv, Absorbed
  <2>5. QED  BY <2>1, <2>2, <2>3, <2>4 DEF Absorbed, len
<1>8. Words' /\ WordsRead'
  BY <1>1, <1>2, <1>3, <1>4 DEF ShaInv, Words, WordsRead
<1>9. QED  BY <1>5, <1>6, <1>7, <1>8 DEF ShaInv

LEMMA DoubleKeeps == ShaInv /\ (Sha256Double \/ DoubleDone) => ShaInv'
<1> SUFFICES ASSUME ShaInv, Sha256Double \/ DoubleDone PROVE ShaInv'
  OBVIOUS
<1>1. ShaTyped'
  <2>1. CASE Sha256Double
    BY <2>1 DEF ShaInv, ShaTyped, Sha256Double, Rounds
  <2>2. CASE DoubleDone
    BY <2>2 DEF ShaInv, ShaTyped, DoubleDone, coreVars
  <2>3. QED  BY <2>1, <2>2
<1>2. Turns'
  BY DEF ShaInv, Turns, Sha256Double, DoubleDone, coreVars, Rounds
<1>3. Absorbed'
  BY DEF ShaInv, Absorbed, Sha256Double, DoubleDone, coreVars
<1>4. Words'
  BY DEF ShaInv, Words, Sha256Double, DoubleDone, coreVars
<1>5. WordsRead'
  BY DEF ShaInv, WordsRead, Sha256Double, DoubleDone, coreVars
<1>6. QED  BY <1>1, <1>2, <1>3, <1>4, <1>5 DEF ShaInv

LEMMA FinalKeeps == ShaInv /\ Sha256Final => ShaInv'
<1> SUFFICES ASSUME ShaInv, Sha256Final PROVE ShaInv'
  OBVIOUS
<1>1. sha_pc = "final" /\ calls # <<>> /\ round = 0 /\ i = 0
  BY DEF ShaInv, Turns, Sha256Final
<1>2. Tail(calls) \in Seq(HashCalls)
  BY <1>1, HeadOfCalls DEF ShaInv
<1>3. state \in Seq(Int) /\ hash_cnt = Len(state) /\ \A k \in 1 .. Len(state) : state[k] = k - 1
  BY DEF ShaInv, WordsRead
<1>4. CASE Len(state) < 7
  <2>1. /\ state' = Append(state, hash_cnt) /\ sha_pc' = sha_pc /\ calls' = calls /\ blk' = blk
        /\ absorbed' = absorbed /\ i' = i /\ round' = round /\ done' = done
        /\ doubled' = doubled /\ hash_cnt' = (hash_cnt + 1) % 8
    BY <1>4 DEF Sha256Final
  <2>2. hash_cnt' = Len(state) + 1
    BY <1>3, <1>4, <2>1
  <2>3. ShaTyped' /\ Turns' /\ Absorbed' /\ Words'
    BY <2>1 DEF ShaInv, ShaTyped, Turns, Absorbed, Words
  <2>4. WordsRead'
    BY <1>1, <1>3, <1>4, <2>1, <2>2 DEF WordsRead
  <2>5. QED  BY <2>3, <2>4 DEF ShaInv
<1>5. CASE ~(Len(state) < 7)
  <2>1. /\ sha_pc' = "idle" /\ calls' = Tail(calls) /\ blk' = 1 /\ state' = <<>>
        /\ absorbed' = <<>> /\ i' = i /\ round' = round /\ done' = done
        /\ doubled' = doubled /\ hash_cnt' = (hash_cnt + 1) % 8
    BY <1>5 DEF Sha256Final
  <2>2. hash_cnt' = 0
    <3>1. hash_cnt \in Nat /\ ~(hash_cnt < 7)
      BY <1>3, <1>5, LenProperties
    <3>2. hash_cnt <= 7
      BY DEF ShaInv, WordsRead
    <3>3. hash_cnt = 7
      BY <3>1, <3>2
    <3>4. QED  BY <2>1, <3>3
  <2>3. ShaTyped'
    BY <1>1, <1>2, <2>1 DEF ShaInv, ShaTyped
  <2>4. Turns' /\ Absorbed' /\ Words'
    BY <1>1, <2>1 DEF ShaInv, Turns, Absorbed, Words
  <2>5. WordsRead'
    BY <2>1, <2>2 DEF WordsRead
  <2>6. QED  BY <2>3, <2>4, <2>5 DEF ShaInv
<1>6. QED  BY <1>4, <1>5

LEMMA CoreDoneKeeps == ShaInv /\ CoreDone => ShaInv'
<1> SUFFICES ASSUME ShaInv, CoreDone PROVE ShaInv'
  OBVIOUS
<1>1. ShaTyped'
  BY DEF ShaInv, ShaTyped, CoreDone, driverVars, Rounds
<1>2. Turns'
  BY DEF ShaInv, ShaTyped, Turns, CoreDone, driverVars, Rounds, SHA256_BLOCK_SIZE
<1>3. Absorbed' /\ Words' /\ WordsRead'
  BY DEF ShaInv, Absorbed, Words, WordsRead, CoreDone, driverVars
<1>4. QED  BY <1>1, <1>2, <1>3 DEF ShaInv

\* The messages of a work and of a test of a nonce (miner.c:60-150).
LEMMA WorkCalls ==
  ASSUME NEW len \in CoinbaseLens, NEW nmerkles \in 0 .. MaxMerkles
  PROVE  GenWork(len, nmerkles) \in Seq(HashCalls) /\ TestNonce(len, nmerkles) \in Seq(HashCalls)
<1> DEFINE C == HashCalls
           merkles == [n \in 1 .. nmerkles |-> Dsha(64)]
<1>1. len \in Nat /\ nmerkles \in Nat
  BY WorkAssumption
<1>2. Dsha(len) \in C /\ Dsha(64) \in C /\ Dsha(80) \in C /\ Midstate(64) \in C
  BY <1>1 DEF HashCalls, Dsha, Midstate, SHA256_BLOCK_SIZE
<1> HIDE DEF C
<1>3. merkles \in Seq(C)
  BY <1>1, <1>2
<1>4. <<Dsha(len)>> \in Seq(C) /\ <<Midstate(64)>> \in Seq(C) /\ <<Dsha(80)>> \in Seq(C)
  BY <1>2
<1> HIDE DEF merkles
<1>5. (<<Dsha(len)>> \o merkles) \o <<Midstate(64)>> \in Seq(C)
  BY <1>3, <1>4, ConcatProperties
<1>6. GenWork(len, nmerkles) \in Seq(C)
  BY <1>5 DEF GenWork, merkles
<1>7. TestNonce(len, nmerkles) \in Seq(C)
  BY <1>4, <1>6, ConcatProperties DEF TestNonce
<1>8. QED  BY <1>6, <1>7 DEF C

\* main gives the driver its messages between two messages only.
LEMMA NewCallsKeep ==
  ASSUME ShaInv, calls = <<>>, calls' \in Seq(HashCalls),
         UNCHANGED <<driverVars, coreVars>>
  PROVE  ShaInv'
<1>1. sha_pc = "idle"
  BY DEF ShaInv, Turns
<1>2. /\ sha_pc' = sha_pc /\ blk' = blk /\ i' = i /\ state' = state /\ absorbed' = absorbed
      /\ round' = round /\ done' = done /\ doubled' = doubled /\ hash_cnt' = hash_cnt
  BY DEF driverVars, coreVars
<1>3. ShaTyped'
  BY <1>2 DEF ShaInv, ShaTyped
<1>4. Turns' /\ Absorbed' /\ Words' /\ WordsRead'
  BY <1>1, <1>2 DEF ShaInv, Turns, Absorbed, Words, WordsRead
<1>5. QED  BY <1>3, <1>4 DEF ShaInv

LEMMA ShaInvStutters ==
  ASSUME ShaInv, UNCHANGED shaVars
  PROVE  ShaInv'
BY DEF ShaInv, ShaTyped, Turns, Absorbed, Words, WordsRead, shaVars, driverVars, coreVars

LEMMA ShaInvNext == ShaInv /\ [Next]_vars => ShaInv'
<1> SUFFICES ASSUME ShaInv, [Next]_vars PROVE ShaInv'
  OBVIOUS
<1>1. CASE Package \/ ItpStep \/ TransferStep \/ Chip \/ SendWork \/ ReadResult \/ UNCHANGED vars
  <2>1. UNCHANGED shaVars
    BY <1>1 DEF Package, ItpStep, TransferStep, Chip, SendWork, ReadResult, vars
  <2>2. QED  BY <2>1, ShaInvStutters
<1>2. CASE Dispatch
  <2>1. calls = <<>> /\ UNCHANGED <<driverVars, coreVars>>
    BY <1>2 DEF Dispatch, Free
  <2>2. \/ calls' = calls
        \/ \E len \in CoinbaseLens, nmerkles \in 0 .. MaxMerkles : calls' = GenWork(len, nmerkles)
    BY <1>2 DEF Dispatch
  <2>3. calls' \in Seq(HashCalls)
    BY <2>2, WorkCalls DEF ShaInv, ShaTyped
  <2>4. QED  BY <2>1, <2>3, NewCallsKeep
<1>3. CASE Test
  <2>1. calls = <<>> /\ UNCHANGED <<driverVars, coreVars>>
    BY <1>3 DEF Test, Free
  <2>2. \/ calls' = calls
        \/ \E len \in CoinbaseLens, nmerkles \in 0 .. MaxMerkles : calls' = TestNonce(len, nmerkles)
    BY <1>3 DEF Test
  <2>3. calls' \in Seq(HashCalls)
    BY <2>2, WorkCalls DEF ShaInv, ShaTyped
  <2>4. QED  BY <2>1, <2>3, NewCallsKeep
<1>4. CASE HashStep
  BY <1>4, Sha256InitKeeps, WriteWordKeeps, AfterBlockKeeps, DoubleKeeps, FinalKeeps
     DEF HashStep, Sha256Driver
<1>5. CASE Core
  BY <1>5, CoreDoneKeeps DEF Core
<1>6. QED  BY <1>1, <1>2, <1>3, <1>4, <1>5 DEF Next, Firmware, Mine

LEMMA DigestOfAbsorbed == ShaInv => DigestRight
<1> SUFFICES ASSUME ShaInv, sha_pc = "final" PROVE DigestRight
  BY DEF DigestRight
<1> DEFINE c == Head(calls)
           msg == Message(c)
<1>1. calls # <<>> /\ round = 0 /\ doubled = c.dbl
  BY DEF ShaInv, Turns, Words
<1>2. \A k \in DOMAIN state : state[k] = k - 1
  BY DEF ShaInv, WordsRead
<1>3. c \in HashCalls
  BY <1>1, HeadOfCalls DEF ShaInv
<1>4. msg \in Seq(Int) /\ Len(msg) = 64 * Len(Blocks(c)) /\ Len(Blocks(c)) \in Nat
  BY <1>3, BlocksOfMessage
<1>5. /\ absorbed \in Seq(Int) /\ Len(absorbed) = 64 * Len(Blocks(c))
      /\ \A j \in 1 .. Len(absorbed) : absorbed[j] = msg[j]
  BY DEF ShaInv, ShaTyped, Absorbed
<1>6. absorbed = msg
  <2> HIDE DEF msg
  <2>1. Len(absorbed) = Len(msg)
    BY <1>4, <1>5
  <2>2. QED  BY <1>4, <1>5, <2>1, SeqEqual
<1>7. QED  BY <1>1, <1>2, <1>6 DEF DigestRight, Message, Plain

\* Whatever the messages and however long the core takes, the hash that is read is that of the
\* padded message, whole and in order, doubled if it should be, from its first word
\* (sha256.c:26-131).
THEOREM DigestIsRight == Spec => []DigestRight
<1>1. Init => ShaInv
  BY ShaInvInit DEF Init
<1>2. ShaInv /\ [Next]_vars => ShaInv'
  BY ShaInvNext
<1>3. QED  BY <1>1, <1>2, DigestOfAbsorbed, PTL DEF Spec

-------------------------------------------------------------------------------
(***************************************************************************)
(* The numbers: the first free slot, the digits of a nonce, the carry.     *)
(***************************************************************************)
LEMMA LowestOf ==
  ASSUME NEW T \in SUBSET Nat, T # {}
  PROVE  Lowest(T) \in T /\ \A t \in T : Lowest(T) <= t
<1> DEFINE R == OpToRel(<, Nat)
<1>1. \A x, y \in Nat : <<x, y>> \in R <=> x < y
  BY DEF OpToRel
<1>2. IsWellFoundedOn(R, Nat)
  BY NatLessThanWellFounded
<1> HIDE DEF R
<1>3. PICK x \in T : \A y \in T : ~(<<y, x>> \in R)
  BY <1>2, WFMin
<1>4. \A y \in T : x <= y
  <2> SUFFICES ASSUME NEW y \in T PROVE x <= y
    OBVIOUS
  <2>1. x \in Nat /\ y \in Nat
    OBVIOUS
  <2>2. ~(y < x)
    BY <1>1, <1>3, <2>1
  <2>3. QED  BY <2>1, <2>2
<1>5. QED  BY <1>4 DEF Lowest

\* The places of the digits are numbers, and each divides the next.
LEMMA PlacesGrow ==
  ASSUME NEW n \in 0 .. NONCE_BYTES - 1
  PROVE  /\ BYTE^n \in Nat \ {0} /\ BYTE^(n + 1) \in Nat \ {0}
         /\ BYTE^(n + 1) = BYTE * BYTE^n
<1>1. BYTE \in Nat \ {0}
  BY ChipAssumption
<1>2. BYTE^n \in Nat \ {0} /\ BYTE^(n + 1) = BYTE * BYTE^n
  BY PlaceAssumption
<1> DEFINE p == BYTE^n
<1> HIDE DEF p
<1>3. \A b, q \in Nat \ {0} : b * q \in Nat \ {0}
  OBVIOUS
<1>4. QED  BY <1>1, <1>2, <1>3

\* A digit put at its place below those above it.
LEMMA DigitAtItsPlace ==
  ASSUME NEW v \in Nat, NEW P \in Nat \ {0}, NEW B \in Nat \ {0}
  PROVE  (v \div (B * P)) * (B * P) + ((v \div P) % B) * P = (v \div P) * P
<1> DEFINE d == v \div P
           e == d \div B
           r == d % B
<1>1. d \in Nat
  OBVIOUS
<1>2. v \div (B * P) = d \div B
  OBVIOUS
<1> HIDE DEF d
<1>3. e \in Nat /\ r \in Nat /\ d = B * e + r
  BY <1>1
<1> HIDE DEF e, r
<1>4. e * (B * P) + r * P = (B * e + r) * P
  BY <1>3
<1>5. QED  BY <1>2, <1>3, <1>4 DEF d, e, r

\* The lowest digit, plus one: what the driver returns (be200.c:110).
LEMMA LowestDigit ==
  ASSUME NEW v \in Nat
  PROVE  OrLowest((v \div BYTE) * BYTE, v % BYTE) = Port!Returned(v)
<1> DEFINE d == v \div BYTE
           r == v % BYTE
<1>1. BYTE \in Nat \ {0}
  BY ChipAssumption
<1>2. d \in Nat /\ r \in Nat /\ v = BYTE * d + r
  BY <1>1
<1>3. (d * BYTE) \div BYTE = d
  BY <1>1
<1> HIDE DEF d, r
<1>4. d * BYTE \in Nat /\ v = d * BYTE + r
  BY <1>1, <1>2
<1> DEFINE w == d * BYTE
<1> HIDE DEF w
<1>5. OrLowest(w, r) = IF r + 1 = BYTE /\ d % 2 = 1 THEN w ELSE w + r + 1
  BY <1>3 DEF OrLowest, w
<1>6. Port!Returned(v) = IF r = BYTE - 1 /\ d % 2 = 1 THEN v + 1 - BYTE ELSE v + 1
  BY DEF Port!Returned, Port!CarryLost, d, r
<1>7. w \in Nat /\ v = w + r
  BY <1>4 DEF w
<1>8. OrLowest(w, r) = Port!Returned(v)
  BY <1>1, <1>2, <1>5, <1>6, <1>7
<1>9. QED  BY <1>8 DEF w, d, r

\* It fits: the carry out of the highest byte is lost, as BYTE is even.
LEMMA ReturnedIsValue ==
  ASSUME NEW v \in Value
  PROVE  Port!Returned(v) \in Value
<1> DEFINE W == BYTE^NONCE_BYTES
           P == BYTE^(NONCE_BYTES - 1)
           Q == BYTE^(NONCE_BYTES - 2)
           d == v \div BYTE
           r == v % BYTE
<1>1. BYTE \in Nat \ {0, 1} /\ BYTE % 2 = 0 /\ NONCE_BYTES \in Nat \ {0, 1}
  BY ChipAssumption
<1>2. W \in Nat \ {0} /\ P \in Nat \ {0} /\ W = BYTE * P
  <2>1. NONCE_BYTES - 1 \in 0 .. NONCE_BYTES - 1 /\ (NONCE_BYTES - 1) + 1 = NONCE_BYTES
    BY <1>1
  <2>2. QED  BY <2>1, PlacesGrow
<1>3. Q \in Nat \ {0} /\ P = BYTE * Q
  <2>1. NONCE_BYTES - 2 \in 0 .. NONCE_BYTES - 1 /\ (NONCE_BYTES - 2) + 1 = NONCE_BYTES - 1
    BY <1>1
  <2>2. QED  BY <2>1, PlacesGrow
<1>4. v \in 0 .. W - 1
  BY DEF Value
<1>5. d \in Nat /\ r \in 0 .. BYTE - 1 /\ v = BYTE * d + r
  BY <1>1, <1>4
<1>6. Port!Returned(v) = IF r = BYTE - 1 /\ d % 2 = 1 THEN v + 1 - BYTE ELSE v + 1
  BY DEF Port!Returned, Port!CarryLost
<1> HIDE DEF W, P, Q, d, r
<1>7. CASE r = BYTE - 1 /\ d % 2 = 1
  <2>1. BYTE * d \in Nat
    BY <1>1, <1>5
  <2>2. v + 1 - BYTE \in 0 .. W - 1
    BY <1>1, <1>2, <1>4, <1>5, <1>7, <2>1
  <2>3. QED  BY <1>6, <1>7, <2>2 DEF Value, W
<1>8. CASE ~(r = BYTE - 1 /\ d % 2 = 1)
  <2>1. v + 1 # W
    <3> SUFFICES ASSUME v + 1 = W PROVE FALSE
      OBVIOUS
    <3>1. BYTE * P = BYTE * d + (r + 1)
      BY <1>1, <1>2, <1>5
    <3>2. BYTE * (P - d) = r + 1
      BY <1>1, <1>2, <1>5, <3>1
    <3>3. P - d = 1 /\ r + 1 = BYTE
      <4>1. \A b \in Nat \ {0} : \A x \in Int : (x <= 0 => b * x <= 0) /\ (x >= 2 => b * x >= 2 * b)
        OBVIOUS
      <4>2. P - d \in Int /\ BYTE \in Nat \ {0}
        BY <1>1, <1>2, <1>5
      <4>3. ~(P - d <= 0) /\ ~(P - d >= 2)
        BY <1>5, <3>2, <4>1, <4>2
      <4>4. P - d = 1
        BY <4>2, <4>3
      <4>5. QED  BY <1>1, <1>5, <3>2, <4>4
    <3>4. P % 2 = 0
      <4>1. PICK h \in Nat : BYTE = 2 * h
        BY <1>1
      <4>2. P = 2 * (h * Q)
        BY <1>3, <4>1
      <4>3. h * Q \in Nat
        BY <1>3
      <4>4. QED  BY <4>2, <4>3
    <3>5. d % 2 = 1
      BY <1>2, <1>5, <3>3, <3>4
    <3>6. QED  BY <1>1, <1>5, <1>8, <3>3, <3>5
  <2>2. v + 1 \in 0 .. W - 1
    BY <1>2, <1>4, <2>1
  <2>3. QED  BY <1>6, <1>8, <2>2 DEF Value, W
<1>9. QED  BY <1>7, <1>8

-------------------------------------------------------------------------------
(***************************************************************************)
(* The chips, their driver and its callers.                                *)
(***************************************************************************)
Registers == [Regs -> Tests \cup {NoByte, Work}]
Nonce     == [task : Registers, value : Value]

ChipTyped ==
  /\ reg \in [Chips -> Registers] /\ run \in [Chips -> Registers] /\ task \in Registers
  /\ allow \in [Chips -> BOOLEAN]
  /\ slot \in [Chips -> [Slots -> Nonce \cup {NoNonce}]] /\ bare \subseteq Chips
Loading == {"clear", "write", "start"}
Reading == {"status", "byte", "drop"}
DriverTyped ==
  /\ op \in {"none"} \cup Loading \cup Reading
  /\ idx \in Chips /\ pos \in 0 .. TASK_REGS + NONCE_BYTES
  /\ ready \in BOOLEAN /\ mask \subseteq Slots
  /\ result \in Value /\ faults \in 0 .. MaxFaults
BenchTyped ==
  /\ bench \in [next : 1 .. 3, test : Tests, chips : {SINGLE_CHIPS, CHIP_NUMBER}, tests : Nat]
  /\ itp_pc \in {"loop", "tasks", "results", "verdict"}
  /\ limit \in 0 .. CHIP_NUMBER /\ itp_idx \in 0 .. limit
  /\ itp_data \in [1 .. 2 -> Tests \cup {NoByte}]
  /\ itp_result \in Seq({"N", "R", "E"})
MineTyped ==
  /\ m_pc \in {"dispatch", "load", "ask", "test"} /\ m_idx \in 0 .. CHIP_NUMBER
  /\ m_pc \in {"load", "test"} => m_idx # CHIP_NUMBER

\* The driver has one caller at a time.
Caller ==
  /\ use \in {"mining", "bench"}
  /\ use = "mining" => itp_pc = "loop"
  /\ itp_pc = "loop" => itp_idx = 0 /\ itp_result = <<>> /\ (use = "bench" => op = "none")
  /\ itp_pc = "tasks" => op \in {"none"} \cup Loading
  /\ itp_pc = "results" => op = "none"
  /\ itp_pc = "verdict" => op \in {"none"} \cup Reading /\ idx = itp_idx /\ itp_idx # limit
  /\ itp_pc \in {"results", "verdict"} => Len(itp_result) = itp_idx

\* What the registers of a chip hold that is being loaded: n registers of the task.
Written(chip, n) == \A r \in Regs : reg[chip][r] = IF r < n THEN task[r] ELSE run[chip][r]
Loaded ==
  /\ \A c \in Chips : reg[c] = run[c] \/ (op \in {"write", "start"} /\ c = idx)
  /\ op = "clear" => pos = 0
  /\ op = "write" => pos \in Regs /\ Written(idx, pos)
  /\ op = "start" => reg[idx] = task \/ \E n \in Regs : Written(idx, n)

\* What has been read of the first nonce of the mask: the places above pos.
First(m) == slot[idx][Lowest(m)].value
ReadOut ==
  /\ op \notin {"byte", "drop"} => word = 0
  /\ op \in {"byte", "drop"} => mask # {} /\ mask \subseteq Shown(idx)
  /\ op = "byte" => /\ pos \in 0 .. NONCE_BYTES - 1
                    /\ word = (First(mask) \div BYTE^(pos + 1)) * BYTE^(pos + 1)
  /\ op = "drop" => word = Port!Returned(First(mask))

\* What a verdict will be about.
Asked ==
  itp_pc = "verdict" =>
    /\ op \in {"byte", "drop"} => ready /\ seen = {slot[idx][s] : s \in mask}
    /\ op = "none" /\ seen # {} => ready /\ \E nonce \in seen : result = Port!Returned(nonce.value)

\* The nonce of one chip is forgotten before the next chip is read.
Forgotten ==
  itp_pc = "results" \/ (itp_pc = "verdict" /\ (op # "none" \/ seen = {})) =>
    result = 0 \/ \A k \in DOMAIN itp_result : itp_result[k] = "N"

\* A chip that was not hashing when it was loaded shows nonces of its task only.
Own ==
  /\ idle \subseteq Chips /\ (use = "mining" => idle = {})
  /\ \A c \in idle :
       IF op \in Loading /\ c = idx
       THEN allow[c] /\ (op # "clear" => Shown(c) = {})
       ELSE \A s \in Shown(c) : slot[c][s].task = run[c]
  /\ itp_pc = "verdict" /\ op # "status" /\ itp_idx \in idle =>
       \A nonce \in seen : nonce.task = run[itp_idx]

ChipInv ==
  /\ ChipTyped /\ DriverTyped /\ BenchTyped /\ MineTyped /\ Caller
  /\ Loaded /\ ReadOut /\ Asked /\ Forgotten /\ Own

LEMMA ZeroIsValue == 0 \in Value
<1> DEFINE W == BYTE^NONCE_BYTES
<1>1. NONCE_BYTES - 1 \in 0 .. NONCE_BYTES - 1 /\ (NONCE_BYTES - 1) + 1 = NONCE_BYTES
  BY ChipAssumption
<1>2. W \in Nat \ {0}
  BY <1>1, PlacesGrow
<1> HIDE DEF W
<1>3. 0 \in 0 .. W - 1
  BY <1>2
<1>4. QED  BY <1>3 DEF Value, W

LEMMA NoncesAreValues ==
  ASSUME NEW t, NEW value \in Nonces(t)
  PROVE  value \in Value
BY TestAssumption DEF Nonces

LEMMA FirstIsNonce ==
  ASSUME ChipInv, op \in {"byte", "drop"}
  PROVE  /\ Lowest(mask) \in mask /\ Lowest(mask) \in Slots
         /\ slot[idx][Lowest(mask)] \in Nonce /\ First(mask) \in Value /\ First(mask) \in Nat
<1>1. mask # {} /\ mask \subseteq Slots /\ mask \subseteq Shown(idx) /\ idx \in Chips
  BY DEF ChipInv, DriverTyped, ReadOut
<1>2. mask \in SUBSET Nat
  BY <1>1, ChipAssumption DEF Slots
<1>3. Lowest(mask) \in mask
  BY <1>1, <1>2, LowestOf
<1>4. slot[idx][Lowest(mask)] \in Nonce
  BY <1>1, <1>3 DEF ChipInv, ChipTyped, Shown
<1>5. First(mask) \in Value
  BY <1>4 DEF First, Nonce
<1>6. QED  BY <1>1, <1>3, <1>4, <1>5 DEF Value

LEMMA DropIsValue == ChipInv /\ op = "drop" => word \in Value
BY FirstIsNonce, ReturnedIsValue DEF ChipInv, ReadOut

LEMMA ChipInvInit == Init => ChipInv
<1> SUFFICES ASSUME Init PROVE ChipInv
  OBVIOUS
<1> USE DEF Init, SpiInit, ItpInit
<1>1. Lowest(Tests) \in Tests
  BY TestAssumption, LowestOf DEF Value
<1>2. CHIP_NUMBER \in Nat \ {0} /\ TASK_REGS \in Nat \ {0} /\ NONCE_BYTES \in Nat /\ MaxFaults \in Nat
  BY ChipAssumption
<1>3. ChipTyped
  BY <1>2 DEF ChipTyped, Registers, NoTask, Empty
<1>4. DriverTyped
  <2>1. 0 \in Value
    BY ZeroIsValue
  <2>2. ready \in BOOLEAN
    <3>1. ready = FALSE
      OBVIOUS
    <3>2. QED  BY <3>1, Zenon
  <2>3. op = "none" /\ idx = 0 /\ pos = 0 /\ mask = {} /\ result = 0 /\ faults = 0
    OBVIOUS
  <2>4. QED  BY <1>2, <2>1, <2>2, <2>3 DEF DriverTyped, Chips
<1>5. BenchTyped
  BY <1>1, <1>2 DEF BenchTyped
<1>6. MineTyped /\ Caller
  BY <1>2 DEF MineTyped, Caller
<1>7. Loaded
  BY DEF Loaded, Loading
<1>8. ReadOut /\ Asked /\ Forgotten /\ Own
  BY DEF ReadOut, Asked, Forgotten, Own
<1>9. QED  BY <1>3, <1>4, <1>5, <1>6, <1>7, <1>8 DEF ChipInv


\* What leaves the chips, their driver and the factory test alone.
Quiet ==
  \/ HashStep \/ Core \/ UNCHANGED vars
  \/ Dispatch \/ Test

LEMMA QuietSteps ==
  ASSUME Quiet
  PROVE  /\ UNCHANGED <<chipVars, callVars, mask, word, result, faults, itpVars, use>>
         /\ UNCHANGED <<m_pc, m_idx>> \/ (use = "mining" /\ op = "none")
         /\ ready' = ready \/ (use = "mining" /\ ready' = FALSE)
BY DEF Quiet, HashStep, Core, Dispatch, Test, Free, vars, mineVars, spiVars, readVars

\* The steps by what they do to the chips.
LEMMA StepKinds ==
  ASSUME [Next]_vars
  PROVE  \/ Quiet
         \/ SendWork \/ ReadResult
         \/ use = "bench" /\ (LosePkg \/ ItpTask \/ ItpResult) /\ UNCHANGED mineVars
         \/ (ItpLoad \/ ItpAsk \/ Verdict \/ ItpEnd) /\ UNCHANGED mineVars
         \/ TransferStep
         \/ Chip
BY DEF Next, Firmware, Mine, Package, Bench, ItpStep, FactoryTest, Quiet

LEMMA ChipTypedNext == ChipInv /\ [Next]_vars => ChipTyped'
<1> SUFFICES ASSUME ChipInv, [Next]_vars PROVE ChipTyped'
  OBVIOUS
<1> USE DEF ChipTyped
<1>1. ChipTyped /\ idx \in Chips /\ itp_idx \in Nat /\ itp_data \in [1 .. 2 -> Tests \cup {NoByte}]
  BY DEF ChipInv, DriverTyped, BenchTyped
<1>2. Empty \in [Slots -> Nonce \cup {NoNonce}]
  BY DEF Empty
<1>3. CASE Quiet
  BY <1>1, <1>3, QuietSteps DEF chipVars, callVars
<1>4. CASE SendWork
  BY <1>1, <1>4 DEF SendWork, LoadTask, Whole, Registers, chipVars
<1>5. CASE ReadResult
  BY <1>1, <1>5 DEF ReadResult, AskDone, chipVars, callVars
<1>6. CASE LosePkg \/ ItpTask \/ ItpResult
  BY <1>1, <1>6 DEF LosePkg, ItpTask, ItpResult, spiVars, chipVars, callVars
<1>7. CASE ItpLoad
  <2>1. TaskOf(itp_data) \in Registers
    BY <1>1 DEF TaskOf, Registers
  <2>2. QED  BY <1>1, <1>7, <2>1 DEF ItpLoad, LoadTask, chipVars
<1>8. CASE ItpAsk
  BY <1>1, <1>8 DEF ItpAsk, AskDone, chipVars
<1>9. CASE Verdict
  BY <1>1, <1>2, <1>9 DEF Verdict, callVars
<1>10. CASE ItpEnd
  BY <1>1, <1>10 DEF ItpEnd, spiVars, chipVars, callVars
<1>11. CASE TransferStep
  <2>1. CASE Clear
    BY <1>1, <1>2, <2>1 DEF Clear
  <2>2. CASE TaskReg
    <3>1. task[pos] \in Tests \cup {NoByte, Work}
      BY <1>1, <2>2 DEF ChipInv, Loaded, TaskReg, Registers
    <3>2. reg' = reg \/ reg' = [reg EXCEPT ![idx][pos] = task[pos]]
      BY <2>2 DEF TaskReg
    <3>3. reg' \in [Chips -> Registers]
      <4> DEFINE row == [reg[idx] EXCEPT ![pos] = task[pos]]
      <4>1. reg[idx] \in Registers
        BY <1>1
      <4>2. row \in Registers
        BY <3>1, <4>1 DEF Registers
      <4>3. reg' = reg \/ reg' = [reg EXCEPT ![idx] = row]
        BY <3>2
      <4> HIDE DEF row
      <4>4. QED  BY <1>1, <4>2, <4>3
    <3>4. QED  BY <1>1, <2>2, <3>3 DEF TaskReg
  <2>3. CASE Start
    BY <1>1, <2>3 DEF Start
  <2>4. CASE GetDone \/ NonceByte
    BY <1>1, <2>4 DEF GetDone, NonceByte, chipVars
  <2>5. CASE Drop
    BY <1>1, <1>2, <2>5 DEF Drop
  <2>6. QED  BY <1>11, <2>1, <2>2, <2>3, <2>4, <2>5 DEF TransferStep, Transfer
<1>12. CASE Chip
  <2>1. CASE \E c \in Chips : ChipDone(c) \/ ChipReady(c)
    BY <1>1, <2>1 DEF ChipDone, ChipReady, callVars
  <2>2. ASSUME NEW c \in Chips, NEW value \in Nonces(run[c]), ChipFind(c, value)
        PROVE  ChipTyped'
    <3> DEFINE new == [task |-> run[c], value |-> value]
               free == CHOOSE s \in Slots \ Shown(c) : \A t \in Slots \ Shown(c) : s <= t
    <3>1. new \in Nonce
      BY <1>1, <2>2, NoncesAreValues DEF Nonce
    <3>2. slot' = [slot EXCEPT ![c][free] = new]
      BY <2>2 DEF ChipFind
    <3> HIDE DEF new, free
    <3>3. slot' \in [Chips -> [Slots -> Nonce \cup {NoNonce}]]
      BY <1>1, <3>1, <3>2
    <3>4. QED  BY <1>1, <2>2, <3>3 DEF ChipFind, callVars
  <2>3. QED  BY <1>12, <2>1, <2>2 DEF Chip
<1>13. QED
  BY <1>3, <1>4, <1>5, <1>6, <1>7, <1>8, <1>9, <1>10, <1>11, <1>12, StepKinds

LEMMA DriverTypedNext == ChipInv /\ [Next]_vars => DriverTyped'
<1> SUFFICES ASSUME ChipInv, [Next]_vars PROVE DriverTyped'
  OBVIOUS
<1> USE DEF DriverTyped, Loading, Reading
<1>1. /\ DriverTyped /\ itp_idx \in 0 .. CHIP_NUMBER /\ m_idx \in 0 .. CHIP_NUMBER
      /\ limit \in 0 .. CHIP_NUMBER /\ itp_idx \in 0 .. limit
  BY ChipAssumption DEF ChipInv, BenchTyped, MineTyped
<1>2. CHIP_NUMBER \in Nat \ {0} /\ TASK_REGS \in Nat \ {0} /\ NONCE_BYTES \in Nat \ {0} /\ MaxFaults \in Nat
  BY ChipAssumption
<1>3. CASE Quiet
  BY <1>1, <1>3, QuietSteps DEF callVars
<1>4. CASE SendWork
  <2>1. m_idx \in Chips
    BY <1>2, <1>4 DEF ChipInv, MineTyped, SendWork, Chips
  <2>2. QED  BY <1>1, <1>2, <1>4, <2>1 DEF SendWork, LoadTask, readVars
<1>5. CASE ReadResult
  BY <1>1, <1>2, <1>5 DEF ReadResult, AskDone, readVars, callVars, Chips
<1>6. CASE LosePkg \/ ItpTask \/ ItpResult
  <2>1. CASE LosePkg
    BY <1>1, <1>2, <2>1 DEF LosePkg, callVars, readVars
  <2>2. CASE ItpTask
    BY <1>1, <2>2 DEF ItpTask, spiVars, callVars, readVars
  <2>3. CASE ItpResult
    BY <1>1, <2>3, TestAssumption DEF ItpResult, callVars
  <2>4. QED  BY <1>6, <2>1, <2>2, <2>3
<1>7. CASE ItpLoad
  <2>1. itp_idx \in Chips
    BY <1>1, <1>2, <1>7 DEF ItpLoad, Chips
  <2>2. QED  BY <1>1, <1>2, <1>7, <2>1 DEF ItpLoad, LoadTask, readVars
<1>8. CASE ItpAsk
  <2>1. itp_idx \in Chips
    BY <1>1, <1>2, <1>8 DEF ItpAsk, Chips
  <2>2. QED  BY <1>1, <1>2, <1>8, <2>1 DEF ItpAsk, AskDone, readVars
<1>9. CASE Verdict
  BY <1>1, <1>9, ZeroIsValue DEF Verdict, callVars
<1>10. CASE ItpEnd
  BY <1>1, <1>10 DEF ItpEnd, spiVars, callVars, readVars
<1>11. CASE TransferStep
  <2>1. CASE Clear
    BY <1>1, <2>1 DEF Clear, readVars
  <2>2. CASE TaskReg
    <3>1. pos' \in 0 .. TASK_REGS + NONCE_BYTES
      BY <1>1, <1>2, <2>2 DEF TaskReg
    <3>2. faults' \in 0 .. MaxFaults
      BY <1>1, <1>2, <2>2 DEF TaskReg
    <3>3. QED  BY <1>1, <2>2, <3>1, <3>2 DEF TaskReg, readVars
  <2>3. CASE Start
    BY <1>1, <1>2, <2>3 DEF Start, readVars
  <2>4. CASE GetDone
    BY <1>1, <1>2, <2>4 DEF GetDone, Shown, Ready
  <2>5. CASE NonceByte
    <3>1. pos \in 0 .. NONCE_BYTES - 1
      BY <2>5 DEF NonceByte, ChipInv, ReadOut
    <3>2. pos' \in 0 .. TASK_REGS + NONCE_BYTES
      BY <1>1, <1>2, <2>5, <3>1 DEF NonceByte
    <3>3. QED  BY <1>1, <2>5, <3>2 DEF NonceByte
  <2>6. CASE Drop
    <3>1. word \in Value
      BY <2>6, DropIsValue DEF Drop, ChipInv
    <3>2. QED  BY <1>1, <2>6, <3>1 DEF Drop
  <2>7. QED  BY <1>11, <2>1, <2>2, <2>3, <2>4, <2>5, <2>6 DEF TransferStep, Transfer
<1>12. CASE Chip
  <2>1. UNCHANGED callVars /\ UNCHANGED readVars
    BY <1>12 DEF Chip, ChipDone, ChipReady, ChipFind
  <2>2. faults' \in 0 .. MaxFaults
    <3>1. CASE \E c \in Chips : ChipReady(c)
      BY <1>1, <1>2, <3>1 DEF ChipReady
    <3>2. CASE \E c \in Chips : ChipDone(c) \/ \E value \in Nonces(run[c]) : ChipFind(c, value)
      BY <1>1, <3>2 DEF ChipDone, ChipFind
    <3>3. QED  BY <1>12, <3>1, <3>2 DEF Chip
  <2>3. QED  BY <1>1, <2>1, <2>2 DEF callVars, readVars
<1>13. QED
  BY <1>3, <1>4, <1>5, <1>6, <1>7, <1>8, <1>9, <1>10, <1>11, <1>12, StepKinds

LEMMA BenchTypedNext == ChipInv /\ [Next]_vars => BenchTyped'
<1> SUFFICES ASSUME ChipInv, [Next]_vars PROVE BenchTyped'
  OBVIOUS
<1> USE DEF BenchTyped
<1>1. BenchTyped
  BY DEF ChipInv
<1>2. CHIP_NUMBER \in Nat \ {0} /\ SINGLE_CHIPS \in 1 .. CHIP_NUMBER
  BY ChipAssumption, TestAssumption
<1>3. CASE Quiet
  BY <1>1, <1>3, QuietSteps DEF itpVars
<1>4. CASE SendWork \/ ReadResult \/ Chip
  BY <1>1, <1>4 DEF SendWork, ReadResult, Chip, itpVars
<1>5. BenchGoesOn =>
        bench' \in [next : 1 .. 3, test : Tests, chips : {SINGLE_CHIPS, CHIP_NUMBER}, tests : Nat]
  <2> SUFFICES ASSUME BenchGoesOn
               PROVE  bench' \in [next : 1 .. 3, test : Tests,
                                  chips : {SINGLE_CHIPS, CHIP_NUMBER}, tests : Nat]
    OBVIOUS
  <2>1. CASE bench.next < 3
    BY <1>1, <2>1 DEF BenchGoesOn
  <2>2. CASE ~(bench.next < 3)
    <3>1. PICK test \in Tests :
            bench' = [bench EXCEPT !.next = 1, !.test = test, !.tests = @ + 1]
      BY <2>2 DEF BenchGoesOn
    <3>2. bench' = [next |-> 1, test |-> test, chips |-> bench.chips, tests |-> bench.tests + 1]
      BY <1>1, <3>1
    <3>3. QED  BY <1>1, <3>2
  <2>3. QED  BY <2>1, <2>2
<1>6. CASE LosePkg
  BY <1>1, <1>5, <1>6 DEF LosePkg
<1>7. CASE ItpTask
  <2>1. itp_data' \in [1 .. 2 -> Tests \cup {NoByte}]
    BY <1>1, <1>7 DEF ItpTask
  <2>2. itp_pc' \in {"loop", "tasks"} /\ limit' \in 0 .. CHIP_NUMBER /\ itp_idx' \in 0 .. limit'
    BY <1>1, <1>2, <1>7 DEF ItpTask, ChipInv, Caller
  <2>3. QED  BY <1>1, <1>5, <1>7, <2>1, <2>2 DEF ItpTask
<1>8. CASE ItpResult
  <2>1. itp_idx = 0 /\ bench.chips \in 0 .. CHIP_NUMBER /\ limit' = bench.chips
    BY <1>1, <1>2, <1>8 DEF ItpResult, ChipInv, Caller
  <2>2. QED  BY <1>1, <1>5, <1>8, <2>1 DEF ItpResult
<1>9. CASE ItpLoad
  BY <1>1, <1>2, <1>9 DEF ItpLoad
<1>10. CASE ItpAsk
  BY <1>1, <1>10 DEF ItpAsk
<1>11. CASE Verdict
  <2>1. itp_idx' \in 0 .. limit'
    BY <1>1, <1>2, <1>11 DEF Verdict, ChipInv, Caller
  <2>2. itp_result' \in Seq({"N", "R", "E"})
    BY <1>1, <1>11 DEF Verdict
  <2>3. QED  BY <1>1, <1>11, <2>1, <2>2 DEF Verdict
<1>12. CASE ItpEnd
  BY <1>1, <1>2, <1>12 DEF ItpEnd
<1>13. CASE TransferStep
  BY <1>1, <1>13 DEF TransferStep
<1>14. QED
  BY <1>3, <1>4, <1>6, <1>7, <1>8, <1>9, <1>10, <1>11, <1>12, <1>13, StepKinds

LEMMA MineTypedNext == ChipInv /\ [Next]_vars => MineTyped'
<1> SUFFICES ASSUME ChipInv, [Next]_vars PROVE MineTyped'
  OBVIOUS
<1>1. MineTyped /\ CHIP_NUMBER \in Nat
  BY ChipAssumption DEF ChipInv
<1>2. CASE HashStep \/ Core \/ UNCHANGED vars \/ ItpStep \/ Package \/ TransferStep \/ Chip
  BY <1>1, <1>2 DEF MineTyped, HashStep, Core, vars, ItpStep, Package, TransferStep, Chip, mineVars
<1>3. CASE Mine
  BY <1>1, <1>3 DEF MineTyped, Mine, Dispatch, SendWork, ReadResult, Test
<1>4. QED  BY <1>2, <1>3 DEF Next, Firmware

LEMMA CallerNext == ChipInv /\ [Next]_vars => Caller'
<1> SUFFICES ASSUME ChipInv, [Next]_vars PROVE Caller'
  OBVIOUS
<1> USE DEF Caller, Loading, Reading
<1>1. Caller /\ DriverTyped /\ BenchTyped
  BY DEF ChipInv
<1>2. itp_result \in Seq({"N", "R", "E"}) /\ limit \in Nat /\ itp_idx \in 0 .. limit
  BY <1>1, ChipAssumption DEF BenchTyped
<1>3. CASE Quiet
  BY <1>1, <1>3, QuietSteps DEF callVars, itpVars
<1>4. CASE SendWork
  BY <1>1, <1>4 DEF SendWork, Free, LoadTask, itpVars
<1>5. CASE ReadResult
  BY <1>1, <1>5 DEF ReadResult, Free, AskDone, itpVars
<1>6. CASE use = "bench" /\ (LosePkg \/ ItpTask \/ ItpResult) /\ UNCHANGED mineVars
  <2>1. CASE LosePkg
    BY <1>1, <1>6, <2>1 DEF LosePkg, callVars, mineVars
  <2>2. CASE ItpTask
    BY <1>1, <1>6, <2>2 DEF ItpTask, spiVars, callVars, mineVars
  <2>3. CASE ItpResult
    <3>1. Len(itp_result) = 0
      BY <1>1, <2>3 DEF ItpResult
    <3>2. QED  BY <1>1, <1>6, <2>3, <3>1 DEF ItpResult, spiVars, callVars, mineVars
  <2>4. QED  BY <1>6, <2>1, <2>2, <2>3
<1>7. CASE ItpLoad /\ UNCHANGED mineVars
  BY <1>1, <1>7 DEF ItpLoad, LoadTask, mineVars
<1>8. CASE ItpAsk /\ UNCHANGED mineVars
  BY <1>1, <1>2, <1>8 DEF ItpAsk, AskDone, mineVars
<1>9. CASE Verdict /\ UNCHANGED mineVars
  <2>1. Len(itp_result') = Len(itp_result) + 1
    BY <1>2, <1>9 DEF Verdict
  <2>2. QED  BY <1>1, <1>2, <1>9, <2>1 DEF Verdict, mineVars, callVars
<1>10. CASE ItpEnd /\ UNCHANGED mineVars
  BY <1>1, <1>10 DEF ItpEnd, spiVars, callVars, mineVars
<1>11. CASE TransferStep
  <2>1. /\ use' = use /\ itp_pc' = itp_pc /\ itp_idx' = itp_idx /\ limit' = limit
        /\ itp_result' = itp_result
    BY <1>11 DEF TransferStep, mineVars
  <2>2. idx' = idx
    BY <1>11 DEF TransferStep, Transfer, Clear, TaskReg, Start, GetDone, NonceByte, Drop
  <2>3. /\ op \in Loading => op' \in {"none"} \cup Loading
        /\ op \in Reading => op' \in {"none"} \cup Reading
        /\ op # "none"
    BY <1>11 DEF TransferStep, Transfer, Clear, TaskReg, Start, GetDone, NonceByte, Drop
  <2>4. QED  BY <1>1, <2>1, <2>2, <2>3
<1>12. CASE Chip
  BY <1>1, <1>12 DEF Chip, ChipDone, ChipReady, ChipFind, callVars, itpVars, mineVars
<1>13. QED
  BY <1>3, <1>4, <1>5, <1>6, <1>7, <1>8, <1>9, <1>10, <1>11, <1>12, StepKinds

\* Loaded looks at the registers, the tasks and the driver only.
LEMMA LoadedStutters ==
  ASSUME Loaded, UNCHANGED <<reg, run, task, op, idx, pos>>
  PROVE  Loaded'
BY DEF Loaded, Written

LEMMA LoadedNext == ChipInv /\ [Next]_vars => Loaded'
<1> SUFFICES ASSUME ChipInv, [Next]_vars PROVE Loaded'
  OBVIOUS
<1>1. /\ Loaded /\ reg \in [Chips -> Registers] /\ run \in [Chips -> Registers]
      /\ task \in Registers /\ idx \in Chips
  BY DEF ChipInv, ChipTyped, DriverTyped
<1>2. TASK_REGS \in Nat \ {0}
  BY ChipAssumption
<1>3. CASE Quiet
  BY <1>1, <1>3, QuietSteps, LoadedStutters DEF chipVars, callVars
<1>4. CASE SendWork
  BY <1>1, <1>4 DEF SendWork, Free, LoadTask, chipVars, Loaded
<1>5. CASE ReadResult
  BY <1>1, <1>5 DEF ReadResult, Free, AskDone, chipVars, callVars, Loaded
<1>6. CASE LosePkg \/ ItpTask \/ ItpResult
  BY <1>1, <1>6, LoadedStutters DEF LosePkg, ItpTask, ItpResult, spiVars, chipVars, callVars
<1>7. CASE ItpLoad
  BY <1>1, <1>7 DEF ItpLoad, LoadTask, chipVars, Loaded
<1>8. CASE ItpAsk
  BY <1>1, <1>8 DEF ItpAsk, AskDone, chipVars, Loaded
<1>9. CASE Verdict
  BY <1>1, <1>9, LoadedStutters DEF Verdict, callVars
<1>10. CASE ItpEnd
  BY <1>1, <1>10, LoadedStutters DEF ItpEnd, spiVars, chipVars, callVars
<1>11. CASE Clear
  <2>1. Regs = 0 .. TASK_REGS - 1 /\ 0 \in Regs
    BY <1>2 DEF Regs
  <2>2. \A r \in Regs : ~(r < 0)
    BY <2>1
  <2>3. reg' = reg /\ run' = run /\ task' = task /\ idx' = idx /\ pos' = 0 /\ op' = "write"
    BY <1>1, <1>11 DEF Clear, Loaded
  <2>4. reg[idx] = run[idx]
    BY <1>1, <1>11 DEF Clear, Loaded
  <2>5. QED  BY <1>1, <2>1, <2>2, <2>3, <2>4 DEF Loaded, Written
<1>12. CASE TaskReg
  <2>1. /\ op = "write" /\ run' = run /\ idx' = idx /\ task' = task /\ pos \in Regs
        /\ Written(idx, pos)
    BY <1>1, <1>12 DEF TaskReg, Loaded
  <2>2. /\ \A c \in Chips : c # idx => reg'[c] = reg[c]
        /\ \A r \in Regs : r # pos => reg'[idx][r] = reg[idx][r]
        /\ reg'[idx][pos] = task[pos] \/ reg'[idx][pos] = reg[idx][pos]
        /\ reg'[idx] \in Registers
    <3>1. reg[idx] \in [Regs -> Tests \cup {NoByte, Work}] /\ task[pos] \in Tests \cup {NoByte, Work}
      BY <1>1, <2>1 DEF Registers
    <3> DEFINE row == [reg[idx] EXCEPT ![pos] = task[pos]]
    <3>2. /\ row \in Registers /\ row[pos] = task[pos]
          /\ \A r \in Regs : r # pos => row[r] = reg[idx][r]
      BY <2>1, <3>1 DEF Registers
    <3>3. reg' = reg \/ reg' = [reg EXCEPT ![idx] = row]
      BY <1>12 DEF TaskReg
    <3> HIDE DEF row
    <3>4. QED  BY <1>1, <3>2, <3>3
  <2>3. \A r \in Regs : r \in Int
    BY DEF Regs
  <2>4. \A c \in Chips : reg'[c] = run'[c] \/ c = idx'
    BY <1>1, <2>1, <2>2 DEF Loaded
  <2>5. CASE reg'[idx][pos] = task[pos] /\ pos < TASK_REGS - 1
    <3>1. pos' = pos + 1 /\ op' = "write" /\ pos' \in Regs
      BY <1>2, <1>12, <2>1, <2>5 DEF TaskReg, Regs
    <3>2. ASSUME NEW r \in Regs
          PROVE  reg'[idx][r] = IF r < pos + 1 THEN task[r] ELSE run[idx][r]
      <4>1. CASE r = pos
        BY <2>5, <4>1, <2>3
      <4>2. CASE r # pos
        <5>1. r < pos + 1 <=> r < pos
          BY <2>1, <2>3, <4>2
        <5>2. QED  BY <2>1, <2>2, <4>2, <5>1 DEF Written
      <4>3. QED  BY <4>1, <4>2
    <3>3. QED  BY <2>1, <2>4, <3>1, <3>2 DEF Loaded, Written
  <2>6. CASE ~(reg'[idx][pos] = task[pos] /\ pos < TASK_REGS - 1)
    <3>1. op' = "start" /\ pos' = pos
      BY <1>12, <2>1, <2>6 DEF TaskReg
    <3>2. CASE reg'[idx][pos] = task[pos]
      <4>1. pos = TASK_REGS - 1
        BY <1>2, <2>1, <2>6, <3>2 DEF Regs
      <4>2. \A r \in Regs : r < pos \/ r = pos
        BY <1>2, <4>1 DEF Regs
      <4>3. \A r \in Regs : reg'[idx][r] = task[r]
        BY <2>1, <2>2, <3>2, <4>2 DEF Written
      <4>4. reg'[idx] = task
        BY <1>1, <2>2, <4>3 DEF Registers
      <4>5. QED  BY <2>1, <2>4, <3>1, <4>4 DEF Loaded
    <3>3. CASE reg'[idx][pos] # task[pos]
      <4>1. \A r \in Regs : reg'[idx][r] = reg[idx][r]
        BY <2>2, <3>3
      <4>2. \A r \in Regs : reg'[idx][r] = IF r < pos THEN task[r] ELSE run[idx][r]
        BY <2>1, <4>1 DEF Written
      <4>3. QED  BY <2>1, <2>4, <3>1, <4>2 DEF Loaded, Written
    <3>4. QED  BY <3>2, <3>3
  <2>7. QED  BY <2>5, <2>6
<1>13. CASE Start
  <2>1. op' = "none" /\ reg' = reg /\ run' = [run EXCEPT ![idx] = reg[idx]]
    BY <1>13 DEF Start
  <2>2. QED  BY <1>1, <2>1 DEF Loaded
<1>14. CASE GetDone
  BY <1>1, <1>14 DEF GetDone, chipVars, Loaded
<1>15. CASE NonceByte
  BY <1>1, <1>15 DEF NonceByte, chipVars, Loaded
<1>16. CASE Drop
  BY <1>1, <1>16 DEF Drop, Loaded
<1>17. CASE Chip
  BY <1>1, <1>17, LoadedStutters DEF Chip, ChipDone, ChipReady, ChipFind, callVars
<1>18. QED
  BY <1>3, <1>4, <1>5, <1>6, <1>7, <1>8, <1>9, <1>10, <1>11, <1>12, <1>13, <1>14, <1>15, <1>16,
     <1>17, StepKinds DEF TransferStep, Transfer

\* What a chip shows stays where it is until it is dropped; a nonce it finds is its task's.
LEMMA FindGrows ==
  ASSUME ChipInv, NEW c \in Chips, NEW value \in Nonces(run[c]), ChipFind(c, value)
  PROVE  /\ \A d \in Chips : \A s \in Slots :
              slot'[d][s] = slot[d][s] \/ (d = c /\ s \notin Shown(d))
         /\ \A d \in Chips : \A s \in Slots :
              slot'[d][s] = slot[d][s] \/ slot'[d][s] = [task |-> run[c], value |-> value]
<1> DEFINE new == [task |-> run[c], value |-> value]
           Taken == Slots \ Shown(c)
           free == CHOOSE s \in Taken : \A t \in Taken : s <= t
<1>1. slot \in [Chips -> [Slots -> Nonce \cup {NoNonce}]]
  BY DEF ChipInv, ChipTyped
<1>2. Taken \in SUBSET Nat /\ Taken # {}
  BY ChipAssumption DEF ChipFind, Slots, Shown
<1>3. free \in Taken
  <2>1. free = Lowest(Taken)
    BY DEF Lowest
  <2>2. QED  BY <1>2, <2>1, LowestOf
<1>4. slot' = [slot EXCEPT ![c][free] = new]
  BY DEF ChipFind
<1> HIDE DEF new, free
<1>5. \A d \in Chips : \A s \in Slots :
        slot'[d][s] = IF d = c /\ s = free THEN new ELSE slot[d][s]
  BY <1>1, <1>3, <1>4
<1>6. QED  BY <1>3, <1>5 DEF new

\* Nothing that was read changes while other nonces are found.
LEMMA ReadOutGrows ==
  ASSUME ChipInv, UNCHANGED <<op, idx, pos, mask, word>>,
         \A s \in Shown(idx) : slot'[idx][s] = slot[idx][s]
  PROVE  ReadOut'
<1>1. ReadOut /\ mask \subseteq Slots
  BY DEF ChipInv, DriverTyped
<1>2. CASE op \notin {"byte", "drop"}
  BY <1>1, <1>2 DEF ReadOut
<1>3. CASE op \in {"byte", "drop"}
  <2>1. Lowest(mask) \in mask /\ mask \subseteq Shown(idx)
    BY <1>1, <1>3, FirstIsNonce DEF ReadOut
  <2>2. mask \subseteq Shown(idx)'
    BY <1>1, <2>1 DEF Shown
  <2>3. First(mask)' = First(mask)
    BY <2>1 DEF First
  <2>4. (Port!Returned(First(mask)))' = Port!Returned(First(mask))
    BY <2>3 DEF Port!Returned, Port!CarryLost
  <2>5. QED  BY <1>1, <1>3, <2>2, <2>3, <2>4 DEF ReadOut
<1>4. QED  BY <1>2, <1>3

LEMMA ReadOutNext == ChipInv /\ [Next]_vars => ReadOut'
<1> SUFFICES ASSUME ChipInv, [Next]_vars PROVE ReadOut'
  OBVIOUS
<1>1. ReadOut /\ idx \in Chips /\ mask \subseteq Slots
  BY DEF ChipInv, DriverTyped
<1>2. CASE Quiet \/ LosePkg \/ ItpTask \/ ItpResult \/ ItpEnd
  <2>1. UNCHANGED chipVars /\ UNCHANGED callVars /\ UNCHANGED <<mask, word>>
    BY <1>2, QuietSteps DEF LosePkg, ItpTask, ItpResult, ItpEnd, spiVars, readVars
  <2>2. UNCHANGED <<op, idx, pos, mask, word>> /\ slot' = slot
    BY <2>1 DEF chipVars, callVars
  <2>3. QED  BY <2>2, ReadOutGrows
<1>3. CASE SendWork \/ ReadResult \/ ItpLoad \/ ItpAsk
  <2>1. op \notin {"byte", "drop"} /\ op' \notin {"byte", "drop"} /\ word' = word
    BY <1>3 DEF SendWork, ReadResult, ItpLoad, ItpAsk, Free, LoadTask, AskDone, callVars, readVars
  <2>2. QED  BY <1>1, <2>1 DEF ReadOut
<1>4. CASE Verdict \/ Clear \/ TaskReg \/ Start
  <2>1. op \notin {"byte", "drop"} /\ op' \notin {"byte", "drop"} /\ word' = word
    BY <1>4 DEF Verdict, Clear, TaskReg, Start, callVars, readVars
  <2>2. QED  BY <1>1, <2>1 DEF ReadOut
<1>5. CASE GetDone
  <2>1. /\ word' = word /\ word = 0 /\ slot' = slot /\ idx' = idx /\ mask' = Shown(idx)
        /\ IF mask' = {} THEN op' = "none" ELSE op' = "byte" /\ pos' = NONCE_BYTES - 1
    BY <1>1, <1>5 DEF GetDone, chipVars, ReadOut
  <2>2. CASE mask' = {}
    BY <2>1, <2>2 DEF ReadOut
  <2>3. CASE mask' # {}
    <3> DEFINE m == Shown(idx)
               v == slot[idx][Lowest(m)].value
               W == BYTE^NONCE_BYTES
    <3>1. m \in SUBSET Nat /\ m # {}
      BY <2>1, <2>3, ChipAssumption DEF Shown, Slots
    <3>2. Lowest(m) \in m
      BY <3>1, LowestOf
    <3>3. slot[idx][Lowest(m)] \in Nonce
      BY <1>1, <3>2 DEF ChipInv, ChipTyped, Shown
    <3>4. v \in Value
      BY <3>3 DEF Nonce
    <3>5. /\ NONCE_BYTES - 1 \in 0 .. NONCE_BYTES - 1 /\ (NONCE_BYTES - 1) + 1 = NONCE_BYTES
          /\ NONCE_BYTES \in Nat \ {0}
      BY ChipAssumption
    <3>6. W \in Nat \ {0}
      BY <3>5, PlacesGrow
    <3>7. (v \div W) * W = 0
      <4>1. v \in 0 .. W - 1
        BY <3>4 DEF Value
      <4> HIDE DEF v, W
      <4>2. v \div W = 0
        BY <3>6, <4>1
      <4>3. QED  BY <3>6, <4>2
    <3>8. First(mask)' = v /\ mask' = Shown(idx)'
      BY <2>1 DEF First, Shown
    <3>9. BYTE^(pos' + 1) = W
      BY <2>1, <2>3, <3>5
    <3>10. op' = "byte" /\ pos' \in 0 .. NONCE_BYTES - 1
      BY <2>1, <2>3, <3>5
    <3> HIDE DEF v, W
    <3>11. word' = (First(mask)' \div BYTE^(pos' + 1)) * BYTE^(pos' + 1)
      BY <2>1, <3>7, <3>8, <3>9
    <3>12. QED  BY <2>3, <3>8, <3>10, <3>11 DEF ReadOut
  <2>4. QED  BY <2>2, <2>3
<1>6. CASE NonceByte
  <2> DEFINE v == First(mask)
             b == NonceReg(idx, Lowest(mask), pos)
             P == BYTE^pos
  <2>1. /\ op = "byte" /\ slot' = slot /\ idx' = idx /\ mask' = mask
        /\ word' = IF pos = 0 THEN OrLowest(word, b) ELSE word + b * P
        /\ IF pos = 0 THEN op' = "drop" ELSE op' = "byte" /\ pos' = pos - 1
    BY <1>6 DEF NonceByte, chipVars
  <2>2. /\ pos \in 0 .. NONCE_BYTES - 1 /\ mask # {} /\ mask \subseteq Shown(idx)
        /\ word = (v \div BYTE^(pos + 1)) * BYTE^(pos + 1)
    BY <1>1, <2>1 DEF ReadOut
  <2>3. v \in Nat /\ NONCE_BYTES \in Nat /\ BYTE \in Nat \ {0}
    BY <2>1, FirstIsNonce, ChipAssumption
  <2>4. P \in Nat \ {0} /\ BYTE^(pos + 1) = BYTE * P
    BY <2>2, PlacesGrow
  <2>5. b = (v \div P) % BYTE
    BY DEF NonceReg, First
  <2>6. First(mask)' = v /\ Shown(idx)' = Shown(idx)
    BY <2>1 DEF First, Shown
  <2>7. CASE pos = 0
    <3>1. P = 1
      BY <2>7, PlaceAssumption
    <3>2. v \div P = v /\ BYTE * P = BYTE
      BY <2>3, <3>1
    <3>3. b = v % BYTE /\ word = (v \div BYTE) * BYTE
      BY <2>2, <2>4, <2>5, <3>2
    <3>4. word' = Port!Returned(v)
      BY <2>1, <2>3, <2>7, <3>3, LowestDigit
    <3>5. (Port!Returned(First(mask)))' = Port!Returned(v)
      BY <2>6 DEF Port!Returned, Port!CarryLost
    <3>6. QED  BY <2>1, <2>2, <2>6, <2>7, <3>4, <3>5 DEF ReadOut
  <2>8. CASE pos # 0
    <3>1. word' = (v \div P) * P
      <4>1. word' = word + b * P
        BY <2>1, <2>8
      <4> HIDE DEF v, b, P
      <4>2. (v \div (BYTE * P)) * (BYTE * P) + ((v \div P) % BYTE) * P = (v \div P) * P
        BY <2>3, <2>4, DigitAtItsPlace
      <4>3. QED  BY <2>2, <2>4, <2>5, <4>1, <4>2
    <3>2. pos' \in 0 .. NONCE_BYTES - 1 /\ pos' + 1 = pos
      BY <2>1, <2>2, <2>3, <2>8
    <3>3. BYTE^(pos' + 1) = P
      BY <3>2
    <3> HIDE DEF v, P
    <3>4. word' = (First(mask)' \div BYTE^(pos' + 1)) * BYTE^(pos' + 1)
      BY <2>6, <3>1, <3>3
    <3>5. QED  BY <2>1, <2>2, <2>6, <2>8, <3>2, <3>4 DEF ReadOut
  <2>9. QED  BY <2>7, <2>8
<1>7. CASE Drop
  BY <1>7 DEF Drop, ReadOut
<1>8. CASE Chip
  <2>1. CASE \E c \in Chips : ChipDone(c) \/ ChipReady(c)
    <3>1. UNCHANGED <<op, idx, pos, mask, word>> /\ slot' = slot
      BY <2>1 DEF ChipDone, ChipReady, callVars, readVars
    <3>2. QED  BY <3>1, ReadOutGrows
  <2>2. ASSUME NEW c \in Chips, NEW value \in Nonces(run[c]), ChipFind(c, value)
        PROVE  ReadOut'
    <3>1. UNCHANGED <<op, idx, pos, mask, word>>
      BY <2>2 DEF ChipFind, callVars, readVars
    <3>2. \A s \in Shown(idx) : slot'[idx][s] = slot[idx][s]
      BY <1>1, <2>2, FindGrows DEF Shown
    <3>3. QED  BY <3>1, <3>2, ReadOutGrows
  <2>3. QED  BY <1>8, <2>1, <2>2 DEF Chip
<1>9. QED
  BY <1>2, <1>3, <1>4, <1>5, <1>6, <1>7, <1>8, StepKinds DEF TransferStep, Transfer

LEMMA AskedNext == ChipInv /\ [Next]_vars => Asked'
<1> SUFFICES ASSUME ChipInv, [Next]_vars, itp_pc' = "verdict" PROVE Asked'
  BY DEF Asked
<1>1. Asked /\ idx \in Chips /\ mask \subseteq Slots
  BY DEF ChipInv, DriverTyped
<1>2. itp_pc = "verdict" => use = "bench"
  BY DEF ChipInv, Caller
<1> USE DEF Asked
<1>3. CASE Quiet
  BY <1>1, <1>2, <1>3, QuietSteps DEF chipVars, callVars, itpVars
<1>4. CASE SendWork \/ ReadResult
  BY <1>2, <1>4 DEF SendWork, ReadResult, Free, itpVars
<1>5. CASE LosePkg
  BY <1>1, <1>5 DEF LosePkg, chipVars, callVars, readVars
<1>6. CASE ItpTask \/ ItpResult \/ ItpLoad \/ Verdict \/ ItpEnd
  BY <1>6 DEF ItpTask, ItpResult, ItpLoad, Verdict, ItpEnd
<1>7. CASE ItpAsk
  BY <1>7 DEF ItpAsk, AskDone
<1>8. CASE TransferStep
  <2>1. itp_pc = "verdict" /\ use = "bench" /\ op \notin Loading
    BY <1>2, <1>8 DEF TransferStep, ChipInv, Caller, Loading, Reading
  <2>2. seen' = IF op = "status" THEN {slot[idx][s] : s \in Shown(idx)} ELSE seen
    BY <1>8, <2>1 DEF TransferStep
  <2>3. CASE GetDone
    <3>1. /\ op = "status" /\ slot' = slot /\ idx' = idx /\ mask' = Shown(idx)
          /\ op' = IF mask' = {} THEN "none" ELSE "byte"
          /\ mask' # {} => ready'
      BY <2>3 DEF GetDone, chipVars, Ready
    <3>2. seen' = {slot'[idx'][s] : s \in mask'}
      BY <2>2, <3>1
    <3>3. QED  BY <3>1, <3>2
  <2>4. CASE NonceByte
    <3>1. /\ op = "byte" /\ slot' = slot /\ idx' = idx /\ mask' = mask /\ op' \in {"byte", "drop"}
          /\ ready' = ready
      BY <2>4 DEF NonceByte, chipVars
    <3>2. QED  BY <1>1, <2>1, <2>2, <3>1
  <2>5. CASE Drop
    <3>1. op = "drop" /\ op' = "none" /\ ready' = ready /\ result' = word
      BY <2>5 DEF Drop
    <3>2. seen' = {slot[idx][s] : s \in mask} /\ mask # {} /\ ready
      BY <1>1, <2>1, <2>2, <3>1 DEF ChipInv, ReadOut
    <3>3. slot[idx][Lowest(mask)] \in seen'
      BY <3>1, <3>2, FirstIsNonce
    <3>4. result' = Port!Returned(slot[idx][Lowest(mask)].value)
      BY <3>1 DEF ChipInv, ReadOut, First
    <3>5. \E nonce \in seen' : result' = Port!Returned(nonce.value)
      BY <3>3, <3>4
    <3>6. QED  BY <3>1, <3>2, <3>3, <3>5 DEF Port!Returned, Port!CarryLost
  <2>6. CASE Clear \/ TaskReg \/ Start
    BY <2>1, <2>6 DEF Clear, TaskReg, Start, Loading
  <2>7. QED  BY <1>8, <2>3, <2>4, <2>5, <2>6 DEF TransferStep, Transfer
<1>9. CASE Chip
  <2>1. UNCHANGED <<op, idx, ready, mask, result, itp_pc, seen>>
    BY <1>9 DEF Chip, ChipDone, ChipReady, ChipFind, callVars, readVars, itpVars
  <2>2. op \in {"byte", "drop"} => \A s \in mask : slot'[idx][s] = slot[idx][s]
    <3> SUFFICES ASSUME op \in {"byte", "drop"}
                 PROVE  \A s \in mask : slot'[idx][s] = slot[idx][s]
      OBVIOUS
    <3>1. mask \subseteq Shown(idx)
      BY DEF ChipInv, ReadOut
    <3>2. CASE \E c \in Chips : ChipDone(c) \/ ChipReady(c)
      BY <3>2 DEF ChipDone, ChipReady
    <3>3. ASSUME NEW c \in Chips, NEW value \in Nonces(run[c]), ChipFind(c, value)
          PROVE  \A s \in mask : slot'[idx][s] = slot[idx][s]
      BY <1>1, <3>1, <3>3, FindGrows
    <3>4. QED  BY <1>9, <3>2, <3>3 DEF Chip
  <2>3. op \in {"byte", "drop"} => {slot'[idx][s] : s \in mask} = {slot[idx][s] : s \in mask}
    BY <2>2
  <2>4. QED  BY <1>1, <2>1, <2>3 DEF Port!Returned, Port!CarryLost
<1>10. QED
  BY <1>3, <1>4, <1>5, <1>6, <1>7, <1>8, <1>9, StepKinds

LEMMA ForgottenNext == ChipInv /\ [Next]_vars => Forgotten'
<1> SUFFICES ASSUME ChipInv, [Next]_vars, itp_pc' \in {"results", "verdict"} PROVE Forgotten'
  BY DEF Forgotten
<1>1. /\ Forgotten /\ Asked /\ itp_result \in Seq({"N", "R", "E"})
      /\ itp_pc = "loop" => itp_result = <<>>
      /\ itp_pc = "results" => op = "none"
      /\ itp_pc # "loop" => use = "bench"
  BY DEF ChipInv, BenchTyped, Caller
<1> USE DEF Forgotten
<1>2. CASE Quiet
  BY <1>1, <1>2, QuietSteps DEF callVars, itpVars
<1>3. CASE SendWork \/ ReadResult
  BY <1>1, <1>3 DEF SendWork, ReadResult, Free, itpVars
<1>4. CASE LosePkg \/ Chip
  BY <1>1, <1>4 DEF LosePkg, Chip, ChipDone, ChipReady, ChipFind, callVars, readVars, itpVars
<1>5. CASE ItpTask \/ ItpLoad \/ ItpEnd
  BY <1>1, <1>5 DEF ItpTask, ItpLoad, ItpEnd
<1>6. CASE ItpResult
  BY <1>1, <1>6 DEF ItpResult
<1>7. CASE ItpAsk
  BY <1>1, <1>7 DEF ItpAsk, AskDone, readVars
<1>8. CASE Verdict
  <2>1. CASE ready
    BY <1>8, <2>1 DEF Verdict
  <2>2. CASE ~ready
    <3>1. seen = {} /\ result' = result /\ itp_result' = Append(itp_result, "N")
      BY <1>1, <1>8, <2>2 DEF Verdict, Asked
    <3>2. (\A k \in DOMAIN itp_result : itp_result[k] = "N")
            => \A k \in DOMAIN itp_result' : itp_result'[k] = "N"
      BY <1>1, <3>1
    <3>3. QED  BY <1>1, <1>8, <3>1, <3>2 DEF Verdict
  <2>3. QED  BY <2>1, <2>2
<1>9. CASE TransferStep
  <2>1. /\ op # "none" /\ itp_pc' = itp_pc /\ itp_pc = "verdict" /\ itp_result' = itp_result
        /\ seen' = IF op = "status" /\ use = "bench" THEN {slot[idx][s] : s \in Shown(idx)} ELSE seen
    BY <1>1, <1>9 DEF TransferStep, Transfer, Clear, TaskReg, Start, GetDone, NonceByte, Drop
  <2>2. CASE Drop
    <3>1. op = "drop" /\ op' = "none" /\ seen = {slot[idx][s] : s \in mask} /\ mask # {}
      BY <1>1, <2>1, <2>2 DEF Drop, Asked, ChipInv, ReadOut
    <3>2. seen' # {}
      BY <2>1, <3>1
    <3>3. QED  BY <2>1, <3>1, <3>2
  <2>3. CASE Clear \/ TaskReg \/ Start \/ GetDone \/ NonceByte
    BY <1>1, <2>1, <2>3 DEF Clear, TaskReg, Start, GetDone, NonceByte, readVars
  <2>4. QED  BY <1>9, <2>2, <2>3 DEF TransferStep, Transfer
<1>10. QED
  BY <1>2, <1>3, <1>4, <1>5, <1>6, <1>7, <1>8, <1>9, StepKinds

LEMMA OwnNext == ChipInv /\ [Next]_vars => Own'
<1> SUFFICES ASSUME ChipInv, [Next]_vars PROVE Own'
  OBVIOUS
<1>1. Own /\ idx \in Chips /\ slot \in [Chips -> [Slots -> Nonce \cup {NoNonce}]]
  BY DEF ChipInv, DriverTyped, ChipTyped
<1>2. run \in [Chips -> Registers] /\ allow \in [Chips -> BOOLEAN]
  BY DEF ChipInv, ChipTyped
<1>3. CASE Quiet
  BY <1>1, <1>3, QuietSteps DEF Own, Shown, chipVars, callVars, itpVars
<1>4. CASE SendWork \/ ReadResult
  <2>1. use = "mining" /\ use' = use /\ idle' = idle /\ itp_pc' = itp_pc /\ itp_pc = "loop"
    BY <1>4 DEF SendWork, ReadResult, Free, itpVars, ChipInv, Caller
  <2>2. QED  BY <1>1, <2>1 DEF Own
<1>5. CASE use = "bench" /\ LosePkg /\ UNCHANGED mineVars
  BY <1>1, <1>5 DEF LosePkg, Own, Shown, chipVars, callVars, mineVars
<1>6. CASE use = "bench" /\ (ItpTask \/ ItpResult) /\ UNCHANGED mineVars
  <2>1. /\ itp_pc' # "verdict" /\ use' = use /\ idle' = idle
        /\ UNCHANGED <<op, idx, allow, slot, run>>
    BY <1>6 DEF ItpTask, ItpResult, spiVars, chipVars, callVars, mineVars
  <2>2. QED  BY <1>1, <2>1 DEF Own, Shown
<1>7. CASE ItpLoad /\ UNCHANGED mineVars
  <2>1. /\ op = "none" /\ op' = "clear" /\ idx' = itp_idx /\ itp_pc' = "tasks" /\ use' = use
        /\ UNCHANGED <<allow, slot, run>>
        /\ idle' = IF allow[itp_idx] THEN idle \cup {itp_idx} ELSE idle \ {itp_idx}
    BY <1>7 DEF ItpLoad, LoadTask, chipVars, mineVars
  <2>2. itp_idx \in Chips /\ use = "bench"
    <3>1. CHIP_NUMBER \in Nat /\ itp_idx \in 0 .. limit /\ limit \in 0 .. CHIP_NUMBER
      BY ChipAssumption DEF ChipInv, BenchTyped
    <3>2. QED  BY <1>7, <3>1 DEF ItpLoad, Chips, ChipInv, Caller
  <2>3. QED  BY <1>1, <2>1, <2>2 DEF Own, Shown, Loading
<1>8. CASE ItpAsk /\ UNCHANGED mineVars
  <2>1. op = "none" /\ op' = "status" /\ use' = use /\ UNCHANGED <<allow, slot, run, idle>>
    BY <1>8 DEF ItpAsk, AskDone, chipVars, mineVars
  <2>2. QED  BY <1>1, <2>1 DEF Own, Shown, Loading
<1>9. CASE Verdict /\ UNCHANGED mineVars
  <2>1. /\ UNCHANGED <<op, idx, run, allow, idle, use>> /\ itp_pc' = "results" /\ op = "none"
        /\ slot' = slot \/ slot' = [slot EXCEPT ![itp_idx] = Empty]
    BY <1>9 DEF Verdict, callVars, mineVars
  <2>2. \A c \in Chips : slot'[c] = slot[c] \/ slot'[c] = Empty
    BY <1>1, <2>1
  <2>3. \A c \in Chips : \A s \in Shown(c)' : s \in Shown(c) /\ slot'[c][s] = slot[c][s]
    BY <2>2 DEF Shown, Empty
  <2>4. QED  BY <1>1, <2>1, <2>3 DEF Own, Loading
<1>10. CASE ItpEnd /\ UNCHANGED mineVars
  <2>1. UNCHANGED <<op, idx, run, allow, slot, idle, use>> /\ itp_pc' = "loop"
    BY <1>10 DEF ItpEnd, spiVars, chipVars, callVars, mineVars
  <2>2. QED  BY <1>1, <2>1 DEF Own, Shown
<1>11. CASE TransferStep
  <2>1. /\ UNCHANGED <<itp_pc, itp_idx, idle, use>>
        /\ seen' = IF op = "status" /\ use = "bench" THEN {slot[idx][s] : s \in Shown(idx)} ELSE seen
    BY <1>11 DEF TransferStep, mineVars
  <2>2. itp_pc = "verdict" => op \notin Loading /\ idx = itp_idx /\ use = "bench"
    BY <1>11 DEF ChipInv, Caller, Loading, Reading, TransferStep, Transfer, Clear, TaskReg, Start,
                 GetDone, NonceByte, Drop
  <2>3. CASE Clear \/ Drop
    <3>1. /\ UNCHANGED <<run, allow, idx>> /\ slot' = [slot EXCEPT ![idx] = Empty]
          /\ (op = "clear" /\ op' = "write") \/ (op = "drop" /\ op' = "none")
      BY <2>3 DEF Clear, Drop
    <3>2. /\ \A c \in Chips : c # idx => slot'[c] = slot[c]
          /\ slot'[idx] = Empty
      BY <1>1, <3>1
    <3>3. Shown(idx)' = {} /\ \A c \in Chips : c # idx => Shown(c)' = Shown(c)
      BY <3>1, <3>2 DEF Shown, Empty
    <3>4. seen' = seen
      BY <2>1, <3>1
    <3>5. /\ idle' \subseteq Chips /\ (use' = "mining" => idle' = {})
      BY <1>1, <2>1 DEF Own
    <3>6. ASSUME NEW c \in idle
          PROVE  IF op' \in Loading /\ c = idx'
                 THEN allow'[c] /\ (op' # "clear" => Shown(c)' = {})
                 ELSE \A s \in Shown(c)' : slot'[c][s].task = run'[c]
      BY <1>1, <3>1, <3>2, <3>3 DEF Own, Loading
    <3>7. itp_pc' = "verdict" /\ op' # "status" /\ itp_idx' \in idle' =>
            \A nonce \in seen' : nonce.task = run'[itp_idx']
      BY <1>1, <2>1, <3>1, <3>4 DEF Own
    <3>8. QED  BY <2>1, <3>5, <3>6, <3>7 DEF Own
  <2>4. CASE TaskReg
    BY <1>1, <2>1, <2>2, <2>4 DEF TaskReg, Own, Shown, Loading
  <2>5. CASE Start
    <3>1. /\ op = "start" /\ op' = "none" /\ slot' = slot /\ run' = [run EXCEPT ![idx] = reg[idx]]
      BY <2>5 DEF Start
    <3>2. \A c \in Chips : c # idx => run'[c] = run[c]
      BY <1>2, <3>1
    <3>3. itp_pc # "verdict"
      BY <2>2, <3>1 DEF Loading
    <3>4. QED  BY <1>1, <2>1, <3>1, <3>2, <3>3 DEF Own, Shown, Loading
  <2>6. CASE GetDone
    <3>1. op = "status" /\ op' \in {"none", "byte"} /\ UNCHANGED <<run, allow, slot, idx>>
      BY <2>6 DEF GetDone, chipVars
    <3>2. itp_pc = "verdict" => seen' = {slot[idx][s] : s \in Shown(idx)}
      BY <2>1, <2>2, <3>1
    <3>3. QED  BY <1>1, <2>1, <2>2, <3>1, <3>2 DEF Own, Shown, Loading
  <2>7. CASE NonceByte
    <3>1. op = "byte" /\ op' \in {"byte", "drop"} /\ UNCHANGED <<run, allow, slot, idx>>
      BY <2>7 DEF NonceByte, chipVars
    <3>2. QED  BY <1>1, <2>1, <3>1 DEF Own, Shown, Loading
  <2>8. QED  BY <1>11, <2>3, <2>4, <2>5, <2>6, <2>7 DEF TransferStep, Transfer
<1>12. CASE Chip
  <2>1. UNCHANGED <<op, idx, run, itp_pc, itp_idx, idle, seen, use>>
    BY <1>12 DEF Chip, ChipDone, ChipReady, ChipFind, callVars, itpVars, mineVars
  <2>2. CASE \E c \in Chips : ChipDone(c) \/ ChipReady(c)
    <3>1. slot' = slot /\ \A d \in Chips : allow[d] => allow'[d]
      BY <1>2, <2>2 DEF ChipDone, ChipReady
    <3>2. QED  BY <1>1, <2>1, <3>1 DEF Own, Shown
  <2>3. ASSUME NEW c \in Chips, NEW value \in Nonces(run[c]), ChipFind(c, value)
        PROVE  Own'
    <3> DEFINE new == [task |-> run[c], value |-> value]
    <3>1. ~allow[c] /\ allow' = allow
      BY <2>3 DEF ChipFind
    <3>2. \A d \in Chips : \A s \in Slots :
            slot'[d][s] = slot[d][s] \/ (d = c /\ s \notin Shown(d) /\ slot'[d][s] = new)
      BY <2>3, FindGrows
    <3>3. new.task = run[c]
      OBVIOUS
    <3> HIDE DEF new
    <3>4. ASSUME NEW d \in idle
          PROVE  IF op' \in Loading /\ d = idx'
                 THEN allow'[d] /\ (op' # "clear" => Shown(d)' = {})
                 ELSE \A s \in Shown(d)' : slot'[d][s].task = run'[d]
      <4>1. d \in Chips
        BY <1>1 DEF Own
      <4>2. CASE op \in Loading /\ d = idx
        <5>1. d # c
          BY <1>1, <3>1, <4>2 DEF Own
        <5>2. Shown(d)' = Shown(d)
          BY <3>2, <4>1, <5>1 DEF Shown
        <5>3. QED  BY <1>1, <2>1, <3>1, <4>2, <5>2 DEF Own
      <4>3. CASE ~(op \in Loading /\ d = idx)
        <5>1. \A s \in Shown(d) : slot[d][s].task = run[d]
          BY <1>1, <4>3 DEF Own
        <5>2. ASSUME NEW s \in Shown(d)'
              PROVE  slot'[d][s].task = run[d]
          <6>1. s \in Slots
            BY DEF Shown
          <6>2. CASE slot'[d][s] = slot[d][s]
            BY <5>1, <6>1, <6>2 DEF Shown
          <6>3. CASE d = c /\ slot'[d][s] = new
            BY <3>3, <6>3
          <6>4. QED  BY <3>2, <4>1, <6>1, <6>2, <6>3
        <5>3. QED  BY <2>1, <4>3, <5>2
      <4>4. QED  BY <4>2, <4>3
    <3>5. QED  BY <1>1, <2>1, <3>4 DEF Own
  <2>4. QED  BY <1>12, <2>2, <2>3 DEF Chip
<1>13. QED
  BY <1>3, <1>4, <1>5, <1>6, <1>7, <1>8, <1>9, <1>10, <1>11, <1>12, StepKinds

LEMMA ChipInvNext == ChipInv /\ [Next]_vars => ChipInv'
BY ChipTypedNext, DriverTypedNext, BenchTypedNext, MineTypedNext, CallerNext, LoadedNext,
   ReadOutNext, AskedNext, ForgottenNext, OwnNext DEF ChipInv

\* Both invariants hold throughout.
LEMMA AlwaysInvariant == Spec => [](ShaInv /\ ChipInv)
<1>1. Init => ShaInv /\ ChipInv
  BY ShaInvInit, ChipInvInit DEF Init
<1>2. ShaInv /\ ChipInv /\ [Next]_vars => ShaInv' /\ ChipInv'
  BY ShaInvNext, ChipInvNext
<1>3. QED  BY <1>1, <1>2, PTL DEF Spec

LEMMA FloorAtMost ==
  ASSUME NEW v \in Nat, NEW P \in Nat \ {0}
  PROVE  (v \div P) * P \in 0 .. v
<1> DEFINE d == v \div P
           r == v % P
<1>1. d \in Nat /\ r \in Nat /\ v = P * d + r
  OBVIOUS
<1> HIDE DEF d, r
<1>2. d * P = P * d /\ P * d \in Nat
  BY <1>1
<1>3. d * P \in 0 .. v
  BY <1>1, <1>2
<1>4. QED  BY <1>3 DEF d

\* What has been read so far of a nonce is at most the nonce.
LEMMA WordIsValue == ChipInv => word \in Value
<1> SUFFICES ASSUME ChipInv PROVE word \in Value
  OBVIOUS
<1>1. CASE op \notin {"byte", "drop"}
  BY <1>1, ZeroIsValue DEF ChipInv, ReadOut
<1>2. CASE op = "drop"
  BY <1>2, DropIsValue
<1>3. CASE op = "byte"
  <2> DEFINE v == First(mask)
             P == BYTE^(pos + 1)
             W == BYTE^NONCE_BYTES
  <2>1. v \in 0 .. W - 1 /\ v \in Nat
    BY <1>3, FirstIsNonce DEF Value
  <2>2. P \in Nat \ {0} /\ word = (v \div P) * P
    BY <1>3, PlacesGrow DEF ChipInv, ReadOut
  <2>3. W \in Nat
    <3>1. NONCE_BYTES - 1 \in 0 .. NONCE_BYTES - 1 /\ (NONCE_BYTES - 1) + 1 = NONCE_BYTES
      BY ChipAssumption
    <3>2. QED  BY <3>1, PlacesGrow
  <2> HIDE DEF v, P, W
  <2>4. (v \div P) * P \in 0 .. v
    BY <2>1, <2>2, FloorAtMost
  <2>5. word \in 0 .. W - 1
    BY <2>1, <2>2, <2>3, <2>4
  <2>6. QED  BY <2>5 DEF Value, W
<1>4. QED  BY <1>1, <1>2, <1>3

LEMMA TypesOfInvariant == ShaInv /\ ChipInv => TypeOK
<1> SUFFICES ASSUME ShaInv, ChipInv PROVE TypeOK
  OBVIOUS
<1>1. /\ round \in 0 .. Rounds /\ i \in 0 .. SHA256_BLOCK_SIZE - 4
  BY DEF ShaInv, ShaTyped
<1>2. hash_cnt \in 0 .. 7
  <2>1. state \in Seq(Int) /\ hash_cnt = Len(state) /\ hash_cnt <= 7
    BY DEF ShaInv, WordsRead
  <2>2. Len(state) \in Nat /\ Len(state) <= 7
    BY <2>1
  <2>3. Len(state) \in 0 .. 7
    <3>1. \A n \in Nat : n <= 7 => n \in 0 .. 7
      OBVIOUS
    <3>2. QED  BY <2>2, <3>1
  <2>4. QED  BY <2>1, <2>3
<1>3. blk \in 1 .. IF sha_pc = "idle" THEN 1 ELSE Len(Blocks(Head(calls)))
  <2>1. CASE sha_pc = "idle"
    BY <2>1 DEF ShaInv, Turns
  <2>2. CASE sha_pc # "idle"
    <3>1. Len(Blocks(Head(calls))) \in Nat
      BY <2>2, HeadOfCalls, BlocksOfMessage DEF ShaInv, Turns
    <3>2. QED  BY <2>2, <3>1 DEF ShaInv, ShaTyped, Absorbed
  <2>3. QED  BY <2>1, <2>2
<1>4. word \in Value
  BY WordIsValue
<1>5. QED
  BY <1>1, <1>2, <1>3, <1>4
     DEF TypeOK, ChipInv, ChipTyped, DriverTyped, BenchTyped, MineTyped, Loading, Reading

\* The variables of the chips, the driver, the factory test and the SHA core keep their types:
\* a nonce fits its width even where a carry is lost, and no loop over the chips, the
\* registers or the blocks leaves its range (be200.c, main.c:270-388, sha256.c).
THEOREM TypeCorrect == Spec => []TypeOK
BY AlwaysInvariant, TypesOfInvariant, PTL

-------------------------------------------------------------------------------
(***************************************************************************)
(* What the callers of the driver rely on.                                 *)
(***************************************************************************)
Found == [c \in Chips |-> {slot[c][s] : s \in Shown(c)}]

\* The nonces of a chip go when its registers are cleared; those of the others stay.
LEMMA FoundCleared ==
  ASSUME ChipInv, NEW c \in Chips, slot' = [slot EXCEPT ![c] = Empty]
  PROVE  Found' = [Found EXCEPT ![c] = {}]
<1>1. slot \in [Chips -> [Slots -> Nonce \cup {NoNonce}]]
  BY DEF ChipInv, ChipTyped
<1>2. slot'[c] = Empty /\ \A d \in Chips : d # c => slot'[d] = slot[d]
  BY <1>1
<1>3. Shown(c)' = {} /\ \A d \in Chips : d # c => Shown(d)' = Shown(d)
  BY <1>2 DEF Shown, Empty
<1>4. \A d \in Chips : {slot'[d][s] : s \in Shown(d)'}
                         = IF d = c THEN {} ELSE {slot[d][s] : s \in Shown(d)}
  BY <1>2, <1>3
<1>5. QED  BY <1>4 DEF Found

LEMMA PortStep == ChipInv /\ [Next]_vars => [Port!PortNext]_<<run, Found, result>>
<1> SUFFICES ASSUME ChipInv, [Next]_vars PROVE [Port!PortNext]_<<run, Found, result>>
  OBVIOUS
<1>1. /\ idx \in Chips /\ itp_idx \in 0 .. limit /\ limit \in 0 .. CHIP_NUMBER
      /\ run \in [Chips -> Registers] /\ task \in Registers
      /\ slot \in [Chips -> [Slots -> Nonce \cup {NoNonce}]]
  BY DEF ChipInv, ChipTyped, DriverTyped, BenchTyped
<1>2. ASSUME UNCHANGED <<run, slot, result>>
      PROVE  UNCHANGED <<run, Found, result>>
  BY <1>2 DEF Found, Shown
<1>3. CASE Quiet \/ SendWork \/ ReadResult \/ LosePkg \/ ItpTask \/ ItpLoad \/ ItpAsk
             \/ ItpEnd \/ TaskReg \/ GetDone \/ NonceByte
  <2>1. UNCHANGED <<run, slot, result>>
    <3>1. CASE Quiet
      BY <3>1, QuietSteps DEF chipVars
    <3>2. CASE SendWork \/ ReadResult \/ LosePkg \/ ItpLoad \/ ItpAsk
      BY <3>2 DEF SendWork, ReadResult, LosePkg, ItpLoad, ItpAsk, chipVars, readVars
    <3>3. CASE ItpTask \/ ItpEnd
      BY <3>3 DEF ItpTask, ItpEnd, spiVars, chipVars, readVars
    <3>4. CASE TaskReg \/ GetDone \/ NonceByte
      BY <3>4 DEF TaskReg, GetDone, NonceByte, chipVars, readVars
    <3>5. QED  BY <1>3, <3>1, <3>2, <3>3, <3>4
  <2>2. QED  BY <1>2, <2>1
<1>4. CASE Clear
  <2>1. slot' = [slot EXCEPT ![idx] = Empty] /\ run' = run /\ result' = result
    BY <1>4 DEF Clear, readVars
  <2>2. Found' = [Found EXCEPT ![idx] = {}]
    BY <1>1, <2>1, FoundCleared
  <2>3. Port!PortClear(idx)
    BY <2>1, <2>2 DEF Port!PortClear, Found
  <2>4. QED  BY <1>1, <2>3 DEF Port!PortNext, Port!PortClear, Port!PortTake, Port!PortFind, Port!PortLoad
<1>5. CASE Verdict
  <2>1. CASE ~ready
    <3>1. UNCHANGED <<run, slot, result>>
      BY <1>5, <2>1 DEF Verdict
    <3>2. QED  BY <1>2, <3>1
  <2>2. CASE ready
    <3>1. slot' = [slot EXCEPT ![itp_idx] = Empty] /\ run' = run /\ result' = 0
      BY <1>5, <2>2 DEF Verdict
    <3>2. itp_idx \in Chips
      BY <1>1, <1>5, ChipAssumption DEF Verdict, ChipInv, Caller, Chips
    <3>3. Found' = [Found EXCEPT ![itp_idx] = {}]
      BY <3>1, <3>2, FoundCleared
    <3>4. Port!PortClear(itp_idx)
      BY <3>1, <3>3 DEF Port!PortClear, Found
    <3>5. QED  BY <3>2, <3>4, Zenon DEF Port!PortNext, Port!PortClear
  <2>3. QED  BY <2>1, <2>2
<1>6. CASE Drop
  <2>1. slot' = [slot EXCEPT ![idx] = Empty] /\ run' = run /\ result' = word /\ op = "drop"
    BY <1>6 DEF Drop
  <2>2. Found' = [Found EXCEPT ![idx] = {}]
    BY <1>1, <2>1, FoundCleared
  <2>3. slot[idx][Lowest(mask)] \in Found[idx]
    <3>1. Lowest(mask) \in Shown(idx)
      BY <2>1, FirstIsNonce DEF ChipInv, ReadOut
    <3>2. QED  BY <1>1, <3>1 DEF Found
  <2>4. result' = Port!Returned(slot[idx][Lowest(mask)].value)
    BY <2>1 DEF ChipInv, ReadOut, First
  <2>5. Port!PortTake(idx)
    BY <1>1, <2>1, <2>2, <2>3, <2>4 DEF Port!PortTake, Found
  <2>6. QED  BY <1>1, <2>5, Zenon DEF Port!PortNext, Port!PortTake
<1>7. CASE Start
  <2>1. /\ slot' = slot /\ run' = [run EXCEPT ![idx] = reg[idx]] /\ result' = result
        /\ op = "start"
    BY <1>7 DEF Start, readVars
  <2>2. Found' = Found
    BY <2>1 DEF Found, Shown
  <2>3. run'[idx] = reg[idx]
    BY <1>1, <2>1
  <2>4. Port!Begins(reg[idx], run[idx], task)
    BY <1>1, <2>1 DEF ChipInv, Loaded, Written, Port!Begins, Registers
  <2>5. Port!PortLoad(idx)
    BY <2>1, <2>2, <2>3, <2>4 DEF Port!PortLoad, Found
  <2>6. QED  BY <1>1, <2>5 DEF Port!PortNext
<1>8. CASE Chip
  <2>1. CASE \E c \in Chips : ChipDone(c) \/ ChipReady(c)
    <3>1. UNCHANGED <<run, slot, result>>
      BY <2>1 DEF ChipDone, ChipReady, readVars
    <3>2. QED  BY <1>2, <3>1
  <2>2. ASSUME NEW c \in Chips, NEW value \in Nonces(run[c]), ChipFind(c, value)
        PROVE  [Port!PortNext]_<<run, Found, result>>
    <3> DEFINE new == [task |-> run[c], value |-> value]
    <3>1. run' = run /\ result' = result
      BY <2>2 DEF ChipFind, readVars
    <3>2. /\ \A d \in Chips : \A s \in Slots :
               slot'[d][s] = slot[d][s] \/ (d = c /\ s \notin Shown(d))
          /\ \A d \in Chips : \A s \in Slots : slot'[d][s] = slot[d][s] \/ slot'[d][s] = new
      BY <2>2, FindGrows
    <3>3. new.task = run[c]
      OBVIOUS
    <3> HIDE DEF new
    <3>4. \A d \in Chips : d # c => Found'[d] = Found[d]
      BY <3>2 DEF Found, Shown
    <3>5. Found[c] \subseteq Found'[c]
      BY <3>2 DEF Found, Shown
    <3>6. \A nonce \in Found'[c] \ Found[c] : nonce.task = run[c]
      <4>1. \A nonce \in Found'[c] : nonce \in Found[c] \/ nonce = new
        BY <3>2 DEF Found, Shown
      <4>2. QED  BY <3>3, <4>1
    <3>7. Found' = [Found EXCEPT ![c] = Found'[c]]
      BY <3>4 DEF Found
    <3>8. Port!PortFind(c)
      BY <3>1, <3>5, <3>6, <3>7 DEF Port!PortFind, Found
    <3>9. QED  BY <3>8 DEF Port!PortNext
  <2>3. QED  BY <1>8, <2>1, <2>2 DEF Chip
<1>9. CASE ItpResult
  <2>1. UNCHANGED <<run, slot>> /\ result' \in Unset
    BY <1>9 DEF ItpResult, chipVars
  <2>2. Found' = Found
    BY <2>1 DEF Found, Shown
  <2>3. Port!PortForget
    BY <2>1, <2>2 DEF Port!PortForget, Found
  <2>4. QED  BY <2>3 DEF Port!PortNext
<1>10. QED
  BY <1>3, <1>4, <1>5, <1>6, <1>7, <1>8, <1>9, StepKinds DEF TransferStep, Transfer

\* The transfers one by one, with the chips hashing in between, do what the callers rely on:
\* a chip is started on the task or on a beginning of it before the rest of the one before,
\* and of its nonces one is taken, but for a lost carry, and the others go (be200.c:64-127).
THEOREM DriverIsAtomic == Spec => PortsAtomic
<1>1. Init => Port!PortInit
  <2> SUFFICES ASSUME Init PROVE Port!PortInit
    OBVIOUS
  <2>1. \A c \in Chips : {slot[c][s] : s \in Shown(c)} = {}
    BY DEF Init, SpiInit, Empty, Shown
  <2>2. QED  BY <2>1 DEF Init, SpiInit, Port!PortInit
<1>2. ChipInv /\ [Next]_vars => [Port!PortNext]_<<run, Found, result>>
  BY PortStep
<1>3. QED  BY <1>1, <1>2, AlwaysInvariant, PTL DEF Spec, PortsAtomic, Port!PortSpec, Found

-------------------------------------------------------------------------------
(***************************************************************************)
(* The verdicts of the factory test.                                       *)
(***************************************************************************)

LEMMA JudgedIsVerdict ==
  ASSUME ChipInv, [Next]_vars, Judged
  PROVE  Verdict
<1>1. CASE Quiet
  BY <1>1, QuietSteps DEF Judged, itpVars
<1>2. CASE SendWork \/ ReadResult \/ TransferStep \/ Chip
  BY <1>2 DEF SendWork, ReadResult, TransferStep, Chip, Judged, itpVars
<1>3. CASE LosePkg \/ ItpTask \/ ItpResult \/ ItpLoad \/ ItpAsk \/ ItpEnd
  BY <1>3 DEF LosePkg, ItpTask, ItpResult, ItpLoad, ItpAsk, ItpEnd, Judged
<1>4. QED  BY <1>1, <1>2, <1>3, StepKinds

\* A verdict says whether the chip was ready, and whether the value that was read is near: it
\* is that of a nonce the chip showed, if any.
LEMMA VerdictOfSeen ==
  ASSUME ChipInv, [Next]_vars, Judged
  PROVE  /\ itp_result'[itp_idx + 1] =
              IF ~ready THEN "N" ELSE IF Near(result, itp_data[2]) THEN "R" ELSE "E"
         /\ seen # {} => ready /\ \E nonce \in seen : result = Port!Returned(nonce.value)
         /\ seen = {} => result = 0 \/ \A k \in DOMAIN itp_result : itp_result[k] = "N"
<1> DEFINE x == IF ~ready THEN "N" ELSE IF Near(result, itp_data[2]) THEN "R" ELSE "E"
<1>1. Verdict
  BY JudgedIsVerdict
<1>2. itp_result' = Append(itp_result, x) /\ op = "none"
  BY <1>1 DEF Verdict
<1>3. itp_result \in Seq({"N", "R", "E"}) /\ Len(itp_result) = itp_idx
  BY DEF ChipInv, BenchTyped, Caller, Judged
<1>4. itp_result'[itp_idx + 1] = x
  <2> HIDE DEF x
  <2>1. x \in {"N", "R", "E"}
    BY DEF x
  <2>2. QED  BY <1>2, <1>3, <2>1
<1>5. /\ seen # {} => ready /\ \E nonce \in seen : result = Port!Returned(nonce.value)
      /\ seen = {} => result = 0 \/ \A k \in DOMAIN itp_result : itp_result[k] = "N"
  BY <1>2 DEF ChipInv, Asked, Forgotten, Judged
<1>6. QED  BY <1>4, <1>5

LEMMA JudgedIsRight == ChipInv /\ [Next]_vars => JudgedRight
<1> SUFFICES ASSUME ChipInv, [Next]_vars, Judged PROVE JudgedRight
  BY DEF JudgedRight
<1> DEFINE shown == {nonce.value : nonce \in seen}
           v == itp_result'[itp_idx + 1]
           first == \A k \in DOMAIN itp_result : itp_result[k] = "N"
<1>1. shown = {} <=> seen = {}
  OBVIOUS
<1>2. /\ v = IF ~ready THEN "N" ELSE IF Near(result, itp_data[2]) THEN "R" ELSE "E"
      /\ seen # {} => ready /\ \E nonce \in seen : result = Port!Returned(nonce.value)
      /\ seen = {} => result = 0 \/ first
  BY VerdictOfSeen
<1>3. \A value : ~Port!CarryLost(value) => Port!Returned(value) = value + 1
  BY DEF Port!Returned
<1>4. (v = "N") <=> (shown = {} /\ ~ready)
  BY <1>1, <1>2
<1>5. shown = {} /\ v = "R" => first \/ Near(0, itp_data[2])
  BY <1>1, <1>2
<1>6. (shown # {} /\ \A value \in shown : Good(value, itp_data[2])) => v = "R"
  BY <1>1, <1>2, <1>3 DEF Good
<1>7. (shown # {} /\ \A value \in shown : ~Near(value + 1, itp_data[2]) /\ ~Port!CarryLost(value))
        => v # "R"
  BY <1>1, <1>2, <1>3
<1>8. QED  BY <1>4, <1>5, <1>6, <1>7 DEF JudgedRight

LEMMA GoodChipIsPassed == ChipInv /\ [Next]_vars => GoodPasses
<1> DEFINE t == Whole(itp_data[2])
           own == {nonce \in seen : nonce.task = t}
<1> SUFFICES ASSUME ChipInv, [Next]_vars, Judged, itp_idx \in idle, run[itp_idx] = t, own # {},
                    \A nonce \in own : Good(nonce.value, itp_data[2])
             PROVE  itp_result'[itp_idx + 1] = "R"
  BY DEF GoodPasses
<1>1. \A nonce \in seen : nonce.task = t
  <2>1. op # "status"
    BY JudgedIsVerdict DEF Verdict
  <2>2. QED  BY <2>1 DEF ChipInv, Own, Judged
<1>2. own = seen
  BY <1>1
<1>3. PICK nonce \in seen :
        itp_result'[itp_idx + 1] = IF Near(Port!Returned(nonce.value), itp_data[2]) THEN "R" ELSE "E"
  <2>1. ready /\ \E nonce \in seen : result = Port!Returned(nonce.value)
    BY <1>2, VerdictOfSeen
  <2>2. QED  BY <2>1, VerdictOfSeen
<1>4. Good(nonce.value, itp_data[2])
  BY <1>2
<1>5. Port!Returned(nonce.value) = nonce.value + 1
  BY <1>4 DEF Good, Port!Returned
<1>6. QED  BY <1>3, <1>4, <1>5 DEF Good

\* The verdict on a chip is about what it showed when its status was read: "none" if and only
\* if it was not ready, right if all it showed is, and not right if nothing is.  The nonce of
\* one chip never speaks for another that is ready and shows none (main.c:301-330, 359-388).
THEOREM VerdictsAreRight == Spec => VerdictRight
<1>1. ChipInv /\ [Next]_vars => [JudgedRight]_vars
  BY JudgedIsRight
<1>2. QED  BY <1>1, AlwaysInvariant, PTL DEF Spec, VerdictRight

\* A chip that was not hashing when it was loaded, took all of one test and found only its
\* nonce passes, whatever it was asked before (main.c:273-330).
THEOREM GoodChipsPass == Spec => GoodChipPasses
<1>1. ChipInv /\ [Next]_vars => [GoodPasses]_vars
  BY GoodChipIsPassed
<1>2. QED  BY <1>1, AlwaysInvariant, PTL DEF Spec, GoodChipPasses

===============================================================================
