--------------------------- MODULE PayloadProofs ----------------------------
(* What is encrypted for a subscription is what it decrypts. *)
EXTENDS Payload, WellFoundedInduction, TLAPS

-----------------------------------------------------------------------------
(* Sequences *)

LEMMA SameElements ==
  ASSUME NEW S, NEW s \in Seq(S), NEW t \in Seq(S), Len(s) = Len(t),
         \A i \in 1 .. Len(s) : s[i] = t[i]
  PROVE  s = t
OBVIOUS

LEMMA PrefixIsCut ==
  ASSUME NEW S, NEW c \in Seq(S), NEW t \in Seq(S), Len(t) <= Len(c),
         \A i \in 1 .. Len(t) : c[i] = t[i]
  PROVE  SubSeq(c, 1, Len(t)) = t
OBVIOUS

LEMMA SuffixIsCut ==
  ASSUME NEW S, NEW s \in Seq(S), NEW t \in Seq(S)
  PROVE  SubSeq(s \o t, Len(s) + 1, Len(s) + Len(t)) = t
OBVIOUS

LEMMA MiddleIsCut ==
  ASSUME NEW S, NEW s \in Seq(S), NEW t \in Seq(S), NEW u \in Seq(S)
  PROVE  SubSeq(s \o t \o u, Len(s) + 1, Len(s) + Len(t)) = t
OBVIOUS

LEMMA Concatenation ==
  ASSUME NEW S, NEW s \in Seq(S), NEW t \in Seq(S), NEW u \in Seq(S)
  PROVE  /\ s \o t \o u \in Seq(S)
         /\ Len(s \o t \o u) = Len(s) + Len(t) + Len(u)
         /\ \A i \in 1 .. Len(s) : (s \o t \o u)[i] = s[i]
         /\ \A i \in 1 .. Len(u) : (s \o t \o u)[Len(s) + Len(t) + i] = u[i]
OBVIOUS

LEMMA PairIsSeq == ASSUME NEW S, NEW x \in S, NEW y \in S PROVE <<x, y>> \in Seq(S)
OBVIOUS

LEMMA LengthOfBoth ==
  ASSUME NEW S, NEW s \in Seq(S), NEW t \in Seq(S)
  PROVE  Len(s \o t) = Len(s) + Len(t)
OBVIOUS

LEMMA SameParts ==
  ASSUME NEW S, NEW p \in Seq(S), NEW q \in Seq(S), NEW p2 \in Seq(S), NEW q2 \in Seq(S),
         Len(p) = Len(p2), p \o q = p2 \o q2
  PROVE  p = p2 /\ q = q2
<1>1. p = p2
  <2>1. \A i \in 1 .. Len(p) : (p \o q)[i] = p[i] /\ (p2 \o q2)[i] = p2[i]
    OBVIOUS
  <2>2. \A i \in 1 .. Len(p) : p[i] = p2[i]
    BY <2>1
  <2> QED
    BY <2>2, SameElements
<1>2. q = q2
  <2>1. SubSeq(p \o q, Len(p) + 1, Len(p) + Len(q)) = q
    BY SuffixIsCut
  <2>2. SubSeq(p2 \o q2, Len(p2) + 1, Len(p2) + Len(q2)) = q2
    BY SuffixIsCut
  <2>3. Len(p \o q) = Len(p) + Len(q) /\ Len(p2 \o q2) = Len(p2) + Len(q2)
    BY LengthOfBoth
  <2>4. Len(q) = Len(q2)
    BY <2>3
  <2> QED
    BY <2>1, <2>2, <2>4
<1> QED
  BY <1>1, <1>2

LEMMA SeqOfMore == ASSUME NEW S, NEW T, S \subseteq T, NEW s \in Seq(S) PROVE s \in Seq(T)
OBVIOUS

LEMMA BytesAreInts == ASSUME NEW b \in Seq(Byte) PROVE b \in Seq(Int)
<1>1. Byte \subseteq Int
  BY DEF Byte
<1> QED
  BY <1>1, SeqOfMore

-----------------------------------------------------------------------------
(* base64url *)

\* Three bytes make four digits, which hold their bits.
LEMMA Bits ==
  ASSUME NEW x \in Byte, NEW y \in Byte, NEW z \in Byte
  PROVE  /\ x \div 4 \in 0 .. 63
         /\ (x % 4) * 16 + y \div 16 \in 0 .. 63
         /\ (y % 16) * 4 + z \div 64 \in 0 .. 63
         /\ z % 64 \in 0 .. 63
         /\ (x \div 4) * 4 + ((x % 4) * 16 + y \div 16) \div 16 = x
         /\ (((x % 4) * 16 + y \div 16) % 16) * 16 + ((y % 16) * 4 + z \div 64) \div 4 = y
         /\ (((y % 16) * 4 + z \div 64) % 4) * 64 + (z % 64) = z
BY SMTT(30) DEF Byte

LEMMA FourthsAreFound ==
  ASSUME NEW j \in Nat, j # 0
  PROVE  \E q \in Nat, r \in 1 .. 4 : j = 4 * q + r /\ (j - 1) \div 4 = q /\ 1 + ((j - 1) % 4) = r
<1>1. (j - 1) \div 4 \in Nat /\ 1 + ((j - 1) % 4) \in 1 .. 4
  OBVIOUS
<1>2. j = 4 * ((j - 1) \div 4) + (1 + ((j - 1) % 4))
  OBVIOUS
<1> QED
  BY <1>1, <1>2

LEMMA ThirdsAreFound ==
  ASSUME NEW i \in Nat, i # 0
  PROVE  \E q \in Nat, r \in 1 .. 3 : i = 3 * q + r /\ (i - 1) \div 3 = q /\ 1 + ((i - 1) % 3) = r
<1>1. (i - 1) \div 3 \in Nat /\ 1 + ((i - 1) % 3) \in 1 .. 3
  OBVIOUS
<1>2. i = 3 * ((i - 1) \div 3) + (1 + ((i - 1) % 3))
  OBVIOUS
<1> QED
  BY <1>1, <1>2

\* The four digits of three bytes.
FourDigits(x, y, z) ==
  <<x \div 4, (x % 4) * 16 + y \div 16, (y % 16) * 4 + z \div 64, z % 64>>

LEMMA DigitsOfThree ==
  ASSUME NEW b \in Seq(Byte), NEW q \in Nat, NEW r \in 1 .. 4
  PROVE  /\ At(b, 3 * q + 1) \in Byte /\ At(b, 3 * q + 2) \in Byte /\ At(b, 3 * q + 3) \in Byte
         /\ Digit(b, 4 * q + r)
              = FourDigits(At(b, 3 * q + 1), At(b, 3 * q + 2), At(b, 3 * q + 3))[r]
<1>1. (4 * q + r - 1) \div 4 = q /\ 1 + ((4 * q + r - 1) % 4) = r
  OBVIOUS
<1>2. ASSUME NEW i \in Nat, i # 0 PROVE At(b, i) \in Byte
  <2>1. i <= Len(b) => b[i] \in Byte
    BY <1>2
  <2>2. 0 \in Byte
    BY DEF Byte
  <2> QED
    BY <2>1, <2>2 DEF At
<1>3. /\ At(b, 3 * q + 1) \in Byte /\ At(b, 3 * q + 2) \in Byte
      /\ At(b, 3 * q + 3) \in Byte
  BY <1>2
<1>4. ASSUME NEW j, (j - 1) \div 4 = q, 1 + ((j - 1) % 4) = r
      PROVE  Digit(b, j) = FourDigits(At(b, 3 * q + 1), At(b, 3 * q + 2), At(b, 3 * q + 3))[r]
  BY <1>4, Zenon DEF Digit, FourDigits
<1> QED
  BY <1>1, <1>3, <1>4

LEMMA DigitsAreDigits ==
  ASSUME NEW b \in Seq(Byte), NEW j \in Nat, j # 0
  PROVE  Digit(b, j) \in 0 .. 63
<1>1. PICK q \in Nat, r \in 1 .. 4 : j = 4 * q + r
  BY FourthsAreFound
<1>2. ASSUME NEW x \in Byte, NEW y \in Byte, NEW z \in Byte
      PROVE  FourDigits(x, y, z)[r] \in 0 .. 63
  <2>1. r = 1 \/ r = 2 \/ r = 3 \/ r = 4
    OBVIOUS
  <2>2. /\ x \div 4 \in 0 .. 63
        /\ (x % 4) * 16 + y \div 16 \in 0 .. 63
        /\ (y % 16) * 4 + z \div 64 \in 0 .. 63
        /\ z % 64 \in 0 .. 63
    BY Bits
  <2>3. FourDigits(x, y, z)[r] \in {x \div 4, (x % 4) * 16 + y \div 16,
                                   (y % 16) * 4 + z \div 64, z % 64}
    BY <2>1 DEF FourDigits
  <2> QED
    BY <2>2, <2>3
<1>3. /\ At(b, 3 * q + 1) \in Byte /\ At(b, 3 * q + 2) \in Byte /\ At(b, 3 * q + 3) \in Byte
      /\ Digit(b, 4 * q + r)
           = FourDigits(At(b, 3 * q + 1), At(b, 3 * q + 2), At(b, 3 * q + 3))[r]
  BY DigitsOfThree
<1> QED
  BY <1>1, <1>2, <1>3, Zenon

\* From any digits that begin those of b, as many bytes as they hold.
LEMMA OctetsOfDigits ==
  ASSUME NEW b \in Seq(Byte), NEW n \in Nat, n <= (4 * Len(b) + 2) \div 3,
         NEW d, Len(d) = n, \A j \in 1 .. n : d[j] = Digit(b, j),
         NEW i \in 1 .. (3 * n) \div 4
  PROVE  i <= Len(b) /\ Octet(d, i) = b[i]
<1>1. i <= Len(b) /\ i \in Nat /\ i # 0
  OBVIOUS
<1>2. PICK q \in Nat, r \in 1 .. 3 : i = 3 * q + r /\ (i - 1) \div 3 = q /\ 1 + ((i - 1) % 3) = r
  BY <1>1, ThirdsAreFound
<1> DEFINE x == At(b, 3 * q + 1)
           y == At(b, 3 * q + 2)
           z == At(b, 3 * q + 3)
           t == At(d, 4 * q + 1)
           u == At(d, 4 * q + 2)
           v == At(d, 4 * q + 3)
           w == At(d, 4 * q + 4)
           octets == <<t * 4 + u \div 16, (u % 16) * 16 + v \div 4, (v % 4) * 64 + w>>
<1>3. /\ x \in Byte /\ y \in Byte /\ z \in Byte
      /\ \A k \in 1 .. 4 : Digit(b, 4 * q + k) = FourDigits(x, y, z)[k]
  <2>1. 1 \in 1 .. 4
    OBVIOUS
  <2>2. x \in Byte /\ y \in Byte /\ z \in Byte
    BY <2>1, DigitsOfThree, Zenon
  <2>3. ASSUME NEW k \in 1 .. 4 PROVE Digit(b, 4 * q + k) = FourDigits(x, y, z)[k]
    BY DigitsOfThree
  <2> QED
    BY <2>2, <2>3
<1>4. (r = 1 => b[i] = x) /\ (r = 2 => b[i] = y) /\ (r = 3 => b[i] = z)
  <2>1. b[i] = At(b, 3 * q + r)
    BY <1>1, <1>2 DEF At
  <2> QED
    BY <2>1
<1>5. Octet(d, i) = octets[r]
  BY <1>2 DEF Octet
<1>6. \A k \in 1 .. 4 : 4 * q + k <= n => At(d, 4 * q + k) = FourDigits(x, y, z)[k]
  <2>1. \A k \in 1 .. 4 : 4 * q + k <= n => At(d, 4 * q + k) = Digit(b, 4 * q + k)
    BY DEF At
  <2> QED
    BY <1>3, <2>1
<1> HIDE DEF x, y, z
<1>7. /\ (x \div 4) * 4 + ((x % 4) * 16 + y \div 16) \div 16 = x
      /\ (((x % 4) * 16 + y \div 16) % 16) * 16 + ((y % 16) * 4 + z \div 64) \div 4 = y
      /\ (((y % 16) * 4 + z \div 64) % 4) * 64 + (z % 64) = z
  BY <1>3, Bits
<1>8. /\ 4 * q + 1 <= n => t = x \div 4
      /\ 4 * q + 2 <= n => u = (x % 4) * 16 + y \div 16
      /\ 4 * q + 3 <= n => v = (y % 16) * 4 + z \div 64
      /\ 4 * q + 4 <= n => w = z % 64
  <2>1. 1 \in 1 .. 4 /\ 2 \in 1 .. 4 /\ 3 \in 1 .. 4 /\ 4 \in 1 .. 4
    OBVIOUS
  <2> QED
    BY <1>6, <2>1 DEF FourDigits
<1> HIDE DEF t, u, v, w
<1>9. CASE r = 1
  <2>1. 4 * q + 1 <= n /\ 4 * q + 2 <= n
    BY <1>2, <1>9
  <2>2. octets[r] = t * 4 + u \div 16
    BY <1>9
  <2> QED
    BY <1>1, <1>4, <1>5, <1>7, <1>8, <1>9, <2>1, <2>2
<1>10. CASE r = 2
  <2>1. 4 * q + 2 <= n /\ 4 * q + 3 <= n
    BY <1>2, <1>10
  <2>2. octets[r] = (u % 16) * 16 + v \div 4
    BY <1>10
  <2> QED
    BY <1>1, <1>4, <1>5, <1>7, <1>8, <1>10, <2>1, <2>2
<1>11. CASE r = 3
  <2>1. 4 * q + 3 <= n /\ 4 * q + 4 <= n
    BY <1>2, <1>11
  <2>2. octets[r] = (v % 4) * 64 + w
    BY <1>11
  <2> QED
    BY <1>1, <1>4, <1>5, <1>7, <1>8, <1>11, <2>1, <2>2
<1> QED
  BY <1>9, <1>10, <1>11

\* The character of base64url for a digit.
UrlCharacter(c) == IF c = Plus THEN Minus ELSE IF c = Slash THEN Underscore ELSE c

LEMMA UrlCharacters ==
  ASSUME NEW c \in 0 .. 63
  PROVE  /\ c \in Character /\ c # Equals
         /\ UrlCharacter(c) \in Character /\ UrlCharacter(c) # Equals
         /\ LET o == IF UrlCharacter(c) = Minus THEN Plus ELSE UrlCharacter(c)
            IN (IF o = Underscore THEN Slash ELSE o) = c
BY DEF UrlCharacter, Character, Plus, Minus, Slash, Underscore, Equals

LEMMA Lengths ==
  ASSUME NEW n \in Nat
  PROVE  /\ (4 * n + 2) \div 3 \in Nat
         /\ (4 * n + 2) \div 3 <= 4 * ((n + 2) \div 3)
         /\ 4 * ((n + 2) \div 3) \in Nat
         /\ ((4 * n + 2) \div 3) % 4 # 1
         /\ (3 * ((4 * n + 2) \div 3)) \div 4 = n
OBVIOUS

\* fromBufferToUrlB64 leaves the digits, in the other alphabet.
LEMMA Encoded ==
  ASSUME NEW b \in Seq(Byte)
  PROVE  fromBufferToUrlB64(b) = [j \in 1 .. (4 * Len(b) + 2) \div 3 |-> UrlCharacter(Digit(b, j))]
<1> DEFINE n == (4 * Len(b) + 2) \div 3
           l == 4 * ((Len(b) + 2) \div 3)
           s == fromBufferToB64(b)
           r == Replace(Replace(s, Plus, Minus), Slash, Underscore)
<1>1. n \in Nat /\ l \in Nat /\ n <= l
  <2>1. Len(b) \in Nat
    OBVIOUS
  <2> QED
    BY <2>1, Lengths
<1>2. s = [j \in 1 .. l |-> IF j <= n THEN Digit(b, j) ELSE Equals]
  BY DEF fromBufferToB64
<1>3. \A j \in 1 .. n : Digit(b, j) \in 0 .. 63
  <2> SUFFICES ASSUME NEW j \in 1 .. n PROVE Digit(b, j) \in 0 .. 63
    OBVIOUS
  <2>1. j \in Nat /\ j # 0
    BY <1>1
  <2> QED
    BY <2>1, DigitsAreDigits
<1> HIDE DEF n, l, s
<1>4. DOMAIN s = 1 .. l /\ \A j \in 1 .. l : s[j] = IF j <= n THEN Digit(b, j) ELSE Equals
  BY <1>2
<1>5. DOMAIN r = 1 .. l /\ \A j \in 1 .. l : r[j] = UrlCharacter(s[j])
  BY <1>4 DEF Replace, UrlCharacter, Plus, Minus, Slash, Underscore
<1>6. \A j \in 1 .. l : r[j] = IF j <= n THEN UrlCharacter(Digit(b, j)) ELSE Equals
  BY <1>4, <1>5 DEF UrlCharacter, Plus, Minus, Slash, Underscore, Equals
<1> HIDE DEF r
<1>7. {j \in DOMAIN r : r[j] # Equals} = 1 .. n
  <2>1. \A j \in 1 .. n : UrlCharacter(Digit(b, j)) # Equals
    BY <1>3, UrlCharacters
  <2>2. \A j \in 1 .. l : r[j] # Equals <=> j <= n
    BY <1>1, <1>6, <2>1
  <2> QED
    BY <1>1, <1>5, <2>2
<1>8. \A j \in 1 .. n : r[j] = UrlCharacter(Digit(b, j))
  BY <1>1, <1>6
<1>9. Unpadded(r) = [j \in 1 .. n |-> UrlCharacter(Digit(b, j))]
  BY <1>7, <1>8 DEF Unpadded
<1> QED
  BY <1>9 DEF fromBufferToUrlB64, fromB64toUrlB64, r, s, n

\* The padding that is put back is what is taken away again.
LEMMA PaddingIsDropped ==
  ASSUME NEW n \in Nat, NEW d, d = [j \in 1 .. n |-> d[j]], \A j \in 1 .. n : d[j] \in 0 .. 63,
         NEW p \in {<<>>, <<Equals>>, <<Equals, Equals>>}
  PROVE  Unpadded(d \o p) = d
<1>1. d \in Seq(Character) /\ Len(d) = n /\ DOMAIN d = 1 .. n
  <2>1. \A j \in 1 .. n : d[j] \in Character
    BY DEF Character
  <2> QED
    BY <2>1
<1>2. p \in Seq(Character) /\ \A i \in 1 .. Len(p) : p[i] = Equals
  <2>1. Equals \in Character
    BY DEF Equals, Character
  <2>2. CASE p = <<>>
    BY <2>2
  <2>3. CASE p = <<Equals>>
    BY <2>1, <2>3
  <2>4. CASE p = <<Equals, Equals>>
    BY <2>1, <2>4
  <2> QED
    BY <2>2, <2>3, <2>4
<1>3. /\ Len(d \o p) = n + Len(p) /\ DOMAIN (d \o p) = 1 .. n + Len(p)
      /\ \A j \in 1 .. n : (d \o p)[j] = d[j]
      /\ \A j \in 1 .. n + Len(p) : j > n => (d \o p)[j] = Equals
  <2> HIDE DEF Character
  <2>1. Len(p) \in Nat /\ Len(d \o p) = n + Len(p) /\ DOMAIN (d \o p) = 1 .. n + Len(p)
    BY <1>1, <1>2
  <2>2. \A j \in 1 .. n : (d \o p)[j] = d[j]
    BY <1>1, <1>2
  <2>3. ASSUME NEW j \in 1 .. n + Len(p), j > n PROVE (d \o p)[j] = Equals
    <3>1. j - n \in 1 .. Len(p)
      BY <2>1, <2>3
    <3>2. (d \o p)[j] = p[j - n]
      BY <1>1, <1>2, <2>1, <2>3
    <3> QED
      BY <1>2, <3>1, <3>2
  <2> QED
    BY <2>1, <2>2, <2>3
<1>4. Len(p) \in Nat
  BY <1>2
<1>5. \A j \in 1 .. n + Len(p) : (d \o p)[j] # Equals <=> j \in 1 .. n
  <2>1. \A j \in 1 .. n : d[j] # Equals
    BY UrlCharacters
  <2> QED
    BY <1>3, <1>4, <2>1
<1>6. {j \in DOMAIN (d \o p) : (d \o p)[j] # Equals} = 1 .. n
  BY <1>3, <1>4, <1>5
<1> QED
  BY <1>3, <1>6 DEF Unpadded

\* The beginning of an encoding decodes to the bytes that are whole in it; all of it, to
\* all of them.
THEOREM PrefixIsDecoded ==
  ASSUME NEW b \in Seq(Byte), NEW m \in 0 .. Len(fromBufferToUrlB64(b)), m % 4 # 1,
         Thrown \notin Seq(Int)
  PROVE  fromUrlB64ToBuffer(SubSeq(fromBufferToUrlB64(b), 1, m)) = SubSeq(b, 1, (3 * m) \div 4)
<1> DEFINE e == fromBufferToUrlB64(b)
           s == SubSeq(e, 1, m)
           d == [j \in 1 .. m |-> Digit(b, j)]
           n == (4 * Len(b) + 2) \div 3
<1>1. n \in Nat /\ Len(b) \in Nat
  BY Lengths
<1>2. e = [j \in 1 .. n |-> UrlCharacter(Digit(b, j))]
  BY Encoded
<1>3. \A j \in 1 .. n : Digit(b, j) \in 0 .. 63
  <2> SUFFICES ASSUME NEW j \in 1 .. n PROVE Digit(b, j) \in 0 .. 63
    OBVIOUS
  <2>1. j \in Nat /\ j # 0
    BY <1>1
  <2> QED
    BY <2>1, DigitsAreDigits
<1>4. e \in Seq(Character) /\ Len(e) = n
  <2>1. \A j \in 1 .. n : UrlCharacter(Digit(b, j)) \in Character
    BY <1>3, UrlCharacters
  <2> HIDE DEF n, e
  <2> QED
    BY <1>1, <1>2, <2>1
<1>5. m \in Nat /\ m <= n
  BY <1>4
<1>6. DOMAIN s = 1 .. m /\ Len(s) = m /\ \A j \in 1 .. m : s[j] = UrlCharacter(Digit(b, j))
  <2> HIDE DEF n
  <2> QED
    BY <1>1, <1>2, <1>4, <1>5
<1> HIDE DEF e, s, n
<1>7. Replace(Replace(s, Minus, Plus), Underscore, Slash) = d
  <2> DEFINE r == Replace(Replace(s, Minus, Plus), Underscore, Slash)
  <2>1. \A j \in 1 .. m : r[j] = Digit(b, j)
    <3>1. \A j \in 1 .. m : Digit(b, j) \in 0 .. 63
      BY <1>1, <1>3, <1>5
    <3> SUFFICES ASSUME NEW j \in 1 .. m PROVE r[j] = Digit(b, j)
      OBVIOUS
    <3> DEFINE c == Digit(b, j)
    <3>2. s[j] = UrlCharacter(c) /\ c \in 0 .. 63
      BY <1>6, <3>1
    <3>3. r[j] = LET v == IF s[j] = Minus THEN Plus ELSE s[j]
                 IN IF v = Underscore THEN Slash ELSE v
      BY <1>6 DEF Replace
    <3> HIDE DEF c, r
    <3>4. LET v == IF UrlCharacter(c) = Minus THEN Plus ELSE UrlCharacter(c)
          IN (IF v = Underscore THEN Slash ELSE v) = c
      BY <3>2, UrlCharacters
    <3>5. r[j] = c
      BY <3>2, <3>3, <3>4
    <3> QED
      BY <3>5 DEF c
  <2>2. r = [j \in 1 .. m |-> r[j]]
    BY <1>6 DEF Replace
  <2> QED
    BY <2>1, <2>2
<1>8. d = [j \in 1 .. m |-> d[j]] /\ \A j \in 1 .. m : d[j] \in 0 .. 63 /\ d[j] = Digit(b, j)
  BY <1>1, <1>3, <1>5
<1>9. Len(d) = m /\ d \in Seq(Int)
  <2>1. ASSUME NEW j \in 1 .. m PROVE Digit(b, j) \in Int
    <3>1. Digit(b, j) \in 0 .. 63
      BY <1>1, <1>3, <1>5
    <3>2. \A x \in 0 .. 63 : x \in Int
      OBVIOUS
    <3> QED
      BY <3>1, <3>2, Zenon
  <2> QED
    BY <1>5, <2>1
<1> HIDE DEF d
<1>10. PICK p \in {<<>>, <<Equals>>, <<Equals, Equals>>} : fromUrlB64ToB64(s) = d \o p
  <2>1. m % 4 \in 0 .. 3
    BY <1>5
  <2>2. CASE m % 4 = 0
    <3>1. fromUrlB64ToB64(s) = d
      BY <1>6, <1>7, <2>2 DEF fromUrlB64ToB64
    <3>2. d \o <<>> = d
      BY <1>9
    <3> QED
      BY <3>1, <3>2
  <2>3. CASE m % 4 = 2
    BY <1>6, <1>7, <2>3 DEF fromUrlB64ToB64
  <2>4. CASE m % 4 = 3
    BY <1>6, <1>7, <2>4 DEF fromUrlB64ToB64
  <2>5. m % 4 = 0 \/ m % 4 = 2 \/ m % 4 = 3
    BY <2>1
  <2> QED
    BY <2>2, <2>3, <2>4, <2>5, Zenon
<1>11. d \o p \in Seq(Int)
  <2>1. p \in Seq(Int)
    <3>1. Equals \in Int
      BY DEF Equals
    <3>2. \A x \in Int : <<>> \in Seq(Int) /\ <<x>> \in Seq(Int) /\ <<x, x>> \in Seq(Int)
      OBVIOUS
    <3> QED
      BY <3>1, <3>2
  <2> QED
    BY <1>9, <2>1
<1>12. Unpadded(d \o p) = d
  BY <1>5, <1>8, PaddingIsDropped
<1>13. fromUrlB64ToBuffer(s) = [i \in 1 .. (3 * m) \div 4 |-> Octet(d, i)]
  BY <1>9, <1>10, <1>11, <1>12 DEF fromUrlB64ToBuffer, fromB64ToBuffer
<1>14. \A i \in 1 .. (3 * m) \div 4 : i <= Len(b) /\ Octet(d, i) = b[i]
  <2> SUFFICES ASSUME NEW i \in 1 .. (3 * m) \div 4 PROVE i <= Len(b) /\ Octet(d, i) = b[i]
    OBVIOUS
  <2>1. m <= (4 * Len(b) + 2) \div 3 /\ \A j \in 1 .. m : d[j] = Digit(b, j)
    BY <1>5, <1>8 DEF n
  <2> QED
    BY <1>5, <1>9, <2>1, OctetsOfDigits
<1>15. (3 * m) \div 4 \in Nat /\ (3 * m) \div 4 <= Len(b)
  BY <1>1, <1>5 DEF n
<1>16. SubSeq(b, 1, (3 * m) \div 4) = [i \in 1 .. (3 * m) \div 4 |-> b[i]]
  BY <1>15
<1> QED
  BY <1>13, <1>14, <1>16 DEF s, e

\* What is encoded is decoded: any bytes, whatever the length.
THEOREM UrlB64RoundTrip ==
  ASSUME NEW b \in Seq(Byte), Thrown \notin Seq(Int)
  PROVE  fromUrlB64ToBuffer(fromBufferToUrlB64(b)) = b
<1> DEFINE e == fromBufferToUrlB64(b)
           n == (4 * Len(b) + 2) \div 3
<1>1. n \in Nat /\ n % 4 # 1 /\ (3 * n) \div 4 = Len(b) /\ Len(b) \in Nat
  <2>1. Len(b) \in Nat
    OBVIOUS
  <2> QED
    BY <2>1, Lengths
<1>2. e = [j \in 1 .. n |-> UrlCharacter(Digit(b, j))]
  BY Encoded
<1> HIDE DEF n, e
<1>3. Len(e) = n /\ SubSeq(e, 1, n) = e
  BY <1>1, <1>2
<1>4. fromUrlB64ToBuffer(SubSeq(e, 1, n)) = SubSeq(b, 1, (3 * n) \div 4)
  <2>1. n \in 0 .. Len(fromBufferToUrlB64(b))
    BY <1>1, <1>3 DEF e
  <2> QED
    BY <1>1, <2>1, PrefixIsDecoded DEF e
<1>5. SubSeq(b, 1, Len(b)) = b
  OBVIOUS
<1> QED
  BY <1>1, <1>3, <1>4, <1>5 DEF e

-----------------------------------------------------------------------------
(* Padding *)

\* A non-empty set of positions has a last one.
LEMMA Last ==
  ASSUME NEW n \in Nat, NEW T \in SUBSET (1 .. n), T # {}
  PROVE  \E i \in T : \A j \in T : j <= i
<1> DEFINE LessThan == {ss \in Nat \X Nat : ss[1] < ss[2]}
           Mirrored == {m \in Nat : n - m \in T}
<1>1. IsWellFoundedOn(LessThan, Nat)
  BY NatLessThanWellFounded DEF OpToRel
<1>2. \A x, y \in Nat : <<y, x>> \notin LessThan => x <= y
  OBVIOUS
<1>3. Mirrored \subseteq Nat /\ Mirrored # {}
  <2>1. PICK i \in T : TRUE
    OBVIOUS
  <2>2. n - i \in Nat /\ n - (n - i) = i
    BY <2>1
  <2>3. n - i \in Mirrored
    BY <2>1, <2>2
  <2> QED
    BY <2>3
<1> HIDE DEF LessThan
<1>4. PICK m \in Mirrored : \A k \in Mirrored : ~(<<k, m>> \in LessThan)
  <2> HIDE DEF Mirrored
  <2> QED
    BY <1>1, <1>3, WFMin
<1>5. n - m \in T /\ m \in Nat
  BY <1>4
<1>6. ASSUME NEW j \in T PROVE j <= n - m
  <2>1. n - j \in Nat /\ n - (n - j) = j
    OBVIOUS
  <2>2. n - j \in Mirrored
    BY <2>1
  <2>3. m <= n - j
    BY <1>2, <1>4, <1>5, <2>1, <2>2
  <2> QED
    BY <1>5, <2>1, <2>3
<1> QED
  BY <1>5, <1>6

\* The position removePadding chooses, when it is known which one it is.
LEMMA Chosen ==
  ASSUME NEW n \in Nat, NEW T \in SUBSET (1 .. n), NEW i \in T, \A j \in T : j <= i
  PROVE  (CHOOSE k \in T : \A j \in T : j <= k) = i
<1> DEFINE c == CHOOSE k \in T : \A j \in T : j <= k
<1>1. c \in T /\ \A j \in T : j <= c
  OBVIOUS
<1>2. c \in 1 .. n /\ i \in 1 .. n /\ c <= i /\ i <= c
  BY <1>1
<1> QED
  BY <1>2

\* What was padded is what is left when the padding is removed, whatever the data and
\* however long the padding: also data that is empty, or ends in zeros or delimiters.
THEOREM PaddingRoundTrip ==
  ASSUME NEW data \in Seq(Byte), NEW zeros \in Nat
  PROVE  removePadding(Padded(data, zeros), TRUE) = data
<1> DEFINE p == Padded(data, zeros)
           filled == {i \in 1 .. Len(p) : p[i] # 0}
           at == Len(data) + 1
<1>1. /\ p \in Seq(Byte) /\ Len(p) = at + zeros
      /\ \A i \in 1 .. Len(data) : p[i] = data[i]
      /\ p[at] = 2
      /\ \A i \in 1 .. Len(p) : i > at => p[i] = 0
  <2> DEFINE fill == [i \in 1 .. zeros |-> 0]
  <2>1. fill \in Seq(Byte) /\ Len(fill) = zeros /\ \A i \in 1 .. zeros : fill[i] = 0
    BY DEF Byte
  <2>2. <<2>> \in Seq(Byte)
    BY DEF Byte
  <2>3. p = data \o <<2>> \o fill
    BY DEF Padded
  <2> HIDE DEF fill, p
  <2> QED
    BY <2>1, <2>2, <2>3
<1>2. at \in filled /\ filled \in SUBSET (1 .. Len(p)) /\ Len(p) \in Nat
  BY <1>1
<1>3. \A j \in filled : j <= at
  BY <1>1
<1>4. (CHOOSE i \in filled : \A j \in filled : j <= i) = at
  <2> HIDE DEF filled, p, at
  <2> QED
    BY <1>2, <1>3, Chosen
<1>5. SubSeq(p, 1, at - 1) = data
  <2> HIDE DEF p
  <2> QED
    BY <1>1
<1> QED
  BY <1>1, <1>2, <1>4, <1>5 DEF removePadding

\* Nothing else is let through: what is not refused was padded so.
THEOREM OnlyPaddedIsRead ==
  ASSUME NEW p \in Seq(Byte), removePadding(p, TRUE) # Thrown
  PROVE  /\ removePadding(p, TRUE) \in Seq(Byte)
         /\ \E zeros \in Nat : p = Padded(removePadding(p, TRUE), zeros)
<1> DEFINE filled == {i \in 1 .. Len(p) : p[i] # 0}
           at == CHOOSE i \in filled : \A j \in filled : j <= i
<1>1. filled # {} /\ p[at] = 2 /\ removePadding(p, TRUE) = SubSeq(p, 1, at - 1)
  BY DEF removePadding
<1>2. at \in filled /\ \A j \in filled : j <= at
  <2>1. filled \in SUBSET (1 .. Len(p)) /\ Len(p) \in Nat
    OBVIOUS
  <2> HIDE DEF filled
  <2>2. \E i \in filled : \A j \in filled : j <= i
    BY <1>1, <2>1, Last
  <2> QED
    BY <2>2
<1> HIDE DEF at
<1>3. at \in 1 .. Len(p) /\ \A i \in 1 .. Len(p) : i > at => p[i] = 0
  BY <1>2
<1> DEFINE data == SubSeq(p, 1, at - 1)
           zeros == Len(p) - at
           fill == [i \in 1 .. zeros |-> 0]
<1>4. zeros \in Nat
  BY <1>3
<1>5. data \in Seq(Byte) /\ Len(data) = at - 1 /\ \A i \in 1 .. at - 1 : data[i] = p[i]
  BY <1>3
<1>6. fill \in Seq(Byte) /\ Len(fill) = zeros /\ (\A i \in 1 .. zeros : fill[i] = 0) /\ <<2>> \in Seq(Byte)
  BY <1>4 DEF Byte
<1>7. p = data \o <<2>> \o fill
  <2> DEFINE q == data \o <<2>> \o fill
  <2>1. q \in Seq(Byte) /\ Len(q) = Len(p)
    BY <1>3, <1>4, <1>5, <1>6
  <2>2. \A i \in 1 .. Len(q) : q[i] = p[i]
    <3> SUFFICES ASSUME NEW i \in 1 .. Len(p) PROVE q[i] = p[i]
      BY <2>1
    <3>1. CASE i < at
      BY <1>3, <1>4, <1>5, <1>6, <3>1
    <3>2. CASE i = at
      BY <1>1, <1>3, <1>4, <1>5, <1>6, <3>2
    <3>3. CASE i > at
      BY <1>3, <1>4, <1>5, <1>6, <3>3
    <3> QED
      BY <1>3, <3>1, <3>2, <3>3
  <2> HIDE DEF q, data, fill
  <2>3. q = p
    BY <2>1, <2>2, SameElements
  <2> QED
    BY <2>3 DEF q
<1> QED
  BY <1>1, <1>4, <1>5, <1>7 DEF Padded

-----------------------------------------------------------------------------
(* The header *)

\* The content of aes128gcm with one record.
Content(salt, key, sealed) == salt \o <<0, 0, 4, 0>> \o <<Len(key)>> \o key \o sealed

\* Any five parts of such a content.
Parts(salt, size, length, key, sealed) == salt \o size \o length \o key \o sealed

\* Each part of c is where the lengths of those before it say.
IsLaidOut(c, salt, size, length, key, sealed) ==
  LET l == Len(salt) + Len(size) + Len(length)
  IN /\ Len(c) = l + Len(key) + Len(sealed)
     /\ SubSeq(c, 1, Len(salt)) = salt
     /\ \A i \in 1 .. Len(length) : c[Len(salt) + Len(size) + i] = length[i]
     /\ SubSeq(c, l + 1, l + Len(key)) = key
     /\ SubSeq(c, l + Len(key) + 1, l + Len(key) + Len(sealed)) = sealed

LEMMA Layout ==
  ASSUME NEW S, NEW salt \in Seq(S), NEW size \in Seq(S), NEW length \in Seq(S),
         NEW key \in Seq(S), NEW sealed \in Seq(S)
  PROVE  IsLaidOut(Parts(salt, size, length, key, sealed), salt, size, length, key, sealed)
<1> DEFINE header == salt \o size \o length
           withKey == header \o key
           c == header \o key \o sealed
<1>1. header \in Seq(S)
  OBVIOUS
<1>2. Len(header) = Len(salt) + Len(size) + Len(length)
  OBVIOUS
<1>3. \A i \in 1 .. Len(salt) : header[i] = salt[i]
  BY Concatenation
<1>4. \A i \in 1 .. Len(length) : header[Len(salt) + Len(size) + i] = length[i]
  BY Concatenation
<1> HIDE DEF header
<1>5. /\ c \in Seq(S)
      /\ Len(c) = Len(header) + Len(key) + Len(sealed)
      /\ \A i \in 1 .. Len(header) : c[i] = header[i]
  BY <1>1, Concatenation
<1>6. SubSeq(c, Len(header) + 1, Len(header) + Len(key)) = key
  BY <1>1, MiddleIsCut
<1>7. SubSeq(c, Len(header) + Len(key) + 1, Len(header) + Len(key) + Len(sealed)) = sealed
  <2>1. withKey \in Seq(S) /\ Len(withKey) = Len(header) + Len(key)
    BY <1>1
  <2> QED
    BY <2>1, SuffixIsCut
<1> HIDE DEF c
<1>8. c \in Seq(S) /\ Len(salt) <= Len(c) /\ \A i \in 1 .. Len(salt) : c[i] = salt[i]
  BY <1>2, <1>3, <1>5
<1>9. SubSeq(c, 1, Len(salt)) = salt
  BY <1>8, PrefixIsCut
<1>10. \A i \in 1 .. Len(length) : c[Len(salt) + Len(size) + i] = length[i]
  BY <1>2, <1>4, <1>5
<1> QED
  BY <1>2, <1>5, <1>6, <1>7, <1>9, <1>10 DEF IsLaidOut, Parts, c, header

LEMMA PartsAreSplit ==
  ASSUME NEW salt \in Seq(Byte), NEW size \in Seq(Byte), NEW length \in Seq(Byte),
         NEW key \in Seq(Byte), NEW sealed \in Seq(Byte)
  PROVE  (Len(salt) = 16 /\ Len(size) = 4 /\ Len(length) = 1 /\ length[1] = Len(key))
           => splitContent(Parts(salt, size, length, key, sealed))
                = [salt |-> salt, serverPublicKey |-> key, encryptedContent |-> sealed]
<1> DEFINE n == Len(key)
           l == Len(salt) + Len(size) + Len(length)
           c == Parts(salt, size, length, key, sealed)
<1>1. HAVE Len(salt) = 16 /\ Len(size) = 4 /\ Len(length) = 1 /\ length[1] = n
<1>4. /\ Len(c) = l + n + Len(sealed)
      /\ SubSeq(c, 1, Len(salt)) = salt
      /\ \A i \in 1 .. Len(length) : c[Len(salt) + Len(size) + i] = length[i]
      /\ SubSeq(c, l + 1, l + n) = key
      /\ SubSeq(c, l + n + 1, l + n + Len(sealed)) = sealed
  <2>1. IsLaidOut(Parts(salt, size, length, key, sealed), salt, size, length, key, sealed)
    BY Layout
  <2> HIDE DEF c
  <2> QED
    BY <2>1 DEF IsLaidOut, c
<1> HIDE DEF c
<1>5. n \in Nat /\ Len(sealed) \in Nat
  OBVIOUS
<1> HIDE DEF n
<1>6. l = 21
  BY <1>1
<1>7. c[21] = n
  <2>1. 1 \in 1 .. Len(length) /\ Len(salt) + Len(size) + 1 = 21
    BY <1>1
  <2>2. c[Len(salt) + Len(size) + 1] = length[1]
    BY <1>4, <2>1
  <2> QED
    BY <1>1, <2>1, <2>2
<1> HIDE DEF l
<1>8. Len(c) = 21 + n + Len(sealed)
  BY <1>4, <1>6
<1>9. Slice(c, 0, 16) = salt
  <2>1. 0 + 1 = 1 /\ 16 <= Len(c)
    BY <1>5, <1>8
  <2>2. Slice(c, 0, 16) = SubSeq(c, 1, 16)
    BY <2>1 DEF Slice
  <2> QED
    BY <1>1, <1>4, <2>2
<1>10. Slice(c, 21, 21 + n) = key
  <2>1. 21 + n <= Len(c)
    BY <1>5, <1>8
  <2>2. Slice(c, 21, 21 + n) = SubSeq(c, 21 + 1, 21 + n)
    BY <2>1 DEF Slice
  <2> QED
    BY <1>4, <1>6, <2>2
<1>11. Slice(c, 21 + n, Len(c)) = sealed
  <2>1. Len(c) <= Len(c)
    BY <1>5, <1>8
  <2>2. Slice(c, 21 + n, Len(c)) = SubSeq(c, 21 + n + 1, Len(c))
    BY <2>1 DEF Slice
  <2> QED
    BY <1>4, <1>6, <1>8, <2>2
<1> QED
  <2>1. ~(Len(c) <= 20)
    BY <1>5, <1>8
  <2>2. splitContent(c) = [salt |-> salt, serverPublicKey |-> key, encryptedContent |-> sealed]
    BY <1>7, <1>9, <1>10, <1>11, <2>1 DEF splitContent
  <2> QED
    BY <2>2 DEF c

-----------------------------------------------------------------------------
(* The content, byte by byte *)

\* Element by element.
IsMadeOf(c, salt, size, length, key, sealed) ==
  /\ c \in Seq(Byte) /\ Len(c) = 21 + Len(key) + Len(sealed)
  /\ \A i \in 1 .. 16 : c[i] = salt[i]
  /\ \A i \in 1 .. 4 : c[16 + i] = size[i]
  /\ c[21] = length[1]
  /\ \A i \in 1 .. Len(key) : c[21 + i] = key[i]
  /\ \A i \in 1 .. Len(sealed) : c[21 + Len(key) + i] = sealed[i]

\* One after the other.
IsThree(c, s, t, u) ==
  /\ Len(c) = Len(s) + Len(t) + Len(u)
  /\ \A i \in 1 .. Len(s) : c[i] = s[i]
  /\ \A i \in 1 .. Len(t) : c[Len(s) + i] = t[i]
  /\ \A i \in 1 .. Len(u) : c[Len(s) + Len(t) + i] = u[i]

LEMMA ThreeParts ==
  ASSUME NEW S, NEW s \in Seq(S), NEW t \in Seq(S), NEW u \in Seq(S)
  PROVE  s \o t \o u \in Seq(S) /\ IsThree(s \o t \o u, s, t, u)
BY DEF IsThree

LEMMA PartsAreMade ==
  ASSUME NEW salt \in Seq(Byte), NEW size \in Seq(Byte), NEW length \in Seq(Byte),
         NEW key \in Seq(Byte), NEW sealed \in Seq(Byte),
         Len(salt) = 16, Len(size) = 4, Len(length) = 1
  PROVE  IsMadeOf(Parts(salt, size, length, key, sealed), salt, size, length, key, sealed)
<1> DEFINE h == salt \o size \o length
           c == h \o key \o sealed
<1>1. h \in Seq(Byte) /\ IsThree(h, salt, size, length)
  BY ThreeParts
<1> HIDE DEF h
<1>2. c \in Seq(Byte) /\ IsThree(c, h, key, sealed)
  BY <1>1, ThreeParts
<1> HIDE DEF c
<1>3. Len(h) = 21 /\ \A i \in 1 .. 16 : h[i] = salt[i]
  BY <1>1 DEF IsThree
<1>4. \A i \in 1 .. 4 : h[16 + i] = size[i]
  BY <1>1 DEF IsThree
<1>5. h[21] = length[1]
  <2>1. 1 \in 1 .. Len(length) /\ Len(salt) + Len(size) + 1 = 21
    OBVIOUS
  <2>2. h[Len(salt) + Len(size) + 1] = length[1]
    BY <1>1, <2>1, Zenon DEF IsThree
  <2> QED
    BY <2>1, <2>2
<1>6. \A i \in 1 .. 21 : c[i] = h[i]
  BY <1>2, <1>3, Zenon DEF IsThree
<1>7. \A i \in 1 .. 16 : c[i] = salt[i]
  <2> SUFFICES ASSUME NEW i \in 1 .. 16 PROVE c[i] = salt[i]
    OBVIOUS
  <2>1. i \in 1 .. 21
    OBVIOUS
  <2> QED
    BY <1>3, <1>6, <2>1, Zenon
<1>8. \A i \in 1 .. 4 : c[16 + i] = size[i]
  <2> SUFFICES ASSUME NEW i \in 1 .. 4 PROVE c[16 + i] = size[i]
    OBVIOUS
  <2>1. 16 + i \in 1 .. 21
    OBVIOUS
  <2> QED
    BY <1>4, <1>6, <2>1, Zenon
<1>9. c[21] = length[1]
  <2>1. 21 \in 1 .. 21
    OBVIOUS
  <2> QED
    BY <1>5, <1>6, <2>1, Zenon
<1>10. c = Parts(salt, size, length, key, sealed)
  BY DEF Parts, c, h
<1>11. /\ \A i \in 1 .. Len(key) : c[21 + i] = key[i]
       /\ \A i \in 1 .. Len(sealed) : c[21 + Len(key) + i] = sealed[i]
       /\ Len(c) = 21 + Len(key) + Len(sealed)
  BY <1>2, <1>3, Zenon DEF IsThree
<1> QED
  BY <1>2, <1>7, <1>8, <1>9, <1>10, <1>11, Zenon DEF IsMadeOf

LEMMA MadeAreParts ==
  ASSUME NEW salt \in Seq(Byte), NEW size \in Seq(Byte), NEW length \in Seq(Byte),
         NEW key \in Seq(Byte), NEW sealed \in Seq(Byte),
         Len(salt) = 16, Len(size) = 4, Len(length) = 1,
         NEW c, IsMadeOf(c, salt, size, length, key, sealed)
  PROVE  c = Parts(salt, size, length, key, sealed)
<1> DEFINE p == Parts(salt, size, length, key, sealed)
<1>1. IsMadeOf(p, salt, size, length, key, sealed)
  BY PartsAreMade
<1> HIDE DEF p
<1>2. c \in Seq(Byte) /\ p \in Seq(Byte) /\ Len(c) = Len(p) /\ Len(c) = 21 + Len(key) + Len(sealed)
  BY <1>1 DEF IsMadeOf
<1>3. \A i \in 1 .. Len(c) : c[i] = p[i]
  <2> SUFFICES ASSUME NEW i \in 1 .. Len(c) PROVE c[i] = p[i]
    OBVIOUS
  <2>1. Len(key) \in Nat /\ Len(sealed) \in Nat
    OBVIOUS
  <2>2. CASE i <= 16
    <3>1. i \in 1 .. 16
      BY <1>2, <2>2
    <3> QED
      BY <1>1, <3>1, Zenon DEF IsMadeOf
  <2>3. CASE i > 16 /\ i <= 20
    <3>1. i - 16 \in 1 .. 4 /\ 16 + (i - 16) = i
      BY <2>3
    <3>2. c[16 + (i - 16)] = size[i - 16] /\ p[16 + (i - 16)] = size[i - 16]
      BY <1>1, <3>1, Zenon DEF IsMadeOf
    <3> QED
      BY <3>1, <3>2
  <2>4. CASE i = 21
    BY <1>1, <2>4, Zenon DEF IsMadeOf
  <2>5. CASE i > 21 /\ i <= 21 + Len(key)
    <3>1. i - 21 \in 1 .. Len(key) /\ 21 + (i - 21) = i
      BY <2>1, <2>5
    <3>2. c[21 + (i - 21)] = key[i - 21] /\ p[21 + (i - 21)] = key[i - 21]
      BY <1>1, <3>1, Zenon DEF IsMadeOf
    <3> QED
      BY <3>1, <3>2
  <2>6. CASE i > 21 + Len(key)
    <3> DEFINE j == i - (21 + Len(key))
    <3>1. j \in 1 .. Len(sealed) /\ 21 + Len(key) + j = i
      BY <1>2, <2>1, <2>6
    <3> HIDE DEF j
    <3>2. c[21 + Len(key) + j] = sealed[j] /\ p[21 + Len(key) + j] = sealed[j]
      BY <1>1, <3>1, Zenon DEF IsMadeOf
    <3> QED
      BY <3>1, <3>2
  <2> QED
    BY <2>1, <2>2, <2>3, <2>4, <2>5, <2>6
<1> QED
  BY <1>2, <1>3, SameElements DEF p

LEMMA ContentIsMade ==
  ASSUME NEW salt \in Seq(Byte), Len(salt) = 16, NEW key \in Seq(Byte), Len(key) \in Byte,
         NEW sealed \in Seq(Byte)
  PROVE  /\ <<0, 0, 4, 0>> \in Seq(Byte) /\ <<Len(key)>> \in Seq(Byte)
         /\ IsMadeOf(Content(salt, key, sealed), salt, <<0, 0, 4, 0>>, <<Len(key)>>, key, sealed)
<1> DEFINE size == <<0, 0, 4, 0>>
           length == <<Len(key)>>
<1>1. size \in Seq(Byte) /\ Len(size) = 4
  <2>1. 0 \in Byte /\ 4 \in Byte
    BY DEF Byte
  <2>2. \A x, y \in Byte : <<x, x, y, x>> \in Seq(Byte)
    OBVIOUS
  <2> QED
    BY <2>1, <2>2
<1>2. length \in Seq(Byte) /\ Len(length) = 1
  OBVIOUS
<1>3. Content(salt, key, sealed) = Parts(salt, size, length, key, sealed)
  BY DEF Content, Parts
<1> HIDE DEF size, length
<1>4. IsMadeOf(Parts(salt, size, length, key, sealed), salt, size, length, key, sealed)
  BY <1>1, <1>2, PartsAreMade
<1> QED
  BY <1>1, <1>2, <1>3, <1>4 DEF size, length

\* The elements of y between two places.
IsCut(z, y, from, end) ==
  /\ z \in Seq(Byte)
  /\ Len(z) = IF from <= end THEN end - from ELSE 0
  /\ \A i \in 1 .. end - from : z[i] = y[from + i]

LEMMA SliceIsCut ==
  ASSUME NEW y \in Seq(Byte), NEW from \in Nat, NEW to \in Nat
  PROVE  IsCut(Slice(y, from, to), y, from, IF to <= Len(y) THEN to ELSE Len(y))
<1> DEFINE end == IF to <= Len(y) THEN to ELSE Len(y)
<1>1. end \in Nat /\ end <= Len(y) /\ Slice(y, from, to) = SubSeq(y, from + 1, end)
  BY DEF Slice
<1> HIDE DEF end
<1>2. IsCut(SubSeq(y, from + 1, end), y, from, end)
  BY <1>1 DEF IsCut
<1> QED
  BY <1>1, <1>2 DEF end

-----------------------------------------------------------------------------
(* Both sides derive the same key *)

LEMMA BothDeriveTheSame ==
  ASSUME NEW u \in PrivateKey, NEW s \in PrivateKey, NEW secret, NEW salt
  PROVE  deriveKeyAndNonce([privateKey |-> u, publicKey |-> PublicKeyOf[u]],
                           [privateKey |-> Undefined, publicKey |-> PublicKeyOf[s]], secret, salt)
       = deriveKeyAndNonce([privateKey |-> Undefined, publicKey |-> PublicKeyOf[u]],
                           [privateKey |-> s, publicKey |-> PublicKeyOf[s]], secret, salt)
<1> DEFINE ua == [privateKey |-> u, publicKey |-> PublicKeyOf[u]]
           uaPublic == [privateKey |-> Undefined, publicKey |-> PublicKeyOf[u]]
           server == [privateKey |-> s, publicKey |-> PublicKeyOf[s]]
           serverPublic == [privateKey |-> Undefined, publicKey |-> PublicKeyOf[s]]
<1>1. /\ OwnPrivateKey(ua, serverPublic) = u /\ OtherPublicKey(ua, serverPublic) = PublicKeyOf[s]
      /\ OwnPrivateKey(uaPublic, server) = s /\ OtherPublicKey(uaPublic, server) = PublicKeyOf[u]
  BY KeysAssumption DEF OwnPrivateKey, OtherPublicKey
<1>2. SharedSecret(u, PublicKeyOf[s]) = SharedSecret(s, PublicKeyOf[u])
  BY DEF SharedSecret
<1>3. keyInfo(ua, serverPublic) = keyInfo(uaPublic, server)
  BY DEF keyInfo
<1> QED
  BY <1>1, <1>2, <1>3 DEF deriveKeyAndNonce

\* What a sender derives for the user agent u with its own key pair s.
DerivedBySender(u, s, secret, salt) ==
  deriveKeyAndNonce([privateKey |-> Undefined, publicKey |-> PublicKeyOf[u]],
                    [privateKey |-> s, publicKey |-> PublicKeyOf[s]], secret, salt)

Derived == {DerivedBySender(u, s, secret, salt) :
              u \in PrivateKey, s \in PrivateKey, secret \in Seq(Byte), salt \in Seq(Byte)}

LEMMA DerivedByReceiver ==
  ASSUME NEW u \in PrivateKey, NEW s \in PrivateKey, NEW secret, NEW salt
  PROVE  deriveKeyAndNonce([privateKey |-> u, publicKey |-> PublicKeyOf[u]],
                           [privateKey |-> Undefined, publicKey |-> PublicKeyOf[s]], secret, salt)
           = DerivedBySender(u, s, secret, salt)
BY BothDeriveTheSame DEF DerivedBySender

CanDerive(u, s, secret, salt) ==
  u \in PrivateKey /\ s \in PrivateKey /\ secret \in Seq(Byte) /\ salt \in Seq(Byte)

\* Two keys are the same only if everything they were derived from is: the order in which
\* keyInfo names the two public keys tells whose is whose, since they are of one length
\* (crypto.ts:220-306).
THEOREM DerivationIsInjective ==
  ASSUME NEW u, NEW s, NEW secret, NEW salt, CanDerive(u, s, secret, salt),
         NEW u2, NEW s2, NEW secret2, NEW salt2, CanDerive(u2, s2, secret2, salt2),
         DerivedBySender(u, s, secret, salt) = DerivedBySender(u2, s2, secret2, salt2)
  PROVE  /\ PublicKeyOf[u] = PublicKeyOf[u2] /\ PublicKeyOf[s] = PublicKeyOf[s2]
         /\ secret = secret2 /\ salt = salt2
<1> DEFINE P == PublicKeyOf[u]
           Q == PublicKeyOf[s]
           P2 == PublicKeyOf[u2]
           Q2 == PublicKeyOf[s2]
           type == <<"WebPush: info", 0>>
           info == type \o (P \o Q)
           info2 == type \o (P2 \o Q2)
           prk == <<secret, info, SharedSecret(s, P), 256>>
           prk2 == <<secret2, info2, SharedSecret(s2, P2), 256>>
           cek == <<salt, createInfo("Content-Encoding: aes128gcm", <<>>), prk, 128>>
           cek2 == <<salt2, createInfo("Content-Encoding: aes128gcm", <<>>), prk2, 128>>
<1>1. DerivedBySender(u, s, secret, salt).contentEncryptionKey = cek
  BY DEF DerivedBySender, deriveKeyAndNonce, OwnPrivateKey, OtherPublicKey, keyInfo, createInfo, Hkdf
<1>2. DerivedBySender(u2, s2, secret2, salt2).contentEncryptionKey = cek2
  BY DEF DerivedBySender, deriveKeyAndNonce, OwnPrivateKey, OtherPublicKey, keyInfo, createInfo, Hkdf
<1>3. cek = cek2
  BY <1>1, <1>2
<1>4. salt = salt2 /\ prk = prk2
  <2> HIDE DEF prk, prk2
  <2> QED
    BY <1>3
<1>5. secret = secret2 /\ info = info2
  <2> HIDE DEF info, info2
  <2> QED
    BY <1>4
<1>6. P \o Q = P2 \o Q2
  <2> DEFINE S == {"WebPush: info"} \cup Int
  <2>1. P \o Q \in Seq(S) /\ P2 \o Q2 \in Seq(S)
    <3>1. P \o Q \in Seq(Byte) /\ P2 \o Q2 \in Seq(Byte)
      BY KeysAssumption DEF CanDerive
    <3>2. Byte \subseteq S
      BY DEF Byte
    <3> HIDE DEF S, P, Q, P2, Q2
    <3> QED
      BY <3>1, <3>2
  <2>2. type \in Seq(S)
    <3>1. "WebPush: info" \in S /\ 0 \in S
      OBVIOUS
    <3> HIDE DEF S
    <3> QED
      BY <3>1, PairIsSeq
  <2> HIDE DEF S, P, Q, P2, Q2, type
  <2> QED
    BY <1>5, <2>1, <2>2, SameParts
<1>7. P = P2 /\ Q = Q2
  <2>1. P \in Seq(Byte) /\ Q \in Seq(Byte) /\ P2 \in Seq(Byte) /\ Q2 \in Seq(Byte) /\ Len(P) = Len(P2)
    BY KeysAssumption DEF CanDerive
  <2> HIDE DEF P, Q, P2, Q2
  <2> QED
    BY <1>6, <2>1, SameParts
<1> QED
  BY <1>4, <1>5, <1>7

-----------------------------------------------------------------------------
(* What is sent is read *)

\* A value of its own, as a throw is no result.
ThrownIsApart ==
  /\ Thrown \notin Seq(Int)
  /\ \A x, y, z : Thrown # [salt |-> x, serverPublicKey |-> y, encryptedContent |-> z]
  /\ \A x, y : Thrown # [derived |-> x, encryptedContent |-> y]

SealedWith(derived, padded) == Seal(derived.contentEncryptionKey, derived.nonce, padded)
OpenedWith(derived, sealed) == Open(derived.contentEncryptionKey, derived.nonce, sealed)

\* The cipher decrypts what it has encrypted, and adds a tag.
CipherDecrypts ==
  \A derived \in Derived, padded \in Seq(Byte) :
    /\ SealedWith(derived, padded) \in Seq(Byte)
    /\ Len(SealedWith(derived, padded)) > Len(padded)
    /\ OpenedWith(derived, SealedWith(derived, padded)) = padded

\* The text arrives that was encrypted for the user agent u with this secret.
IsEncryptedFor(u, auth, text, s, salt, size, length, padded) ==
  /\ u \in PrivateKey /\ s \in PrivateKey /\ auth \in Seq(Byte) /\ padded \in Seq(Byte)
  /\ salt \in Seq(Byte) /\ Len(salt) = 16
  /\ size \in Seq(Byte) /\ Len(size) = 4
  /\ length \in Seq(Byte) /\ Len(length) = 1 /\ length[1] = Len(PublicKeyOf[s])
  /\ fromUrlB64ToBuffer(text)
       = Parts(salt, size, length, PublicKeyOf[s],
               SealedWith(DerivedBySender(u, s, auth, salt), padded))

\* A content that was encrypted for these keys is read, whatever its record size.
LEMMA ContentIsRead ==
  ASSUME NEW u, NEW auth, NEW text, NEW s, NEW salt, NEW size, NEW length, NEW padded,
         IsEncryptedFor(u, auth, text, s, salt, size, length, padded),
         CipherDecrypts, ThrownIsApart
  PROVE  DecryptData([auth |-> auth, ecKeys |-> EcKeys(u)], text) = removePadding(padded, TRUE)
<1> DEFINE derived == DerivedBySender(u, s, auth, salt)
           sealed == SealedWith(derived, padded)
           key == PublicKeyOf[s]
           content == Parts(salt, size, length, key, sealed)
           keys == [auth |-> auth, ecKeys |-> EcKeys(u)]
<1>1. /\ u \in PrivateKey /\ s \in PrivateKey /\ auth \in Seq(Byte) /\ padded \in Seq(Byte)
      /\ salt \in Seq(Byte) /\ Len(salt) = 16
      /\ size \in Seq(Byte) /\ Len(size) = 4
      /\ length \in Seq(Byte) /\ Len(length) = 1 /\ length[1] = Len(key)
      /\ fromUrlB64ToBuffer(text) = content
  BY DEF IsEncryptedFor
<1>2. derived \in Derived
  BY <1>1 DEF Derived
<1>3. sealed \in Seq(Byte) /\ OpenedWith(derived, sealed) = padded
  BY <1>1, <1>2 DEF CipherDecrypts
<1>4. key \in Seq(Byte) /\ Len(key) \in Byte /\ IsPoint(key)
  BY <1>1, KeysAssumption DEF IsPoint
<1>5. keys.auth = auth /\ keys.ecKeys.privateKey = u
      /\ keys.ecKeys.uncompressedPublicKey = PublicKeyOf[u]
  BY DEF EcKeys
<1>6. deriveKeyAndNonce([privateKey |-> u, publicKey |-> PublicKeyOf[u]],
                        [privateKey |-> Undefined, publicKey |-> key], auth, salt) = derived
  BY <1>1, DerivedByReceiver
<1> HIDE DEF derived, sealed, key, keys
<1>7. splitContent(content) = [salt |-> salt, serverPublicKey |-> key, encryptedContent |-> sealed]
  BY <1>1, <1>3, <1>4, PartsAreSplit
<1>8. content # Thrown
  <2>1. content \in Seq(Byte)
    BY <1>1, <1>3, <1>4 DEF Parts
  <2> HIDE DEF content
  <2> QED
    BY <2>1, BytesAreInts DEF ThrownIsApart
<1> HIDE DEF content
<1>9. webPushDecryptPrep(keys, content) = [derived |-> derived, encryptedContent |-> sealed]
  BY <1>4, <1>5, <1>6, <1>7 DEF webPushDecryptPrep, ThrownIsApart
<1>10. aesGcmDecrypt(sealed, derived) = padded /\ padded # Thrown
  BY <1>1, <1>3, BytesAreInts DEF aesGcmDecrypt, OpenedWith, ThrownIsApart
<1>11. DecryptData(keys, text) = removePadding(padded, TRUE)
  <2> DEFINE prepared == webPushDecryptPrep(keys, content)
  <2>1. prepared # Thrown
    BY <1>9 DEF ThrownIsApart
  <2>2. prepared.derived = derived /\ prepared.encryptedContent = sealed
    BY <1>9
  <2> HIDE DEF prepared
  <2>3. aesGcmDecrypt(prepared.encryptedContent, prepared.derived) = padded
    BY <1>10, <2>2
  <2> QED
    BY <1>1, <1>8, <1>10, <2>1, <2>3 DEF DecryptData, prepared
<1> QED
  BY <1>11 DEF keys

LEMMA PaddedIsSeq ==
  ASSUME NEW data \in Seq(Byte), NEW zeros \in Nat
  PROVE  Padded(data, zeros) \in Seq(Byte)
<1>1. [i \in 1 .. zeros |-> 0] \in Seq(Byte) /\ <<2>> \in Seq(Byte)
  BY DEF Byte
<1> QED
  BY <1>1 DEF Padded

\* What the sender makes of the keys as toJSON gives them.
LEMMA EncryptedParts ==
  ASSUME NEW u \in PrivateKey, NEW s \in PrivateKey, NEW auth \in Seq(Byte), NEW salt, NEW padded,
         ThrownIsApart
  PROVE  EncryptPadded(padded, fromBufferToUrlB64(PublicKeyOf[u]), fromBufferToUrlB64(auth), s, salt)
           = Content(salt, PublicKeyOf[s], SealedWith(DerivedBySender(u, s, auth, salt), padded))
<1>1. PublicKeyOf[u] \in Seq(Byte) /\ Thrown \notin Seq(Int)
  BY KeysAssumption DEF ThrownIsApart
<1>2. fromUrlB64ToBuffer(fromBufferToUrlB64(PublicKeyOf[u])) = PublicKeyOf[u]
  BY <1>1, UrlB64RoundTrip
<1>3. fromUrlB64ToBuffer(fromBufferToUrlB64(auth)) = auth
  BY <1>1, UrlB64RoundTrip
<1> QED
  BY <1>2, <1>3 DEF EncryptPadded, Content, SealedWith, DerivedBySender

\* A notification that the sender of examples/listen_send encrypts with the keys of
\* toJSON decrypts to its data, with any cipher that decrypts what it has encrypted:
\* any data, padding, salt and keys.
THEOREM WhatIsSentIsRead ==
  ASSUME NEW u \in PrivateKey, NEW s \in PrivateKey, NEW auth \in Seq(Byte),
         NEW salt \in Seq(Byte), Len(salt) = 16, NEW data \in Seq(Byte), NEW zeros \in Nat,
         CipherDecrypts, ThrownIsApart
  PROVE  LET p256dh == fromBufferToUrlB64(PublicKeyOf[u])
             secret == fromBufferToUrlB64(auth)
             content == aes128GcmEncrypt(data, zeros, p256dh, secret, s, salt)
         IN DecryptData([auth |-> auth, ecKeys |-> EcKeys(u)], fromBufferToUrlB64(content)) = data
<1> DEFINE padded == Padded(data, zeros)
           sealed == SealedWith(DerivedBySender(u, s, auth, salt), padded)
           key == PublicKeyOf[s]
           size == <<0, 0, 4, 0>>
           content == Content(salt, key, sealed)
           text == fromBufferToUrlB64(content)
<1>1. padded \in Seq(Byte)
  BY PaddedIsSeq
<1>2. aes128GcmEncrypt(data, zeros, fromBufferToUrlB64(PublicKeyOf[u]), fromBufferToUrlB64(auth), s, salt)
        = content
  BY EncryptedParts DEF aes128GcmEncrypt
<1>3. size \in Seq(Byte) /\ Len(size) = 4
  BY DEF Byte
<1> DEFINE length == <<Len(key)>>
<1>4. content = Parts(salt, size, length, key, sealed)
  BY DEF Content, Parts
<1>5. key \in Seq(Byte) /\ length \in Seq(Byte) /\ Len(length) = 1 /\ length[1] = Len(key)
  BY KeysAssumption
<1>6. content \in Seq(Byte)
  <2>1. sealed \in Seq(Byte)
    <3>1. DerivedBySender(u, s, auth, salt) \in Derived
      BY DEF Derived
    <3> HIDE DEF padded
    <3> QED
      BY <1>1, <3>1 DEF CipherDecrypts
  <2> HIDE DEF sealed, key, size, content, length
  <2> QED
    BY <1>3, <1>4, <1>5, <2>1 DEF Parts
<1> HIDE DEF content, padded, size, length
<1>7. fromUrlB64ToBuffer(text) = content
  BY <1>6, UrlB64RoundTrip DEF ThrownIsApart
<1>8. DecryptData([auth |-> auth, ecKeys |-> EcKeys(u)], text) = removePadding(padded, TRUE)
  <2> HIDE DEF text
  <2>1. IsEncryptedFor(u, auth, text, s, salt, size, length, padded)
    BY <1>1, <1>3, <1>4, <1>7, <1>5 DEF IsEncryptedFor
  <2> QED
    BY <2>1, ContentIsRead
<1>9. removePadding(padded, TRUE) = data
  BY PaddingRoundTrip DEF padded
<1> QED
  BY <1>2, <1>8, <1>9

-----------------------------------------------------------------------------
(* What is read *)

\* What derives the cipher's key for the keys of a subscription.
DerivedFor(keys, serverPublicKey, salt) ==
  deriveKeyAndNonce([privateKey |-> keys.ecKeys.privateKey,
                     publicKey |-> keys.ecKeys.uncompressedPublicKey],
                    [privateKey |-> Undefined, publicKey |-> serverPublicKey],
                    keys.auth, salt)

\* What is not refused went through every step.
LEMMA WhatIsRead ==
  ASSUME NEW keys, NEW text, DecryptData(keys, text) # Thrown
  PROVE  LET content == fromUrlB64ToBuffer(text)
             end == 21 + content[21]
             key == Slice(content, 21, end)
             sealed == Slice(content, end, Len(content))
             derived == DerivedFor(keys, key, Slice(content, 0, 16))
         IN /\ content # Thrown /\ ~(Len(content) <= 20)
            /\ IsPoint(key)
            /\ OpenedWith(derived, sealed) # Thrown
            /\ DecryptData(keys, text) = removePadding(OpenedWith(derived, sealed), TRUE)
<1> DEFINE content == fromUrlB64ToBuffer(text)
           header == splitContent(content)
           prepared == webPushDecryptPrep(keys, content)
           decrypted == aesGcmDecrypt(prepared.encryptedContent, prepared.derived)
           end == 21 + content[21]
           key == Slice(content, 21, end)
           sealed == Slice(content, end, Len(content))
           salt == Slice(content, 0, 16)
           derived == DerivedFor(keys, key, salt)
<1>1. /\ content # Thrown /\ prepared # Thrown /\ decrypted # Thrown
      /\ DecryptData(keys, text) = removePadding(decrypted, TRUE)
  BY DEF DecryptData
<1> HIDE DEF content
<1>2. /\ header # Thrown /\ IsPoint(header.serverPublicKey)
      /\ prepared = [derived |-> DerivedFor(keys, header.serverPublicKey, header.salt),
                     encryptedContent |-> header.encryptedContent]
  BY <1>1 DEF webPushDecryptPrep, DerivedFor
<1>3. /\ ~(Len(content) <= 20)
      /\ header = [salt |-> salt, serverPublicKey |-> key, encryptedContent |-> sealed]
  <2> HIDE DEF prepared
  <2> QED
    BY <1>2 DEF splitContent
<1> HIDE DEF header, prepared, key, sealed, salt
<1>4. header.salt = salt /\ header.serverPublicKey = key /\ header.encryptedContent = sealed
  BY <1>3
<1>5. prepared.derived = derived /\ prepared.encryptedContent = sealed
  BY <1>2, <1>4
<1>6. decrypted = OpenedWith(derived, sealed)
  BY <1>5 DEF aesGcmDecrypt, OpenedWith
<1> QED
  BY <1>1, <1>2, <1>3, <1>4, <1>6 DEF content, key, sealed, salt

\* Where the end of an encoding is missing, the end of the bytes is missing, if it is
\* decoded at all.
LEMMA CutIsDecoded ==
  ASSUME NEW b \in Seq(Byte), NEW lost \in Nat, ThrownIsApart,
         LET e == fromBufferToUrlB64(b)
         IN fromUrlB64ToBuffer(SubSeq(e, 1, Len(e) - lost)) # Thrown
  PROVE  \E k \in 0 .. Len(b) :
           /\ LET e == fromBufferToUrlB64(b)
              IN fromUrlB64ToBuffer(SubSeq(e, 1, Len(e) - lost)) = SubSeq(b, 1, k)
           /\ k = Len(b) => lost = 0 \/ Len(b) = 0
<1> DEFINE e == fromBufferToUrlB64(b)
           n == (4 * Len(b) + 2) \div 3
           m == IF lost <= n THEN n - lost ELSE 0
           s == SubSeq(e, 1, Len(e) - lost)
           k == (3 * m) \div 4
<1>1. n \in Nat /\ Len(b) \in Nat
  BY Lengths
<1>2. e = [j \in 1 .. n |-> UrlCharacter(Digit(b, j))]
  BY Encoded
<1> HIDE DEF e
<1>3. Len(e) = n /\ m \in 0 .. n /\ s = SubSeq(e, 1, m)
  <2> HIDE DEF n
  <2>1. Len(e) = n
    BY <1>1, <1>2
  <2>2. CASE lost <= n
    BY <1>1, <2>1, <2>2
  <2>3. CASE ~(lost <= n)
    BY <1>1, <1>2, <2>1, <2>3
  <2> QED
    BY <2>1, <2>2, <2>3
<1>4. k \in 0 .. Len(b) /\ (k = Len(b) => lost = 0 \/ Len(b) = 0)
  <2>1. m \in Nat /\ m <= n /\ (m = n => lost = 0 \/ n = 0)
    <3> HIDE DEF n
    <3> QED
      BY <1>1, <1>3
  <2>2. n = 0 => Len(b) = 0
    BY <1>1
  <2> HIDE DEF m
  <2>3. k \in Nat /\ k <= Len(b) /\ (k = Len(b) => m = n)
    BY <1>1, <2>1
  <2> QED
    BY <1>1, <2>1, <2>2, <2>3
<1>5. m % 4 # 1
  <2> SUFFICES ASSUME m % 4 = 1 PROVE FALSE
    OBVIOUS
  <2>1. Len(s) = m
    <3> HIDE DEF n, m
    <3> QED
      BY <1>1, <1>2, <1>3
  <2>2. fromUrlB64ToB64(s) = Thrown
    <3> HIDE DEF s, m
    <3> QED
      BY <2>1 DEF fromUrlB64ToB64
  <2> QED
    BY <2>2 DEF fromUrlB64ToBuffer, e
<1>6. fromUrlB64ToBuffer(SubSeq(e, 1, m)) = SubSeq(b, 1, k)
  <2> HIDE DEF m, n
  <2>1. m \in 0 .. Len(fromBufferToUrlB64(b))
    BY <1>3 DEF e
  <2>2. Thrown \notin Seq(Int)
    BY DEF ThrownIsApart
  <2> QED
    BY <1>5, <2>1, <2>2, PrefixIsDecoded DEF e
<1> HIDE DEF k, m, s
<1>7. fromUrlB64ToBuffer(s) = SubSeq(b, 1, k)
  BY <1>3, <1>6
<1> QED
  BY <1>4, <1>7 DEF s, e
=============================================================================
