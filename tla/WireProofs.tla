----------------------------- MODULE WireProofs -----------------------------
(***************************************************************************)
(* Whatever two packets an exchange consists of, and whichever byte of     *)
(* them is inverted: the checksum tells, and nothing else is lost.         *)
(***************************************************************************)
EXTENDS Wire, Arithmetic, SequenceTheorems

-----------------------------------------------------------------------------
(***************************************************************************)
(* The running sum of in_cksum.  A recursive function is whatever function *)
(* satisfies its equation: one does.                                       *)
(***************************************************************************)
LEMMA SumsExist ==
    ASSUME NEW N \in Nat, NEW w \in [1 .. N -> Nat]
    PROVE  \E s : s = [n \in 0 .. N |-> IF n = 0 THEN 0 ELSE s[n - 1] + w[n]]
<1> DEFINE Upto(k, s) == s[0] = 0 /\ \A i \in 1 .. k : s[i] = s[i - 1] + w[i]
           S == {k \in 0 .. N : \E s \in [0 .. N -> Nat] : Upto(k, s)}
<1>1. 0 \in S
  <2>1. [i \in 0 .. N |-> 0] \in [0 .. N -> Nat] /\ Upto(0, [i \in 0 .. N |-> 0])
    OBVIOUS
  <2>2. 0 \in 0 .. N
    OBVIOUS
  <2> HIDE DEF Upto
  <2> QED BY <2>1, <2>2
<1>2. ASSUME NEW k \in 0 .. N - 1, k \in S PROVE k + 1 \in S
  <2>1. PICK s \in [0 .. N -> Nat] : Upto(k, s)
    BY <1>2
  <2> DEFINE t == [s EXCEPT ![k + 1] = s[k] + w[k + 1]]
  <2>2. k + 1 \in 0 .. N /\ k \in 0 .. N /\ k + 1 \in 1 .. N
    OBVIOUS
  <2>3. t \in [0 .. N -> Nat] /\ t[k + 1] = s[k] + w[k + 1]
        /\ \A i \in 0 .. N : i # k + 1 => t[i] = s[i]
    BY <2>2
  <2> HIDE DEF t
  <2>4. t[0] = 0 /\ t[k] = s[k]
    BY <2>1, <2>2, <2>3
  <2>5. ASSUME NEW i \in 1 .. k + 1 PROVE t[i] = t[i - 1] + w[i]
    <3>1. CASE i = k + 1
      BY <2>3, <2>4, <3>1
    <3>2. CASE i # k + 1
      <4>1. i \in 1 .. k /\ i \in 0 .. N /\ i - 1 \in 0 .. N /\ i - 1 # k + 1
        BY <3>2
      <4> QED BY <2>1, <2>3, <3>2, <4>1
    <3> QED BY <3>1, <3>2
  <2>6. Upto(k + 1, t)
    BY <2>4, <2>5
  <2> HIDE DEF Upto
  <2> QED BY <2>2, <2>3, <2>6
<1>3. N \in S
  <2> HIDE DEF S
  <2>1. N \in 0 .. N
    OBVIOUS
  <2>2. \A i \in 0 .. N : i \in S
    BY <1>1, <1>2, InductionUpTo
  <2> QED BY <2>1, <2>2
<1>4. PICK s \in [0 .. N -> Nat] : Upto(N, s)
  BY <1>3
<1>5. s = [n \in 0 .. N |-> IF n = 0 THEN 0 ELSE s[n - 1] + w[n]]
  BY <1>4
<1> QED BY <1>5

LEMMA SumsEquation ==
    ASSUME NEW p, NumWords(p) \in Nat, \A i \in 1 .. NumWords(p) : WordAt(p, i) \in Nat
    PROVE  /\ Sums(p)[0] = 0
           /\ \A n \in 1 .. NumWords(p) : Sums(p)[n] = Sums(p)[n - 1] + WordAt(p, n)
<1> DEFINE N == NumWords(p)
           w == [i \in 1 .. N |-> WordAt(p, i)]
           Is(s) == s = [n \in 0 .. N |-> IF n = 0 THEN 0 ELSE s[n - 1] + WordAt(p, n)]
<1> HIDE DEF N
<1>1. w \in [1 .. N -> Nat] /\ N \in Nat
  BY DEF N
<1>2. PICK s : s = [n \in 0 .. N |-> IF n = 0 THEN 0 ELSE s[n - 1] + w[n]]
  <2> HIDE DEF w
  <2> QED BY <1>1, SumsExist
<1>3. Is(s)
  <2>1. \A n \in 0 .. N : n # 0 => w[n] = WordAt(p, n)
    BY <1>1
  <2> HIDE DEF w
  <2>2. [n \in 0 .. N |-> IF n = 0 THEN 0 ELSE s[n - 1] + w[n]]
          = [n \in 0 .. N |-> IF n = 0 THEN 0 ELSE s[n - 1] + WordAt(p, n)]
    BY <2>1
  <2> QED BY <1>2, <2>2
<1>4. Sums(p) = CHOOSE t : Is(t)
  BY DEF Sums, N
<1>5. Is(Sums(p))
  <2> HIDE DEF Is
  <2> QED BY <1>3, <1>4
<1>6. \A n \in 0 .. N : Sums(p)[n] = IF n = 0 THEN 0 ELSE Sums(p)[n - 1] + WordAt(p, n)
  <2> DEFINE z == Sums(p)
  <2> HIDE DEF z
  <2>1. Is(z)
    BY <1>5 DEF z
  <2>2. \A n \in 0 .. N : z[n] = IF n = 0 THEN 0 ELSE z[n - 1] + WordAt(p, n)
    BY <2>1
  <2> QED BY <2>2 DEF z
<1> QED BY <1>1, <1>6 DEF N

\* The greatest word.
MaxWord == 65535

(***************************************************************************)
(* The sum is no more than its words allow, and when one word rises or     *)
(* falls, so does the sum.                                                 *)
(***************************************************************************)
LEMMA SumBound ==
    ASSUME NEW p, NumWords(p) \in Nat,
           \A i \in 1 .. NumWords(p) : WordAt(p, i) \in Nat /\ WordAt(p, i) <= MaxWord
    PROVE  /\ Sums(p)[NumWords(p)] \in Nat
           /\ Sums(p)[NumWords(p)] <= MaxWord * NumWords(p)
<1> DEFINE N == NumWords(p)
           s == Sums(p)
           S == {n \in 0 .. N : s[n] \in Nat /\ s[n] <= MaxWord * n}
<1>1. s[0] = 0 /\ \A n \in 1 .. N : s[n] = s[n - 1] + WordAt(p, n)
  BY SumsEquation
<1> HIDE DEF N, s
<1>2. N \in Nat /\ \A i \in 1 .. N : WordAt(p, i) \in Nat /\ WordAt(p, i) <= MaxWord
  BY DEF N
<1>3. 0 \in S
  BY <1>1, <1>2, SMT DEF MaxWord
<1>4. ASSUME NEW n \in 0 .. N - 1, n \in S PROVE n + 1 \in S
  <2>1. n + 1 \in 1 .. N /\ n + 1 - 1 = n /\ n + 1 \in 0 .. N
    BY <1>2
  <2>2. s[n + 1] = s[n] + WordAt(p, n + 1)
    BY <1>1, <2>1
  <2> QED BY <1>2, <1>4, <2>1, <2>2, SMT DEF MaxWord
<1>5. N \in 0 .. N
  BY <1>2
<1>6. N \in S
  <2> HIDE DEF S
  <2>1. \A n \in 0 .. N : n \in S
    BY <1>2, <1>3, <1>4, InductionUpTo
  <2> QED BY <1>5, <2>1
<1> QED BY <1>6 DEF N, s

LEMMA SumChange ==
    ASSUME NEW p, NEW q, NumWords(p) \in Nat, NumWords(q) = NumWords(p),
           \A i \in 1 .. NumWords(p) : WordAt(p, i) \in Nat /\ WordAt(q, i) \in Nat,
           NEW k \in 1 .. NumWords(p), NEW d \in Int, WordAt(q, k) = WordAt(p, k) + d,
           \A i \in 1 .. NumWords(p) : i # k => WordAt(q, i) = WordAt(p, i)
    PROVE  Sums(q)[NumWords(p)] = Sums(p)[NumWords(p)] + d
<1> DEFINE N == NumWords(p)
           s == Sums(p)
           t == Sums(q)
           S == {n \in 0 .. N : /\ s[n] \in Int
                                /\ t[n] = IF n < k THEN s[n] ELSE s[n] + d}
<1>1. /\ s[0] = 0 /\ \A n \in 1 .. N : s[n] = s[n - 1] + WordAt(p, n)
      /\ t[0] = 0 /\ \A n \in 1 .. N : t[n] = t[n - 1] + WordAt(q, n)
  BY SumsEquation
<1> HIDE DEF N, s, t
<1>2. /\ N \in Nat /\ k \in 1 .. N
      /\ \A i \in 1 .. N : WordAt(p, i) \in Nat /\ WordAt(q, i) \in Nat
      /\ \A i \in 1 .. N : i # k => WordAt(q, i) = WordAt(p, i)
  BY DEF N
<1>3. 0 \in S
  BY <1>1, <1>2
<1>4. ASSUME NEW n \in 0 .. N - 1, n \in S PROVE n + 1 \in S
  <2>1. n + 1 \in 1 .. N /\ n + 1 - 1 = n /\ n + 1 \in 0 .. N
    BY <1>2
  <2>2. s[n + 1] = s[n] + WordAt(p, n + 1) /\ t[n + 1] = t[n] + WordAt(q, n + 1)
    BY <1>1, <2>1
  <2>3. CASE n + 1 = k
    BY <1>2, <1>4, <2>1, <2>2, <2>3
  <2>4. CASE n + 1 # k
    BY <1>2, <1>4, <2>1, <2>2, <2>4
  <2> QED BY <2>3, <2>4
<1>5. N \in 0 .. N /\ ~(N < k)
  BY <1>2
<1>6. N \in S
  <2> HIDE DEF S
  <2>1. \A n \in 0 .. N : n \in S
    BY <1>2, <1>3, <1>4, InductionUpTo
  <2> QED BY <1>5, <2>1
<1> QED BY <1>5, <1>6 DEF N, s, t

-----------------------------------------------------------------------------
(***************************************************************************)
(* Folding twice: the result is 0 exactly if the halves of the sum make    *)
(* 65535, that is, if the sum is a multiple of 65535 other than 0.         *)
(***************************************************************************)
MaxSum == 2147483647            \* what sum, an int, can hold
LongestSum == 46136640          \* 704 words, the most a packet has

LEMMA Halves ==
    ASSUME NEW s \in Nat, s <= MaxSum
    PROVE  /\ s \div 65536 \in Nat /\ s \div 65536 <= 32767
           /\ s % 65536 \in Nat /\ s % 65536 < 65536
           /\ s % 65536 = s - 65536 * (s \div 65536)
<1>1. s \div 65536 \in Nat /\ s \div 65536 <= 32767
  BY DEF MaxSum
<1>2. s % 65536 \in Nat /\ s % 65536 < 65536
  OBVIOUS
<1>3. s % 65536 = s - 65536 * (s \div 65536)
  BY Division
<1> QED BY <1>1, <1>2, <1>3

LEMMA FoldIs ==
    ASSUME NEW s \in Nat, s <= MaxSum
    PROVE  LET once == (s \div 65536) + (s % 65536)
           IN  FoldCarries(s) = IF once < 65536 THEN 65535 - once ELSE 131070 - once
<1> DEFINE h == s \div 65536
           l == s % 65536
           once == h + l
           carry == once \div 65536
           twice == once + carry
<1>1. h \in Nat /\ h <= 32767 /\ l \in Nat /\ l < 65536
  BY Halves
<1>2. FoldCarries(s) = 65535 - (twice % 65536)
  BY DEF FoldCarries
<1> HIDE DEF h, l
<1>3. once \in Nat /\ once < 131072 - 32768
  BY <1>1
<1> HIDE DEF once
<1>4. CASE once < 65536
  <2>1. carry = 0
    BY <1>3, <1>4
  <2> HIDE DEF carry
  <2>2. twice % 65536 = once
    BY <1>3, <1>4, <2>1
  <2> HIDE DEF twice
  <2> QED BY <1>2, <1>3, <1>4, <2>2 DEF once, h, l
<1>5. CASE once >= 65536
  <2>1. carry = 1
    BY <1>3, <1>5
  <2> HIDE DEF carry
  <2>2. twice = once + 1 /\ 65536 <= twice /\ twice < 131072
    BY <1>3, <1>5, <2>1
  <2> HIDE DEF twice
  <2>3. twice % 65536 = twice - 65536
    BY <1>3, <2>2
  <2>4. FoldCarries(s) = 131070 - once /\ ~(once < 65536)
    BY <1>2, <1>3, <1>5, <2>2, <2>3
  <2> QED BY <2>4 DEF once, h, l
<1> QED BY <1>3, <1>4, <1>5

(***************************************************************************)
(* A checksum added to the sum it was made from gives 0 (createHeader,     *)
(* retrieveHeader).                                                        *)
(***************************************************************************)
LEMMA FoldSeals ==
    ASSUME NEW s \in Nat, s <= LongestSum
    PROVE  /\ FoldCarries(s) \in Nat /\ FoldCarries(s) <= MaxWord
           /\ FoldCarries(s + FoldCarries(s)) = 0
<1>0. s + 65536 <= MaxSum
  BY SMT DEF LongestSum, MaxSum
<1> DEFINE h == s \div 65536
           l == s % 65536
           once == h + l
           c == FoldCarries(s)
           t == s + c
<1>1. /\ h \in Nat /\ h <= 32767 /\ l \in Nat /\ l < 65536 /\ s = 65536 * h + l
      /\ c = IF once < 65536 THEN 65535 - once ELSE 131070 - once
      /\ h <= 32766
  <2>1. s <= MaxSum /\ s \in Nat
    BY <1>0, SMT DEF MaxSum
  <2>2. /\ h \in Nat /\ h <= 32767 /\ l \in Nat /\ l < 65536 /\ l = s - 65536 * h
        /\ c = IF once < 65536 THEN 65535 - once ELSE 131070 - once
    BY <2>1, Halves, FoldIs
  <2> HIDE DEF h, l, c
  <2>3. h <= 32766
    BY <1>0, <2>2, SMT DEF MaxSum
  <2> QED BY <2>2, <2>3
<1> HIDE DEF h, l, c
<1>2. c \in Nat /\ c <= 65535
  BY <1>1
<1>3. t \in Nat /\ t <= MaxSum
  BY <1>1, <1>2 DEF MaxSum
<1>4. PICK q \in Nat : t = 65536 * q + (65535 - q) /\ q <= 32767
  <2>1. CASE once < 65536
    <3>1. t = 65536 * h + (65535 - h)
      BY <1>1, <2>1
    <3> QED BY <1>1, <3>1
  <2>2. CASE once >= 65536
    <3>1. t = 65536 * (h + 1) + (65535 - (h + 1))
      BY <1>1, <2>2
    <3>2. h + 1 \in Nat /\ h + 1 <= 32767
      BY <1>1
    <3> QED BY <3>1, <3>2
  <2> QED BY <1>1, <2>1, <2>2
<1> HIDE DEF t
<1>5. t \div 65536 = q /\ t % 65536 = 65535 - q
  <2> DEFINE r == 65535 - q
  <2>1. r \in Int /\ 0 <= r /\ r < 65536 /\ q \in Int
    BY <1>4
  <2> HIDE DEF r
  <2>2. (65536 * q + r) \div 65536 = q /\ (65536 * q + r) % 65536 = r
    BY <2>1
  <2> QED BY <1>4, <2>2 DEF r
<1>6. FoldCarries(t) = 0
  <2>1. q + (65535 - q) = 65535
    BY <1>4
  <2>2. FoldCarries(t) = IF 65535 < 65536 THEN 65535 - 65535 ELSE 131070 - 65535
    BY <1>3, <1>5, <2>1, FoldIs
  <2> QED BY <2>2
<1> QED BY <1>2, <1>6, SMT DEF t, c, MaxWord

(***************************************************************************)
(* A sum that differs from one that gives 0 by less than 65535 does not.   *)
(***************************************************************************)
LEMMA FoldZero ==
    ASSUME NEW s \in Nat, s <= MaxSum, FoldCarries(s) = 0
    PROVE  \E q \in Nat : s = 65535 * q
<1> DEFINE h == s \div 65536
           l == s % 65536
           once == h + l
<1>1. /\ h \in Nat /\ h <= 32767 /\ l \in Nat /\ l < 65536 /\ l = s - 65536 * h
      /\ 0 = IF once < 65536 THEN 65535 - once ELSE 131070 - once
  BY Halves, FoldIs
<1> HIDE DEF h, l
<1>2. h + l = 65535
  BY <1>1
<1>3. s = 65535 * (h + 1) /\ h + 1 \in Nat
  BY <1>1, <1>2
<1> QED BY <1>3

LEMMA FoldDetects ==
    ASSUME NEW s \in Nat, s <= LongestSum, FoldCarries(s) = 0,
           NEW d \in Int, d # 0, -MaxWord < d, d < MaxWord,
           s + d \in Nat, s + d <= LongestSum
    PROVE  FoldCarries(s + d) # 0
<1> SUFFICES ASSUME FoldCarries(s + d) = 0 PROVE FALSE
  OBVIOUS
<1>1. PICK q \in Nat : s = 65535 * q
  <2>1. s <= MaxSum
    BY SMT DEF LongestSum, MaxSum
  <2> QED BY <2>1, FoldZero
<1>2. PICK r \in Nat : s + d = 65535 * r
  <2> DEFINE t == s + d
  <2>1. t \in Nat /\ t <= MaxSum /\ FoldCarries(t) = 0
    BY SMT DEF LongestSum, MaxSum
  <2> HIDE DEF t
  <2>2. \E r \in Nat : t = 65535 * r
    BY <2>1, FoldZero
  <2> QED BY <2>2 DEF t
<1>3. d = 65535 * (r - q)
  BY <1>1, <1>2
<1>4. r - q = 0 \/ r - q >= 1 \/ r - q <= -1
  OBVIOUS
<1> QED BY <1>3, <1>4, SMT DEF MaxWord

-----------------------------------------------------------------------------
(***************************************************************************)
(* The bytes of a packet.                                                  *)
(***************************************************************************)
\* The most bytes a packet carries, and has.
MaxData == 1400
MaxPdu  == 1407

\* A uint32_t.
UInt32(x) == x \in Nat /\ x \div 16777216 \in Byte

LEMMA NumberBytes ==
    ASSUME NEW x, UInt32(x)
    PROVE  /\ htonl(x) \in Seq(Byte) /\ Len(htonl(x)) = 4
           /\ ntohl(htonl(x)) = x
<1> DEFINE a == x \div 16777216
           b == x \div 65536
           c == x \div 256
<1>0. x \in Nat /\ a \in Byte
  BY DEF UInt32
<1>1. a \in Byte /\ x % 256 \in Byte /\ c % 256 \in Byte /\ b % 256 \in Byte
  BY <1>0, SMT DEF Byte
<1>2. x % 256 = x - 256 * c /\ c \in Nat
  BY <1>0, Division, SMT
<1>3. c % 256 = c - 256 * b /\ b \in Nat
  <2>1. c \div 256 = b
    BY <1>0, SMT
  <2> HIDE DEF c, b
  <2>2. c % 256 = c - 256 * (c \div 256)
    BY <1>2, Division, SMT
  <2> QED BY <1>0, <2>1, <2>2, SMT DEF b
<1>4. b % 256 = b - 256 * a /\ a \in Nat
  <2>1. b \div 256 = a
    BY <1>0, SMT
  <2> HIDE DEF b, a
  <2>2. b % 256 = b - 256 * (b \div 256)
    BY <1>3, Division, SMT
  <2> QED BY <1>0, <2>1, <2>2, SMT DEF a
<1>5. htonl(x) = << a, b % 256, c % 256, x % 256 >>
  BY SMT DEF htonl
<1> HIDE DEF a, b, c
<1> DEFINE u == b % 256
           v == c % 256
           w == x % 256
<1>6. htonl(x) = << a, u, v, w >> /\ a \in Byte /\ u \in Byte /\ v \in Byte /\ w \in Byte
  BY <1>1, <1>5, SMT
<1>7. u = b - 256 * a /\ v = c - 256 * b /\ w = x - 256 * c
  BY <1>2, <1>3, <1>4, SMT
<1> HIDE DEF u, v, w
<1>8. htonl(x) \in Seq(Byte) /\ Len(htonl(x)) = 4
  BY <1>6, SMT
<1>9. ntohl(htonl(x)) = a * 16777216 + u * 65536 + v * 256 + w
  BY <1>6, SMT DEF ntohl
<1>10. a * 16777216 + u * 65536 + v * 256 + w = x
  BY <1>0, <1>2, <1>3, <1>4, <1>7, SMT
<1> QED BY <1>8, <1>9, <1>10, SMT

\* A packet that begins with the number h, with the two bytes c for its
\* checksum.
Sealed(h, flag, payload, c) == h \o c \o << flag >> \o payload

\* The four bytes of a number, the two of a checksum.
Head4(h) == h \in Seq(Byte) /\ Len(h) = 4
Sum2(c) == c \in Seq(Byte) /\ Len(c) = 2

\* Where everything is in such a packet.
Layout(pdu, h, flag, payload, c) ==
    /\ pdu \in Seq(Byte) /\ Len(pdu) = Len(payload) + 7
    /\ \A i \in 1 .. 4 : pdu[i] = h[i]
    /\ pdu[5] = c[1] /\ pdu[6] = c[2] /\ pdu[7] = flag
    /\ \A i \in 1 .. Len(payload) : pdu[i + 7] = payload[i]

LEMMA SealedBytes ==
    ASSUME NEW h, Head4(h), NEW flag \in Byte, NEW payload \in Seq(Byte),
           NEW c, Sum2(c), NEW pdu, pdu = Sealed(h, flag, payload, c)
    PROVE  Layout(pdu, h, flag, payload, c)
<1> DEFINE u == h \o c
           v == u \o <<flag>>
<1>a. h \in Seq(Byte) /\ Len(h) = 4 /\ c \in Seq(Byte) /\ Len(c) = 2
  BY DEF Head4, Sum2
<1>0. pdu = v \o payload
  BY DEF Sealed
<1>1. /\ u \in Seq(Byte) /\ Len(u) = 6
      /\ \A i \in 1 .. 4 : u[i] = h[i]
      /\ u[5] = c[1] /\ u[6] = c[2]
  <2>2. /\ u \in Seq(Byte) /\ Len(u) = Len(h) + Len(c)
        /\ \A i \in 1 .. Len(h) + Len(c) :
             u[i] = IF i <= Len(h) THEN h[i] ELSE c[i - Len(h)]
    BY <1>a, ConcatProperties, Zenon
  <2> HIDE DEF u
  <2>3. u[5] = c[1] /\ u[6] = c[2]
    BY <1>a, <2>2
  <2> QED BY <1>a, <2>2, <2>3
<1> HIDE DEF u
<1>2. /\ v \in Seq(Byte) /\ Len(v) = 7
      /\ \A i \in 1 .. 6 : v[i] = u[i]
      /\ v[7] = flag
  <2> DEFINE f == <<flag>>
  <2>1. f \in Seq(Byte) /\ Len(f) = 1 /\ f[1] = flag
    OBVIOUS
  <2> HIDE DEF f
  <2>2. /\ v \in Seq(Byte) /\ Len(v) = Len(u) + Len(f)
        /\ \A i \in 1 .. Len(u) + Len(f) :
             v[i] = IF i <= Len(u) THEN u[i] ELSE f[i - Len(u)]
    BY <1>1, <2>1, ConcatProperties, Zenon DEF f
  <2> HIDE DEF v
  <2>3. v[7] = f[1]
    BY <1>1, <2>1, <2>2
  <2> QED BY <1>1, <2>1, <2>2, <2>3
<1> HIDE DEF v
<1>3. /\ pdu \in Seq(Byte) /\ Len(pdu) = Len(payload) + 7
      /\ \A i \in 1 .. 7 : pdu[i] = v[i]
      /\ \A i \in 1 .. Len(payload) : pdu[i + 7] = payload[i]
  <2> DEFINE n == Len(payload)
           r == v \o payload
  <2>1. n \in Nat
    OBVIOUS
  <2>2. /\ r \in Seq(Byte) /\ Len(r) = Len(v) + n
        /\ \A i \in 1 .. Len(v) + n :
             r[i] = IF i <= Len(v) THEN v[i] ELSE payload[i - Len(v)]
    BY <1>2, ConcatProperties, Zenon
  <2>5. pdu = r
    BY <1>0
  <2> HIDE DEF n, r
  <2>3. \A i \in 1 .. n : pdu[i + 7] = payload[i]
    <3> TAKE i \in 1 .. n
    <3>1. i + 7 \in 1 .. 7 + n /\ ~(i + 7 <= 7) /\ i + 7 - 7 = i
      BY <2>1
    <3> QED BY <1>2, <2>2, <2>5, <3>1
  <2>4. \A i \in 1 .. 7 : i \in 1 .. 7 + n /\ i <= 7
    BY <2>1
  <2>6. ASSUME NEW i \in 1 .. 7 PROVE pdu[i] = v[i]
    BY <1>2, <2>2, <2>4, <2>5
  <2>7. pdu \in Seq(Byte) /\ Len(pdu) = n + 7
    BY <1>2, <2>1, <2>2, <2>5
  <2> QED BY <2>3, <2>6, <2>7 DEF n
<1>4. /\ \A i \in 1 .. 4 : pdu[i] = h[i]
      /\ pdu[5] = c[1] /\ pdu[6] = c[2] /\ pdu[7] = flag
  BY <1>1, <1>2, <1>3
<1> QED BY <1>3, <1>4 DEF Layout

(***************************************************************************)
(* Its words: two bytes each, and the last one perhaps of one.             *)
(***************************************************************************)
LEMMA WordsOf ==
    ASSUME NEW p \in Seq(Byte)
    PROVE  /\ NumWords(p) \in Nat
           /\ 2 * NumWords(p) <= Len(p) + 1 /\ Len(p) <= 2 * NumWords(p)
           /\ \A i \in 1 .. NumWords(p) :
                /\ 2 * i - 1 \in 1 .. Len(p)
                /\ WordAt(p, i) \in Nat /\ WordAt(p, i) <= MaxWord
<1> DEFINE n == Len(p) + 1
           N == NumWords(p)
<1>1. n \in Nat /\ n = Len(p) + 1
  OBVIOUS
<1>2. N = n \div 2
  BY DEF NumWords
<1> HIDE DEF n, N
<1>3. N \in Nat /\ 2 * N <= n /\ n <= 2 * N + 1
  BY <1>1, <1>2
<1>4. ASSUME NEW i \in 1 .. N
      PROVE  /\ 2 * i - 1 \in 1 .. Len(p)
             /\ WordAt(p, i) \in Nat /\ WordAt(p, i) <= MaxWord
  <2>1. 2 * i - 1 \in 1 .. Len(p) /\ 2 * i \in Nat /\ 2 * i >= 1
    BY <1>1, <1>3
  <2> DEFINE a == p[2 * i - 1]
             b == p[2 * i]
  <2>2. a \in Byte
    BY <2>1, ElementOfSeq, Zenon
  <2>3. 2 * i <= Len(p) => b \in Byte
    <3> SUFFICES ASSUME 2 * i <= Len(p) PROVE b \in Byte
      OBVIOUS
    <3>1. 2 * i \in 1 .. Len(p)
      BY <2>1
    <3> QED BY <3>1, ElementOfSeq, Zenon
  <2>4. WordAt(p, i) = a + IF 2 * i <= Len(p) THEN 256 * b ELSE 0
    BY DEF WordAt
  <2> HIDE DEF a, b
  <2>5. a \in Nat /\ a <= 255
    BY SMT, <2>2 DEF Byte
  <2>6. CASE 2 * i <= Len(p)
    <3>0. b \in Byte
      BY <2>3, <2>6, Zenon
    <3>1. b \in Nat /\ b <= 255
      BY SMT, <3>0 DEF Byte
    <3>2. WordAt(p, i) = a + 256 * b
      BY SMT, <2>4, <2>6
    <3> QED BY SMT, <2>1, <2>5, <3>1, <3>2 DEF MaxWord
  <2>7. CASE ~(2 * i <= Len(p))
    <3>1. WordAt(p, i) = a
      BY SMT, <2>4, <2>5, <2>7
    <3> QED BY SMT, <2>1, <2>5, <3>1 DEF MaxWord
  <2> QED BY <2>6, <2>7
<1> QED BY <1>1, <1>3, <1>4 DEF N

\* Two packets that differ in the bytes of one word only.
LEMMA OneWord ==
    ASSUME NEW p \in Seq(Byte), NEW q \in Seq(Byte), Len(q) = Len(p),
           NEW k \in 1 .. NumWords(p),
           \A j \in 1 .. Len(p) : j # 2 * k - 1 /\ j # 2 * k => q[j] = p[j]
    PROVE  /\ NumWords(q) = NumWords(p)
           /\ Sums(q)[NumWords(p)]
                = Sums(p)[NumWords(p)] + (WordAt(q, k) - WordAt(p, k))
<1>1. NumWords(q) = NumWords(p)
  BY DEF NumWords
<1>2. /\ NumWords(p) \in Nat
      /\ \A i \in 1 .. NumWords(p) : /\ 2 * i - 1 \in 1 .. Len(p)
                                     /\ WordAt(p, i) \in Nat
  BY WordsOf, Zenon
<1>3. \A i \in 1 .. NumWords(p) : WordAt(q, i) \in Nat
  BY <1>1, WordsOf, Zenon
<1>4. ASSUME NEW i \in 1 .. NumWords(p), i # k PROVE WordAt(q, i) = WordAt(p, i)
  <2>1. 2 * i - 1 \in 1 .. Len(p) /\ i \in Int /\ k \in Int /\ Len(p) \in Nat
    BY <1>2
  <2>2. q[2 * i - 1] = p[2 * i - 1]
    <3>1. 2 * i - 1 # 2 * k - 1 /\ 2 * i - 1 # 2 * k
      BY <1>4, <2>1
    <3> QED BY <2>1, <3>1
  <2>3. 2 * i <= Len(p) => q[2 * i] = p[2 * i]
    <3> SUFFICES ASSUME 2 * i <= Len(p) PROVE q[2 * i] = p[2 * i]
      OBVIOUS
    <3>1. 2 * i \in 1 .. Len(p) /\ 2 * i # 2 * k /\ 2 * i # 2 * k - 1
      BY <1>4, <2>1
    <3> QED BY <3>1
  <2> QED BY <2>2, <2>3 DEF WordAt
<1> DEFINE d == WordAt(q, k) - WordAt(p, k)
<1>5. d \in Int /\ WordAt(q, k) = WordAt(p, k) + d
  BY <1>2, <1>3
<1> HIDE DEF d
<1>6. Sums(q)[NumWords(p)] = Sums(p)[NumWords(p)] + d
  BY <1>1, <1>2, <1>3, <1>4, <1>5, SumChange
<1> QED BY <1>1, <1>6 DEF d

\* The longest packet has 1407 bytes, far too few for the sum to overflow.
LEMMA SumFits ==
    ASSUME NEW p \in Seq(Byte), Len(p) <= MaxPdu
    PROVE  /\ NumWords(p) \in Nat
           /\ Sums(p)[NumWords(p)] \in Nat
           /\ Sums(p)[NumWords(p)] <= LongestSum
<1> DEFINE N == NumWords(p)
           s == Sums(p)[N]
<1>1. N \in Nat /\ 2 * N <= Len(p) + 1
  BY WordsOf, Zenon
<1>2. s \in Nat /\ s <= MaxWord * N
  <2>1. NumWords(p) \in Nat
    BY WordsOf, Zenon
  <2>2. \A i \in 1 .. NumWords(p) : WordAt(p, i) \in Nat /\ WordAt(p, i) <= MaxWord
    BY WordsOf, Zenon
  <2> QED BY <2>1, <2>2, SumBound, Zenon
<1>3. Len(p) \in Nat
  OBVIOUS
<1> HIDE DEF N, s
<1>4. N <= 704
  BY <1>1, <1>3, SMT DEF MaxPdu
<1>5. s <= LongestSum
  BY <1>1, <1>2, <1>4, SMT DEF MaxWord, LongestSum
<1> QED BY <1>1, <1>2, <1>5 DEF s, N

-----------------------------------------------------------------------------
(***************************************************************************)
(* createHeader seals a packet, and retrieveHeader gives back what went in.*)
(***************************************************************************)
IsFrame(f) ==
    /\ f = [flag |-> f.flag, seq |-> f.seq, payload |-> f.payload]
    /\ f.flag \in Byte
    /\ UInt32(f.seq)
    /\ f.payload \in Seq(Byte) /\ Len(f.payload) <= MaxData

Bytes(f) == createHeader(f.flag, f.seq, f.payload)

LEMMA StoredBytes ==
    ASSUME NEW c \in Nat, c <= MaxWord
    PROVE  \E a, b \in Byte : Stored(c) = <<a, b>> /\ a + 256 * b = c
<1> DEFINE lo == c % 256
           hi == c \div 256
<1>1. lo = c - 256 * hi
  BY Division
<1>2. lo \in Byte /\ hi \in Byte
  BY SMT DEF Byte, MaxWord
<1>3. Stored(c) = <<lo, hi>>
  BY DEF Stored
<1> HIDE DEF lo, hi
<1>4. lo + 256 * hi = c
  BY <1>1, <1>2, SMT DEF Byte
<1> QED BY <1>2, <1>3, <1>4, SMT

LEMMA SealingWorks ==
    ASSUME NEW h, Head4(h), NEW flag \in Byte,
           NEW payload \in Seq(Byte), Len(payload) <= MaxData
    PROVE  LET c == in_cksum(Sealed(h, flag, payload, <<0, 0>>))
           IN  /\ \E a, b \in Byte : Stored(c) = <<a, b>>
               /\ in_cksum(Sealed(h, flag, payload, Stored(c))) = 0
<1> DEFINE p == Sealed(h, flag, payload, <<0, 0>>)
           N == NumWords(p)
           s == Sums(p)[N]
           c == in_cksum(p)
           q == Sealed(h, flag, payload, Stored(c))
<1>1. 0 \in Byte
  BY SMT DEF Byte
<1>2. /\ p \in Seq(Byte) /\ Len(p) = Len(payload) + 7
      /\ \A i \in 1 .. 4 : p[i] = h[i]
      /\ p[5] = 0 /\ p[6] = 0 /\ p[7] = flag
      /\ \A i \in 1 .. Len(payload) : p[i + 7] = payload[i]
  <2> DEFINE z == <<0, 0>>
  <2>1. p = Sealed(h, flag, payload, z)
    OBVIOUS
  <2>2. Sum2(z) /\ z[1] = 0 /\ z[2] = 0
    BY <1>1 DEF Sum2
  <2> HIDE DEF p, z
  <2>3. Layout(p, h, flag, payload, z)
    BY <2>1, <2>2, SealedBytes, Zenon
  <2> QED BY <2>2, <2>3 DEF Layout
<1>3. Len(payload) \in Nat
  OBVIOUS
<1>4. Len(p) <= MaxPdu /\ 7 <= Len(p) /\ Len(p) \in Nat
  BY <1>2, <1>3, SMT DEF MaxData, MaxPdu
<1>5. c = FoldCarries(s)
  BY DEF in_cksum
<1>6. N \in Nat /\ s \in Nat /\ s <= LongestSum
  BY <1>2, <1>4, SumFits
<1>7. c \in Nat /\ c <= MaxWord /\ FoldCarries(s + c) = 0
  <2> HIDE DEF c, s
  <2> QED BY <1>5, <1>6, FoldSeals, Zenon
<1> HIDE DEF c
<1>8. PICK a \in Byte, b \in Byte : Stored(c) = <<a, b>> /\ a + 256 * b = c
  BY <1>7, StoredBytes, Zenon
<1>9. /\ q \in Seq(Byte) /\ Len(q) = Len(payload) + 7
      /\ \A i \in 1 .. 4 : q[i] = h[i]
      /\ q[5] = a /\ q[6] = b /\ q[7] = flag
      /\ \A i \in 1 .. Len(payload) : q[i + 7] = payload[i]
  <2> DEFINE z == Stored(c)
  <2>1. q = Sealed(h, flag, payload, z)
    BY DEF q
  <2>2. Sum2(z) /\ z[1] = a /\ z[2] = b
    BY <1>8 DEF Sum2
  <2> HIDE DEF q, z
  <2>3. Layout(q, h, flag, payload, z)
    BY <2>1, <2>2, SealedBytes, Zenon
  <2> QED BY <2>2, <2>3 DEF Layout
<1>10. N = NumWords(p) /\ s = Sums(p)[N]
  OBVIOUS
<1> HIDE DEF p, q, N, s
<1>11. ASSUME NEW j \in 1 .. Len(p), j # 2 * 3 - 1, j # 2 * 3 PROVE q[j] = p[j]
  <2>1. j \in 1 .. 4 \/ j = 7 \/ (j - 7 \in 1 .. Len(payload) /\ (j - 7) + 7 = j)
    BY <1>2, <1>3, <1>4, <1>11, SMT
  <2>2. CASE j \in 1 .. 4
    BY <1>2, <1>9, <2>2, Zenon
  <2>3. CASE j = 7
    BY <1>2, <1>9, <2>3, Zenon
  <2>4. CASE j - 7 \in 1 .. Len(payload) /\ (j - 7) + 7 = j
    <3> DEFINE i == j - 7
    <3>1. i \in 1 .. Len(payload) /\ i + 7 = j
      BY <2>4
    <3> HIDE DEF i
    <3>2. q[i + 7] = payload[i] /\ p[i + 7] = payload[i]
      BY <1>2, <1>9, <3>1, Zenon
    <3> QED BY <3>1, <3>2, Zenon
  <2> QED BY <2>1, <2>2, <2>3, <2>4
<1>12. 3 \in 1 .. N
  <2>1. Len(p) <= 2 * N
    BY <1>2, <1>10, WordsOf, Zenon
  <2> QED BY <1>4, <1>6, <2>1, SMT
<1>13. Len(q) = Len(p)
  BY <1>2, <1>9, Zenon
<1>14. /\ NumWords(q) = N
       /\ Sums(q)[N] = s + (WordAt(q, 3) - WordAt(p, 3))
  BY <1>2, <1>9, <1>10, <1>11, <1>12, <1>13, OneWord, Zenon
<1>15. WordAt(p, 3) = 0 /\ WordAt(q, 3) = a + 256 * b
  <2>1. WordAt(p, 3) = p[5] + IF 6 <= Len(p) THEN 256 * p[6] ELSE 0
    BY DEF WordAt
  <2>2. WordAt(q, 3) = q[5] + IF 6 <= Len(q) THEN 256 * q[6] ELSE 0
    BY DEF WordAt
  <2>3. 6 <= Len(p)
    BY <1>4
  <2>4. a \in Int /\ b \in Int
    BY SMT DEF Byte
  <2> QED BY <1>2, <1>9, <1>13, <2>1, <2>2, <2>3, <2>4
<1>16. in_cksum(q) = 0
  <2>1. Sums(q)[N] = s + c
    BY <1>6, <1>7, <1>8, <1>14, <1>15, SMT
  <2>2. in_cksum(q) = FoldCarries(Sums(q)[N])
    BY <1>14, Zenon DEF in_cksum
  <2> QED BY <1>7, <2>1, <2>2
<1> QED BY <1>8, <1>16 DEF c, q, p

\* What retrieveHeader takes out of it.
Fields(pdu, h, payload) ==
    /\ SubSeq(pdu, 1, 4) = h
    /\ SubSeq(pdu, HeaderSize + 1, Len(pdu)) = payload

LEMMA Unpacked ==
    ASSUME NEW h, Head4(h), NEW flag, NEW payload \in Seq(Byte), NEW c,
           NEW pdu, Layout(pdu, h, flag, payload, c)
    PROVE  Fields(pdu, h, payload)
<1>1. /\ pdu \in Seq(Byte) /\ Len(pdu) = Len(payload) + 7
      /\ \A i \in 1 .. 4 : pdu[i] = h[i]
      /\ \A i \in 1 .. Len(payload) : pdu[i + 7] = payload[i]
      /\ h \in Seq(Byte) /\ Len(h) = 4
  BY DEF Layout, Head4
<1>2. Len(payload) \in Nat
  OBVIOUS
<1>3. SubSeq(pdu, 1, 4) = h
  <2> DEFINE t == SubSeq(pdu, 1, 4)
  <2>1. t \in Seq(Byte) /\ Len(t) = 4 /\ \A i \in 1 .. 4 : t[i] = pdu[i]
    BY <1>1, <1>2
  <2> HIDE DEF t
  <2>2. \A i \in 1 .. Len(t) : t[i] = h[i]
    BY <1>1, <2>1
  <2>3. t = h
    BY <1>1, <2>1, <2>2, SeqEqual
  <2> QED BY <2>3 DEF t
<1>4. SubSeq(pdu, 8, Len(pdu)) = payload
  <2> DEFINE t == SubSeq(pdu, 8, Len(pdu))
  <2>1. /\ t \in Seq(Byte) /\ Len(t) = Len(payload)
        /\ \A i \in 1 .. Len(payload) : t[i] = pdu[i + 7]
    BY <1>1, <1>2
  <2> HIDE DEF t
  <2>2. \A i \in 1 .. Len(t) : t[i] = payload[i]
    BY <1>1, <2>1
  <2>3. t = payload
    BY <2>1, <2>2, SeqEqual
  <2> QED BY <2>3 DEF t
<1>5. HeaderSize + 1 = 8
  BY DEF HeaderSize
<1> QED BY <1>3, <1>4, <1>5, Zenon DEF Fields

\* The fields, not yet put in a record.
LEMMA HeaderRead ==
    ASSUME NEW seq, UInt32(seq), NEW flag \in Byte,
           NEW payload \in Seq(Byte), Len(payload) <= MaxData,
           NEW p, p = createHeader(flag, seq, payload)
    PROVE  /\ p \in Seq(Byte) /\ Len(p) = Len(payload) + 7
           /\ in_cksum(p) = 0
           /\ p[7] = flag
           /\ SubSeq(p, 1, 4) = htonl(seq) /\ ntohl(htonl(seq)) = seq
           /\ retrieveHeader(p) = [flag |-> flag, seq |-> seq, payload |-> payload]
<1>1. PICK h : h = htonl(seq)
  OBVIOUS
<1>2. Head4(h) /\ ntohl(h) = seq
  BY <1>1, NumberBytes DEF Head4
<1>3. PICK z : z = Stored(in_cksum(Sealed(h, flag, payload, <<0, 0>>)))
  OBVIOUS
<1>4. p = Sealed(h, flag, payload, z)
  BY <1>1, <1>3 DEF createHeader, Sealed
<1>5. (\E a, b \in Byte : z = <<a, b>>) /\ in_cksum(p) = 0
  <2>1. LET c == in_cksum(Sealed(h, flag, payload, <<0, 0>>))
        IN  /\ \E a, b \in Byte : Stored(c) = <<a, b>>
            /\ in_cksum(Sealed(h, flag, payload, Stored(c))) = 0
    BY <1>2, SealingWorks
  <2> QED BY <1>3, <1>4, <2>1
<1>6. Sum2(z)
  <2>1. PICK a \in Byte, b \in Byte : z = <<a, b>>
    BY <1>5
  <2>2. <<a, b>> \in Seq(Byte) /\ Len(<<a, b>>) = 2
    OBVIOUS
  <2> QED BY <2>1, <2>2 DEF Sum2
<1>7. Layout(p, h, flag, payload, z)
  BY <1>2, <1>4, <1>6, SealedBytes, Zenon
<1>8. Fields(p, h, payload)
  BY <1>2, <1>7, Unpacked, Zenon
<1>9. p \in Seq(Byte) /\ Len(p) = Len(payload) + 7 /\ p[7] = flag
  BY <1>7 DEF Layout
<1>10. retrieveHeader(p) = [flag |-> flag, seq |-> seq, payload |-> payload]
  <2>1. retrieveHeader(p) = [flag    |-> p[7],
                             seq     |-> ntohl(SubSeq(p, 1, 4)),
                             payload |-> SubSeq(p, HeaderSize + 1, Len(p))]
    BY <1>5 DEF retrieveHeader
  <2> QED BY <1>2, <1>8, <1>9, <2>1, Zenon DEF Fields
<1> QED BY <1>1, <1>2, <1>5, <1>8, <1>9, <1>10 DEF Fields

LEMMA RoundTrip ==
    ASSUME NEW f, IsFrame(f)
    PROVE  /\ Bytes(f) \in Seq(Byte) /\ Len(Bytes(f)) <= MaxPdu
           /\ in_cksum(Bytes(f)) = 0
           /\ Bytes(f)[7] = f.flag
           /\ SubSeq(Bytes(f), 1, 4) = htonl(f.seq) /\ ntohl(htonl(f.seq)) = f.seq
           /\ retrieveHeader(Bytes(f)) = f
<1>1. PICK flag, seq, payload : flag = f.flag /\ seq = f.seq /\ payload = f.payload
  OBVIOUS
<1>2. /\ f = [flag |-> flag, seq |-> seq, payload |-> payload]
      /\ flag \in Byte /\ UInt32(seq)
      /\ payload \in Seq(Byte) /\ Len(payload) <= MaxData
  BY <1>1 DEF IsFrame
<1>3. PICK p : p = createHeader(flag, seq, payload)
  OBVIOUS
<1>4. /\ p \in Seq(Byte) /\ Len(p) = Len(payload) + 7
      /\ in_cksum(p) = 0
      /\ p[7] = flag
      /\ SubSeq(p, 1, 4) = htonl(seq) /\ ntohl(htonl(seq)) = seq
      /\ retrieveHeader(p) = [flag |-> flag, seq |-> seq, payload |-> payload]
  BY <1>2, <1>3, HeaderRead
<1>5. Len(p) <= MaxPdu
  BY <1>2, <1>4, SMT DEF MaxData, MaxPdu
<1>6. Bytes(f) = p
  BY <1>1, <1>3 DEF Bytes
<1> QED BY <1>1, <1>2, <1>4, <1>5, <1>6

(***************************************************************************)
(* A packet with an inverted byte is rejected.                             *)
(***************************************************************************)
LEMMA DamageShows ==
    ASSUME NEW p \in Seq(Byte), Len(p) <= MaxPdu, in_cksum(p) = 0,
           NEW i \in 1 .. Len(p)
    PROVE  retrieveHeader(FlipByte(p, i)) = CRC_ERROR
<1> DEFINE N == NumWords(p)
           s == Sums(p)[N]
           q == FlipByte(p, i)
           k == (i + 1) \div 2
           b == p[i]
           d == WordAt(q, k) - WordAt(p, k)
<1>1. b \in Nat /\ b <= 255
  <2>1. b \in Byte
    BY ElementOfSeq
  <2> HIDE DEF b
  <2> QED BY <2>1, SMT DEF Byte
<1>2. 255 - b \in Byte
  <2> HIDE DEF b
  <2> QED BY <1>1, SMT DEF Byte
<1>3. /\ q \in Seq(Byte) /\ Len(q) = Len(p)
      /\ \A j \in 1 .. Len(p) : q[j] = IF j = i THEN 255 - b ELSE p[j]
  <2> DEFINE e == 255 - b
  <2>1. q = [p EXCEPT ![i] = e]
    BY DEF FlipByte
  <2> HIDE DEF e, q
  <2>2. e \in Byte
    BY <1>2 DEF e
  <2>3. /\ [p EXCEPT ![i] = e] \in Seq(Byte) /\ Len([p EXCEPT ![i] = e]) = Len(p)
        /\ \A j \in 1 .. Len(p) : [p EXCEPT ![i] = e][j] = IF j = i THEN e ELSE p[j]
    BY <2>2, ExceptSeq
  <2> QED BY <2>1, <2>3 DEF e
<1>4. N \in Nat /\ s \in Nat /\ s <= LongestSum /\ Len(p) <= 2 * N
  BY SumFits, WordsOf
<1>5. Len(p) \in Nat /\ i \in Nat /\ i <= Len(p) /\ 1 <= i
  OBVIOUS
<1>6. k \in 1 .. N /\ (i = 2 * k - 1 \/ i = 2 * k)
  <2> HIDE DEF N
  <2> QED BY <1>4, <1>5, SMT
<1> HIDE DEF k, b, q
<1>7. \A j \in 1 .. Len(p) : j # 2 * k - 1 /\ j # 2 * k => q[j] = p[j]
  BY <1>3, <1>6
<1>8. NumWords(q) = N /\ Sums(q)[N] = s + d
  BY <1>3, <1>6, <1>7, OneWord
<1>9. d \in Int /\ d # 0 /\ -MaxWord < d /\ d < MaxWord
  <2>1. 2 * k - 1 \in 1 .. Len(p) /\ k \in Nat
    BY <1>6, WordsOf
  <2>2. p[i] = b /\ q[i] = 255 - b
    BY <1>3 DEF b
  <2>3. CASE i = 2 * k
    <3>1. q[2 * k - 1] = p[2 * k - 1] /\ p[2 * k - 1] \in Byte
      <4>1. 2 * k - 1 # i
        BY <2>1, <2>3
      <4> QED BY <1>3, <2>1, <4>1, ElementOfSeq
    <3> DEFINE a == p[2 * k - 1]
    <3>2. a \in Int
      <4> HIDE DEF a
      <4>1. a \in Byte
        BY <3>1 DEF a
      <4> QED BY <4>1, SMT DEF Byte
    <3>3. WordAt(p, k) = a + 256 * b /\ WordAt(q, k) = a + 256 * (255 - b)
      BY <1>3, <1>5, <2>2, <2>3, <3>1 DEF WordAt
    <3> HIDE DEF a
    <3>4. d = 256 * (255 - 2 * b)
      BY <1>1, <3>2, <3>3, SMT
    <3> HIDE DEF d
    <3>5. 255 - 2 * b # 0 /\ 255 - 2 * b <= 255 /\ 255 - 2 * b >= -255
      BY <1>1, SMT
    <3> QED BY <1>1, <3>4, <3>5, SMT DEF MaxWord
  <2>4. CASE i = 2 * k - 1
    <3> DEFINE a == IF 2 * k <= Len(p) THEN 256 * p[2 * k] ELSE 0
    <3>1. 2 * k <= Len(p) => q[2 * k] = p[2 * k] /\ p[2 * k] \in Byte
      <4> SUFFICES ASSUME 2 * k <= Len(p) PROVE q[2 * k] = p[2 * k] /\ p[2 * k] \in Byte
        OBVIOUS
      <4>1. 2 * k # i /\ 2 * k \in 1 .. Len(p)
        BY <2>1, <2>4
      <4> QED BY <1>3, <4>1, ElementOfSeq
    <3>2. a \in Int
      <4>1. CASE 2 * k <= Len(p)
        <5>1. p[2 * k] \in Byte
          BY <3>1, <4>1, Zenon
        <5> DEFINE e == p[2 * k]
        <5>2. e \in Int
          <6> HIDE DEF e
          <6>1. e \in Byte
            BY <5>1 DEF e
          <6> QED BY <6>1, SMT DEF Byte
        <5> QED BY <4>1, <5>2
      <4>2. CASE ~(2 * k <= Len(p))
        BY <4>2
      <4> QED BY <4>1, <4>2
    <3>3. WordAt(p, k) = b + a /\ WordAt(q, k) = (255 - b) + a
      BY <1>3, <2>2, <2>4, <3>1 DEF WordAt
    <3> HIDE DEF a
    <3>4. d = 255 - 2 * b
      BY <1>1, <3>2, <3>3, SMT
    <3> HIDE DEF d
    <3> QED BY <1>1, <3>4, SMT DEF MaxWord
  <2> QED BY <1>6, <2>3, <2>4
<1>10. Sums(q)[N] \in Nat /\ Sums(q)[N] <= LongestSum
  BY <1>3, <1>8, SumFits
<1>11. FoldCarries(s) = 0
  BY DEF in_cksum
<1> HIDE DEF d, s, N
<1>12. FoldCarries(s + d) # 0
  BY <1>4, <1>8, <1>9, <1>10, <1>11, FoldDetects
<1>13. in_cksum(q) # 0
  BY <1>8, <1>12 DEF in_cksum
<1> QED BY <1>13 DEF retrieveHeader, q

-----------------------------------------------------------------------------
(***************************************************************************)
(* The inductive invariant: what is on the wire is what was sent, with at  *)
(* most one byte inverted; an answer's number is the one meant.            *)
(***************************************************************************)
OnTheWire ==
    IF flipped THEN \E i \in 1 .. Len(Bytes(sent)) : wire = FlipByte(Bytes(sent), i)
    ELSE wire = Bytes(sent)

InFlight == phase \in {"client", "server"} => IsFrame(sent) /\ OnTheWire

Accepted ==
    phase = "answer" => /\ ~flipped /\ read = sent
                        /\ IsFrame(sent) /\ cell = Bytes(sent)

Answered ==
    phase = "server" => sent.flag \in {RR, SREJ} /\ RequestedNumber(sent.payload) = meant

Finished == phase = "done" => ReadAsSentOrRejected /\ AnswersNameTheirPacket

WireInv ==
    /\ phase \in {"send", "client", "answer", "server", "done"} /\ flipped \in BOOLEAN
    /\ InFlight /\ Accepted /\ Answered /\ Finished

LEMMA FrameIsNoError ==
    ASSUME NEW f, IsFrame(f)
    PROVE  f # CRC_ERROR
<1>1. f.flag \in Byte
  BY DEF IsFrame
<1>2. f.flag # -145
  <2> DEFINE n == f.flag
  <2>1. n \in Byte
    BY <1>1
  <2> HIDE DEF n
  <2>2. n # -145
    BY <2>1, SMT DEF Byte
  <2> QED BY <2>2 DEF n
<1> QED BY <1>2 DEF CRC_ERROR

\* recv_buf.
LEMMA WhatIsRead ==
    ASSUME IsFrame(sent), OnTheWire, flipped \in BOOLEAN
    PROVE  /\ flipped => retrieveHeader(wire) = CRC_ERROR
           /\ ~flipped => retrieveHeader(wire) = sent
<1>1. /\ Bytes(sent) \in Seq(Byte) /\ Len(Bytes(sent)) <= MaxPdu
      /\ in_cksum(Bytes(sent)) = 0
      /\ retrieveHeader(Bytes(sent)) = sent
  BY RoundTrip
<1>2. CASE ~flipped
  BY <1>1, <1>2 DEF OnTheWire
<1>3. CASE flipped
  <2>1. PICK i \in 1 .. Len(Bytes(sent)) : wire = FlipByte(Bytes(sent), i)
    BY <1>3 DEF OnTheWire
  <2> QED BY <1>1, <1>3, <2>1, DamageShows
<1> QED BY <1>2, <1>3

\* send_buf.
LEMMA WhatIsSent ==
    ASSUME NEW flag \in Byte, NEW seq, UInt32(seq),
           NEW payload \in Seq(Byte), Len(payload) <= MaxData,
           SendBuf(flag, seq, payload)
    PROVE  /\ IsFrame(sent') /\ OnTheWire'
           /\ sent'.flag = flag /\ sent'.payload = payload
<1>1. sent' = [flag |-> flag, seq |-> seq, payload |-> payload]
  BY DEF SendBuf
<1>2. sent'.flag = flag /\ sent'.seq = seq /\ sent'.payload = payload
  BY <1>1
<1>3. IsFrame(sent')
  BY <1>1, <1>2 DEF IsFrame
<1>4. Bytes(sent') = createHeader(flag, seq, payload)
  BY <1>2 DEF Bytes
<1>5. \/ wire' = Bytes(sent') /\ flipped' = FALSE
      \/ flipped' = TRUE /\ \E i \in 1 .. Len(Bytes(sent')) : wire' = FlipByte(Bytes(sent'), i)
  BY <1>4 DEF SendBuf
<1>6. OnTheWire'
  BY <1>5 DEF OnTheWire
<1> QED BY <1>2, <1>3, <1>6

LEMMA FlagsAreBytes == DATA \in Byte /\ END_OF_FILE \in Byte /\ RR \in Byte /\ SREJ \in Byte
BY SMT DEF DATA, END_OF_FILE, RR, SREJ, Byte

LEMMA NumbersAreUInt32 == UInt32(0) /\ \A seq \in SeqNums : UInt32(seq)
<1>1. 0 \div 16777216 = 0
  BY SMT
<1>2. UInt32(0)
  BY <1>1, SMT DEF UInt32, Byte
<1>3. ASSUME NEW seq \in SeqNums PROVE UInt32(seq)
  BY WireAssumption, SMT DEF UInt32
<1> QED BY <1>2, <1>3, Zenon

\* A number as a payload.
LEMMA NumberPayload ==
    ASSUME NEW seq, UInt32(seq)
    PROVE  /\ htonl(seq) \in Seq(Byte) /\ Len(htonl(seq)) <= MaxData
           /\ RequestedNumber(htonl(seq)) = seq
<1>1. htonl(seq) \in Seq(Byte) /\ Len(htonl(seq)) = 4 /\ ntohl(htonl(seq)) = seq
  BY NumberBytes
<1>2. Len(htonl(seq)) <= MaxData
  BY <1>1, SMT DEF MaxData
<1> QED BY <1>1, <1>2, Zenon DEF RequestedNumber

LEMMA PayloadsFit ==
    ASSUME NEW data \in Payloads
    PROVE  data \in Seq(Byte) /\ Len(data) <= MaxData
<1>1. PICK n \in 1 .. MaxPayload : data \in [1 .. n -> PayloadBytes]
  BY DEF Payloads
<1>2. n \in Nat /\ n <= MaxData /\ PayloadBytes \subseteq Byte
  BY <1>1, WireAssumption, SMT DEF MaxData
<1>3. data \in [1 .. n -> Byte]
  BY <1>1, <1>2, Zenon
<1> QED BY <1>2, <1>3

-----------------------------------------------------------------------------
LEMMA InvInit == Init => WireInv
BY DEF Init, WireInv, InFlight, Accepted, Answered, Finished

LEMMA InvNext ==
    ASSUME WireInv, [Next]_vars
    PROVE  WireInv'
<1> USE FlagsAreBytes, NumbersAreUInt32
<1>1. CASE ServerSends
  <2>1. PICK flag \in {DATA, END_OF_FILE}, seq \in SeqNums, payload \in Seq(Byte) :
           Len(payload) <= MaxData /\ SendBuf(flag, seq, payload)
    <3>1. PICK seq \in SeqNums :
            \/ \E data \in Payloads : SendBuf(DATA, seq, data)
            \/ \E b \in PayloadBytes : SendBuf(END_OF_FILE, seq, <<b>>)
      BY <1>1 DEF ServerSends
    <3>2. CASE \E data \in Payloads : SendBuf(DATA, seq, data)
      BY <3>2, PayloadsFit
    <3>3. CASE \E b \in PayloadBytes : SendBuf(END_OF_FILE, seq, <<b>>)
      <4>1. PICK b \in PayloadBytes : SendBuf(END_OF_FILE, seq, <<b>>)
        BY <3>3
      <4>2. b \in Byte
        BY WireAssumption
      <4>3. <<b>> \in Seq(Byte) /\ Len(<<b>>) <= MaxData
        BY <4>2, SMT DEF MaxData
      <4> QED BY <4>1, <4>3
    <3> QED BY <3>1, <3>2, <3>3
  <2>2. IsFrame(sent') /\ OnTheWire' /\ flipped' \in BOOLEAN
    <3>1. flag \in Byte /\ UInt32(seq)
      BY Zenon
    <3>2. flipped' \in BOOLEAN
      BY <2>1 DEF SendBuf
    <3> QED BY <2>1, <3>1, <3>2, WhatIsSent
  <2>3. phase' = "client"
    BY <1>1 DEF ServerSends
  <2> QED BY <2>2, <2>3 DEF WireInv, InFlight, Accepted, Answered, Finished
<1>2. CASE ClientReads
  <2>1. /\ phase = "client" /\ IsFrame(sent) /\ OnTheWire /\ flipped \in BOOLEAN
        /\ UNCHANGED <<sent, wire, flipped, meant, number>>
        /\ read' = retrieveHeader(wire)
    BY <1>2 DEF ClientReads, WireInv, InFlight
  <2>2. sent # CRC_ERROR
    BY <2>1, FrameIsNoError
  <2>3. CASE flipped
    <3>1. read' = CRC_ERROR
      BY <2>1, <2>3, WhatIsRead
    <3>2. phase' = "done"
      BY <1>2, <3>1 DEF ClientReads
    <3>3. CRC_ERROR.flag \notin {RR, SREJ}
      BY SMT DEF CRC_ERROR, RR, SREJ
    <3> QED BY <2>1, <2>3, <3>1, <3>2, <3>3
            DEF WireInv, InFlight, Accepted, Answered, Finished,
                ReadAsSentOrRejected, AnswersNameTheirPacket
  <2>4. CASE ~flipped
    <3>1. read' = sent
      BY <2>1, <2>4, WhatIsRead
    <3>2. phase' = "answer" /\ cell' = Bytes(sent)
      BY <1>2, <2>2, <3>1 DEF ClientReads, Bytes
    <3>3. IsFrame(sent') /\ cell' = Bytes(sent') /\ read' = sent' /\ ~flipped'
      BY <2>1, <2>4, <3>1, <3>2
    <3> QED BY <2>1, <3>2, <3>3 DEF WireInv, InFlight, Accepted, Answered, Finished
  <2> QED BY <2>3, <2>4
<1>3. CASE ClientSendsRR
  <2>1. phase = "answer" /\ read = sent /\ IsFrame(sent) /\ cell = Bytes(sent)
    BY <1>3 DEF ClientSendsRR, WireInv, Accepted
  <2>2. SendBuf(RR, 0, RRPayload(cell)) /\ meant' = read.seq /\ phase' = "server"
    BY <1>3 DEF ClientSendsRR
  <2>3. RRPayload(cell) = htonl(read.seq) /\ UInt32(read.seq)
    BY <2>1, RoundTrip DEF RRPayload, IsFrame
  <2>4. /\ htonl(read.seq) \in Seq(Byte) /\ Len(htonl(read.seq)) <= MaxData
        /\ RequestedNumber(htonl(read.seq)) = read.seq
    BY <2>3, NumberPayload
  <2>5. SendBuf(RR, 0, htonl(read.seq)) /\ flipped' \in BOOLEAN
    BY <2>2, <2>3 DEF SendBuf
  <2>6. IsFrame(sent') /\ OnTheWire' /\ sent'.flag = RR /\ sent'.payload = htonl(read.seq)
    BY <2>4, <2>5, WhatIsSent
  <2>7. RequestedNumber(sent'.payload) = meant'
    BY <2>2, <2>4, <2>6
  <2> QED BY <2>2, <2>5, <2>6, <2>7 DEF WireInv, InFlight, Accepted, Answered, Finished
<1>4. CASE ClientSendsSrej
  <2>1. PICK seq \in SeqNums : SendBuf(SREJ, 0, SREJPayload(seq)) /\ meant' = seq
    BY <1>4 DEF ClientSendsSrej
  <2>2. phase' = "server" /\ UInt32(seq)
    BY <1>4 DEF ClientSendsSrej
  <2>3. /\ htonl(seq) \in Seq(Byte) /\ Len(htonl(seq)) <= MaxData
        /\ RequestedNumber(htonl(seq)) = seq
    BY <2>2, NumberPayload
  <2>4. SendBuf(SREJ, 0, htonl(seq)) /\ flipped' \in BOOLEAN
    BY <2>1 DEF SendBuf, SREJPayload
  <2>5. IsFrame(sent') /\ OnTheWire' /\ sent'.flag = SREJ /\ sent'.payload = htonl(seq)
    BY <2>3, <2>4, WhatIsSent
  <2>6. RequestedNumber(sent'.payload) = meant'
    BY <2>1, <2>3, <2>5
  <2> QED BY <2>2, <2>4, <2>5, <2>6 DEF WireInv, InFlight, Accepted, Answered, Finished
<1>5. CASE ServerReads
  <2>1. /\ phase = "server" /\ IsFrame(sent) /\ OnTheWire /\ flipped \in BOOLEAN
        /\ RequestedNumber(sent.payload) = meant
        /\ UNCHANGED <<sent, wire, flipped, cell, meant>>
        /\ read' = retrieveHeader(wire) /\ phase' = "done"
        /\ number' = IF read' = CRC_ERROR THEN number ELSE RequestedNumber(read'.payload)
    BY <1>5 DEF ServerReads, WireInv, InFlight, Answered
  <2>2. sent # CRC_ERROR
    BY <2>1, FrameIsNoError
  <2>3. CASE flipped
    <3>1. read' = CRC_ERROR
      BY <2>1, <2>3, WhatIsRead
    <3>2. CRC_ERROR.flag \notin {RR, SREJ}
      BY SMT DEF CRC_ERROR, RR, SREJ
    <3> QED BY <2>1, <2>3, <3>1, <3>2
            DEF WireInv, InFlight, Accepted, Answered, Finished,
                ReadAsSentOrRejected, AnswersNameTheirPacket
  <2>4. CASE ~flipped
    <3>1. read' = sent
      BY <2>1, <2>4, WhatIsRead
    <3>2. number' = meant'
      BY <2>1, <2>2, <3>1
    <3> QED BY <2>1, <2>4, <3>1, <3>2
            DEF WireInv, InFlight, Accepted, Answered, Finished,
                ReadAsSentOrRejected, AnswersNameTheirPacket
  <2> QED BY <2>3, <2>4
<1>6. CASE UNCHANGED vars
  BY <1>6 DEF vars, WireInv, InFlight, Accepted, Answered, Finished, OnTheWire,
              ReadAsSentOrRejected, AnswersNameTheirPacket, JustRead
<1> QED BY <1>1, <1>2, <1>3, <1>4, <1>5, <1>6 DEF Next, Done

LEMMA WireInvariance == Spec => []WireInv
<1>1. Init => WireInv
  BY InvInit
<1>2. WireInv /\ [Next]_vars => WireInv'
  BY InvNext
<1> QED BY <1>1, <1>2, PTL DEF Spec

(***************************************************************************)
(* Whatever numbers and bytes an exchange is about, and whichever byte is  *)
(* inverted: recv_buf rejects a damaged packet and returns the fields of   *)
(* any other as they were given to send_buf (createHeader, in_cksum,       *)
(* retrieveHeader, errorFlipBits).                                         *)
(***************************************************************************)
THEOREM ChecksumDetects == Spec => []ReadAsSentOrRejected
<1>1. WireInv => ReadAsSentOrRejected
  BY DEF WireInv, Accepted, Finished, ReadAsSentOrRejected, JustRead
<1> QED BY <1>1, WireInvariance, PTL

(***************************************************************************)
(* The number process_rr or process_srej reads out of any answer is the    *)
(* number dequeue_data or recv_data put there.                             *)
(***************************************************************************)
THEOREM AnswersNamed == Spec => []AnswersNameTheirPacket
<1>1. WireInv => AnswersNameTheirPacket
  BY DEF WireInv, Finished, AnswersNameTheirPacket
<1> QED BY <1>1, WireInvariance, PTL
=============================================================================
