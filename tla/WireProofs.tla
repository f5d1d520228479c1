----------------------------- MODULE WireProofs -----------------------------
(***************************************************************************)
(* Theorems about Wire, for texts, ids and user lists of every size that   *)
(* fit their fields: what a request and an answer are when they arrive.    *)
(***************************************************************************)
EXTENDS Wire, SequenceTheorems, WellFoundedInduction, TLAPS

(* The library's CHOOSE of a least element finds one.                      *)
LEMMA NatSetHasMin ==
  ASSUME NEW I, I \subseteq Nat, I # {}
  PROVE  /\ Min(I) \in I
         /\ \A j \in I : Min(I) <= j
<1> DEFINE R == {ss \in Nat \X Nat : ss[1] < ss[2]}
<1>0. OpToRel(<, Nat) = R
  BY DEF OpToRel
<1>1. IsWellFoundedOn(R, Nat)
  BY <1>0, NatLessThanWellFounded, Zenon
<1>2. PICK m \in I : \A y \in I : ~ (<<y, m>> \in R)
  <2> HIDE DEF R
  <2> QED BY <1>1, WFMin, Zenon
<1>3. \A y \in I : m <= y
  <2> TAKE y \in I
  <2>1. ~ (<<y, m>> \in R)
    BY <1>2
  <2>2. <<y, m>> \in Nat \X Nat
    BY SMT
  <2>3. ~ (y < m)
    BY <2>1, <2>2, Zenon
  <2> QED BY <2>3
<1> QED BY <1>3 DEF Min

(* A byte and a 16-bit word. *)
LEMMA Widths ==
  /\ \A x \in Int : x \in Byte <=> 0 <= x /\ x < 256
  /\ \A x \in Int : x \in Word <=> 0 <= x /\ x < 65536
  /\ Byte \subseteq Nat /\ Word \subseteq Nat
<1>0. \A n \in Nat : \A x \in Int : x \in 0 .. n <=> 0 <= x /\ x <= n
  OBVIOUS
<1>1. \A x \in Int : x \in Byte <=> 0 <= x /\ x < 256
  <2>1. 255 \in Nat /\ \A x \in Int : x <= 255 <=> x < 256
    OBVIOUS
  <2>2. \A x \in Int : x \in Byte <=> 0 <= x /\ x <= 255
    BY ONLY <1>0, <2>1, Zenon DEF Byte
  <2> QED BY ONLY <2>1, <2>2
<1>2. \A x \in Int : x \in Word <=> 0 <= x /\ x < 65536
  <2> DEFINE top == 65535
  <2>1. top \in Nat /\ \A x \in Int : x <= top <=> x < 65536
    OBVIOUS
  <2>2. Word = 0 .. top
    BY SMT DEF Word
  <2> HIDE DEF top
  <2> QED BY ONLY <1>0, <2>1, <2>2
<1>3. Byte \subseteq Nat
  BY DEF Byte
<1>4. Word \subseteq Nat
  BY DEF Word
<1> QED BY ONLY <1>1, <1>2, <1>3, <1>4

(* A word goes in two bytes, high byte first, and comes back. *)
LEMMA Packed ==
  ASSUME NEW x \in Word
  PROVE  /\ x \div 256 \in Byte /\ x % 256 \in Byte
         /\ packi16(x) = <<x \div 256, x % 256>>
         /\ 256 * (x \div 256) + (x % 256) = x
<1>1. x \in Nat /\ x < 65536
  BY Widths
<1>2. x \div 256 \in Nat /\ x % 256 \in Nat
  BY ONLY <1>1
<1>3. x \div 256 < 256 /\ x % 256 < 256 /\ 256 * (x \div 256) + (x % 256) = x
  BY ONLY <1>1
<1>4. (x \div 256) % 256 = x \div 256
  <2> DEFINE q == x \div 256
  <2>1. q \in Nat /\ q < 256
    BY ONLY <1>2, <1>3
  <2> HIDE DEF q
  <2>2. q % 256 = q
    BY ONLY <2>1
  <2> QED BY ONLY <2>2 DEF q
<1>5. packi16(x) = <<x \div 256, x % 256>>
  BY ONLY <1>4 DEF packi16
<1>6. x \div 256 \in Byte /\ x % 256 \in Byte
  BY ONLY <1>2, <1>3, Widths
<1> QED BY ONLY <1>3, <1>5, <1>6

(* What the limit of the parser leaves of a text. *)
Parsed(t) == IF Len(t) <= MaxStr THEN t ELSE SubSeq(t, 1, MaxStr - 1)

(* A field of text behind other bytes is read as far as the limit goes.    *)
LEMMA FieldRead ==
  ASSUME NEW pre \in Seq(Byte), NEW t \in Seq(Byte), Len(t) \in Word,
         NEW w, w = pre \o StringField(t)
  PROVE  /\ w \in Seq(Byte)
         /\ StringAt(w, Len(pre) + 1) = Parsed(t)
         /\ \A k \in 1 .. Len(pre) : w[k] = pre[k]
<1> DEFINE n == Len(t)
           p == Len(pre)
           hi == n \div 256
           lo == n % 256
           head == <<hi, lo>>
           field == head \o t
<1>0. /\ n \in Nat /\ p \in Nat
      /\ hi \in Byte /\ lo \in Byte /\ 256 * hi + lo = n
      /\ packi16(n) = head
  BY Packed
<1>1. StringField(t) = field
  BY <1>0 DEF StringField
<1>2. head \in Seq(Byte) /\ Len(head) = 2 /\ head[1] = hi /\ head[2] = lo
  BY <1>0
<1> HIDE DEF n, p, hi, lo, head
<1>3. /\ field \in Seq(Byte) /\ Len(field) = 2 + n
      /\ field[1] = hi /\ field[2] = lo
      /\ \A k \in 1 .. n : field[2 + k] = t[k]
  <2>1. /\ field \in Seq(Byte) /\ Len(field) = Len(head) + Len(t)
        /\ \A k \in 1 .. Len(head) + Len(t) :
             field[k] = IF k <= Len(head) THEN head[k] ELSE t[k - Len(head)]
    BY ONLY <1>2, ConcatProperties
  <2>2. /\ \A k \in 1 .. n : 2 + k \in 1 .. 2 + n /\ ~ (2 + k <= 2) /\ (2 + k) - 2 = k
        /\ 1 \in 1 .. 2 + n /\ 2 \in 1 .. 2 + n
    BY ONLY <1>0
  <2>3. Len(t) = n
    BY DEF n
  <2> HIDE DEF field
  <2> QED BY ONLY <1>2, <2>1, <2>2, <2>3
<1> HIDE DEF field
<1>4. /\ w \in Seq(Byte) /\ Len(w) = p + (2 + n)
      /\ \A k \in 1 .. p : w[k] = pre[k]
      /\ \A k \in 1 .. 2 + n : w[p + k] = field[k]
  <2>1. /\ pre \o field \in Seq(Byte) /\ Len(pre \o field) = Len(pre) + Len(field)
        /\ \A k \in 1 .. Len(pre) + Len(field) :
             (pre \o field)[k] = IF k <= Len(pre) THEN pre[k] ELSE field[k - Len(pre)]
    BY ONLY <1>3, ConcatProperties
  <2>2. w = pre \o field
    BY ONLY <1>1, w = pre \o StringField(t)
  <2>3. /\ \A k \in 1 .. 2 + n : p + k \in 1 .. p + (2 + n) /\ ~ (p + k <= p) /\ (p + k) - p = k
        /\ \A k \in 1 .. p : k \in 1 .. p + (2 + n) /\ k <= p
    BY ONLY <1>0
  <2>4. Len(pre) = p
    BY DEF p
  <2> QED BY ONLY <1>3, <2>1, <2>2, <2>3, <2>4
<1>5. unpacku16(w, p + 1) = n
  <2>1. 1 \in 1 .. 2 + n /\ 2 \in 1 .. 2 + n /\ (p + 1) + 1 = p + 2
    BY ONLY <1>0
  <2>2. w[p + 1] = hi /\ w[p + 2] = lo
    BY ONLY <1>3, <1>4, <2>1
  <2> QED BY ONLY <1>0, <2>1, <2>2 DEF unpacku16
<1> DEFINE c == CountWithin(n)
<1>6. c \in Nat /\ c <= n /\ c = IF n > MaxStr THEN MaxStr - 1 ELSE n
  <2>1. MaxStr \in Nat /\ MaxStr > 1
    BY ConstantsAssumption DEF HEADER
  <2> QED BY ONLY <1>0, <2>1 DEF CountWithin
<1> HIDE DEF c
<1>7. StringAt(w, p + 1) = SubSeq(w, p + 3, p + 2 + c)
  <2>1. (p + 1) + 2 = p + 3 /\ (p + 1) + 1 + c = p + 2 + c
    BY ONLY <1>0, <1>6
  <2> QED BY ONLY <1>5, <2>1 DEF StringAt, c
<1>8. SubSeq(w, p + 3, p + 2 + c) = SubSeq(t, 1, c)
  <2> DEFINE a == SubSeq(w, p + 3, p + 2 + c)
             b == SubSeq(t, 1, c)
  <2>1. /\ a \in Seq(Byte) /\ Len(a) = c
        /\ \A k \in 1 .. c : a[k] = w[p + (2 + k)]
    <3> DEFINE m == p + 3
               l == p + 2 + c
    <3>1. /\ m \in Int /\ l \in Int /\ l - m + 1 = c
          /\ (IF m <= l THEN l - m + 1 ELSE 0) = c
          /\ \A k \in m .. l : k \in 1 .. Len(w)
          /\ \A k \in 1 .. c : m + k - 1 = p + (2 + k)
      <4>1. p \in Nat /\ n \in Nat /\ c \in Nat /\ c <= n /\ Len(w) = p + (2 + n)
        BY ONLY <1>0, <1>4, <1>6
      <4>2. m \in Int /\ l \in Int /\ l - m + 1 = c
        BY ONLY <4>1
      <4>3. (IF m <= l THEN l - m + 1 ELSE 0) = c
        BY ONLY <4>1
      <4>4. \A k \in m .. l : k \in 1 .. Len(w)
        BY ONLY <4>1
      <4>5. \A k \in 1 .. c : m + k - 1 = p + (2 + k)
        BY ONLY <4>1
      <4> QED BY ONLY <4>2, <4>3, <4>4, <4>5
    <3> HIDE DEF m, l
    <3>2. \A k \in m .. l : w[k] \in Byte
      BY ONLY <1>4, <3>1
    <3>3. /\ SubSeq(w, m, l) \in Seq(Byte)
          /\ Len(SubSeq(w, m, l)) = IF m <= l THEN l - m + 1 ELSE 0
          /\ \A k \in 1 .. l - m + 1 : SubSeq(w, m, l)[k] = w[m + k - 1]
      BY ONLY <3>1, <3>2, SubSeqProperties
    <3>4. a = SubSeq(w, m, l)
      BY DEF m, l
    <3> HIDE DEF a
    <3> QED BY ONLY <3>1, <3>3, <3>4
  <2>2. /\ b \in Seq(Byte) /\ Len(b) = c
        /\ \A k \in 1 .. c : b[k] = t[k]
    <3>1. Len(t) = n
      BY DEF n
    <3> QED BY ONLY <1>0, <1>6, <3>1, t \in Seq(Byte), SubSeqProperties
  <2>3. \A k \in 1 .. c : w[p + (2 + k)] = t[k]
    <3>1. \A k \in 1 .. c : k \in 1 .. n /\ 2 + k \in 1 .. 2 + n
      BY ONLY <1>0, <1>6
    <3> QED BY ONLY <1>3, <1>4, <3>1
  <2> HIDE DEF a, b
  <2>4. \A k \in 1 .. Len(a) : a[k] = b[k]
    BY ONLY <2>1, <2>2, <2>3
  <2>5. a = b
    BY ONLY <2>1, <2>2, <2>4, SeqEqual
  <2> QED BY ONLY <2>5 DEF a, b
<1>9. SubSeq(t, 1, c) = Parsed(t)
  <2>1. Len(t) = n
    BY DEF n
  <2>2. MaxStr \in Nat
    BY Widths, ConstantsAssumption
  <2>3. CASE n > MaxStr
    <3>1. ~ (Len(t) <= MaxStr) /\ c = MaxStr - 1
      BY ONLY <1>0, <1>6, <2>1, <2>2, <2>3
    <3> QED BY ONLY <3>1 DEF Parsed
  <2>4. CASE ~ (n > MaxStr)
    <3>1. Len(t) <= MaxStr /\ c = Len(t)
      BY ONLY <1>0, <1>6, <2>1, <2>2, <2>4
    <3>2. SubSeq(t, 1, Len(t)) = t
      BY ONLY t \in Seq(Byte)
    <3> QED BY ONLY <3>1, <3>2 DEF Parsed
  <2> QED BY ONLY <2>3, <2>4
<1>10. StringAt(w, Len(pre) + 1) = Parsed(t)
  BY ONLY <1>7, <1>8, <1>9 DEF p
<1> QED BY ONLY <1>4, <1>10 DEF p

(* What can stand in a text. *)
NoZero == Byte \ {0}

(* strlen stops at the first zero, or where the bytes end. *)
StopsAt(b, z) ==
  /\ z \in 1 .. Len(b) + 1
  /\ \A k \in 1 .. z - 1 : b[k] # 0
  /\ z <= Len(b) => b[z] = 0

(* There is one such place, so CString ends there. *)
LEMMA StopIsOnly ==
  ASSUME NEW b \in Seq(Byte), NEW z, StopsAt(b, z)
  PROVE  CString(b) = SubSeq(b, 1, z - 1)
<1> DEFINE zero == CHOOSE y \in 1 .. Len(b) + 1 :
                     /\ \A k \in 1 .. y - 1 : b[k] # 0
                     /\ y <= Len(b) => b[y] = 0
<1>1. StopsAt(b, zero)
  BY DEF StopsAt
<1>2. CString(b) = SubSeq(b, 1, zero - 1)
  BY DEF CString
<1> HIDE DEF zero
<1>3. zero = z
  <2>1. /\ Len(b) \in Nat
        /\ zero \in 1 .. Len(b) + 1 /\ \A k \in 1 .. zero - 1 : b[k] # 0
        /\ zero <= Len(b) => b[zero] = 0
        /\ z \in 1 .. Len(b) + 1 /\ \A k \in 1 .. z - 1 : b[k] # 0
        /\ z <= Len(b) => b[z] = 0
    BY <1>1 DEF StopsAt
  <2>2. ~ (zero < z)
    <3> SUFFICES ASSUME zero < z PROVE FALSE
      OBVIOUS
    <3>1. zero \in 1 .. z - 1 /\ zero <= Len(b)
      BY ONLY <2>1, zero < z
    <3> QED BY ONLY <2>1, <3>1
  <2>3. ~ (z < zero)
    <3> SUFFICES ASSUME z < zero PROVE FALSE
      OBVIOUS
    <3>1. z \in 1 .. zero - 1 /\ z <= Len(b)
      BY ONLY <2>1, z < zero
    <3> QED BY ONLY <2>1, <3>1
  <2> QED BY ONLY <2>1, <2>2, <2>3
<1> QED BY ONLY <1>2, <1>3

LEMMA StopExists ==
  ASSUME NEW b \in Seq(Byte)
  PROVE  \E z : StopsAt(b, z)
<1> DEFINE Z == {z \in 1 .. Len(b) + 1 : z <= Len(b) => b[z] = 0}
           z == Min(Z)
<1>1. Len(b) \in Nat
  OBVIOUS
<1>2. Z \subseteq Nat /\ Len(b) + 1 \in Z
  BY ONLY <1>1
<1>3. z \in Z /\ \A y \in Z : z <= y
  <2> HIDE DEF Z
  <2> QED BY ONLY <1>2, NatSetHasMin
<1> HIDE DEF z
<1>4. \A k \in 1 .. z - 1 : b[k] # 0
  <2> SUFFICES ASSUME NEW k \in 1 .. z - 1, b[k] = 0 PROVE FALSE
    OBVIOUS
  <2>1. k \in 1 .. Len(b) + 1 /\ ~ (z <= k)
    BY ONLY <1>1, <1>3, k \in 1 .. z - 1
  <2> QED BY ONLY <1>3, <2>1, b[k] = 0
<1> QED BY ONLY <1>3, <1>4 DEF StopsAt

(* What strlen counts has no zero in it, and text without one is counted   *)
(* to its end.                                                             *)
LEMMA CStringFacts ==
  ASSUME NEW b \in Seq(Byte)
  PROVE  CString(b) \in Seq(NoZero) /\ Len(CString(b)) <= Len(b)
<1>1. PICK z : StopsAt(b, z)
  BY StopExists
<1> DEFINE l == z - 1
<1>2. /\ Len(b) \in Nat /\ l \in Nat /\ l <= Len(b)
      /\ \A k \in 1 .. l : k \in 1 .. Len(b)
  BY <1>1 DEF StopsAt
<1>3. \A k \in 1 .. l : b[k] \in NoZero
  BY <1>1, <1>2 DEF StopsAt, NoZero
<1>4. CString(b) = SubSeq(b, 1, l)
  BY <1>1, StopIsOnly
<1> HIDE DEF l
<1>5. 1 \in Int /\ l \in Int /\ l - 1 + 1 = l /\ (IF 1 <= l THEN l - 1 + 1 ELSE 0) = l
  BY ONLY <1>2
<1>6. /\ SubSeq(b, 1, l) \in Seq(NoZero)
      /\ Len(SubSeq(b, 1, l)) = IF 1 <= l THEN l - 1 + 1 ELSE 0
  BY ONLY <1>3, <1>5, SubSeqProperties
<1> QED BY ONLY <1>2, <1>4, <1>5, <1>6

(* strlen of a text is its length. *)
LEMMA CStringId ==
  ASSUME NEW b \in Seq(NoZero)
  PROVE  CString(b) = b
<1>1. b \in Seq(Byte) /\ Len(b) \in Nat /\ \A k \in 1 .. Len(b) : b[k] # 0
  BY DEF NoZero
<1>2. StopsAt(b, Len(b) + 1)
  <2>1. (Len(b) + 1) - 1 = Len(b) /\ Len(b) + 1 \in 1 .. Len(b) + 1 /\ ~ (Len(b) + 1 <= Len(b))
    BY ONLY <1>1
  <2> QED BY ONLY <1>1, <2>1 DEF StopsAt
<1>3. CString(b) = SubSeq(b, 1, (Len(b) + 1) - 1)
  BY <1>1, <1>2, StopIsOnly
<1>4. (Len(b) + 1) - 1 = Len(b)
  BY ONLY <1>1
<1>5. SubSeq(b, 1, Len(b)) = b
  BY ONLY <1>1
<1> QED BY ONLY <1>3, <1>4, <1>5

(* What a recv brings is the beginning of a text. *)
LEMMA CutFacts ==
  ASSUME NEW S, NEW t \in Seq(S)
  PROVE  /\ Cut(t) \in Seq(S)
         /\ Len(Cut(t)) = IF Len(t) < MaxStr - 3 THEN Len(t) ELSE MaxStr - 3
         /\ \A k \in 1 .. Len(Cut(t)) : Cut(t)[k] = t[k]
         /\ t # <<>> => Cut(t) # <<>> /\ Cut(t)[1] = t[1]
<1> DEFINE l == IF Len(t) < MaxStr - 3 THEN Len(t) ELSE MaxStr - 3
<1>0. MaxStr \in Nat /\ MaxStr > 3 /\ Len(t) \in Nat
  BY ConstantsAssumption DEF HEADER
<1>1. /\ 1 \in Int /\ l \in Nat /\ l - 1 + 1 = l /\ (IF 1 <= l THEN l - 1 + 1 ELSE 0) = l
      /\ \A k \in 1 .. l : k \in 1 .. Len(t) /\ 1 + k - 1 = k
      /\ Len(t) # 0 => 1 \in 1 .. l
  BY ONLY <1>0
<1>2. Cut(t) = SubSeq(t, 1, l)
  BY DEF Cut, HEADER
<1>3. l = IF Len(t) < MaxStr - 3 THEN Len(t) ELSE MaxStr - 3
  OBVIOUS
<1> HIDE DEF l
<1>4. \A k \in 1 .. l : t[k] \in S
  BY ONLY <1>1, t \in Seq(S)
<1>5. /\ Cut(t) \in Seq(S) /\ Len(Cut(t)) = l
      /\ \A k \in 1 .. l : Cut(t)[k] = t[k]
  BY ONLY <1>1, <1>2, <1>4, SubSeqProperties
<1>6. t # <<>> => Cut(t) # <<>> /\ Cut(t)[1] = t[1]
  <2> SUFFICES ASSUME t # <<>> PROVE Cut(t) # <<>> /\ Cut(t)[1] = t[1]
    OBVIOUS
  <2>1. Len(t) # 0
    BY ONLY t # <<>>, t \in Seq(S)
  <2>2. 1 \in 1 .. l /\ l # 0
    BY ONLY <1>1, <2>1
  <2> DEFINE empty == <<>>
  <2>3. Len(empty) = 0
    OBVIOUS
  <2>4. Cut(t) # empty
    BY ONLY <1>5, <2>2, <2>3
  <2> QED BY ONLY <1>5, <2>2, <2>4
<1> QED BY ONLY <1>3, <1>5, <1>6

(* Only the first byte decides whether strlen is 0. *)
LEMMA CStringHead ==
  ASSUME NEW b \in Seq(Byte), b # <<>>
  PROVE  /\ b[1] = 0 => CString(b) = <<>>
         /\ b[1] # 0 => CString(b) # <<>> /\ CString(b)[1] = b[1]
<1>0. Len(b) \in Nat /\ Len(b) >= 1
  OBVIOUS
<1>1. PICK z : StopsAt(b, z)
  BY StopExists
<1> DEFINE l == z - 1
<1>2. /\ z \in Nat /\ z >= 1 /\ l \in Nat /\ l <= Len(b) /\ z = l + 1
      /\ \A k \in 1 .. l : b[k] # 0
      /\ z <= Len(b) => b[z] = 0
  BY <1>0, <1>1 DEF StopsAt
<1>3. CString(b) = SubSeq(b, 1, l)
  BY <1>1, StopIsOnly
<1> HIDE DEF l
<1>4. CASE b[1] = 0
  <2>1. ~ (1 \in 1 .. l)
    BY ONLY <1>2, <1>4
  <2>2. l < 1
    BY ONLY <1>2, <2>1
  <2>3. SubSeq(b, 1, l) = <<>>
    BY ONLY <1>2, <2>2, SubSeqEmpty
  <2> QED BY ONLY <1>3, <1>4, <2>3
<1>5. CASE b[1] # 0
  <2>1. l # 0
    BY ONLY <1>0, <1>2, <1>5
  <2>2. /\ 1 \in Int /\ l \in Int /\ (IF 1 <= l THEN l - 1 + 1 ELSE 0) = l
        /\ l - 1 + 1 = l /\ 1 \in 1 .. l /\ l # 0 /\ 1 + 1 - 1 = 1
        /\ \A k \in 1 .. l : k \in 1 .. Len(b)
    BY ONLY <1>0, <1>2, <2>1
  <2>3. \A k \in 1 .. l : b[k] \in Byte
    BY ONLY <2>2, b \in Seq(Byte)
  <2>4. /\ SubSeq(b, 1, l) \in Seq(Byte)
        /\ Len(SubSeq(b, 1, l)) = IF 1 <= l THEN l - 1 + 1 ELSE 0
        /\ \A k \in 1 .. l - 1 + 1 : SubSeq(b, 1, l)[k] = b[1 + k - 1]
    BY ONLY <2>2, <2>3, SubSeqProperties
  <2>5. SubSeq(b, 1, l)[1] = b[1]
    BY ONLY <2>2, <2>4
  <2> DEFINE empty == <<>>
  <2>6. Len(empty) = 0
    OBVIOUS
  <2>7. SubSeq(b, 1, l) # empty
    BY ONLY <2>2, <2>4, <2>6
  <2> QED BY ONLY <1>3, <1>5, <2>5, <2>7
<1> QED BY ONLY <1>4, <1>5

(* The data of an answer with an id. *)
LEMMA IdData ==
  ASSUME NEW id \in Word, NEW b \in Byte
  PROVE  LET data == InMemory(id) \o <<b, 0>>
         IN  data \in Seq(Byte) /\ Len(data) = 4 /\ data # <<>> /\ data[1] = id % 256
<1> DEFINE lo == id % 256
           hi == id \div 256
<1>1. lo \in Byte /\ hi \in Byte /\ 0 \in Byte
  BY Packed, Widths
<1>2. InMemory(id) = <<lo, hi>>
  BY DEF InMemory
<1> HIDE DEF lo, hi
<1> DEFINE front == <<lo, hi>>
           back == <<b, 0>>
           data == front \o back
<1>3. front \in Seq(Byte) /\ Len(front) = 2 /\ front[1] = lo
  BY <1>1
<1>4. back \in Seq(Byte) /\ Len(back) = 2
  BY <1>1
<1>5. data = InMemory(id) \o back
  BY <1>2
<1> HIDE DEF front, back
<1>6. /\ data \in Seq(Byte) /\ Len(data) = Len(front) + Len(back)
      /\ \A k \in 1 .. Len(front) + Len(back) :
           data[k] = IF k <= Len(front) THEN front[k] ELSE back[k - Len(front)]
  BY ONLY <1>3, <1>4, ConcatProperties
<1> HIDE DEF data
<1>7. data \in Seq(Byte) /\ Len(data) = 4 /\ data[1] = lo
  BY ONLY <1>3, <1>4, <1>6
<1>8. data # <<>>
  <2>1. data = <<>> <=> Len(data) = 0
    BY ONLY <1>7, EmptySeq, Zenon
  <2> QED BY ONLY <1>7, <2>1
<1> QED BY ONLY <1>5, <1>7, <1>8 DEF lo, back

(* strtol stops within the text or behind it.                              *)
LEMMA NumberEnds ==
  ASSUME NEW text \in Seq(Byte), NEW p \in 1 .. Len(text) + 1
  PROVE  EndOfNumber(text, p) \in p .. Len(text) + 1
<1> DEFINE until(q, S) == CHOOSE r \in q .. Len(text) + 1 :
             /\ \A k \in q .. r - 1 : text[k] \in S
             /\ r <= Len(text) => text[r] \notin S
           first == until(p, {Space})
           end == until(first, Digits)
<1>0. Len(text) \in Nat
  OBVIOUS
<1>1. ASSUME NEW q \in 1 .. Len(text) + 1, NEW S PROVE until(q, S) \in q .. Len(text) + 1
  <2> DEFINE R == {r \in q .. Len(text) + 1 : r <= Len(text) => text[r] \notin S}
             m == Min(R)
  <2>1. R \subseteq Nat /\ Len(text) + 1 \in R
    BY ONLY <1>0, q \in 1 .. Len(text) + 1
  <2>2. m \in R /\ \A y \in R : m <= y
    <3> HIDE DEF R
    <3> QED BY ONLY <2>1, NatSetHasMin
  <2> HIDE DEF m
  <2>3. \A k \in q .. m - 1 : text[k] \in S
    <3> SUFFICES ASSUME NEW k \in q .. m - 1, text[k] \notin S PROVE FALSE
      OBVIOUS
    <3>1. k \in q .. Len(text) + 1 /\ ~ (m <= k)
      BY ONLY <1>0, <2>2, k \in q .. m - 1, q \in 1 .. Len(text) + 1
    <3> QED BY ONLY <2>2, <3>1, text[k] \notin S
  <2>4. /\ m \in q .. Len(text) + 1
        /\ \A k \in q .. m - 1 : text[k] \in S
        /\ m <= Len(text) => text[m] \notin S
    BY ONLY <2>2, <2>3
  <2> HIDE DEF R
  <2> QED BY ONLY <2>4
<1>2. EndOfNumber(text, p) = IF end = first THEN p ELSE end
  BY DEF EndOfNumber
<1>3. first \in p .. Len(text) + 1
  BY <1>1
<1>4. first \in 1 .. Len(text) + 1
  <2> HIDE DEF first
  <2> QED BY ONLY <1>0, <1>3, p \in 1 .. Len(text) + 1
<1>5. end \in first .. Len(text) + 1
  <2> HIDE DEF first
  <2> QED BY <1>1, <1>4
<1> HIDE DEF first, end
<1> QED BY ONLY <1>0, <1>2, <1>3, <1>5, p \in 1 .. Len(text) + 1

(* The two places that parse_channel_query compares are always the same    *)
(* (channel.c:139): it counts no id, whatever the list and however long,   *)
(* so that filter_channel_users has none to look for.                      *)
THEOREM QueryFindsNothing ==
  ASSUME NEW text \in Seq(Byte)
  PROVE  parse_channel_query(text) = 0
<1> DEFINE n == Len(text)
           D == 1 .. n + 2
           end(p) == EndOfNumber(text, p)
           Counts(g) == g = [p \in D |->
                          IF p > n THEN 0
                          ELSE IF Compared(p, end(p)) = end(p) THEN g[end(p) + 1]
                               ELSE IF IsZero(text, p, end(p)) THEN g[end(p)]
                               ELSE 1 + g[end(p)]]
           count == CHOOSE g : Counts(g)
           zero == [p \in D |-> 0]
<1>0. n \in Nat
  OBVIOUS
<1>1. parse_channel_query(text) = count[1]
  BY DEF parse_channel_query
<1>2. \A p \in D : ~ (p > n) => end(p) + 1 \in D /\ end(p) + 1 > p
  <2> SUFFICES ASSUME NEW p \in D, ~ (p > n) PROVE end(p) + 1 \in D /\ end(p) + 1 > p
    OBVIOUS
  <2>1. p \in 1 .. n + 1
    BY ONLY <1>0, p \in D, ~ (p > n)
  <2>2. end(p) \in p .. n + 1
    BY <2>1, NumberEnds
  <2> HIDE DEF end
  <2> QED BY ONLY <1>0, <2>1, <2>2
<1>3. \A p, e : Compared(p, e) = e
  BY DEF Compared
<1> HIDE DEF end
<1>4. Counts(zero)
  <2>1. \A p \in D : zero[p] = 0
    OBVIOUS
  <2> HIDE DEF D, n
  <2> QED BY <1>2, <1>3, <2>1
<1>5. Counts(count)
  <2> HIDE DEF Counts, zero
  <2> QED BY ONLY <1>4 DEF count
<1> HIDE DEF count
<1>6. \A p \in D : count[p] = IF p > n THEN 0 ELSE count[end(p) + 1]
  <2> HIDE DEF D, n
  <2> QED BY ONLY <1>3, <1>5
<1>7. \A p \in D : count[p] = 0
  <2> DEFINE Bad == {d \in 0 .. n + 1 : count[n + 2 - d] # 0}
             d == Min(Bad)
  <2> SUFFICES ASSUME NEW p \in D, count[p] # 0 PROVE FALSE
    OBVIOUS
  <2> DEFINE m == n + 2 - p
  <2>1. m \in 0 .. n + 1 /\ n + 2 - m = p
    BY ONLY <1>0, p \in D
  <2> HIDE DEF m
  <2>2. Bad \subseteq Nat /\ Bad # {}
    <3>1. m \in Bad
      BY ONLY <2>1, count[p] # 0
    <3> QED BY ONLY <1>0, <3>1
  <2>3. d \in Bad /\ \A y \in Bad : d <= y
    <3> HIDE DEF Bad
    <3> QED BY ONLY <2>2, NatSetHasMin
  <2> HIDE DEF d
  <2> DEFINE q == n + 2 - d
             e == end(q) + 1
  <2>4. q \in D /\ count[q] # 0 /\ d \in Nat
    BY ONLY <1>0, <2>3
  <2> HIDE DEF q
  <2>5. ~ (q > n)
    BY ONLY <1>6, <2>4
  <2>6. count[e] # 0
    BY ONLY <1>6, <2>4, <2>5
  <2>7. e \in D /\ e > q
    BY ONLY <1>2, <2>4, <2>5
  <2> HIDE DEF e
  <2> DEFINE m2 == n + 2 - e
  <2>8. m2 \in 0 .. n + 1 /\ n + 2 - m2 = e /\ ~ (d <= m2)
    BY ONLY <1>0, <2>4, <2>7 DEF q
  <2> HIDE DEF m2
  <2>9. m2 \in Bad
    BY ONLY <2>6, <2>8
  <2> QED BY ONLY <2>3, <2>8, <2>9
<1> QED BY ONLY <1>0, <1>1, <1>7

(* The lines of a list, put behind each other, are text. *)
LEMMA Flattened ==
  ASSUME NEW S, NEW ss \in Seq(Seq(S))
  PROVE  FlattenSeq(ss) \in Seq(S)
<1> DEFINE n == Len(ss)
           Step(g, k) == IF k = 1 THEN ss[k] ELSE g[k - 1] \o ss[k]
           Flat(g) == g = [k \in 1 .. n |-> Step(g, k)]
           flat == CHOOSE g : Flat(g)
           Upto(m) == \E g \in [1 .. m -> Seq(S)] : \A k \in 1 .. m : g[k] = Step(g, k)
<1>0. n \in Nat /\ \A k \in 1 .. n : ss[k] \in Seq(S)
  OBVIOUS
<1>1. FlattenSeq(ss) = IF n = 0 THEN ss ELSE flat[n]
  BY DEF FlattenSeq
<1>2. CASE n = 0
  <2>1. ss = <<>>
    BY <1>2
  <2> QED BY <1>1, <1>2, <2>1
<1>3. CASE n # 0
  <2>1. \A m \in 0 .. n : Upto(m)
    <3> DEFINE Bad == {m \in 0 .. n : ~ Upto(m)}
               m == Min(Bad)
    <3> SUFFICES ASSUME Bad # {} PROVE FALSE
      OBVIOUS
    <3>1. Bad \subseteq Nat
      BY ONLY <1>0
    <3>2. m \in Bad /\ \A y \in Bad : m <= y
      <4> HIDE DEF Bad
      <4> QED BY ONLY <3>1, Bad # {}, NatSetHasMin
    <3> HIDE DEF m
    <3>3. m \in 0 .. n /\ ~ Upto(m)
      BY ONLY <3>2
    <3>4. m # 0
      <4>0. Upto(0) => m # 0
        <5> HIDE DEF Upto
        <5> QED BY ONLY <3>3
      <4> DEFINE g == [k \in 1 .. 0 |-> <<>>]
      <4>1. 1 .. 0 = {}
        OBVIOUS
      <4>2. g \in [1 .. 0 -> Seq(S)]
        BY ONLY <4>1
      <4> HIDE DEF g
      <4>3. Upto(0)
        BY ONLY <4>1, <4>2
      <4> HIDE DEF Upto
      <4> QED BY ONLY <4>0, <4>3
    <3>5. Upto(m - 1)
      <4>1. m - 1 \in 0 .. n /\ ~ (m <= m - 1)
        BY ONLY <1>0, <3>3, <3>4
      <4> HIDE DEF Upto
      <4> QED BY ONLY <3>2, <4>1
    <3>6. PICK g \in [1 .. m - 1 -> Seq(S)] : \A k \in 1 .. m - 1 : g[k] = Step(g, k)
      BY ONLY <3>5
    <3> DEFINE last == Step(g, m)
               h == [k \in 1 .. m |-> IF k < m THEN g[k] ELSE last]
    <3>7. m \in Nat /\ m >= 1 /\ m \in 1 .. n /\ ss[m] \in Seq(S)
      BY ONLY <1>0, <3>3, <3>4
    <3>8. last \in Seq(S)
      <4>1. CASE m = 1
        BY ONLY <3>7, <4>1
      <4>2. CASE m # 1
        <5>1. m - 1 \in 1 .. m - 1
          BY ONLY <3>7, <4>2
        <5>2. g[m - 1] \in Seq(S)
          BY ONLY <3>6, <5>1
        <5>3. g[m - 1] \o ss[m] \in Seq(S)
          BY ONLY <3>7, <5>2, ConcatProperties
        <5> QED BY ONLY <4>2, <5>3
      <4> QED BY ONLY <4>1, <4>2
    <3>9. \A k \in 1 .. m : k # m => k \in 1 .. m - 1 /\ k < m
      BY ONLY <3>7
    <3>10. \A k \in 1 .. m : k # 1 => k - 1 \in 1 .. m - 1 /\ k - 1 \in 1 .. m /\ k - 1 < m
      BY ONLY <3>7
    <3>11. /\ \A k \in 1 .. m - 1 : h[k] = g[k] /\ k \in 1 .. m
           /\ h[m] = last /\ h \in [1 .. m -> Seq(S)]
      <4>1. \A k \in 1 .. m - 1 : k \in 1 .. m /\ k < m /\ g[k] \in Seq(S)
        BY ONLY <3>6, <3>7
      <4>2. m \in 1 .. m /\ ~ (m < m)
        BY ONLY <3>7
      <4> HIDE DEF last
      <4> QED BY ONLY <3>8, <3>9, <4>1, <4>2
    <3> HIDE DEF h
    <3>12. ASSUME NEW k \in 1 .. m PROVE h[k] = Step(h, k)
      <4>1. Step(h, k) = Step(g, k)
        BY ONLY <3>10, <3>11, <3>12
      <4>2. h[k] = Step(g, k)
        <5>1. CASE k = m
          BY ONLY <3>11, <5>1
        <5>2. CASE k # m
          <6> HIDE DEF Step
          <6> QED BY ONLY <3>6, <3>9, <3>11, <3>12, <5>2
        <5> QED BY ONLY <5>1, <5>2
      <4> QED BY ONLY <4>1, <4>2
    <3>13. Upto(m)
      <4> HIDE DEF Step
      <4> QED BY ONLY <3>11, <3>12
    <3> QED BY ONLY <3>3, <3>13
  <2>2. \E g : Flat(g)
    <3>1. Upto(n)
      <4> HIDE DEF Upto
      <4> QED BY ONLY <1>0, <2>1
    <3> HIDE DEF Step
    <3>2. PICK g \in [1 .. n -> Seq(S)] : \A k \in 1 .. n : g[k] = Step(g, k)
      BY ONLY <3>1
    <3>3. g = [k \in 1 .. n |-> Step(g, k)]
      BY ONLY <3>2
    <3> QED BY ONLY <3>3
  <2>3. Flat(flat)
    <3> HIDE DEF Flat
    <3> QED BY ONLY <2>2 DEF flat
  <2> HIDE DEF flat
  <2>4. \A k \in 1 .. n : flat[k] = Step(flat, k)
    <3> HIDE DEF Step
    <3> QED BY ONLY <2>3
  <2>5. \A k \in 1 .. n : flat[k] \in Seq(S)
    <3> DEFINE Bad == {k \in 1 .. n : flat[k] \notin Seq(S)}
               m == Min(Bad)
    <3> SUFFICES ASSUME Bad # {} PROVE FALSE
      OBVIOUS
    <3>1. Bad \subseteq Nat
      BY ONLY <1>0
    <3>2. m \in Bad /\ \A y \in Bad : m <= y
      <4> HIDE DEF Bad
      <4> QED BY ONLY <3>1, Bad # {}, NatSetHasMin
    <3> HIDE DEF m
    <3>3. m \in 1 .. n /\ flat[m] \notin Seq(S) /\ ss[m] \in Seq(S)
      BY ONLY <1>0, <3>2
    <3>4. m # 1
      BY ONLY <2>4, <3>3
    <3>5. m - 1 \in 1 .. n /\ ~ (m <= m - 1)
      BY ONLY <1>0, <3>3, <3>4
    <3>6. flat[m - 1] \in Seq(S)
      BY ONLY <3>2, <3>5
    <3>7. flat[m - 1] \o ss[m] \in Seq(S)
      BY ONLY <3>3, <3>6, ConcatProperties
    <3> QED BY ONLY <2>4, <3>3, <3>4, <3>7
  <2>6. n \in 1 .. n
    BY ONLY <1>0, <1>3
  <2> QED BY ONLY <1>1, <1>3, <2>5, <2>6
<1> QED BY ONLY <1>2, <1>3

(* A list of users is text that serialize counts whole. *)
LEMMA RosterText ==
  ASSUME NEW users \in Rosters
  PROVE  channel_to_string(users) \in Seq(Chars) /\ Len(channel_to_string(users)) < 65536
<1> DEFINE lines == [k \in DOMAIN users |-> LineOf[users[k]]]
<1>1. users \in Seq(DOMAIN LineOf) /\ LineOf \in [DOMAIN LineOf -> Seq(Chars)]
  BY ConstantsAssumption
<1>2. lines \in Seq(Seq(Chars))
  <2>1. DOMAIN users = 1 .. Len(users) /\ Len(users) \in Nat
    BY ONLY <1>1
  <2>2. \A k \in 1 .. Len(users) : LineOf[users[k]] \in Seq(Chars)
    BY ONLY <1>1
  <2>3. lines \in [1 .. Len(users) -> Seq(Chars)]
    BY ONLY <2>1, <2>2
  <2> HIDE DEF lines
  <2> QED BY ONLY <2>1, <2>3
<1>3. channel_to_string(users) = FlattenSeq(lines)
  BY DEF channel_to_string
<1> HIDE DEF lines
<1>4. channel_to_string(users) \in Seq(Chars)
  BY ONLY <1>2, <1>3, Flattened
<1>5. /\ Len(channel_to_string(users)) \in Nat
      /\ 3 + Len(channel_to_string(users)) <= 2 * MaxStr
  BY <1>4, RostersFit DEF HEADER
<1>6. MaxStr \in Nat /\ MaxStr <= 512
  BY ConstantsAssumption
<1> QED BY ONLY <1>4, <1>5, <1>6

-----------------------------------------------------------------------------
(* What is typed at a prompt. *)
Short == {t \in Seq(Chars) : Len(t) <= MaxText}

(* Packets the client keeps: of version 2.0. *)
Kept == [version : {32}, command : Byte, channel_id : Word, msg_len : Word,
         msg : Short \cup {NULL}]

(* Texts of the instance fit a field, and the limit leaves them alone. *)
LEMMA ShortFacts ==
  /\ Texts \subseteq Short /\ Label \in Short
  /\ Seq(Chars) \subseteq Seq(NoZero) /\ Seq(NoZero) \subseteq Seq(Byte)
  /\ \A t \in Short : /\ t \in Seq(Chars) /\ Len(t) \in Word /\ Parsed(t) = t
<1>0. /\ Chars \subseteq NoZero /\ NoZero \subseteq Byte
      /\ MaxText \in Nat /\ MaxStr \in Nat /\ MaxText < MaxStr /\ MaxStr < 65536
  BY Widths, ConstantsAssumption DEF NoZero, HEADER
<1>1. BoundedSeq(Chars, MaxText) \subseteq Short
  <2> SUFFICES ASSUME NEW m \in 0 .. MaxText, NEW t \in [1 .. m -> Chars] PROVE t \in Short
    BY DEF BoundedSeq, SeqOf
  <2>1. t \in Seq(Chars) /\ Len(t) = m
    BY ONLY <1>0, m \in 0 .. MaxText, t \in [1 .. m -> Chars]
  <2> QED BY ONLY <1>0, <2>1, m \in 0 .. MaxText DEF Short
<1>2. Texts \subseteq Short /\ Label \in Short
  BY <1>1, ConstantsAssumption DEF Texts
<1>3. Seq(Chars) \subseteq Seq(NoZero)
  BY ONLY <1>0
<1>4. Seq(NoZero) \subseteq Seq(Byte)
  BY ONLY <1>0
<1>5. ASSUME NEW t \in Short PROVE t \in Seq(Chars) /\ Len(t) \in Word /\ Parsed(t) = t
  <2>1. t \in Seq(Chars) /\ Len(t) <= MaxText /\ Len(t) \in Nat
    BY ONLY t \in Short DEF Short
  <2>2. Len(t) \in Int /\ 0 <= Len(t) /\ Len(t) < 65536 /\ Len(t) <= MaxStr
    BY ONLY <1>0, <2>1
  <2> QED BY ONLY <2>1, <2>2, Widths DEF Parsed
<1> QED BY ONLY <1>2, <1>3, <1>4, <1>5

(* The bytes of a request: version 2.0, command, id, text. *)
PacketOf(c, id, t) == <<32, c>> \o packi16(id) \o StringField(t)

(* The server reads from a packet what the client put into it. *)
LEMMA PacketRead ==
  ASSUME NEW c \in Byte, NEW id \in Word, NEW t \in Short,
         NEW w, w = PacketOf(c, id, t)
  PROVE  /\ w \in Seq(Byte) /\ w[1] = 32 /\ w[2] = c
         /\ unpacku16(w, 3) = id /\ StringAt(w, 5) = t
<1> DEFINE hi == id \div 256
           lo == id % 256
           front == <<32, c>>
           back == <<hi, lo>>
           pre == front \o back
<1>1. /\ hi \in Byte /\ lo \in Byte /\ 32 \in Byte
      /\ packi16(id) = <<hi, lo>> /\ 256 * hi + lo = id
  BY Packed, Widths
<1>2. front \in Seq(Byte) /\ Len(front) = 2 /\ front[1] = 32 /\ front[2] = c
  BY <1>1
<1>3. back \in Seq(Byte) /\ Len(back) = 2 /\ back[1] = hi /\ back[2] = lo
  BY <1>1
<1>4. w = pre \o StringField(t)
  BY <1>1 DEF PacketOf
<1> HIDE DEF front, back, hi, lo
<1>5. /\ pre \in Seq(Byte) /\ Len(pre) = Len(front) + Len(back)
      /\ \A k \in 1 .. Len(front) + Len(back) :
           pre[k] = IF k <= Len(front) THEN front[k] ELSE back[k - Len(front)]
  BY ONLY <1>2, <1>3, ConcatProperties
<1> HIDE DEF pre
<1>6. /\ pre \in Seq(Byte) /\ Len(pre) = 4
      /\ pre[1] = 32 /\ pre[2] = c /\ pre[3] = hi /\ pre[4] = lo
  BY ONLY <1>2, <1>3, <1>5
<1>7. t \in Seq(Byte) /\ Len(t) \in Word /\ Parsed(t) = t
  BY ShortFacts
<1>8. /\ w \in Seq(Byte)
      /\ StringAt(w, Len(pre) + 1) = Parsed(t)
      /\ \A k \in 1 .. Len(pre) : w[k] = pre[k]
  <2>1. pre \in Seq(Byte) /\ t \in Seq(Byte) /\ Len(t) \in Word
    BY ONLY <1>6, <1>7
  <2> QED BY ONLY <1>4, <2>1, FieldRead, Zenon
<1>9. w[1] = 32 /\ w[2] = c /\ w[3] = hi /\ w[4] = lo
  BY ONLY <1>6, <1>8
<1>10. unpacku16(w, 3) = id
  BY ONLY <1>1, <1>9 DEF unpacku16
<1>11. Len(pre) + 1 = 5
  BY ONLY <1>6
<1> QED BY ONLY <1>7, <1>8, <1>9, <1>10, <1>11

(* The bytes of an answer: those of its text, or of its id as it lies in   *)
(* memory, up to a zero.                                                   *)
Reply(t) ==
  /\ t \in Seq(NoZero) /\ Len(t) \in Word
  /\ \/ meant.id = NULL /\ t = meant.text
     \/ meant.id # NULL /\ \E b \in Garbage : t = CString(InMemory(meant.id) \o <<b, 0>>)

(* In each direction the wire holds the bytes of what was sent. *)
OnWire ==
  /\ phase = "request" =>
       wire = cpt_serialize_packet(Request(32, asked[1], asked[2], 0, asked[3]))
  /\ phase = "answer" => \E t : Reply(t) /\ wire = <<got.command>> \o StringField(t)
  /\ phase \in {"idle", "serve"} => wire = <<>>
  /\ phase \in {"shown", "stray", "overrun"} => wire \in Seq(Byte)

Served == {"serve", "answer", "shown", "stray", "overrun"}

(* The server has what the client asked, the client what was answered.     *)
Received ==
  /\ phase \in Served => got = Request(32, asked[1], asked[2], 0, asked[3])
  /\ phase \notin Served => got = Nothing
  /\ phase = "shown" => \E t : Reply(t) /\ shown = Cut(t)

(* What a recv leaves of res_buf: nothing is written behind its limit.      *)
Buffer(b) ==
  /\ b \in [1 .. 2 * MaxStr -> Byte]
  /\ \A k \in 1 .. 2 * MaxStr : k > MaxStr => b[k] = 0

(* The request kept between two commands has fields of their widths. *)
Shapes ==
  /\ phase \in {"idle", "request"} \cup Served
  /\ req # NULL => req \in Kept
  /\ Buffer(res_buf)
  /\ asked \in Byte \X Word \X Short
  /\ meant.text \in Seq(Chars) /\ meant.id \in ChanIds \cup {NULL}
  /\ shown \in Seq(Byte)

(* The inductive invariant of Wire. *)
WireInv == Shapes /\ OnWire /\ Received

LEMMA WireInit == Init => WireInv
<1> SUFFICES ASSUME Init PROVE WireInv
  OBVIOUS
<1> DEFINE empty == <<>>
<1>1. empty \in Short /\ empty \in Seq(Chars) /\ empty \in Seq(Byte)
  <2>1. MaxText \in Nat
    BY ConstantsAssumption
  <2> QED BY <2>1 DEF Short
<1>2. 7 \in Byte /\ 0 \in Word
  BY Widths
<1>3. meant.text = empty /\ meant.id = NULL
  BY DEF Init, Answer
<1>4. /\ asked = <<7, 0, empty>> /\ shown = empty /\ wire = empty /\ phase = "idle"
      /\ req = NULL /\ got = Nothing
  BY DEF Init, LOGIN
<1>5. Buffer(res_buf)
  <2>1. 0 \in Byte
    BY Widths
  <2> QED BY <2>1 DEF Init, Buffer
<1>6. Shapes
  <2> HIDE DEF empty
  <2> QED BY ONLY <1>1, <1>2, <1>3, <1>4, <1>5 DEF Shapes
<1> QED BY <1>4, <1>6 DEF WireInv, OnWire, Received, Served

(* A request that is built and sent is the packet asked for. *)
LEMMA AskStep ==
  ASSUME WireInv, NEW r \in Kept, NEW kept \in Kept, NEW c, NEW id, NEW t,
         c = r.command, id = r.channel_id, t = r.msg, Ask(r, kept, c, id, t)
  PROVE  WireInv'
<1>1. /\ phase = "idle" /\ phase' = "request" /\ r.msg # NULL
      /\ wire' = cpt_serialize_packet(r)
      /\ req' = kept /\ asked' = <<c, id, t>>
      /\ UNCHANGED <<res_buf, got, meant, shown>>
  BY DEF Ask
<1>2. c \in Byte /\ id \in Word /\ t \in Short /\ r.version = 32
  BY <1>1 DEF Kept
<1>3. cpt_serialize_packet(r) = PacketOf(c, id, t)
  BY <1>2 DEF cpt_serialize_packet, PacketOf
<1>4. cpt_serialize_packet(Request(32, c, id, 0, t)) = PacketOf(c, id, t)
  BY DEF cpt_serialize_packet, Request, PacketOf
<1>5. asked'[1] = c /\ asked'[2] = id /\ asked'[3] = t
  BY <1>1
<1>6. Shapes'
  BY ONLY <1>1, <1>2, WireInv, kept \in Kept DEF WireInv, Shapes, Served
<1>7. OnWire'
  BY ONLY <1>1, <1>3, <1>4, <1>5 DEF OnWire
<1>8. Received'
  BY ONLY <1>1, WireInv DEF WireInv, Received, Served
<1> QED BY ONLY <1>6, <1>7, <1>8 DEF WireInv

(* What the packet of the last request is changed to is a packet. *)
LEMMA KeptChanged ==
  ASSUME NEW r \in Kept
  PROVE  /\ cpt_request_reset(r) \in Kept
         /\ \A c \in 1 .. 8 : LET s == cpt_request_cmd(r, c)
                              IN  /\ s \in Kept /\ s.command = c
                                  /\ s.channel_id = r.channel_id /\ s.msg = r.msg
         /\ \A t \in Short : LET s == cpt_request_msg(r, t)
                             IN  /\ s \in Kept /\ s.command = r.command
                                 /\ s.channel_id = r.channel_id /\ s.msg = t
         /\ \A id \in Word : LET s == cpt_request_chan(r, id)
                               IN  /\ s \in Kept /\ s.command = r.command
                                   /\ s.channel_id = id /\ s.msg = r.msg
<1>1. r = [version |-> 32, command |-> r.command, channel_id |-> r.channel_id,
           msg_len |-> r.msg_len, msg |-> r.msg]
  BY DEF Kept
<1>2. r.command \in Byte /\ r.channel_id \in Word /\ r.msg_len \in Word
      /\ r.msg \in Short \cup {NULL} /\ r.version = 32
      /\ DOMAIN r = {"version", "command", "channel_id", "msg_len", "msg"}
  BY DEF Kept
<1>3. 0 \in Byte /\ 0 \in Word
  BY Widths
<1>4. cpt_request_reset(r) \in Kept
  BY ONLY <1>2, <1>3 DEF cpt_request_reset, Request, Kept
<1>5. ASSUME NEW c \in 1 .. 8
      PROVE  LET s == cpt_request_cmd(r, c)
             IN  s \in Kept /\ s.command = c /\ s.channel_id = r.channel_id /\ s.msg = r.msg
  <2>1. c \in Int /\ 0 <= c /\ c < 256
    BY ONLY c \in 1 .. 8
  <2>2. c \in Byte
    BY ONLY <2>1, Widths
  <2>3. cpt_request_cmd(r, c) = [r EXCEPT !.command = c]
    BY DEF cpt_request_cmd, SEND, CREATE_VCHAN
  <2> QED BY ONLY <1>1, <1>2, <2>2, <2>3 DEF Kept
<1>6. ASSUME NEW t \in Short
      PROVE  LET s == cpt_request_msg(r, t)
             IN  /\ s \in Kept /\ s.command = r.command
                 /\ s.channel_id = r.channel_id /\ s.msg = t
  <2>1. Len(t) \in Word
    BY ShortFacts
  <2> QED BY ONLY <1>1, <1>2, <2>1, t \in Short DEF cpt_request_msg, Kept
<1>7. ASSUME NEW id \in Word
      PROVE  LET s == cpt_request_chan(r, id)
             IN  /\ s \in Kept /\ s.command = r.command /\ s.channel_id = id /\ s.msg = r.msg
  BY ONLY <1>1, <1>2, id \in Word DEF cpt_request_chan, Kept
<1> QED BY ONLY <1>4, <1>5, <1>6, <1>7

LEMMA FreshKept ==
  ASSUME NEW g \in Garbage, NEW c \in 1 .. 8, NEW id \in Word, NEW t \in Short
  PROVE  LET r == Fresh(g, c, id, t)
         IN  r \in Kept /\ r.command = c /\ r.channel_id = id /\ r.msg = t
<1> DEFINE p == [version |-> g, command |-> g, channel_id |-> g, msg_len |-> g, msg |-> NULL]
           q == [version |-> g, command |-> g, channel_id |-> id, msg_len |-> g, msg |-> NULL]
           d == [version |-> 32, command |-> g, channel_id |-> id, msg_len |-> g, msg |-> NULL]
           e == cpt_request_cmd(d, c)
           r == cpt_request_msg(e, t)
<1>1. cpt_request_init(g) = p
  BY DEF cpt_request_init, Request
<1>2. cpt_request_chan(p, id) = q
  BY DEF cpt_request_chan
<1>3. cpt_request_version(q, 2, 0) = d
  BY DEF cpt_request_version
<1>4. d \in Kept /\ d.channel_id = id
  <2>1. g \in Byte /\ g \in Int /\ 0 <= g /\ g < 256
    BY Widths, ConstantsAssumption
  <2>2. g \in Word
    BY ONLY <2>1, Widths
  <2> QED BY ONLY <2>1, <2>2, id \in Word DEF Kept
<1> HIDE DEF p, q, d
<1>5. e \in Kept /\ e.command = c /\ e.channel_id = id
  BY ONLY <1>4, c \in 1 .. 8, KeptChanged
<1> HIDE DEF e
<1>6. r \in Kept /\ r.command = c /\ r.msg = t /\ r.channel_id = id
  BY ONLY <1>5, t \in Short, KeptChanged
<1>7. Fresh(g, c, id, t) = r
  BY ONLY <1>1, <1>2, <1>3 DEF Fresh, e
<1> HIDE DEF r
<1> QED BY ONLY <1>6, <1>7

LEMMA AskFreshStep ==
  ASSUME WireInv, NEW c \in 1 .. 8, NEW id \in Word, NEW t \in Short,
         AskFresh(c, id, t)
  PROVE  WireInv'
<1>1. PICK g \in Garbage : Ask(Fresh(g, c, id, t), Fresh(g, c, id, t), c, id, t)
  BY DEF AskFresh
<1> DEFINE r == Fresh(g, c, id, t)
<1>2. r \in Kept /\ c = r.command /\ id = r.channel_id /\ t = r.msg
  BY FreshKept
<1>3. Ask(r, r, c, id, t)
  BY <1>1
<1> HIDE DEF r
<1> QED BY ONLY WireInv, <1>2, <1>3, AskStep

(* The requests of the client. *)
LEMMA RequestStep ==
  ASSUME WireInv,
         \/ \E text \in Texts : \/ cpt_login(text) \/ cpt_send(text)
                                  \/ cpt_create_channel(text) \/ cpt_create_vchannel(text)
         \/ \E id \in ChanIds :
              cpt_leave_channel(id) \/ cpt_join_channel(id) \/ cpt_get_users(id)
         \/ cpt_logout
  PROVE  WireInv'
<1>0. /\ Texts \subseteq Short /\ Label \in Short
      /\ ChanIds \subseteq Word /\ 0 \in Word
      /\ LoggedIn => req \in Kept
      /\ \A c \in {1, 2, 3, 4, 5, 6, 7, 8} : c \in 1 .. 8
  <2>1. Texts \subseteq Short /\ Label \in Short
    BY ShortFacts
  <2>2. ChanIds \subseteq Word
    BY ConstantsAssumption
  <2>3. 0 \in Word
    BY Widths
  <2>4. LoggedIn => req \in Kept
    BY DEF WireInv, Shapes, LoggedIn
  <2>5. \A c \in {1, 2, 3, 4, 5, 6, 7, 8} : c \in 1 .. 8
    OBVIOUS
  <2> QED BY ONLY <2>1, <2>2, <2>3, <2>4, <2>5
<1>1. ASSUME NEW text \in Texts,
             \/ cpt_login(text) \/ cpt_send(text)
             \/ cpt_create_channel(text) \/ cpt_create_vchannel(text)
      PROVE  WireInv'
  <2>1. text \in Short
    BY ONLY <1>0, <1>1
  <2>2. \E c \in 1 .. 8 : AskFresh(c, 0, text)
    BY ONLY <1>0, <1>1 DEF cpt_login, cpt_send, cpt_create_channel,
       cpt_create_vchannel, LOGIN, SEND, CREATE_CHANNEL, CREATE_VCHAN,
       CHANNEL_ZERO
  <2> QED BY ONLY WireInv, <1>0, <2>1, <2>2, AskFreshStep
<1>2. ASSUME NEW id \in ChanIds, cpt_leave_channel(id) PROVE WireInv'
  <2>1. AskFresh(6, id, Label)
    BY ONLY <1>2 DEF cpt_leave_channel, LEAVE_CHANNEL
  <2>2. id \in Word
    BY ONLY <1>0, <1>2
  <2> QED BY ONLY WireInv, <1>0, <2>1, <2>2, AskFreshStep
<1>3. ASSUME NEW id \in ChanIds, cpt_join_channel(id) PROVE WireInv'
  <2>1. PICK g \in Garbage :
          LET r == Fresh(g, 5, id, Label)
          IN  Ask(r, cpt_request_reset(r), 5, id, Label)
    BY ONLY <1>3 DEF cpt_join_channel, JOIN_CHANNEL
  <2> DEFINE r == Fresh(g, 5, id, Label)
             kept == cpt_request_reset(r)
  <2>2. id \in Word
    BY ONLY <1>0, <1>3
  <2>3. r \in Kept /\ 5 = r.command /\ id = r.channel_id /\ Label = r.msg
    BY ONLY <1>0, <2>2, g \in Garbage, FreshKept
  <2>4. Ask(r, kept, 5, id, Label)
    BY ONLY <2>1
  <2> HIDE DEF r
  <2>5. kept \in Kept
    BY ONLY <2>3, KeptChanged
  <2> HIDE DEF kept
  <2> QED BY ONLY WireInv, <2>3, <2>4, <2>5, AskStep
<1>4. ASSUME NEW id \in ChanIds, cpt_get_users(id) PROVE WireInv'
  <2> DEFINE a == cpt_request_cmd(req, 3)
             b == cpt_request_msg(a, Label)
             r == cpt_request_chan(b, id)
  <2>1. LoggedIn /\ Ask(r, r, 3, id, Label)
    BY ONLY <1>4 DEF cpt_get_users, GET_USERS
  <2>2. id \in Word /\ req \in Kept
    BY ONLY <1>0, <1>4, <2>1
  <2>3. a \in Kept /\ a.command = 3
    BY ONLY <1>0, <2>2, KeptChanged
  <2> HIDE DEF a
  <2>4. b \in Kept /\ b.command = 3 /\ b.msg = Label
    BY ONLY <1>0, <2>3, KeptChanged
  <2> HIDE DEF b
  <2>5. r \in Kept /\ 3 = r.command /\ id = r.channel_id /\ Label = r.msg
    BY ONLY <2>2, <2>4, KeptChanged
  <2> HIDE DEF r
  <2> QED BY ONLY WireInv, <2>1, <2>5, AskStep
<1>5. ASSUME cpt_logout PROVE WireInv'
  <2> DEFINE r == cpt_request_cmd(req, 2)
             kept == cpt_request_reset(r)
  <2>1. LoggedIn /\ Ask(r, kept, 2, r.channel_id, r.msg)
    BY ONLY <1>5 DEF cpt_logout, LOGOUT
  <2>2. req \in Kept
    BY ONLY <1>0, <2>1
  <2>3. r \in Kept /\ 2 = r.command
    BY ONLY <1>0, <2>2, KeptChanged
  <2> HIDE DEF r
  <2>4. kept \in Kept
    BY ONLY <2>3, KeptChanged
  <2> HIDE DEF kept
  <2> QED BY ONLY WireInv, <2>1, <2>3, <2>4, AskStep
<1> QED BY <1>1, <1>2, <1>3, <1>4, <1>5

LEMMA ServeStep ==
  ASSUME WireInv, cpt_parse_request
  PROVE  WireInv'
<1> DEFINE c == asked[1]
           id == asked[2]
           t == asked[3]
<1>1. /\ phase = "request" /\ phase' = "serve" /\ wire' = <<>>
      /\ got' = Request(wire[1], wire[2], unpacku16(wire, 3), 0, StringAt(wire, 5))
      /\ UNCHANGED <<req, asked, res_buf, meant, shown>>
  BY DEF cpt_parse_request
<1>2. c \in Byte /\ id \in Word /\ t \in Short
  BY DEF WireInv, Shapes
<1>3. wire = PacketOf(c, id, t)
  BY <1>1 DEF WireInv, OnWire, cpt_serialize_packet, Request, PacketOf
<1> HIDE DEF c, id, t
<1>4. wire[1] = 32 /\ wire[2] = c /\ unpacku16(wire, 3) = id /\ StringAt(wire, 5) = t
  BY ONLY <1>2, <1>3, PacketRead
<1>5. got' = Request(32, c, id, 0, t)
  BY ONLY <1>1, <1>4
<1>6. Received'
  BY ONLY <1>1, <1>5 DEF Received, Served, c, id, t
<1>7. Shapes'
  BY ONLY <1>1, WireInv DEF WireInv, Shapes, Served
<1>8. OnWire'
  BY ONLY <1>1 DEF OnWire
<1> QED BY ONLY <1>6, <1>7, <1>8 DEF WireInv

(* An answer whose bytes are what the handler meant. *)
LEMMA RespondKeeps ==
  ASSUME WireInv, NEW commands, NEW answer, NEW data,
         Respond(commands, answer, data),
         answer.text \in Seq(Chars), answer.id \in ChanIds \cup {NULL},
         CString(data) \in Seq(NoZero), Len(CString(data)) \in Word,
         \/ answer.id = NULL /\ CString(data) = answer.text
         \/ /\ answer.id # NULL
            /\ \E b \in Garbage :
                 CString(data) = CString(InMemory(answer.id) \o <<b, 0>>)
  PROVE  WireInv'
<1> DEFINE t == CString(data)
<1>1. /\ phase = "serve" /\ phase' = "answer" /\ meant' = answer
      /\ wire' = <<got.command>> \o StringField(t)
      /\ UNCHANGED <<req, asked, res_buf, got, shown>>
  BY DEF Respond
<1>2. Reply(t)'
  BY ONLY <1>1, t \in Seq(NoZero), Len(t) \in Word,
     \/ answer.id = NULL /\ t = answer.text
     \/ /\ answer.id # NULL
        /\ \E b \in Garbage : t = CString(InMemory(answer.id) \o <<b, 0>>)
     DEF Reply
<1> HIDE DEF t
<1>3. OnWire'
  BY ONLY <1>1, <1>2 DEF OnWire
<1>4. Received'
  BY ONLY <1>1, WireInv DEF WireInv, Received, Served
<1>5. Shapes'
  BY ONLY <1>1, WireInv, answer.text \in Seq(Chars), answer.id \in ChanIds \cup {NULL}
     DEF WireInv, Shapes, Served
<1> QED BY ONLY <1>3, <1>4, <1>5 DEF WireInv

LEMMA TextCounted ==
  ASSUME NEW t \in Seq(Chars), Len(t) \in Word
  PROVE  CString(t) = t /\ t \in Seq(NoZero)
<1>1. t \in Seq(NoZero)
  BY ONLY ShortFacts, t \in Seq(Chars)
<1> QED BY ONLY <1>1, CStringId

LEMMA AnswerStep ==
  ASSUME WireInv,
         \/ \E id \in ChanIds : \E b \in Garbage : RespondId(id, b)
         \/ RespondMessage
         \/ \E users \in Rosters : RespondUsers(users)
  PROVE  WireInv'
<1>0. NULL \notin ChanIds /\ ChanIds \subseteq Word /\ Garbage \subseteq Byte
  BY ConstantsAssumption
<1> DEFINE empty == <<>>
<1>1. ASSUME NEW id \in ChanIds, NEW b \in Garbage, RespondId(id, b) PROVE WireInv'
  <2> DEFINE data == InMemory(id) \o <<b, 0>>
             answer == Answer(id, empty)
  <2>1. Respond({JOIN_CHANNEL, CREATE_CHANNEL}, answer, data)
    BY ONLY <1>1 DEF RespondId
  <2>2. data \in Seq(Byte) /\ Len(data) = 4
    BY ONLY <1>0, <1>1, IdData
  <2>3. answer.id = id /\ answer.text = empty
    BY DEF Answer
  <2>4. empty \in Seq(Chars)
    OBVIOUS
  <2>5. \E y \in Garbage : CString(data) = CString(InMemory(answer.id) \o <<y, 0>>)
    BY ONLY <1>1, <2>3
  <2> HIDE DEF data, answer, empty
  <2>6. CString(data) \in Seq(NoZero) /\ Len(CString(data)) <= Len(data)
    BY ONLY <2>2, CStringFacts
  <2>7. Len(CString(data)) \in Word
    <3>1. Len(CString(data)) \in Nat
      BY ONLY <2>6
    <3>2. Len(CString(data)) < 65536
      BY ONLY <2>2, <2>6, <3>1
    <3> QED BY ONLY <3>1, <3>2, Widths
  <2>8. answer.text \in Seq(Chars) /\ answer.id \in ChanIds \cup {NULL} /\ answer.id # NULL
    BY ONLY <1>0, <1>1, <2>3, <2>4
  <2> QED BY ONLY WireInv, <2>1, <2>5, <2>6, <2>7, <2>8, RespondKeeps
<1>2. ASSUME NEW t \in Seq(Chars), Len(t) \in Word, NEW commands,
             Respond(commands, Answer(NULL, t), t)
      PROVE  WireInv'
  <2> DEFINE answer == Answer(NULL, t)
  <2>1. answer.id = NULL /\ answer.text = t
    BY DEF Answer
  <2>2. Respond(commands, answer, t)
    BY ONLY <1>2
  <2> HIDE DEF answer
  <2>3. CString(t) = t /\ t \in Seq(NoZero)
    BY ONLY <1>2, TextCounted
  <2>4. /\ answer.text \in Seq(Chars) /\ answer.id \in ChanIds \cup {NULL}
        /\ CString(t) \in Seq(NoZero) /\ Len(CString(t)) \in Word
        /\ answer.id = NULL /\ CString(t) = answer.text
    BY ONLY <1>2, <2>1, <2>3
  <2> QED BY ONLY WireInv, <2>2, <2>4, RespondKeeps
<1>3. ASSUME RespondMessage PROVE WireInv'
  <2>1. phase = "serve" /\ Respond({SEND}, Answer(NULL, got.msg), got.msg)
    BY ONLY <1>3 DEF RespondMessage, Respond
  <2>2. got.msg = asked[3] /\ asked[3] \in Short
    BY <2>1 DEF WireInv, Received, Shapes, Request
  <2>3. got.msg \in Seq(Chars) /\ Len(got.msg) \in Word
    BY ONLY <2>2, ShortFacts
  <2> QED BY ONLY <1>2, <2>1, <2>3
<1>4. ASSUME NEW users \in Rosters, RespondUsers(users) PROVE WireInv'
  <2> DEFINE t == channel_to_string(users)
  <2>1. Respond({GET_USERS}, Answer(NULL, t), t)
    BY ONLY <1>4 DEF RespondUsers
  <2>2. t \in Seq(Chars) /\ Len(t) < 65536
    BY ONLY <1>4, RosterText
  <2> HIDE DEF t
  <2>3. Len(t) \in Nat
    BY ONLY <2>2
  <2>4. Len(t) \in Word
    BY ONLY <2>2, <2>3, Widths
  <2> QED BY ONLY <1>2, <2>1, <2>2, <2>4
<1> QED BY <1>1, <1>3, <1>4

(* The bytes of the packet of an answer. *)
AnswerPacket(w, t) ==
  /\ w \in Seq(Byte) /\ Len(w) = 3 + Len(t)
  /\ w[2] = Len(t) \div 256 /\ w[3] = Len(t) % 256
  /\ \A k \in 1 .. Len(t) : w[3 + k] = t[k]

LEMMA AnswerBytes ==
  ASSUME NEW t \in Seq(NoZero), Len(t) \in Word, NEW c \in Byte,
         NEW w, w = <<c>> \o StringField(t)
  PROVE  AnswerPacket(w, t)
<1> DEFINE n == Len(t)
           hi == n \div 256
           lo == n % 256
           pre == <<c>>
           head == <<hi, lo>>
           field == head \o t
<1>0. n \in Nat /\ hi \in Byte /\ lo \in Byte /\ packi16(n) = head
  BY Packed
<1>1. t \in Seq(Byte)
  BY ShortFacts
<1>2. /\ head \in Seq(Byte) /\ Len(head) = 2 /\ head[1] = hi /\ head[2] = lo
      /\ pre \in Seq(Byte) /\ Len(pre) = 1
  BY <1>0
<1>3. w = pre \o field
  BY <1>0 DEF StringField
<1> HIDE DEF head, pre, hi, lo
<1>4. /\ field \in Seq(Byte) /\ Len(field) = Len(head) + Len(t)
      /\ \A k \in 1 .. Len(head) + Len(t) :
           field[k] = IF k <= Len(head) THEN head[k] ELSE t[k - Len(head)]
  BY ONLY <1>1, <1>2, ConcatProperties
<1> HIDE DEF field
<1>5. /\ w \in Seq(Byte) /\ Len(w) = Len(pre) + Len(field)
      /\ \A k \in 1 .. Len(pre) + Len(field) :
           w[k] = IF k <= Len(pre) THEN pre[k] ELSE field[k - Len(pre)]
  <2>1. /\ pre \o field \in Seq(Byte) /\ Len(pre \o field) = Len(pre) + Len(field)
        /\ \A k \in 1 .. Len(pre) + Len(field) :
             (pre \o field)[k] = IF k <= Len(pre) THEN pre[k] ELSE field[k - Len(pre)]
    <3>1. pre \in Seq(Byte) /\ field \in Seq(Byte)
      BY ONLY <1>2, <1>4
    <3> QED BY ONLY <3>1, ConcatProperties
  <2> QED BY ONLY <1>3, <2>1
<1> HIDE DEF n
<1>6. Len(t) = n
  BY DEF n
<1>7. /\ 2 \in 1 .. 3 + n /\ ~ (2 <= 1) /\ 2 - 1 = 1 /\ 1 \in 1 .. 2 + n /\ 1 <= 2
      /\ 3 \in 1 .. 3 + n /\ ~ (3 <= 1) /\ 3 - 1 = 2 /\ 2 \in 1 .. 2 + n /\ 2 <= 2
      /\ 1 + (2 + n) = 3 + n
  BY ONLY <1>0
<1>8. \A k \in 1 .. n : /\ 3 + k \in 1 .. 3 + n /\ ~ (3 + k <= 1) /\ (3 + k) - 1 = 2 + k
                        /\ 2 + k \in 1 .. 2 + n /\ ~ (2 + k <= 2) /\ (2 + k) - 2 = k
  BY ONLY <1>0
<1>9. Len(w) = 3 + n /\ Len(field) = 2 + n
  BY ONLY <1>2, <1>4, <1>5, <1>6, <1>7
<1>10. w[2] = hi /\ w[3] = lo
  BY ONLY <1>2, <1>4, <1>5, <1>6, <1>7, <1>9
<1>11. \A k \in 1 .. n : w[3 + k] = t[k]
  BY ONLY <1>2, <1>4, <1>5, <1>6, <1>7, <1>8, <1>9
<1> QED BY ONLY <1>5, <1>6, <1>9, <1>10, <1>11 DEF hi, lo, n, AnswerPacket

(* What recv leaves in res_buf: its bytes in front, zeros behind the limit. *)
LEMMA RecvFacts ==
  ASSUME Buffer(res_buf), NEW w \in Seq(Byte)
  PROVE  /\ Buffer(AfterRecv(w))
         /\ \A k \in 1 .. MaxStr : k <= Len(w) => AfterRecv(w)[k] = w[k]
<1> DEFINE n == IF Len(w) < MaxStr THEN Len(w) ELSE MaxStr
           b == [k \in 1 .. 2 * MaxStr |-> IF k <= n THEN w[k] ELSE res_buf[k]]
<1>0. MaxStr \in Nat /\ Len(w) \in Nat
  BY ConstantsAssumption
<1>1. AfterRecv(w) = b
  BY DEF AfterRecv
<1>2. /\ n \in Nat /\ n <= MaxStr
      /\ \A k \in 1 .. MaxStr : k <= Len(w) => k <= n
      /\ \A k \in 1 .. 2 * MaxStr : k <= n => k \in 1 .. Len(w)
      /\ \A k \in 1 .. 2 * MaxStr : k > MaxStr => ~ (k <= n)
      /\ \A k \in 1 .. MaxStr : k \in 1 .. 2 * MaxStr
  BY ONLY <1>0
<1> HIDE DEF n
<1>3. \A k \in 1 .. 2 * MaxStr : b[k] = IF k <= n THEN w[k] ELSE res_buf[k]
  OBVIOUS
<1>4. b \in [1 .. 2 * MaxStr -> Byte]
  BY ONLY <1>2, w \in Seq(Byte), Buffer(res_buf) DEF Buffer
<1> HIDE DEF b
<1>5. Buffer(b)
  BY ONLY <1>2, <1>3, <1>4, Buffer(res_buf) DEF Buffer
<1>6. \A k \in 1 .. MaxStr : k <= Len(w) => b[k] = w[k]
  BY ONLY <1>2, <1>3
<1> QED BY ONLY <1>1, <1>5, <1>6

(* Whatever res_buf holds, the parser stays within it. *)
LEMMA ParseFacts ==
  ASSUME NEW b, Buffer(b)
  PROVE  LET u == 256 * b[2] + b[3]
             count == IF u > MaxStr THEN MaxStr - 1 ELSE u
             text == StringAt(b, 2)
         IN  /\ u \in Nat /\ count \in Nat /\ count <= MaxStr
             /\ text \in Seq(Byte) /\ Len(text) = count
             /\ \A k \in 1 .. count : text[k] = b[3 + k] /\ 3 + k \in 1 .. 2 * MaxStr
<1> DEFINE u == 256 * b[2] + b[3]
           count == IF u > MaxStr THEN MaxStr - 1 ELSE u
           l == 3 + count
<1>0. MaxStr \in Nat /\ MaxStr > 3 /\ Byte \subseteq Nat
  BY Widths, ConstantsAssumption DEF HEADER
<1>1. b \in [1 .. 2 * MaxStr -> Byte] /\ b[2] \in Nat /\ b[3] \in Nat
  <2>1. 2 \in 1 .. 2 * MaxStr /\ 3 \in 1 .. 2 * MaxStr
    BY ONLY <1>0
  <2>2. b \in [1 .. 2 * MaxStr -> Byte]
    BY DEF Buffer
  <2> QED BY ONLY <1>0, <2>1, <2>2
<1>2. u \in Nat /\ count \in Nat /\ count <= MaxStr
  BY ONLY <1>0, <1>1
<1>3. StringAt(b, 2) = SubSeq(b, 4, l)
  <2>1. unpacku16(b, 2) = u
    BY DEF unpacku16
  <2>2. CountWithin(u) = count
    BY DEF CountWithin
  <2> HIDE DEF u, count
  <2>3. 2 + 2 = 4 /\ 2 + 1 + count = 3 + count
    BY ONLY <1>2
  <2> QED BY <2>1, <2>2, <2>3 DEF StringAt
<1> HIDE DEF u, count
<1>4. /\ 4 \in Int /\ l \in Int /\ (IF 4 <= l THEN l - 4 + 1 ELSE 0) = count
      /\ l - 4 + 1 = count
      /\ \A k \in 4 .. l : k \in 1 .. 2 * MaxStr
      /\ \A k \in 1 .. count : 4 + k - 1 = 3 + k /\ 3 + k \in 1 .. 2 * MaxStr
  BY ONLY <1>0, <1>2
<1> HIDE DEF l
<1>5. \A k \in 4 .. l : b[k] \in Byte
  BY ONLY <1>1, <1>4
<1>6. /\ SubSeq(b, 4, l) \in Seq(Byte)
      /\ Len(SubSeq(b, 4, l)) = IF 4 <= l THEN l - 4 + 1 ELSE 0
      /\ \A k \in 1 .. l - 4 + 1 : SubSeq(b, 4, l)[k] = b[4 + k - 1]
  BY ONLY <1>4, <1>5, SubSeqProperties
<1>7. /\ StringAt(b, 2) \in Seq(Byte) /\ Len(StringAt(b, 2)) = count
      /\ \A k \in 1 .. count : StringAt(b, 2)[k] = b[3 + k] /\ 3 + k \in 1 .. 2 * MaxStr
  BY ONLY <1>3, <1>4, <1>6
<1> QED BY ONLY <1>2, <1>7 DEF u, count

(* Of the answer the client sees what one recv brings. *)
LEMMA AnswerRead ==
  ASSUME Buffer(res_buf),
         NEW t \in Seq(NoZero), Len(t) \in Word, NEW c \in Byte,
         NEW w, w = <<c>> \o StringField(t)
  PROVE  CString(StringAt(AfterRecv(w), 2)) = Cut(t)
<1> DEFINE n == Len(t)
           b == AfterRecv(w)
           text == StringAt(b, 2)
           m == MaxStr - 3
           count == IF n > MaxStr THEN MaxStr - 1 ELSE n
           cut == Cut(t)
<1>0. /\ MaxStr \in Nat /\ MaxStr > 3 /\ n \in Nat
      /\ m \in Nat /\ m >= 1 /\ m = MaxStr - 3
  BY ConstantsAssumption DEF HEADER
<1>1. /\ w \in Seq(Byte) /\ Len(w) = 3 + n
      /\ w[2] = n \div 256 /\ w[3] = n % 256
      /\ \A k \in 1 .. n : w[3 + k] = t[k]
  <2>1. AnswerPacket(w, t)
    BY AnswerBytes, Zenon
  <2> QED BY ONLY <2>1 DEF AnswerPacket
<1>2. /\ Buffer(b)
      /\ \A k \in 1 .. MaxStr : k <= 3 + n => b[k] = w[k]
  BY ONLY <1>1, RecvFacts, Buffer(res_buf)
<1> HIDE DEF b, m
<1>3. 256 * b[2] + b[3] = n
  <2>1. 2 \in 1 .. MaxStr /\ 3 \in 1 .. MaxStr /\ 2 <= 3 + n /\ 3 <= 3 + n
    BY ONLY <1>0
  <2>2. b[2] = n \div 256 /\ b[3] = n % 256
    BY ONLY <1>1, <1>2, <2>1
  <2>3. 256 * (n \div 256) + (n % 256) = n
    BY Packed
  <2> QED BY ONLY <2>2, <2>3
<1>4. /\ text \in Seq(Byte) /\ Len(text) = count
      /\ \A k \in 1 .. count : text[k] = b[3 + k] /\ 3 + k \in 1 .. 2 * MaxStr
  <2> HIDE DEF n
  <2> QED BY ONLY <1>2, <1>3, ParseFacts
<1>5. /\ cut \in Seq(NoZero) /\ Len(cut) = IF n < m THEN n ELSE m
      /\ \A k \in 1 .. Len(cut) : cut[k] = t[k]
  BY ONLY <1>0, t \in Seq(NoZero), CutFacts
<1> HIDE DEF n, text, cut
<1> DEFINE l == Len(cut)
<1>6. /\ l \in Nat /\ l <= m /\ l <= n /\ l <= count
      /\ count \in Nat /\ count = (IF n > MaxStr THEN MaxStr - 1 ELSE n)
      /\ l = IF n < m THEN n ELSE m
  BY ONLY <1>0, <1>5
<1> HIDE DEF l, count
<1>7. ASSUME NEW k \in 1 .. l PROVE text[k] = cut[k]
  <2>1. k \in 1 .. count /\ k \in 1 .. n /\ 3 + k \in 1 .. MaxStr /\ 3 + k <= 3 + n
    BY ONLY <1>0, <1>6, <1>7
  <2>2. cut[k] = t[k]
    BY ONLY <1>5, <1>7 DEF l
  <2>3. t[k] = w[3 + k]
    BY ONLY <1>1, <2>1 DEF n
  <2> QED BY ONLY <1>2, <1>4, <2>1, <2>2, <2>3
<1>8. StopsAt(text, l + 1)
  <2>1. l + 1 \in 1 .. Len(text) + 1 /\ (l + 1) - 1 = l
    BY ONLY <1>4, <1>6
  <2>2. \A k \in 1 .. l : text[k] # 0
    <3>1. \A k \in 1 .. l : cut[k] \in NoZero
      BY ONLY <1>5 DEF l
    <3> QED BY ONLY <1>7, <3>1 DEF NoZero
  <2>3. ASSUME l + 1 <= count PROVE text[l + 1] = 0
    <3>1. /\ l + 1 \in 1 .. count /\ 3 + (l + 1) > MaxStr
      BY ONLY <1>0, <1>6, <2>3
    <3> QED BY ONLY <1>2, <1>4, <3>1 DEF Buffer
  <2> QED BY ONLY <1>4, <2>1, <2>2, <2>3 DEF StopsAt
<1>9. CString(text) = SubSeq(text, 1, (l + 1) - 1)
  BY ONLY <1>4, <1>8, StopIsOnly
<1> DEFINE read == SubSeq(text, 1, l)
<1>10. /\ read \in Seq(Byte) /\ Len(read) = l
       /\ \A k \in 1 .. l : read[k] = text[k]
  <2>1. /\ 1 \in Int /\ l \in Int /\ l - 1 + 1 = l /\ (IF 1 <= l THEN l - 1 + 1 ELSE 0) = l
        /\ \A k \in 1 .. l : k \in 1 .. Len(text) /\ 1 + k - 1 = k
    BY ONLY <1>4, <1>6
  <2>2. \A k \in 1 .. l : text[k] \in Byte
    BY ONLY <1>4, <2>1
  <2> QED BY ONLY <2>1, <2>2, SubSeqProperties
<1>11. (l + 1) - 1 = l
  BY ONLY <1>6
<1>12. CString(text) = read
  BY ONLY <1>9, <1>11
<1> HIDE DEF read
<1>13. read = cut
  <2>1. Len(cut) = l
    BY DEF l
  <2>2. \A k \in 1 .. Len(read) : read[k] = cut[k]
    BY ONLY <1>7, <1>10
  <2> QED BY ONLY <1>5, <1>10, <2>1, <2>2, SeqEqual
<1> QED BY ONLY <1>12, <1>13 DEF text, b, cut

(* What the packet of an answer consists of, and what is read of it. *)
LEMMA ShowStep ==
  ASSUME WireInv, cpt_parse_response
  PROVE  WireInv'
<1>1. /\ res_buf' = AfterRecv(wire)
      /\ shown' = CString(StringAt(AfterRecv(wire), 2))
      /\ phase' \in {"shown", "stray", "overrun"}
      /\ wire' = SubSeq(wire, MaxStr + 1, Len(wire))
      /\ UNCHANGED <<req, asked, got, meant>>
      /\ phase \in {"answer", "shown", "stray"}
      /\ phase' = "shown" => phase = "answer"
  <2>1. ASSUME NEW next \in {"shown", "stray"}, Parse(next)
        PROVE  /\ res_buf' = AfterRecv(wire)
               /\ shown' = CString(StringAt(AfterRecv(wire), 2))
               /\ phase' \in {next, "overrun"}
               /\ wire' = SubSeq(wire, MaxStr + 1, Len(wire))
               /\ UNCHANGED <<req, asked, got, meant>>
    BY ONLY <2>1 DEF Parse, Outcomes
  <2> QED BY ONLY <2>1, cpt_parse_response DEF cpt_parse_response
<1>2. Buffer(res_buf) /\ got.command \in Byte
  BY <1>1 DEF WireInv, Received, Shapes, Served, Request
<1>3. phase = "answer" => \E t : Reply(t) /\ wire = <<got.command>> \o StringField(t)
  BY DEF WireInv, OnWire
<1>4. wire \in Seq(Byte)
  <2>1. CASE phase = "answer"
    <3>1. PICK t : Reply(t) /\ wire = <<got.command>> \o StringField(t)
      BY <1>3, <2>1
    <3>2. t \in Seq(NoZero) /\ Len(t) \in Word
      BY ONLY <3>1 DEF Reply
    <3>3. AnswerPacket(wire, t)
      BY ONLY <1>2, <3>1, <3>2, AnswerBytes, Zenon
    <3> QED BY ONLY <3>3 DEF AnswerPacket
  <2>2. CASE phase \in {"shown", "stray"}
    BY <2>2 DEF WireInv, OnWire
  <2> QED BY ONLY <1>1, <2>1, <2>2
<1>5. Buffer(res_buf')
  BY ONLY <1>1, <1>2, <1>4, RecvFacts
<1>6. shown' \in Seq(Byte)
  <2>1. Buffer(AfterRecv(wire))
    BY ONLY <1>2, <1>4, RecvFacts
  <2>2. StringAt(AfterRecv(wire), 2) \in Seq(Byte)
    BY ONLY <2>1, ParseFacts
  <2> QED BY ONLY <1>1, <2>2, CStringFacts, ShortFacts
<1>7. wire' \in Seq(Byte)
  <2>1. MaxStr + 1 \in Nat /\ MaxStr + 1 >= 1 /\ Len(wire) \in Nat
    BY <1>4, ConstantsAssumption
  <2>2. \A k \in MaxStr + 1 .. Len(wire) : wire[k] \in Byte
    <3>1. \A k \in MaxStr + 1 .. Len(wire) : k \in 1 .. Len(wire)
      BY ONLY <2>1
    <3> QED BY ONLY <1>4, <3>1
  <2>3. MaxStr + 1 \in Int /\ Len(wire) \in Int
    BY ONLY <2>1
  <2> QED BY ONLY <1>1, <2>2, <2>3, SubSeqProperties
<1>8. Shapes'
  BY ONLY <1>1, <1>5, <1>6, WireInv DEF WireInv, Shapes, Served
<1>9. OnWire'
  BY ONLY <1>1, <1>7 DEF OnWire
<1>10. phase' = "shown" => \E t : Reply(t)' /\ shown' = Cut(t)
  <2> SUFFICES ASSUME phase' = "shown" PROVE \E t : Reply(t)' /\ shown' = Cut(t)
    OBVIOUS
  <2>1. PICK t : Reply(t) /\ wire = <<got.command>> \o StringField(t)
    BY <1>1, <1>3
  <2>2. t \in Seq(NoZero) /\ Len(t) \in Word
    BY ONLY <2>1 DEF Reply
  <2>3. shown' = Cut(t)
    BY ONLY <1>1, <1>2, <2>1, <2>2, AnswerRead, Zenon
  <2>4. Reply(t)'
    BY ONLY <1>1, <2>1 DEF Reply
  <2> QED BY ONLY <2>3, <2>4
<1>11. Received'
  BY ONLY <1>1, <1>10, WireInv DEF WireInv, Received, Served
<1> QED BY ONLY <1>8, <1>9, <1>11 DEF WireInv

LEMMA NextRequestStep ==
  ASSUME WireInv, NextRequest
  PROVE  WireInv'
<1> DEFINE empty == <<>>
<1>1. /\ phase' = "idle" /\ wire' = wire /\ wire = empty
      /\ got' = Nothing /\ meant' = Answer(NULL, empty) /\ shown' = empty
      /\ UNCHANGED <<req, asked, res_buf>>
  BY DEF NextRequest
<1>2. Answer(NULL, empty).id = NULL /\ Answer(NULL, empty).text = empty
  BY DEF Answer
<1>3. empty \in Seq(Chars) /\ empty \in Seq(Byte)
  OBVIOUS
<1>4. OnWire'
  BY ONLY <1>1 DEF OnWire, empty
<1> HIDE DEF empty
<1>5. Shapes'
  BY ONLY <1>1, <1>2, <1>3, WireInv DEF WireInv, Shapes, Served
<1>6. Received'
  BY ONLY <1>1 DEF Received, Served
<1> QED BY ONLY <1>4, <1>5, <1>6 DEF WireInv

LEMMA WireStep == WireInv /\ [Next]_vars => WireInv'
<1> SUFFICES ASSUME WireInv, [Next]_vars PROVE WireInv'
  OBVIOUS
<1>1. CASE UNCHANGED vars
  BY ONLY <1>1, WireInv DEF vars, WireInv, Shapes, OnWire, Received, Reply, Buffer
<1>2. CASE Next
  BY ONLY <1>2, WireInv, RequestStep, ServeStep, AnswerStep, ShowStep, NextRequestStep
     DEF Next
<1> QED BY ONLY <1>1, <1>2, [Next]_vars

LEMMA WireTyped ==
  ASSUME WireInv
  PROVE  TypeOK
<1>0. Shapes /\ OnWire /\ Received
  BY DEF WireInv
<1> DEFINE c == asked[1]
           id == asked[2]
           t == asked[3]
           empty == <<>>
           Typed(r) == /\ r.version \in Byte /\ r.command \in Byte
                       /\ r.channel_id \in Word /\ r.msg_len \in Word
                       /\ r.msg # NULL => r.msg \in Seq(Chars)
<1>1. c \in Byte /\ id \in Word /\ t \in Short /\ asked = <<c, id, t>>
  BY <1>0 DEF Shapes
<1>2. 32 \in Byte /\ 0 \in Byte /\ 0 \in Word
  BY Widths
<1>3. t \in Seq(Chars) /\ empty \in Seq(Chars) /\ empty \in Seq(Byte)
  BY <1>1, ShortFacts
<1>4. got = Request(32, c, id, 0, t) \/ got = Nothing
  BY <1>0 DEF Received
<1> HIDE DEF c, id, t, empty
<1>5. Typed(got)
  <2>1. CASE got = Request(32, c, id, 0, t)
    BY ONLY <1>1, <1>2, <1>3, <2>1 DEF Request
  <2>2. CASE got = Nothing
    <3>1. got = Request(0, 0, 0, 0, empty)
      BY ONLY <2>2 DEF Nothing, empty
    <3> QED BY ONLY <1>2, <1>3, <3>1 DEF Request
  <2> QED BY ONLY <1>4, <2>1, <2>2
<1>6. req # NULL => Typed(req)
  <2> SUFFICES ASSUME req \in Kept PROVE Typed(req)
    BY <1>0 DEF Shapes
  <2> QED BY ONLY req \in Kept, <1>2 DEF Kept, Short
<1>7. wire \in Seq(Byte)
  <2>1. CASE phase = "request"
    <3>1. wire = PacketOf(c, id, t)
      BY <1>0, <2>1 DEF OnWire, cpt_serialize_packet, Request, PacketOf, c, id, t
    <3> QED BY ONLY <1>1, <3>1, PacketRead
  <2>2. CASE phase = "answer"
    <3>1. PICK y : Reply(y) /\ wire = <<got.command>> \o StringField(y)
      BY <1>0, <2>2 DEF OnWire
    <3>2. y \in Seq(NoZero) /\ Len(y) \in Word /\ got.command \in Byte
      BY ONLY <1>5, <3>1 DEF Reply
    <3>3. AnswerPacket(wire, y)
      BY ONLY <3>1, <3>2, AnswerBytes, Zenon
    <3> QED BY ONLY <3>3 DEF AnswerPacket
  <2>3. CASE phase \in {"idle", "serve"}
    BY ONLY <1>0, <1>3, <2>3 DEF OnWire, empty
  <2>4. CASE phase \in {"shown", "stray", "overrun"}
    BY ONLY <1>0, <2>4 DEF OnWire
  <2>5. phase \in {"idle", "request", "serve", "answer", "shown", "stray", "overrun"}
    BY ONLY <1>0 DEF Shapes, Served
  <2> QED BY ONLY <2>1, <2>2, <2>3, <2>4, <2>5
<1>8. asked \in Byte \X Word \X Seq(Chars)
  BY ONLY <1>1, <1>3
<1>9. /\ phase \in {"idle", "request", "serve", "answer", "shown", "stray", "overrun"}
      /\ res_buf \in [1 .. 2 * MaxStr -> Byte]
      /\ meant.text \in Seq(Chars) /\ (meant.id # NULL => meant.id \in ChanIds)
      /\ shown \in Seq(Byte)
  BY ONLY <1>0 DEF Shapes, Served, Buffer
<1>10. \A r \in {req, got} \ {NULL} : Typed(r)
  BY ONLY <1>5, <1>6
<1> QED BY ONLY <1>7, <1>8, <1>9, <1>10 DEF TypeOK

LEMMA RequestHolds ==
  ASSUME WireInv
  PROVE  RequestArrives
<1> DEFINE c == asked[1]
           id == asked[2]
           t == asked[3]
<1> SUFFICES ASSUME phase = "serve"
             PROVE  got.version = 16 * 2 /\ <<got.command, got.channel_id, got.msg>> = asked
  BY DEF RequestArrives
<1>1. got = Request(32, c, id, 0, t) /\ asked \in Byte \X Word \X Short
  BY DEF WireInv, Received, Shapes, Served
<1>2. /\ got.version = 32 /\ got.command = c /\ got.channel_id = id
      /\ got.msg = t
  BY ONLY <1>1 DEF Request
<1>3. asked = <<c, id, t>>
  BY ONLY <1>1
<1> HIDE DEF c, id, t
<1> QED BY ONLY <1>2, <1>3

LEMMA AnswerHolds ==
  ASSUME WireInv
  PROVE  AnswerArrives
<1> SUFFICES ASSUME phase = "shown"
             PROVE  IF meant.id = NULL THEN shown = Cut(meant.text)
                    ELSE meant.id \in 1 .. 255 => (shown # <<>> /\ shown[1] = meant.id)
  BY DEF AnswerArrives
<1>1. PICK t : Reply(t) /\ shown = Cut(t)
  BY DEF WireInv, Received
<1>2. CASE meant.id = NULL
  BY <1>1, <1>2 DEF Reply
<1>3. CASE meant.id # NULL
  <2> DEFINE id == meant.id
             lo == id % 256
  <2>1. PICK b \in Garbage : t = CString(InMemory(id) \o <<b, 0>>)
    BY <1>1, <1>3 DEF Reply
  <2>2. id \in Word /\ b \in Byte
    BY <1>3, ConstantsAssumption DEF WireInv, Shapes
  <2> HIDE DEF id
  <2> DEFINE data == InMemory(id) \o <<b, 0>>
  <2>3. data \in Seq(Byte) /\ data # <<>> /\ data[1] = lo
    BY ONLY <2>2, IdData
  <2>4. t = CString(data)
    BY ONLY <2>1
  <2> HIDE DEF data, lo
  <2>5. lo # 0 => t # <<>> /\ t[1] = lo
    BY ONLY <2>3, <2>4, CStringHead
  <2>6. t \in Seq(NoZero)
    BY ONLY <1>1 DEF Reply
  <2>7. lo # 0 => shown # <<>> /\ shown[1] = lo
    BY ONLY <1>1, <2>5, <2>6, CutFacts
  <2>8. id \in 1 .. 255 => lo = id /\ lo # 0
    BY ONLY <2>2 DEF lo
  <2>9. id \in 1 .. 255 => (shown # <<>> /\ shown[1] = id)
    BY ONLY <2>7, <2>8
  <2> QED BY ONLY <1>3, <2>9 DEF id
<1> QED BY ONLY <1>2, <1>3

(* Each field of a packet has its width, what the server reads from a      *)
(* request is the version, the command, the id and the text the client put *)
(* into it (cpt_serialize_packet and cpt_parse_request), and of an answer  *)
(* the client sees what one recv of MD_BUFF_SIZE brings, and an id from 1  *)
(* to 255: for texts, ids and rosters of any size, with the list of users  *)
(* within the buffer of get_users_event.                                   *)
THEOREM Arrival ==
  Spec => [](TypeOK /\ RequestArrives /\ AnswerArrives)
<1>1. Init => WireInv
  BY WireInit
<1>2. WireInv /\ [Next]_vars => WireInv'
  BY WireStep
<1>3. WireInv => TypeOK /\ RequestArrives /\ AnswerArrives
  BY WireTyped, RequestHolds, AnswerHolds
<1> QED BY <1>1, <1>2, <1>3, PTL DEF Spec
=============================================================================
