-------------------------- MODULE ChatServerProofs --------------------------
(* Theorems about ChatServer, for every value of its constants.            *)
EXTENDS ChatServer, SequenceTheorems, FiniteSetTheorems, WellFoundedInduction, TLAPS

(* The library's CHOOSE of a least element finds one.                      *)
LEMMA NatSetHasMin ==
  ASSUME NEW I, I \subseteq Nat, I # {}
  PROVE  /\ Min(I) \in I
         /\ \A j \in I : Min(I) <= j
<1> DEFINE R == {ss \in Nat \X Nat : ss[1] < ss[2]}
<1>0. OpToRel(<, Nat) = R
  BY DEF OpToRel
<1>1. IsWellFoundedOn(R, Nat)
  BY <1>0, NatLessThanWellFounded, Zenon
<1>2. PICK m \in I : \A y \in I : ~ (<<y, m>> \in R)
  <2> HIDE DEF R
  <2> QED BY <1>1, WFMin, Zenon
<1>3. \A y \in I : m <= y
  <2> TAKE y \in I
  <2>1. ~ (<<y, m>> \in R)
    BY <1>2
  <2>2. <<y, m>> \in Nat \X Nat
    BY SMT
  <2>3. ~ (y < m)
    BY <2>1, <2>2, Zenon
  <2> QED BY <2>3
<1> QED BY <1>3 DEF Min

-----------------------------------------------------------------------------
(* What the sequence operators that stand for the linked lists preserve:   *)
(* Cons for push_data and push_node, RemoveFirst for delete_node, Contains *)
(* for find_node.                                                          *)

(* A push puts one node in front and moves the others back by one.         *)
LEMMA ConsFacts ==
  ASSUME NEW S, NEW s \in Seq(S), NEW e \in S
  PROVE  /\ Cons(e, s) \in Seq(S)
         /\ Len(Cons(e, s)) = Len(s) + 1
         /\ Cons(e, s)[1] = e
         /\ \A i \in 1 .. Len(s) : Cons(e, s)[i + 1] = s[i]
BY DEF Cons

(* A pushed list contains the new element and what it contained.           *)
LEMMA ConsContains ==
  ASSUME NEW S, NEW s \in Seq(S), NEW e \in S, NEW x
  PROVE  Contains(Cons(e, s), x) <=> x = e \/ Contains(s, x)
<1> DEFINE t == Cons(e, s)
<1>0. /\ Len(t) = Len(s) + 1 /\ Len(s) \in Nat
      /\ t[1] = e
      /\ \A i \in 1 .. Len(s) : t[i + 1] = s[i]
  BY ONLY s \in Seq(S), e \in S DEF Cons
<1> HIDE DEF t
<1>1. ASSUME Contains(t, x) PROVE x = e \/ Contains(s, x)
  <2>1. PICK i \in 1 .. Len(t) : t[i] = x
    BY <1>1 DEF Contains
  <2>2. CASE i = 1  BY <2>1, <2>2, <1>0
  <2>3. CASE i # 1
    <3>1. i - 1 \in 1 .. Len(s) /\ (i - 1) + 1 = i  BY <2>3, <1>0
    <3> QED BY <3>1, <2>1, <1>0 DEF Contains
  <2> QED BY <2>2, <2>3
<1>2. ASSUME x = e PROVE Contains(t, x)
  BY <1>2, <1>0 DEF Contains
<1>3. ASSUME Contains(s, x) PROVE Contains(t, x)
  <2>1. PICK i \in 1 .. Len(s) : s[i] = x
    BY <1>3 DEF Contains
  <2>2. i + 1 \in 1 .. Len(t) /\ t[i + 1] = x
    BY <2>1, <1>0
  <2> QED BY <2>2 DEF Contains
<1> QED BY <1>1, <1>2, <1>3 DEF t

(* Deleting a node keeps those in front and moves the ones behind it up.   *)
LEMMA RemoveAtFacts ==
  ASSUME NEW S, NEW s \in Seq(S), NEW i \in 1 .. Len(s)
  PROVE  /\ RemoveAt(s, i) \in Seq(S)
         /\ Len(RemoveAt(s, i)) = Len(s) - 1
         /\ \A j \in 1 .. Len(s) - 1 :
              RemoveAt(s, i)[j] = IF j < i THEN s[j] ELSE s[j + 1]
<1> DEFINE a == SubSeq(s, 1, i - 1)
           b == SubSeq(s, i + 1, Len(s))
<1>0. Len(s) \in Nat /\ \A j \in 1 .. Len(s) : s[j] \in S
  OBVIOUS
<1>1. /\ a \in Seq(S)
      /\ Len(a) = i - 1
      /\ \A j \in 1 .. i - 1 : a[j] = s[j]
  BY <1>0, SubSeqProperties
<1>2. /\ b \in Seq(S)
      /\ Len(b) = Len(s) - i
      /\ \A j \in 1 .. Len(s) - i : b[j] = s[i + j]
  BY <1>0, SubSeqProperties
<1>3. RemoveAt(s, i) = a \o b
  BY DEF RemoveAt
<1> HIDE DEF a, b
<1>4. /\ a \o b \in Seq(S)
      /\ Len(a \o b) = Len(a) + Len(b)
      /\ \A j \in 1 .. Len(a) + Len(b) :
           (a \o b)[j] = IF j <= Len(a) THEN a[j] ELSE b[j - Len(a)]
  BY <1>1, <1>2, ConcatProperties
<1>5. ASSUME NEW j \in 1 .. Len(s) - 1
      PROVE  (a \o b)[j] = IF j < i THEN s[j] ELSE s[j + 1]
  <2>1. CASE j < i  BY <2>1, <1>0, <1>1, <1>2, <1>4
  <2>2. CASE ~ (j < i)
    <3>1. j - (i - 1) \in 1 .. Len(s) - i /\ i + (j - (i - 1)) = j + 1
      BY <2>2, <1>0
    <3>2. b[j - (i - 1)] = s[j + 1]
      BY <3>1, <1>2
    <3>3. (a \o b)[j] = b[j - (i - 1)]
      <4>1. Len(a) = i - 1 /\ Len(b) = Len(s) - i
        BY ONLY <1>1, <1>2
      <4>2. j \in 1 .. Len(a) + Len(b) /\ ~ (j <= Len(a))
        BY ONLY <1>0, <2>2, <4>1, j \in 1 .. Len(s) - 1
      <4>3. (a \o b)[j] = b[j - Len(a)]
        BY ONLY <1>4, <4>2
      <4> QED BY ONLY <4>1, <4>3
    <3> QED BY <2>2, <3>2, <3>3
  <2> QED BY <2>1, <2>2
<1> QED BY <1>0, <1>1, <1>2, <1>3, <1>4, <1>5

(* delete_node takes out the first match.                                  *)
LEMMA RemoveFirstIndex ==
  ASSUME NEW S, NEW s \in Seq(S), NEW e, Contains(s, e)
  PROVE  \E i \in 1 .. Len(s) :
            /\ s[i] = e
            /\ \A j \in 1 .. i - 1 : s[j] # e
            /\ RemoveFirst(s, e) = RemoveAt(s, i)
<1> DEFINE I == {i \in 1 .. Len(s) : s[i] = e}
<1>1. I \subseteq Nat /\ I # {}
  BY DEF Contains
<1>2. Min(I) \in I /\ \A j \in I : Min(I) <= j
  <2> HIDE DEF I
  <2> QED BY <1>1, NatSetHasMin
<1>3. RemoveFirst(s, e) = RemoveAt(s, Min(I))
  BY <1>1 DEF RemoveFirst, SelectInSeq, Contains
<1>4. \A j \in 1 .. Min(I) - 1 : s[j] # e
  <2> SUFFICES ASSUME NEW j \in 1 .. Min(I) - 1, s[j] = e PROVE FALSE
    OBVIOUS
  <2>1. j \in I
    BY <1>2
  <2>2. Min(I) <= j /\ Min(I) \in Int
    BY <1>2, <2>1
  <2> QED BY <2>2
<1> QED BY <1>2, <1>3, <1>4

(* Without a match the list stays as it is.                                *)
LEMMA RemoveFirstAbsent ==
  ASSUME NEW s, NEW e, ~ Contains(s, e)
  PROVE  RemoveFirst(s, e) = s
BY DEF RemoveFirst, Contains

(* The list after delete_node, node by node.                               *)
LEMMA RemoveFirstNodes ==
  ASSUME NEW S, NEW s \in Seq(S), NEW e, Contains(s, e)
  PROVE  /\ RemoveFirst(s, e) \in Seq(S)
         /\ Len(RemoveFirst(s, e)) = Len(s) - 1
         /\ \E i \in 1 .. Len(s) :
              /\ s[i] = e
              /\ \A j \in 1 .. i - 1 : s[j] # e
              /\ \A j \in 1 .. Len(s) - 1 :
                   RemoveFirst(s, e)[j] = IF j < i THEN s[j] ELSE s[j + 1]
<1>1. PICK i \in 1 .. Len(s) :
        /\ s[i] = e
        /\ \A j \in 1 .. i - 1 : s[j] # e
        /\ RemoveFirst(s, e) = RemoveAt(s, i)
  BY RemoveFirstIndex
<1>2. /\ RemoveAt(s, i) \in Seq(S)
      /\ Len(RemoveAt(s, i)) = Len(s) - 1
      /\ \A j \in 1 .. Len(s) - 1 :
           RemoveAt(s, i)[j] = IF j < i THEN s[j] ELSE s[j + 1]
  BY RemoveAtFacts
<1> QED BY <1>1, <1>2

(* delete_node yields a list of the same kind of data.                     *)
LEMMA RemoveFirstType ==
  ASSUME NEW S, NEW s \in Seq(S), NEW e
  PROVE  RemoveFirst(s, e) \in Seq(S)
BY RemoveFirstNodes, RemoveFirstAbsent

(* Two nodes left after delete_node were two nodes before it.              *)
LEMMA RemoveFirstPairs ==
  ASSUME NEW S, NEW s \in Seq(S), NEW e
  PROVE  \A p, q \in 1 .. Len(RemoveFirst(s, e)) :
            p # q => \E a, b \in 1 .. Len(s) :
                        /\ a # b
                        /\ s[a] = RemoveFirst(s, e)[p]
                        /\ s[b] = RemoveFirst(s, e)[q]
<1> DEFINE r == RemoveFirst(s, e)
<1> SUFFICES ASSUME NEW p \in 1 .. Len(r), NEW q \in 1 .. Len(r), p # q
             PROVE  \E a, b \in 1 .. Len(s) : a # b /\ s[a] = r[p] /\ s[b] = r[q]
  OBVIOUS
<1>1. CASE ~ Contains(s, e)
  BY <1>1, RemoveFirstAbsent
<1>2. CASE Contains(s, e)
  <2>1. /\ Len(r) = Len(s) - 1 /\ Len(s) \in Nat
        /\ \E i \in 1 .. Len(s) :
              \A j \in 1 .. Len(s) - 1 : r[j] = IF j < i THEN s[j] ELSE s[j + 1]
    BY <1>2, RemoveFirstNodes
  <2>2. PICK i \in 1 .. Len(s) :
          \A j \in 1 .. Len(s) - 1 : r[j] = IF j < i THEN s[j] ELSE s[j + 1]
    BY <2>1
  <2> DEFINE At(j) == IF j < i THEN j ELSE j + 1
  <2> HIDE DEF r
  <2>3. p \in 1 .. Len(s) - 1 /\ q \in 1 .. Len(s) - 1
    BY <2>1 DEF r
  <2>4. At(p) \in 1 .. Len(s) /\ At(q) \in 1 .. Len(s) /\ At(p) # At(q)
    BY <2>1, <2>3
  <2>5. s[At(p)] = r[p] /\ s[At(q)] = r[q]
    BY <2>2, <2>3
  <2> HIDE DEF At
  <2> QED BY <2>4, <2>5 DEF r
<1> QED BY <1>1, <1>2

(* delete_node keeps every other datum and adds none.                      *)
LEMMA RemoveFirstContains ==
  ASSUME NEW S, NEW s \in Seq(S), NEW e, NEW x
  PROVE  /\ Contains(RemoveFirst(s, e), x) => Contains(s, x)
         /\ x # e /\ Contains(s, x) => Contains(RemoveFirst(s, e), x)
<1> DEFINE r == RemoveFirst(s, e)
<1>1. CASE ~ Contains(s, e)
  BY <1>1, RemoveFirstAbsent
<1>2. CASE Contains(s, e)
  <2>1. /\ Len(r) = Len(s) - 1 /\ Len(s) \in Nat
        /\ \E i \in 1 .. Len(s) :
              /\ s[i] = e
              /\ \A j \in 1 .. Len(s) - 1 : r[j] = IF j < i THEN s[j] ELSE s[j + 1]
    BY <1>2, RemoveFirstNodes
  <2>2. PICK i \in 1 .. Len(s) :
          /\ s[i] = e
          /\ \A j \in 1 .. Len(s) - 1 : r[j] = IF j < i THEN s[j] ELSE s[j + 1]
    BY <2>1
  <2> HIDE DEF r
  <2>3. ASSUME Contains(r, x) PROVE Contains(s, x)
    <3>1. PICK j \in 1 .. Len(r) : r[j] = x
      BY <2>3 DEF Contains
    <3>2. j \in 1 .. Len(s) /\ j + 1 \in 1 .. Len(s) /\ (s[j] = x \/ s[j + 1] = x)
      BY <2>1, <2>2, <3>1
    <3> QED BY <3>2 DEF Contains
  <2>4. ASSUME x # e, Contains(s, x) PROVE Contains(r, x)
    <3>1. PICK k \in 1 .. Len(s) : s[k] = x
      BY <2>4 DEF Contains
    <3>2. k # i
      BY <2>2, <2>4, <3>1
    <3>3. CASE k < i
      <4>1. k \in 1 .. Len(r) /\ r[k] = x
        BY <2>1, <2>2, <3>1, <3>3
      <4> QED BY <4>1 DEF Contains
    <3>4. CASE k > i
      <4>1. k - 1 \in 1 .. Len(r) /\ (k - 1) + 1 = k /\ ~ (k - 1 < i)
        BY <2>1, <3>4
      <4>2. r[k - 1] = x
        BY <2>1, <2>2, <3>1, <4>1
      <4> QED BY <4>1, <4>2 DEF Contains
    <3> QED BY <3>2, <3>3, <3>4
  <2> QED BY <2>3, <2>4 DEF r
<1> QED BY <1>1, <1>2

(* What delete_node leaves of the deleted datum was there twice.           *)
LEMMA RemoveFirstTwice ==
  ASSUME NEW S, NEW s \in Seq(S), NEW e, Contains(RemoveFirst(s, e), e)
  PROVE  \E a, b \in 1 .. Len(s) : a # b /\ s[a] = e /\ s[b] = e
<1> DEFINE r == RemoveFirst(s, e)
<1>1. Contains(s, e)
  BY RemoveFirstContains
<1>2. Len(r) = Len(s) - 1 /\ Len(s) \in Nat
  BY <1>1, RemoveFirstNodes
<1>3. PICK i \in 1 .. Len(s) :
        /\ s[i] = e
        /\ \A j \in 1 .. Len(s) - 1 : r[j] = IF j < i THEN s[j] ELSE s[j + 1]
  BY <1>1, RemoveFirstNodes
<1>4. PICK j \in 1 .. Len(r) : r[j] = e
  BY DEF Contains
<1> HIDE DEF r
<1> DEFINE k == IF j < i THEN j ELSE j + 1
<1>5. k \in 1 .. Len(s) /\ k # i /\ s[k] = e
  BY <1>2, <1>3, <1>4
<1> HIDE DEF k
<1> QED BY <1>3, <1>5

(* delete_node of another datum leaves the last node where it is.          *)
LEMMA RemoveFirstLast ==
  ASSUME NEW S, NEW s \in Seq(S), NEW e, s # <<>>, Last(s) # e
  PROVE  RemoveFirst(s, e) # <<>> /\ Last(RemoveFirst(s, e)) = Last(s)
<1> DEFINE r == RemoveFirst(s, e)
<1>0. Len(s) \in Nat \ {0}
  OBVIOUS
<1>1. CASE ~ Contains(s, e)
  BY <1>1, RemoveFirstAbsent
<1>2. CASE Contains(s, e)
  <2>1. r \in Seq(S) /\ Len(r) = Len(s) - 1
    BY <1>2, RemoveFirstNodes
  <2>2. PICK i \in 1 .. Len(s) :
          /\ s[i] = e
          /\ \A j \in 1 .. Len(s) - 1 : r[j] = IF j < i THEN s[j] ELSE s[j + 1]
    BY <1>2, RemoveFirstNodes
  <2> HIDE DEF r
  <2>3. i < Len(s)
    BY <1>0, <2>2 DEF Last
  <2>4. Len(r) \in 1 .. Len(s) - 1 /\ Len(r) + 1 = Len(s) /\ ~ (Len(r) < i)
    BY <1>0, <2>1, <2>3
  <2>5. r[Len(r)] = s[Len(s)]
    BY <2>2, <2>4
  <2>6. r # <<>>
    BY <2>4
  <2> QED BY <2>5, <2>6 DEF r, Last
<1> QED BY <1>1, <1>2

(* Contains in terms of the set of data.                                   *)
LEMMA ContainsIsInRange ==
  ASSUME NEW S, NEW s \in Seq(S), NEW x
  PROVE  Contains(s, x) <=> x \in Range(s)
<1>1. DOMAIN s = 1 .. Len(s)
  OBVIOUS
<1> QED BY <1>1 DEF Contains, Range

(* Pushing a datum that is not in a list without duplicates adds none.     *)
LEMMA ConsInjective ==
  ASSUME NEW S, NEW s \in Seq(S), NEW e \in S, IsInjective(s), ~ Contains(s, e)
  PROVE  IsInjective(Cons(e, s))
<1> DEFINE t == Cons(e, s)
<1>0. /\ t \in Seq(S) /\ Len(t) = Len(s) + 1 /\ Len(s) \in Nat
      /\ t[1] = e
      /\ \A i \in 1 .. Len(s) : t[i + 1] = s[i]
  BY ONLY s \in Seq(S), e \in S DEF Cons
<1>1. DOMAIN t = 1 .. Len(s) + 1 /\ DOMAIN s = 1 .. Len(s)
  BY <1>0
<1> HIDE DEF t
<1>2. \A i \in 2 .. Len(s) + 1 : i - 1 \in 1 .. Len(s) /\ t[i] = s[i - 1]
  <2> TAKE i \in 2 .. Len(s) + 1
  <2>1. i - 1 \in 1 .. Len(s) /\ (i - 1) + 1 = i
    BY <1>0
  <2> QED BY <2>1, <1>0
<1>3. \A i \in 2 .. Len(s) + 1 : t[i] # e
  <2> TAKE i \in 2 .. Len(s) + 1
  <2>1. s[i - 1] # e
    BY <1>2 DEF Contains
  <2> QED BY <1>2, <2>1
<1>4. ASSUME NEW i \in DOMAIN t, NEW j \in DOMAIN t, t[i] = t[j] PROVE i = j
  <2>1. CASE i = 1 \/ j = 1
    <3>1. i \in 1 .. Len(s) + 1 /\ j \in 1 .. Len(s) + 1
      BY <1>1
    <3> QED BY <2>1, <3>1, <1>0, <1>3, <1>4
  <2>2. CASE i # 1 /\ j # 1
    <3>1. i \in 2 .. Len(s) + 1 /\ j \in 2 .. Len(s) + 1
      BY <2>2, <1>0, <1>1
    <3>2. i - 1 \in DOMAIN s /\ j - 1 \in DOMAIN s /\ s[i - 1] = s[j - 1]
      BY <3>1, <1>1, <1>2, <1>4
    <3>3. i - 1 = j - 1
      BY <3>2 DEF IsInjective
    <3> QED BY <3>1, <3>3, <1>0
  <2> QED BY <2>1, <2>2
<1> QED BY <1>4 DEF IsInjective, t

(* From a list without duplicates delete_node takes the datum out for good.*)
LEMMA RemoveFirstInjective ==
  ASSUME NEW S, NEW s \in Seq(S), NEW e, IsInjective(s)
  PROVE  /\ IsInjective(RemoveFirst(s, e))
         /\ ~ Contains(RemoveFirst(s, e), e)
<1>0. DOMAIN s = 1 .. Len(s)
  OBVIOUS
<1>1. DOMAIN RemoveFirst(s, e) = 1 .. Len(RemoveFirst(s, e))
  BY RemoveFirstType, LenProperties
<1>2. ASSUME NEW p \in DOMAIN RemoveFirst(s, e), NEW q \in DOMAIN RemoveFirst(s, e), p # q
      PROVE  RemoveFirst(s, e)[p] # RemoveFirst(s, e)[q]
  <2>1. p \in 1 .. Len(RemoveFirst(s, e)) /\ q \in 1 .. Len(RemoveFirst(s, e))
    BY <1>1
  <2>2. PICK a \in 1 .. Len(s), b \in 1 .. Len(s) :
          a # b /\ s[a] = RemoveFirst(s, e)[p] /\ s[b] = RemoveFirst(s, e)[q]
    BY <1>2, <2>1, RemoveFirstPairs
  <2> QED BY <1>0, <2>2 DEF IsInjective
<1>3. ~ Contains(RemoveFirst(s, e), e)
  BY <1>0, RemoveFirstTwice DEF IsInjective
<1> QED BY <1>2, <1>3 DEF IsInjective

-----------------------------------------------------------------------------
(* The constants, as the provers need them.                                *)
LEMMA Constants ==
  /\ \A f \in Fds : f \in Nat /\ f # Root
  /\ IdMod \in Nat \ {0} /\ ChanMod \in Nat \ {0}
  /\ DirBase \in Nat /\ MaxUsers \in Nat /\ MaxChannels \in Nat
  /\ Root \in Nat /\ GcId \in Nat
  /\ ChanIds \subseteq Nat
BY ConstantsAssumption DEF Root, GcId, ChanIds

(* A user id is a natural number.                                          *)
LEMMA UserIdType == \A f \in Fds : UserId(f) \in Nat
BY Constants DEF UserId

(* accept returns the least free descriptor, and there is one.             *)
LEMMA AcceptFacts ==
  ASSUME open \subseteq Fds, open # Fds
  PROVE  Min(Fds \ open) \in Fds \ open
BY Constants, NatSetHasMin

(* The directory ends in the node of the global channel.                   *)
LEMMA DirFacts ==
  ASSUME TypeOK
  PROVE  /\ DOMAIN dir = 1 .. Len(chans) + 1
         /\ \A i \in 1 .. Len(chans) : dir[i] = chans[i]
         /\ dir[Len(chans) + 1] = [id |-> GcId, users |-> gc]
         /\ Len(chans) \in Nat
         /\ DOMAIN chans = 1 .. Len(chans)
BY DEF TypeOK, dir

(* The users of a channel are a list of numbers.                           *)
LEMMA ChannelUsers ==
  ASSUME TypeOK
  PROVE  /\ \A i \in DOMAIN chans : chans[i] \in Channel /\ chans[i].users \in Seq(Nat)
         /\ gc \in Seq(Nat)
         /\ DOMAIN chans = 1 .. Len(chans) /\ Len(chans) \in Nat
         /\ chans \in Seq(Channel)
<1>1. /\ gc \in Seq(Nat) /\ chans \in Seq(Channel)
      /\ DOMAIN chans = 1 .. Len(chans) /\ Len(chans) \in Nat
  BY DEF TypeOK
<1>2. ASSUME NEW i \in DOMAIN chans
      PROVE  chans[i] \in Channel
  BY <1>1
<1>3. \A c \in Channel : c.users \in Seq(Nat)
  BY DEF Channel
<1> QED BY <1>1, <1>2, <1>3

(* The channels Logout keeps are listed by increasing positions.           *)
LEMMA KeptFacts ==
  ASSUME TypeOK, NEW f, NEW e \in Enumerations(Kept(f))
  PROVE  /\ \E n \in Nat : e \in [1 .. n -> DOMAIN chans]
         /\ \A a, b \in DOMAIN e : a < b => e[a] < e[b]
         /\ Range(e) = Kept(f)
<1>1. Kept(f) \subseteq 1 .. Len(chans) /\ Len(chans) \in Nat
  BY DEF Kept, TypeOK
<1>2. IsFiniteSet(1 .. Len(chans))
  BY <1>1, FS_Interval
<1>3. IsFiniteSet(Kept(f))
  BY <1>1, <1>2, FS_Subset
<1>4. Cardinality(Kept(f)) \in Nat
  BY <1>3, FS_CardinalityType
<1>5. /\ e \in [1 .. Cardinality(Kept(f)) -> Kept(f)]
      /\ \A a, b \in DOMAIN e : a < b => e[a] < e[b]
      /\ Range(e) = Kept(f)
  BY DEF Enumerations
<1>6. DOMAIN chans = 1 .. Len(chans)
  BY DEF TypeOK
<1> QED BY <1>1, <1>4, <1>5, <1>6

(* The step of Login that lets a connection in.                            *)
Admitted(f, fits, gone) ==
  /\ open' = open \cup {f}
  /\ hung' = IF gone THEN hung \cup {f} ELSE hung
  /\ status' \in IF gone THEN {"up", "exit"} ELSE {"up"}
  /\ sent' = Packet(IF fits THEN "LOGIN" ELSE "FAILURE", f, GcId, {f})
  /\ gc' = Admit(f, fits)
  /\ loggedIn' = IF fits THEN loggedIn \cup {f} ELSE loggedIn
  /\ told' = [told EXCEPT ![f] = {}]
  /\ UNCHANGED <<chans, res, orphans, clash>>

(* A fault ends the process and leaves everything else as it was.          *)
Stopped ==
  /\ status' = "fault"
  /\ UNCHANGED <<open, hung, gc, chans, res, loggedIn, orphans, told, clash>>

(* Each handler that is not stopped by a fault.                            *)
LEMMA FaultStops == \A f : (Fault(f) => Stopped) /\ (Reread(f) => Fault(f))
BY DEF Fault, Reread, Stopped, conns, lists, history

(* What a handler writes is a packet.                                      *)
LEMMA PacketType ==
  ASSUME NEW code \in Codes, NEW f \in Nat, NEW c \in Nat, NEW to \in SUBSET Nat
  PROVE  Packet(code, f, c, to) \in [code : Codes, by : Nat, chan : Nat, to : SUBSET Nat]
BY DEF Packet

(* Nothing is a packet too.                                                *)
LEMMA NothingType ==
  ASSUME NEW f \in Nat
  PROVE  Nothing(f) \in [code : Codes, by : Nat, chan : Nat, to : SUBSET Nat]
BY Constants, PacketType DEF Nothing, Codes

(* A fault changes the status and the packet only.                         *)
LEMMA FaultType ==
  ASSUME TypeOK, NEW f \in Nat, Fault(f)
  PROVE  TypeOK'
<1>1. sent' \in [code : Codes, by : Nat, chan : Nat, to : SUBSET Nat]
  BY NothingType DEF Fault
<1> QED BY <1>1 DEF TypeOK, Fault, Statuses, conns, lists, history

(* An answer leaves a packet and one of two statuses.                      *)
LEMMA AnswerType ==
  ASSUME NEW code \in Codes, NEW f \in Nat, NEW c \in Nat, Answer(code, f, c)
  PROVE  /\ status' \in Statuses
         /\ sent' \in [code : Codes, by : Nat, chan : Nat, to : SUBSET Nat]
BY PacketType DEF Answer, Write, Statuses

(* Every step keeps the types.                                             *)
LEMMA TypeStep == TypeOK /\ [Next]_vars => TypeOK'
<1> SUFFICES ASSUME TypeOK, [Next]_vars PROVE TypeOK'
  OBVIOUS
<1> USE Constants
<1>1. ASSUME NEW fits \in BOOLEAN, NEW gone \in BOOLEAN, Login(fits, gone) PROVE TypeOK'
  <2> DEFINE f == Min(Fds \ open)
  <2>1. f \in Fds /\ f \notin open /\ f \in Nat
    BY <1>1, AcceptFacts DEF Login, TypeOK
  <2>2. Fault(f) \/ Admitted(f, fits, gone)
    BY <1>1 DEF Login, Admitted
  <2> HIDE DEF f
  <2>3. CASE Fault(f)  BY <2>1, <2>3, FaultType
  <2>4. CASE Admitted(f, fits, gone)
    <3>1. gc' \in Seq(Nat)
      BY <2>1, <2>4, UserIdType, ConsFacts DEF Admitted, Admit, TypeOK
    <3>2. sent' \in [code : Codes, by : Nat, chan : Nat, to : SUBSET Nat]
      BY <2>1, <2>4, PacketType DEF Admitted, Codes
    <3> QED BY <2>1, <2>4, <3>1, <3>2 DEF Admitted, TypeOK, Statuses
  <2> QED BY <2>2, <2>3, <2>4
<1>2. ASSUME NEW f \in Fds, CreateChannel(f) PROVE TypeOK'
  <2>1. CASE Fault(f)  BY <2>1, FaultType
  <2>2. CASE /\ chans' = Cons(NewChannel(f), chans)
             /\ Answer("CREATE_CHANNEL", f, AnsweredId(DirLength'))
             /\ told' = [told EXCEPT ![f] = @ \cup {AnsweredId(DirLength')}]
             /\ clash' = (clash \/ ~ NoChannel(NewChannel(f).id))
             /\ UNCHANGED <<conns, gc, res, loggedIn, orphans>>
    <3>1. DirLength % ChanMod \in Nat
      BY DEF DirLength, TypeOK
    <3>2. NewChannel(f) \in Channel
      BY <3>1 DEF NewChannel, Channel
    <3>3. chans' \in Seq(Channel) /\ Len(chans') = Len(chans) + 1
      BY <3>2, <2>2, ConsFacts DEF TypeOK
    <3>4. AnsweredId(DirLength') \in Nat
      BY <3>3 DEF AnsweredId, DirLength, TypeOK
    <3>5. /\ status' \in Statuses
          /\ sent' \in [code : Codes, by : Nat, chan : Nat, to : SUBSET Nat]
      BY <2>2, <3>4, AnswerType DEF Codes
    <3> QED BY <2>2, <3>3, <3>4, <3>5 DEF TypeOK, conns
  <2> QED BY <1>2, <2>1, <2>2, FaultStops DEF CreateChannel
<1>3. ASSUME NEW f \in Fds, NEW c \in ChanIds, JoinChannel(f, c) PROVE TypeOK'
  <2>1. CASE Fault(f)  BY <2>1, FaultType
  <2>2. CASE ~ Fault(f)
    <3>1. /\ status' \in Statuses
          /\ sent' \in [code : Codes, by : Nat, chan : Nat, to : SUBSET Nat]
      BY <1>3, <2>2, AnswerType DEF JoinChannel, Codes
    <3>2. chans' \in Seq(Channel)
      <4>1. CASE chans' = chans  BY <4>1 DEF TypeOK
      <4>2. ASSUME NEW i \in DOMAIN dir, chans' = [chans EXCEPT ![i].users = Cons(f, @)]
            PROVE chans' \in Seq(Channel)
        <5>1. CASE i \in DOMAIN chans
          <6>1. chans[i] \in Channel
            BY <5>1 DEF TypeOK
          <6>2. [chans[i] EXCEPT !.users = Cons(f, @)] \in Channel
            <7>1. chans[i].users \in Seq(Nat) /\ f \in Nat
              BY <6>1, Constants DEF Channel
            <7>2. Cons(f, chans[i].users) \in Seq(Nat)
              BY ONLY <7>1, ConsFacts
            <7> QED BY ONLY <6>1, <7>2 DEF Channel
          <6>3. chans \in Seq(Channel)
            BY DEF TypeOK
          <6> QED BY ONLY <4>2, <5>1, <6>2, <6>3
        <5>2. CASE i \notin DOMAIN chans
          <6>1. chans' = chans
            BY <4>2, <5>2 DEF TypeOK
          <6> QED BY <6>1 DEF TypeOK
        <5> QED BY <5>1, <5>2
      <4> QED BY <1>3, <2>2, <4>1, <4>2 DEF JoinChannel
    <3>3. told' \in [Fds -> SUBSET Nat]
      <4>1. told' = told \/ told' = [told EXCEPT ![f] = @ \cup {c}]
        BY <1>3, <2>2 DEF JoinChannel
      <4> QED BY <4>1 DEF TypeOK
    <3> QED BY <1>3, <2>2, <3>1, <3>2, <3>3 DEF JoinChannel, TypeOK, conns
  <2> QED BY <2>1, <2>2
<1>4. ASSUME NEW f \in Fds, NEW c \in ChanIds, LeaveChannel(f, c) PROVE TypeOK'
  <2>1. CASE Fault(f)  BY <2>1, FaultType
  <2>2. CASE /\ Answer("FAILURE", f, c)
             /\ UNCHANGED <<conns, lists, res, history>>
    BY <2>2, AnswerType DEF TypeOK, Codes, conns, lists, history
  <2>3. ASSUME NEW i \in DOMAIN chans,
               chans' = Shrink(i, UserDelete(chans[i].users, f)),
               Answer("LEAVE_CHANNEL", f, c),
               told' = [told EXCEPT ![f] = @ \ {c}],
               UNCHANGED <<conns, gc, res, loggedIn, orphans, clash>>
        PROVE TypeOK'
    <3>1. chans[i] \in Channel
      BY DEF TypeOK
    <3>2. UserDelete(chans[i].users, f) \in Seq(Nat)
      BY <3>1, RemoveFirstType DEF UserDelete, Channel
    <3>3. [chans[i] EXCEPT !.users = UserDelete(chans[i].users, f)] \in Channel
      BY <3>1, <3>2 DEF Channel
    <3>4. chans' \in Seq(Channel)
      <4> DEFINE rest == UserDelete(chans[i].users, f)
      <4>1. chans \in Seq(Channel) /\ i \in 1 .. Len(chans)
        BY DEF TypeOK
      <4>2. RemoveAt(chans, i) \in Seq(Channel)
        BY ONLY <4>1, RemoveAtFacts
      <4>3. [chans EXCEPT ![i].users = rest] \in Seq(Channel)
        BY ONLY <3>3, <4>1
      <4>4. chans' = RemoveAt(chans, i) \/ chans' = [chans EXCEPT ![i].users = rest]
        BY ONLY <2>3 DEF Shrink
      <4> QED BY ONLY <4>2, <4>3, <4>4
    <3>5. /\ status' \in Statuses
          /\ sent' \in [code : Codes, by : Nat, chan : Nat, to : SUBSET Nat]
      BY <2>3, AnswerType DEF Codes
    <3> QED BY <2>3, <3>4, <3>5 DEF TypeOK, conns
  <2> QED BY <1>4, <2>1, <2>2, <2>3, FaultStops DEF LeaveChannel
<1>5. ASSUME NEW f \in Fds, NEW c \in ChanIds, GetUsers(f, c) PROVE TypeOK'
  <2>1. CASE Fault(f)  BY <2>1, FaultType
  <2>2. ASSUME NEW code \in {"GET_USERS", "FAILURE"}, Answer(code, f, c), res' = "freed",
               UNCHANGED <<conns, lists, history>>
        PROVE TypeOK'
    BY <2>2, AnswerType DEF TypeOK, Codes, conns, lists, history
  <2> QED BY <1>5, <2>1, <2>2, FaultStops DEF GetUsers
<1>6. ASSUME NEW f \in Fds, NEW c \in ChanIds, Send(f, c) PROVE TypeOK'
  <2>1. \A i \in DOMAIN dir : Recipients(i, f) \subseteq Nat
    <3> SUFFICES ASSUME NEW i \in DOMAIN dir PROVE dir[i].users \in Seq(Nat)
      BY DEF Recipients, Range
    <3>1. CASE i \in DOMAIN chans
      <4>1. chans[i] \in Channel
        BY <3>1 DEF TypeOK
      <4> QED BY <3>1, <4>1, DirFacts DEF Channel
    <3>2. CASE i \notin DOMAIN chans
      <4>1. dir[i] = [id |-> GcId, users |-> gc]
        BY <3>2, DirFacts
      <4> QED BY <4>1 DEF TypeOK
    <3> QED BY <3>1, <3>2
  <2>0. CASE Fault(f)  BY <2>0, FaultType
  <2>2. ASSUME ~ Fault(f)
        PROVE  /\ status' \in Statuses
               /\ res' \in {"unset", "null", "freed"}
               /\ sent' \in [code : Codes, by : Nat, chan : Nat, to : SUBSET Nat]
    <3>1. CASE \E i \in DOMAIN dir : /\ Write(Recipients(i, f))
                                   /\ sent' = Packet("SEND", f, c, Recipients(i, f))
                                   /\ res' = "freed"
      BY <2>1, <3>1, PacketType DEF Write, Statuses, Codes
    <3>2. CASE /\ status' \in DestroyEnds[res]
               /\ sent' = Nothing(f)
               /\ UNCHANGED res
      <4>1. res \in {"unset", "null", "freed"}
        BY DEF TypeOK
      <4>2. status' \in {"up", "fault", "refreed"}
        BY ONLY <3>2, <4>1 DEF DestroyEnds
      <4> QED BY <3>2, <4>1, <4>2, NothingType DEF Statuses
    <3> QED BY <1>6, <2>2, <3>1, <3>2, FaultStops DEF Send
  <2>3. UNCHANGED <<conns, lists, history>>
    BY <1>6 DEF Send
  <2> QED BY <2>0, <2>2, <2>3 DEF TypeOK, conns, lists, history
<1>7. ASSUME NEW f \in Fds, Logout(f) PROVE TypeOK'
  <2>1. CASE Fault(f)  BY <2>1, FaultType
  <2>2. ASSUME NEW e \in Enumerations(Kept(f)),
               chans' = [k \in DOMAIN e |->
                           [id |-> chans[e[k]].id, users |-> UsersAfter(e[k], f)]],
               gc' = UserDelete(gc, f), sent' = Nothing(f), Close(f),
               orphans' = orphans \cap Range(gc'), UNCHANGED <<status, res, clash>>
        PROVE TypeOK'
    <3>1. PICK n \in Nat : e \in [1 .. n -> DOMAIN chans]
      BY KeptFacts
    <3>2. ASSUME NEW i \in DOMAIN chans
          PROVE  [id |-> chans[i].id, users |-> UsersAfter(i, f)] \in Channel
      <4>1. chans[i] \in Channel
        BY DEF TypeOK
      <4>2. UsersAfter(i, f) \in Seq(Nat)
        BY <4>1, RemoveFirstType DEF UsersAfter, UserDelete, Channel
      <4> QED BY <4>1, <4>2 DEF Channel
    <3>3. chans' \in Seq(Channel)
      <4>1. DOMAIN e = 1 .. n /\ \A k \in 1 .. n : e[k] \in DOMAIN chans
        BY <3>1
      <4>2. chans' \in [1 .. n -> Channel]
        BY <2>2, <3>2, <4>1
      <4> QED BY <3>1, <4>2
    <3>4. gc' \in Seq(Nat)
      BY <2>2, RemoveFirstType DEF UserDelete, TypeOK
    <3>5. sent' \in [code : Codes, by : Nat, chan : Nat, to : SUBSET Nat]
      BY <2>2, NothingType
    <3> QED BY <2>2, <3>3, <3>4, <3>5 DEF TypeOK, Close
  <2> QED BY <1>7, <2>1, <2>2 DEF Logout
<1>8. ASSUME NEW f \in Fds, HangUp(f) PROVE TypeOK'
  BY <1>8, NothingType DEF HangUp, TypeOK, lists, history
<1>9. ASSUME NEW f \in Fds, Drop(f) PROVE TypeOK'
  <2>1. orphans' \subseteq Nat
    BY <1>9, UserIdType DEF Drop, TypeOK
  <2>2. sent' \in [code : Codes, by : Nat, chan : Nat, to : SUBSET Nat]
    BY <1>9, NothingType DEF Drop
  <2> QED BY <1>9, <2>1, <2>2 DEF Drop, Close, TypeOK, lists
<1>10. CASE EndLoop
  BY <1>10, NothingType DEF EndLoop, TypeOK, Statuses, conns, lists, history
<1>11. CASE UNCHANGED vars
  BY <1>11 DEF vars, TypeOK, conns, lists, history
<1> QED BY <1>1, <1>2, <1>3, <1>4, <1>5, <1>6, <1>7, <1>8, <1>9, <1>10, <1>11 DEF Next

(* The initial state has the types.                                        *)
LEMMA InitType == Init => TypeOK
<1> SUFFICES ASSUME Init PROVE TypeOK
  OBVIOUS
<1>1. sent \in [code : Codes, by : Nat, chan : Nat, to : SUBSET Nat]
  BY NothingType DEF Init
<1>2. gc \in Seq(Nat) /\ chans \in Seq(Channel)
  BY DEF Init, Root
<1> QED BY <1>1, <1>2 DEF Init, TypeOK, Statuses

(* The variables have their types in every reachable state.                *)
THEOREM Typing == Spec => []TypeOK
BY InitType, TypeStep, PTL DEF Spec

-----------------------------------------------------------------------------
(* Who is registered.  The invariant is inductive as a whole: LOGOUT keeps *)
(* a channel within the global one because the channel lists nobody twice, *)
(* and deletes from every channel because no channel has the id of the     *)
(* global one; JOIN keeps duplicates out because members are found; the    *)
(* global list holds an id twice only where a leftover is.                 *)
ChannelSound(c) ==
  /\ c.id # GcId
  /\ IsInjective(c.users)
  /\ \A x \in Nat : Contains(c.users, x) => Contains(gc, x) /\ x # Root

ChannelsSound == \A i \in DOMAIN chans : ChannelSound(chans[i])

Registered ==
  /\ TypeOK
  /\ SessionsRegistered
  /\ GlobalListExact
  /\ ChannelsSound

(* The casts lose nothing.                                                 *)
LEMMA Casts ==
  ASSUME IdsFit, TypeOK
  PROVE  /\ \A f \in Fds : UserId(f) = f
         /\ Len(chans) < MaxChannels =>
               DirLength % ChanMod = DirLength /\ DirLength # GcId
<1>1. \A a \in Nat, m \in Nat \ {0} : a < m => a % m = a
  OBVIOUS
<1>2. \A f \in Fds : UserId(f) = f
  BY <1>1, Constants DEF IdsFit, UserId
<1>3. Len(chans) < MaxChannels => DirLength \in Nat /\ DirLength < ChanMod /\ DirLength # 0
  BY Constants DEF IdsFit, DirLength, TypeOK
<1> QED BY <1>1, <1>2, <1>3, Constants DEF GcId

(* ChannelsSound is what the property of the channels says.                *)
LEMMA SoundChannels ==
  ASSUME TypeOK, ChannelsSound
  PROVE  ChannelsWithinGlobal
<1>1. ASSUME NEW i \in DOMAIN chans
      PROVE  Range(chans[i].users) \subseteq Range(gc) \ {Root}
  <2>1. chans[i].users \in Seq(Nat) /\ gc \in Seq(Nat)
    BY ChannelUsers
  <2>2. ASSUME NEW x \in Range(chans[i].users) PROVE x \in Range(gc) \ {Root}
    <3>1. Contains(chans[i].users, x) /\ x \in Nat
      BY <2>1, ContainsIsInRange DEF Range
    <3>2. Contains(gc, x) /\ x # Root
      BY <3>1 DEF ChannelsSound, ChannelSound
    <3> QED BY <2>1, <3>2, ContainsIsInRange
  <2> QED BY <2>2
<1>2. NoDuplicateMembers
  BY DEF ChannelsSound, ChannelSound, NoDuplicateMembers
<1> QED BY <1>1, <1>2 DEF ChannelsWithinGlobal

(* A step that leaves the lists and the sessions alone.                    *)
LEMMA RegisteredFrame ==
  ASSUME Registered, TypeOK', UNCHANGED <<gc, chans, loggedIn, orphans>>
  PROVE  Registered'
BY DEF Registered, SessionsRegistered, GlobalListExact, ChannelsSound, ChannelSound, UserId

(* A step that changes channels only keeps the rest.                       *)
LEMMA ChannelsFrame ==
  ASSUME Registered, TypeOK', UNCHANGED <<gc, loggedIn, orphans>>, ChannelsSound'
  PROVE  Registered'
BY DEF Registered, SessionsRegistered, GlobalListExact, UserId

(* A LOGIN puts an id in front that no session has.                        *)
LEMMA LoginRegistered ==
  ASSUME IdsFit, Registered, TypeOK', NEW fits \in BOOLEAN, NEW gone \in BOOLEAN,
         Login(fits, gone)
  PROVE  Registered'
<1> DEFINE f == Min(Fds \ open)
<1>1. f \in Fds /\ f \notin open /\ f \in Nat /\ f # Root /\ Root \in Nat
  BY AcceptFacts, Constants DEF Login, Registered, TypeOK
<1>4. Fault(f) \/ Admitted(f, fits, gone)
  BY DEF Login, Admitted
<1> HIDE DEF f
<1>5. CASE Fault(f)
  BY <1>5, FaultStops, RegisteredFrame DEF Stopped
<1> SUFFICES ASSUME Admitted(f, fits, gone) PROVE Registered'
  BY <1>4, <1>5
<1>0. Admitted(f, fits, gone)
  OBVIOUS
<1>2. CASE ~ fits
  BY <1>0, <1>2, RegisteredFrame DEF Admitted, Admit
<1>3. CASE fits
  <2>1. gc' = Cons(f, gc) /\ loggedIn' = loggedIn \cup {f} /\ UNCHANGED <<chans, orphans>>
    BY <1>0, <1>1, <1>3, Casts DEF Admitted, Admit, Registered
  <2>2. f \notin loggedIn /\ gc \in Seq(Nat) /\ gc # <<>> /\ Len(gc) \in Nat \ {0}
    BY <1>1 DEF Registered, TypeOK, GlobalListExact
  <2>3. /\ Len(gc') = Len(gc) + 1
        /\ gc'[1] = f
        /\ \A i \in 1 .. Len(gc) : gc'[i + 1] = gc[i]
        /\ \A x : Contains(gc', x) <=> x = f \/ Contains(gc, x)
        /\ gc' \in Seq(Nat)
    <3>1. /\ Cons(f, gc) \in Seq(Nat)
          /\ Len(Cons(f, gc)) = Len(gc) + 1
          /\ Cons(f, gc)[1] = f
          /\ \A i \in 1 .. Len(gc) : Cons(f, gc)[i + 1] = gc[i]
      <4>1. f \in Nat /\ gc \in Seq(Nat)
        BY <1>1, <2>2
      <4> QED BY <4>1 DEF Cons
    <3>2. \A x : Contains(Cons(f, gc), x) <=> x = f \/ Contains(gc, x)
      <4> SUFFICES ASSUME NEW x
                   PROVE  Contains(Cons(f, gc), x) <=> x = f \/ Contains(gc, x)
        OBVIOUS
      <4>1. f \in Nat /\ gc \in Seq(Nat)
        BY <1>1, <2>2
      <4> QED BY ONLY <4>1, ConsContains
    <3> QED BY <2>1, <3>1, <3>2
  <2>4. \A i \in 2 .. Len(gc) + 1 : i - 1 \in 1 .. Len(gc) /\ gc'[i] = gc[i - 1]
    <3> TAKE i \in 2 .. Len(gc) + 1
    <3>1. i - 1 \in 1 .. Len(gc) /\ (i - 1) + 1 = i
      BY <2>2
    <3> QED BY <2>3, <3>1
  <2>5. SessionsRegistered'
    <3> SUFFICES ASSUME NEW g \in loggedIn' PROVE Contains(gc', UserId(g))
      BY DEF SessionsRegistered, UserId
    <3>1. g \in Fds
      BY DEF TypeOK
    <3>2. UserId(g) = g /\ UserId(f) = f
      BY <1>1, <3>1, Casts DEF Registered
    <3> QED BY <2>1, <2>3, <3>2 DEF Registered, SessionsRegistered
  <2>6. ChannelsSound'
    BY <2>1, <2>3 DEF Registered, ChannelsSound, ChannelSound
  <2>7. gc' # <<>> /\ Last(gc)' = Root
    <3>1. gc'[Len(gc) + 1] = gc[Len(gc)]
      BY <2>2, <2>3
    <3>2. Last(gc)' = gc'[Len(gc')]
      BY DEF Last
    <3>3. gc[Len(gc)] = Root
      BY DEF Last, Registered, GlobalListExact
    <3> QED BY <2>2, <2>3, <3>1, <3>2, <3>3
  <2>8. ASSUME NEW i \in 1 .. (Len(gc') - 1)
        PROVE  gc'[i] \in (loggedIn' \cup orphans') \ {Root}
    <3>1. CASE i = 1  BY <3>1, <1>1, <2>1, <2>3
    <3>2. CASE i # 1
      <4>1. i \in 2 .. Len(gc) + 1 /\ i - 1 \in 1 .. (Len(gc) - 1)
        BY <3>2, <2>2, <2>3
      <4>2. gc[i - 1] \in (loggedIn \cup orphans) \ {Root}
        BY <4>1 DEF Registered, GlobalListExact
      <4> QED BY <4>1, <4>2, <2>1, <2>4
    <3> QED BY <3>1, <3>2
  <2>9. \A i \in 2 .. Len(gc) + 1 : gc'[i] = f => f \in orphans
    <3> SUFFICES ASSUME NEW i \in 2 .. Len(gc) + 1, gc'[i] = f PROVE f \in orphans
      OBVIOUS
    <3>1. i - 1 \in 1 .. Len(gc) /\ gc[i - 1] = f
      BY <2>4
    <3>2. i - 1 # Len(gc)
      BY <1>1, <3>1 DEF Registered, GlobalListExact, Last
    <3>3. i - 1 \in 1 .. (Len(gc) - 1)
      BY <2>2, <3>1, <3>2
    <3> QED BY <2>2, <3>1, <3>3 DEF Registered, GlobalListExact
  <2>10. ASSUME NEW i \in DOMAIN gc', NEW j \in DOMAIN gc', i # j, gc'[i] = gc'[j]
         PROVE  gc'[i] \in orphans'
    <3>1. i \in 1 .. Len(gc) + 1 /\ j \in 1 .. Len(gc) + 1
      BY <2>3
    <3>2. CASE i = 1
      <4>1. j \in 2 .. Len(gc) + 1
        BY <2>10, <3>1, <3>2
      <4> QED BY <4>1, <3>2, <2>1, <2>3, <2>9, <2>10
    <3>3. CASE j = 1
      <4>1. i \in 2 .. Len(gc) + 1
        BY <2>10, <3>1, <3>3
      <4> QED BY <4>1, <3>3, <2>1, <2>3, <2>9, <2>10
    <3>4. CASE i # 1 /\ j # 1
      <4>1. i \in 2 .. Len(gc) + 1 /\ j \in 2 .. Len(gc) + 1
        BY <3>1, <3>4
      <4>2. /\ i - 1 \in DOMAIN gc /\ j - 1 \in DOMAIN gc /\ i - 1 # j - 1
            /\ gc[i - 1] = gc'[i] /\ gc[j - 1] = gc'[j]
        BY <4>1, <2>2, <2>4, <2>10
      <4> QED BY <4>2, <2>1, <2>10 DEF Registered, GlobalListExact
    <3> QED BY <3>2, <3>3, <3>4
  <2>11. orphans' \subseteq Range(gc')
    <3>1. \A x \in orphans : Contains(gc, x)
      BY <2>2, ContainsIsInRange DEF Registered, GlobalListExact
    <3> QED BY <2>1, <2>3, <3>1, ContainsIsInRange
  <2>12. GlobalListExact'
    <3>1. Range(gc)' = Range(gc')
      BY DEF Range
    <3> QED BY <2>7, <2>8, <2>10, <2>11, <3>1 DEF GlobalListExact
  <2> QED BY <2>5, <2>6, <2>12 DEF Registered
<1> QED BY <1>2, <1>3

(* CREATE_CHANNEL adds a channel of one registered user.                   *)
LEMMA CreateRegistered ==
  ASSUME IdsFit, Registered, TypeOK', NEW f \in Fds, CreateChannel(f)
  PROVE  Registered'
<1>1. CASE Fault(f)
  BY <1>1, RegisteredFrame DEF Fault, lists, history
<1>2. CASE /\ Contains(gc, f)
           /\ chans' = Cons(NewChannel(f), chans)
           /\ UNCHANGED <<gc, loggedIn, orphans>>
  <2> DEFINE n == NewChannel(f)
  <2>1. DirLength % ChanMod \in Nat /\ DirLength % ChanMod # GcId
    <3>1. Len(chans) < MaxChannels
      BY DEF CreateChannel
    <3>2. TypeOK
      BY DEF Registered
    <3>3. DirLength % ChanMod = DirLength /\ DirLength # GcId
      BY ONLY IdsFit, <3>1, <3>2, Casts
    <3>4. DirLength \in Nat
      BY <3>2, Constants DEF DirLength, TypeOK
    <3> QED BY ONLY <3>3, <3>4
  <2>2. n \in Channel
    BY <2>1, Constants DEF NewChannel, Channel
  <2>3. ChannelSound(n)
    <3>1. IsInjective(<<f>>)
      BY DEF IsInjective
    <3>2. \A x : Contains(<<f>>, x) => x = f
      BY DEF Contains
    <3> QED BY <1>2, <2>1, <3>1, <3>2, Constants DEF NewChannel, ChannelSound
  <2> HIDE DEF n
  <2>4. /\ chans \in Seq(Channel) /\ DOMAIN chans = 1 .. Len(chans) /\ Len(chans) \in Nat
        /\ chans' \in Seq(Channel)
    BY ChannelUsers DEF Registered, TypeOK
  <2>5. /\ Len(chans') = Len(chans) + 1
        /\ chans'[1] = n
        /\ \A i \in 1 .. Len(chans) : chans'[i + 1] = chans[i]
    <3>1. chans' = Cons(n, chans)
      BY <1>2 DEF n
    <3>2. chans \in Seq(Channel)
      BY <2>4
    <3>3. /\ Cons(n, chans) \in Seq(Channel)
          /\ Len(Cons(n, chans)) = Len(chans) + 1
          /\ Cons(n, chans)[1] = n
          /\ \A i \in 1 .. Len(chans) : Cons(n, chans)[i + 1] = chans[i]
      BY ONLY <2>2, <3>2, ConsFacts
    <3> QED BY ONLY <3>1, <3>3
  <2>6. ASSUME NEW i \in DOMAIN chans' PROVE ChannelSound(chans'[i])
    <3>1. CASE i = 1  BY <3>1, <2>3, <2>5
    <3>2. CASE i # 1
      <4>1. i - 1 \in 1 .. Len(chans) /\ (i - 1) + 1 = i
        BY <2>4, <2>5, <3>2
      <4>2. chans'[i] = chans[i - 1]
        BY <2>5, <4>1
      <4>3. ChannelSound(chans[i - 1])
        BY <2>4, <4>1 DEF Registered, ChannelsSound
      <4> QED BY ONLY <4>2, <4>3
    <3> QED BY <3>1, <3>2
  <2>7. ChannelsSound'
    BY <1>2, <2>6 DEF ChannelsSound, ChannelSound
  <2> QED BY <1>2, <2>7, ChannelsFrame
<1> QED BY <1>1, <1>2, FaultStops DEF CreateChannel

(* One channel changes its users and stays sound, the others stay.         *)
LEMMA OneChannelSound ==
  ASSUME Registered, NEW i \in DOMAIN chans, NEW list \in Seq(Nat),
         chans' = [chans EXCEPT ![i].users = list], UNCHANGED gc,
         IsInjective(list),
         \A x \in Nat : Contains(list, x) => Contains(gc, x) /\ x # Root
  PROVE  ChannelsSound'
<1>1. chans[i] \in Channel
  BY ChannelUsers DEF Registered
<1>2. chans'[i].id = chans[i].id /\ chans'[i].users = list
  BY <1>1 DEF Channel
<1>3. DOMAIN chans' = DOMAIN chans /\ \A j \in DOMAIN chans : j # i => chans'[j] = chans[j]
  OBVIOUS
<1>4. ASSUME NEW j \in DOMAIN chans PROVE ChannelSound(chans'[j])
  <2>1. CASE j = i
    BY <1>2, <2>1 DEF ChannelSound, Registered, ChannelsSound
  <2>2. CASE j # i
    BY <1>3, <2>2 DEF Registered, ChannelsSound
  <2> QED BY <2>1, <2>2
<1> QED BY <1>3, <1>4 DEF ChannelsSound, ChannelSound

(* JOIN_CHANNEL adds a registered user that was not found in the channel.  *)
LEMMA JoinRegistered ==
  ASSUME Registered, TypeOK', NEW f \in Fds, NEW c \in ChanIds, JoinChannel(f, c)
  PROVE  Registered'
<1>0. UNCHANGED <<gc, loggedIn, orphans>>
  BY DEF JoinChannel
<1>1. CASE UNCHANGED chans
  BY <1>0, <1>1, RegisteredFrame
<1>2. ASSUME NEW i \in DOMAIN dir, ~ Member(i, f), Contains(gc, f),
             chans' = [chans EXCEPT ![i].users = Cons(f, @)]
      PROVE  Registered'
  <2>0. f \in Nat /\ f # Root
    BY Constants
  <2>1. i \in DOMAIN chans /\ dir[i] = chans[i]
    <3>1. i # Len(chans) + 1
      BY <1>2, DirFacts DEF Registered, Member
    <3> QED BY <3>1, DirFacts DEF Registered
  <2> DEFINE users == chans[i].users
  <2>2. users \in Seq(Nat) /\ ~ Contains(users, f)
    BY <1>2, <2>1, ChannelUsers DEF Registered, Member
  <2>3. ChannelSound(chans[i])
    BY <2>1 DEF Registered, ChannelsSound
  <2>4. IsInjective(Cons(f, users)) /\ Cons(f, users) \in Seq(Nat)
    BY <2>0, <2>2, <2>3, ConsInjective, ConsFacts DEF ChannelSound
  <2>5. ASSUME NEW x \in Nat, Contains(Cons(f, users), x)
        PROVE  Contains(gc, x) /\ x # Root
    <3>1. x = f \/ Contains(users, x)
      BY <2>0, <2>2, <2>5, ConsContains
    <3> QED BY <1>2, <2>0, <2>3, <3>1 DEF ChannelSound
  <2>6. chans' = [chans EXCEPT ![i].users = Cons(f, users)]
    BY <1>2
  <2> HIDE DEF users
  <2>7. ChannelsSound'
    BY <1>0, <2>1, <2>4, <2>5, <2>6, OneChannelSound
  <2> QED BY <1>0, <2>7, ChannelsFrame
<1> QED BY <1>1, <1>2, FaultStops DEF JoinChannel, Stopped

(* LEAVE_CHANNEL deletes a user from a channel, or the whole channel.      *)
LEMMA LeaveRegistered ==
  ASSUME Registered, TypeOK', NEW f \in Fds, NEW c \in ChanIds, LeaveChannel(f, c)
  PROVE  Registered'
<1>0. UNCHANGED <<gc, loggedIn, orphans>>
  BY DEF LeaveChannel, Reread, Fault, lists, history
<1>1. CASE UNCHANGED chans
  BY <1>0, <1>1, RegisteredFrame
<1>2. ASSUME NEW i \in DOMAIN chans, chans' = Shrink(i, UserDelete(chans[i].users, f))
      PROVE  Registered'
  <2> DEFINE users == chans[i].users
             rest == RemoveFirst(users, f)
  <2>1. users \in Seq(Nat) /\ ChannelSound(chans[i])
    BY ChannelUsers DEF Registered, ChannelsSound
  <2>2. rest \in Seq(Nat) /\ IsInjective(rest)
    BY <2>1, RemoveFirstType, RemoveFirstInjective DEF ChannelSound
  <2>3. ASSUME NEW x \in Nat, Contains(rest, x) PROVE Contains(gc, x) /\ x # Root
    <3>1. Contains(users, x)
      BY <2>1, <2>3, RemoveFirstContains
    <3> QED BY <2>1, <3>1 DEF ChannelSound
  <2>4. chans' = RemoveAt(chans, i) \/ chans' = [chans EXCEPT ![i].users = rest]
    BY <1>2 DEF Shrink, UserDelete
  <2> HIDE DEF rest
  <2>5. CASE chans' = [chans EXCEPT ![i].users = rest]
    <3>1. ChannelsSound'
      BY <1>0, <2>2, <2>3, <2>5, OneChannelSound
    <3> QED BY <1>0, <3>1, ChannelsFrame
  <2>6. CASE chans' = RemoveAt(chans, i)
    <3>1. /\ chans' \in Seq(Channel) /\ Len(chans') = Len(chans) - 1
          /\ DOMAIN chans = 1 .. Len(chans) /\ Len(chans) \in Nat
          /\ \A j \in 1 .. Len(chans) - 1 :
                chans'[j] = IF j < i THEN chans[j] ELSE chans[j + 1]
      BY <2>6, ChannelUsers, RemoveAtFacts DEF Registered
    <3>2. ASSUME NEW j \in DOMAIN chans' PROVE ChannelSound(chans'[j])
      <4>1. j \in DOMAIN chans /\ j + 1 \in DOMAIN chans /\ j \in 1 .. Len(chans) - 1
        BY <3>1
      <4> QED BY <3>1, <4>1 DEF Registered, ChannelsSound
    <3>3. ChannelsSound'
      BY <1>0, <3>2 DEF ChannelsSound, ChannelSound
    <3> QED BY <1>0, <3>3, ChannelsFrame
  <2> QED BY <2>4, <2>5, <2>6
<1> QED BY <1>1, <1>2 DEF LeaveChannel, Reread, Fault, lists

(* LOGOUT deletes one entry of the global list and the user from every     *)
(* channel.                                                                *)
LEMMA LogoutRegistered ==
  ASSUME IdsFit, Registered, TypeOK', NEW f \in Fds, Logout(f)
  PROVE  Registered'
<1>0. f \in Nat /\ f # Root /\ Root \in Nat
  BY Constants
<1>1. CASE Fault(f)
  BY <1>1, RegisteredFrame DEF Fault, lists, history
<1>2. ASSUME ~ LogoutFaults(f),
             NEW e \in Enumerations(Kept(f)),
             chans' = [k \in DOMAIN e |->
                         [id |-> chans[e[k]].id, users |-> UsersAfter(e[k], f)]],
             gc' = UserDelete(gc, f), loggedIn' = loggedIn \ {f},
             orphans' = orphans \cap Range(gc')
      PROVE  Registered'
  <2>0. \A p \in DOMAIN gc' : gc'[p] \in Range(gc')
    BY DEF Range
  <2>1. gc \in Seq(Nat) /\ gc # <<>> /\ Last(gc) = Root /\ Len(gc) \in Nat \ {0}
    BY ChannelUsers DEF Registered, GlobalListExact
  <2>2. gc' = RemoveFirst(gc, f)
    BY <1>2 DEF UserDelete
  <2>3. \A x : x # f /\ Contains(gc, x) => Contains(gc', x)
    BY <2>1, <2>2, RemoveFirstContains
  <2>4. SessionsRegistered'
    <3> SUFFICES ASSUME NEW g \in loggedIn' PROVE Contains(gc', UserId(g))
      BY DEF SessionsRegistered, UserId
    <3>1. g \in Fds /\ g \in loggedIn /\ g # f
      BY <1>2 DEF Registered, TypeOK
    <3>2. UserId(g) = g
      BY <3>1, Casts DEF Registered
    <3> QED BY <2>3, <3>1, <3>2 DEF Registered, SessionsRegistered
  <2>5. gc' # <<>> /\ Last(gc') = Root
    BY <1>0, <2>1, <2>2, RemoveFirstLast
  <2>6. \A p, q \in DOMAIN gc' : p # q /\ gc'[p] = gc'[q] => gc'[p] \in orphans'
    <3> SUFFICES ASSUME NEW p \in DOMAIN gc', NEW q \in DOMAIN gc', p # q, gc'[p] = gc'[q]
                 PROVE  gc'[p] \in orphans
      BY <1>2, <2>0
    <3>1. gc' \in Seq(Nat) /\ DOMAIN gc' = 1 .. Len(gc')
      BY DEF TypeOK
    <3>2. PICK a \in 1 .. Len(gc), b \in 1 .. Len(gc) :
            a # b /\ gc[a] = gc'[p] /\ gc[b] = gc'[q]
      <4>1. p \in 1 .. Len(RemoveFirst(gc, f)) /\ q \in 1 .. Len(RemoveFirst(gc, f))
        BY <2>2, <3>1
      <4>2. \E a, b \in 1 .. Len(gc) : /\ a # b
                                       /\ gc[a] = RemoveFirst(gc, f)[p]
                                       /\ gc[b] = RemoveFirst(gc, f)[q]
        <5>1. gc \in Seq(Nat)
          BY <2>1
        <5>2. \A u, v \in 1 .. Len(RemoveFirst(gc, f)) :
                u # v => \E a, b \in 1 .. Len(gc) : /\ a # b
                                                  /\ gc[a] = RemoveFirst(gc, f)[u]
                                                  /\ gc[b] = RemoveFirst(gc, f)[v]
          BY ONLY <5>1, RemoveFirstPairs
        <5> QED BY <4>1, <5>2
      <4> QED BY <2>2, <4>2
    <3>3. DOMAIN gc = 1 .. Len(gc)
      BY <2>1
    <3> QED BY <3>2, <3>3 DEF Registered, GlobalListExact
  <2>7. ASSUME NEW p \in 1 .. (Len(gc') - 1)
        PROVE  gc'[p] \in (loggedIn' \cup orphans') \ {Root}
    <3>1. gc'[p] \in (loggedIn \cup orphans) \ {Root}
      <4>1. CASE ~ Contains(gc, f)
        <5>1. gc' = gc
          BY <2>2, <4>1, RemoveFirstAbsent
        <5> QED BY <5>1, <2>7 DEF Registered, GlobalListExact
      <4>2. CASE Contains(gc, f)
        <5>1. Len(gc') = Len(gc) - 1
          BY <2>1, <2>2, <4>2, RemoveFirstNodes
        <5>2. PICK i \in 1 .. Len(gc) :
                \A j \in 1 .. Len(gc) - 1 : gc'[j] = IF j < i THEN gc[j] ELSE gc[j + 1]
          <6>1. \E i \in 1 .. Len(gc) :
                  \A j \in 1 .. Len(gc) - 1 :
                    RemoveFirst(gc, f)[j] = IF j < i THEN gc[j] ELSE gc[j + 1]
            BY <2>1, <4>2, RemoveFirstNodes
          <6> QED BY <2>2, <6>1
        <5>3. p \in 1 .. (Len(gc) - 1) /\ p + 1 \in 1 .. (Len(gc) - 1)
          BY <2>1, <5>1
        <5> QED BY <5>2, <5>3 DEF Registered, GlobalListExact
      <4> QED BY <4>1, <4>2
    <3>2. ASSUME gc'[p] = f PROVE f \in orphans
      <4>1. p \in 1 .. Len(gc') /\ Contains(gc', f)
        BY <3>2, TypeOK' DEF Contains, TypeOK
      <4>2. PICK a \in 1 .. Len(gc), b \in 1 .. Len(gc) : a # b /\ gc[a] = f /\ gc[b] = f
        BY <2>1, <2>2, <4>1, RemoveFirstTwice
      <4>3. DOMAIN gc = 1 .. Len(gc)
        BY <2>1
      <4> QED BY <4>2, <4>3 DEF Registered, GlobalListExact
    <3>3. gc'[p] \in Range(gc')
      <4>1. p \in DOMAIN gc'
        BY TypeOK' DEF TypeOK
      <4> QED BY <2>0, <4>1
    <3> QED BY <1>2, <3>1, <3>2, <3>3
  <2>8. GlobalListExact'
    <3>1. Last(gc)' = Last(gc') /\ Range(gc)' = Range(gc')
      BY DEF Last, Range
    <3>2. orphans' \subseteq Range(gc')
      BY <1>2
    <3> QED BY <2>5, <2>6, <2>7, <3>1, <3>2 DEF GlobalListExact
  <2>9. ASSUME NEW i \in DOMAIN chans
        PROVE  LET n == [id |-> chans[i].id, users |-> UsersAfter(i, f)]
               IN  /\ n.id # GcId
                   /\ IsInjective(n.users)
                   /\ \A x \in Nat : Contains(n.users, x) => Contains(gc', x) /\ x # Root
    <3>1. ChannelSound(chans[i]) /\ chans[i].users \in Seq(Nat)
      BY ChannelUsers DEF Registered, ChannelsSound
    <3>2. UsersAfter(i, f) = RemoveFirst(chans[i].users, f)
      BY <3>1 DEF UsersAfter, UserDelete, ChannelSound
    <3>3. IsInjective(UsersAfter(i, f)) /\ ~ Contains(UsersAfter(i, f), f)
      BY <3>1, <3>2, RemoveFirstInjective DEF ChannelSound
    <3>4. ASSUME NEW x \in Nat, Contains(UsersAfter(i, f), x)
          PROVE  Contains(gc', x) /\ x # Root
      <4>1. Contains(chans[i].users, x)
        BY <3>1, <3>2, <3>4, RemoveFirstContains
      <4>2. Contains(gc, x) /\ x # Root /\ x # f
        BY <3>1, <3>3, <3>4, <4>1 DEF ChannelSound
      <4> QED BY <2>3, <4>2
    <3> QED BY <3>1, <3>3, <3>4 DEF ChannelSound
  <2>10. ChannelsSound'
    <3>1. \A k \in DOMAIN e : e[k] \in DOMAIN chans
      BY KeptFacts DEF Registered
    <3>2. ASSUME NEW k \in DOMAIN chans' PROVE ChannelSound(chans[k])'
      <4>1. k \in DOMAIN e /\ e[k] \in DOMAIN chans
        BY <1>2, <3>1
      <4>2. chans'[k] = [id |-> chans[e[k]].id, users |-> UsersAfter(e[k], f)]
        BY <1>2, <4>1
      <4> QED BY <2>9, <4>1, <4>2 DEF ChannelSound
    <3> QED BY <3>2 DEF ChannelsSound
  <2> QED BY <2>4, <2>8, <2>10 DEF Registered
<1> QED BY <1>1, <1>2 DEF Logout, Close

(* A connection closed without LOGOUT turns a session into a leftover.     *)
LEMMA DropRegistered ==
  ASSUME IdsFit, Registered, TypeOK', NEW f \in Fds, Drop(f)
  PROVE  Registered'
<1>1. UNCHANGED <<gc, chans>> /\ loggedIn' = loggedIn \ {f}
  BY DEF Drop, Close, lists
<1>2. \A g \in Fds : UserId(g) = g
  BY Casts DEF Registered
<1>3. /\ orphans' \subseteq orphans \cup (loggedIn \cap {f})
      /\ orphans \cup (loggedIn \cap {f}) \subseteq orphans'
  BY <1>2 DEF Drop
<1>4. loggedIn' \cup orphans' = loggedIn \cup orphans /\ orphans \subseteq orphans'
  BY <1>1, <1>3
<1>8. orphans' \subseteq Range(gc)
  <2>1. loggedIn \subseteq Fds /\ gc \in Seq(Nat)
    BY DEF Registered, TypeOK
  <2>2. \A g \in loggedIn : Contains(gc, g)
    BY <1>2, <2>1 DEF Registered, SessionsRegistered
  <2>3. \A g \in loggedIn : g \in Range(gc)
    BY <2>1, <2>2, ContainsIsInRange
  <2> QED BY <1>3, <2>3 DEF Registered, GlobalListExact
<1>5. GlobalListExact'
  <2>1. Range(gc)' = Range(gc)
    BY <1>1 DEF Range
  <2> QED BY <1>1, <1>4, <1>8, <2>1 DEF Registered, GlobalListExact, Last
<1>6. SessionsRegistered'
  BY <1>1 DEF Registered, SessionsRegistered, UserId
<1>7. ChannelsSound'
  BY <1>1 DEF Registered, ChannelsSound, ChannelSound
<1> QED BY <1>5, <1>6, <1>7 DEF Registered

(* Every step keeps the invariant.                                         *)
LEMMA RegisteredStep ==
  ASSUME IdsFit, Registered, [Next]_vars
  PROVE  Registered'
<1>0. TypeOK'
  BY TypeStep DEF Registered
<1>1. ASSUME NEW fits \in BOOLEAN, NEW gone \in BOOLEAN, Login(fits, gone) PROVE Registered'
  BY <1>0, <1>1, LoginRegistered
<1>2. ASSUME NEW f \in Fds, CreateChannel(f) PROVE Registered'
  BY <1>0, <1>2, CreateRegistered
<1>3. ASSUME NEW f \in Fds, NEW c \in ChanIds, JoinChannel(f, c) PROVE Registered'
  BY <1>0, <1>3, JoinRegistered
<1>4. ASSUME NEW f \in Fds, NEW c \in ChanIds, LeaveChannel(f, c) PROVE Registered'
  BY <1>0, <1>4, LeaveRegistered
<1>5. ASSUME NEW f \in Fds, Logout(f) PROVE Registered'
  BY <1>0, <1>5, LogoutRegistered
<1>6. ASSUME NEW f \in Fds, Drop(f) PROVE Registered'
  BY <1>0, <1>6, DropRegistered
<1>7. ASSUME NEW f \in Fds, NEW c \in ChanIds, GetUsers(f, c) \/ Send(f, c)
      PROVE  Registered'
  <2>1. UNCHANGED <<gc, chans, loggedIn, orphans>>
    BY <1>7 DEF GetUsers, Send, Reread, Fault, lists, history
  <2> QED BY <1>0, <2>1, RegisteredFrame
<1>8. ASSUME NEW f \in Fds, HangUp(f) PROVE Registered'
  BY <1>0, <1>8, RegisteredFrame DEF HangUp, lists, history
<1>9. CASE EndLoop \/ UNCHANGED vars
  BY <1>0, <1>9, RegisteredFrame DEF EndLoop, vars, lists, history
<1> QED BY <1>1, <1>2, <1>3, <1>4, <1>5, <1>6, <1>7, <1>8, <1>9 DEF Next

(* The initial state satisfies the invariant.                              *)
LEMMA RegisteredInit == Init => Registered
<1> SUFFICES ASSUME Init PROVE Registered
  OBVIOUS
<1>1. TypeOK
  BY InitType
<1>2. gc = <<Root>> /\ chans = <<>> /\ loggedIn = {} /\ orphans = {} /\ Len(gc) = 1
  BY DEF Init
<1>3. GlobalListExact
  BY <1>2 DEF GlobalListExact, Last
<1> QED BY <1>1, <1>2, <1>3 DEF Registered, SessionsRegistered, ChannelsSound

(* While ids survive their casts, whoever is logged in is registered, the  *)
(* global list holds nobody else but the root user and leftovers, of which *)
(* none is missing and which alone may be listed more than once, and every *)
(* channel is a duplicate-free part of it.                                 *)
THEOREM Registration ==
  ASSUME IdsFit
  PROVE  Spec => [](SessionsRegistered /\ GlobalListExact /\ ChannelsWithinGlobal)
<1>1. Registered /\ [Next]_vars => Registered'
  BY RegisteredStep
<1>2. Registered => SessionsRegistered /\ GlobalListExact /\ ChannelsWithinGlobal
  BY SoundChannels DEF Registered
<1> QED BY RegisteredInit, <1>1, <1>2, PTL DEF Spec

-----------------------------------------------------------------------------
(* Every id in a list of the directory but the root user's is a session or *)
(* a leftover.                                                             *)
LEMMA ListedIds ==
  ASSUME Registered, NEW i \in DOMAIN dir, NEW x \in Range(dir[i].users) \ {Root}
  PROVE  x \in loggedIn \cup orphans
<1>1. gc \in Seq(Nat) /\ DOMAIN gc = 1 .. Len(gc) /\ gc # <<>> /\ Last(gc) = Root
  BY ChannelUsers DEF Registered, GlobalListExact
<1>2. x \in Range(gc)
  <2>1. CASE i \in DOMAIN chans
    <3>1. x \in Range(chans[i].users) /\ chans[i].users \in Seq(Nat)
      BY <2>1, DirFacts, ChannelUsers DEF Registered
    <3>2. Range(chans[i].users) \subseteq Range(gc) \ {Root}
      BY <2>1, SoundChannels DEF Registered, ChannelsWithinGlobal
    <3> QED BY <3>1, <3>2
  <2>2. CASE i \notin DOMAIN chans
    <3>1. dir[i] = [id |-> GcId, users |-> gc]
      BY <2>2, DirFacts DEF Registered
    <3> QED BY <3>1
  <2> QED BY <2>1, <2>2
<1>3. PICK k \in 1 .. Len(gc) : gc[k] = x
  BY <1>1, <1>2 DEF Range
<1>4. k # Len(gc)
  <2>1. gc[Len(gc)] = Root
    BY ONLY <1>1 DEF Last
  <2> QED BY ONLY <1>3, <2>1, x \in Range(dir[i].users) \ {Root}
<1>5. k \in 1 .. (Len(gc) - 1)
  <2>1. Len(gc) \in Nat
    BY <1>1
  <2> QED BY <1>3, <1>4, <2>1
<1> QED BY <1>3, <1>5 DEF Registered, GlobalListExact

(* An answer that ends the process was written to a peer that hung up.     *)
LEMMA AnswerExit ==
  ASSUME NEW code, NEW f \in open, NEW c, Answer(code, f, c), status' = "exit",
         UNCHANGED hung
  PROVE  \E d \in sent'.to : d \in hung'
BY DEF Answer, Write, Packet

(* A step that ends the process over a write.                              *)
LEMMA ExitStep ==
  ASSUME IdsFit, Registered, Next, status' = "exit"
  PROVE  \E d \in sent'.to : d \in hung' \/ d \in orphans \ open
<1> DEFINE Goal == \E d \in sent'.to : d \in hung' \/ d \in orphans \ open
<1>1. ASSUME NEW fits \in BOOLEAN, NEW gone \in BOOLEAN, Login(fits, gone) PROVE Goal
  <2> DEFINE f == Min(Fds \ open)
  <2>1. ~ Fault(f)
    BY DEF Fault
  <2>2. Admitted(f, fits, gone)
    BY <1>1, <2>1 DEF Login, Admitted
  <2> HIDE DEF f
  <2>3. gone /\ hung' = hung \cup {f} /\ sent'.to = {f}
    BY <2>2 DEF Admitted, Packet
  <2> QED BY <2>3
<1>2. ASSUME NEW f \in Fds, CreateChannel(f) PROVE Goal
  BY <1>2, AnswerExit DEF CreateChannel, Reread, Fault, conns
<1>3. ASSUME NEW f \in Fds, NEW c \in ChanIds, JoinChannel(f, c) PROVE Goal
  BY <1>3, AnswerExit DEF JoinChannel, Fault, conns
<1>4. ASSUME NEW f \in Fds, NEW c \in ChanIds, LeaveChannel(f, c) PROVE Goal
  BY <1>4, AnswerExit DEF LeaveChannel, Reread, Fault, conns
<1>5. ASSUME NEW f \in Fds, NEW c \in ChanIds, GetUsers(f, c) PROVE Goal
  BY <1>5, AnswerExit DEF GetUsers, Reread, Fault, conns
<1>6. ASSUME NEW f \in Fds, NEW c \in ChanIds, Send(f, c) PROVE Goal
  <2>1. PICK i \in DOMAIN dir :
          /\ Write(Recipients(i, f))
          /\ sent' = Packet("SEND", f, c, Recipients(i, f))
    <3>1. ~ Reread(f)
      BY DEF Reread, Fault
    <3>2. ~ status' \in DestroyEnds[res]
      <4>1. res \in {"unset", "null", "freed"}
        BY DEF Registered, TypeOK
      <4> QED BY <4>1 DEF DestroyEnds
    <3> QED BY <1>6, <3>1, <3>2 DEF Send
  <2>2. sent'.to = Recipients(i, f) /\ hung' = hung
    BY <1>6, <2>1 DEF Send, Packet, conns
  <2>3. PICK d \in Recipients(i, f) : d \notin open \ hung
    BY <2>1 DEF Write
  <2>4. d \in loggedIn \cup orphans
    BY <2>3, ListedIds DEF Recipients
  <2>5. loggedIn \subseteq open
    BY DEF Registered, TypeOK
  <2> QED BY <2>2, <2>3, <2>4, <2>5
<1>7. ASSUME NEW f \in Fds, Logout(f) \/ HangUp(f) \/ Drop(f) PROVE Goal
  BY <1>7 DEF Logout, HangUp, Drop, Fault
<1>8. CASE EndLoop
  BY <1>8 DEF EndLoop
<1> QED BY <1>1, <1>2, <1>3, <1>4, <1>5, <1>6, <1>7, <1>8 DEF Next

(* The server exits over a write only to a peer that hung up or to the     *)
(* leftover of one; as long as nobody hangs up, never.                     *)
THEOREM ExitCause ==
  ASSUME IdsFit
  PROVE  Spec => ExitOnlyAfterHangUp
<1>1. Registered /\ [Next]_vars => Registered'
  BY RegisteredStep
<1>2. Registered /\ [Next]_vars =>
        [status' = "exit" => \E d \in sent'.to : d \in hung' \/ d \in orphans \ open]_vars
  BY ExitStep
<1> QED BY RegisteredInit, <1>1, <1>2, PTL DEF Spec, ExitOnlyAfterHangUp

-----------------------------------------------------------------------------
(* Who is in which channel, while no two channels have had the same id.    *)
RoomsOf(cs, x) == {cs[i].id : i \in {j \in DOMAIN cs : Contains(cs[j].users, x)}}
DistinctIds(cs) == \A i, j \in DOMAIN cs : i # j => cs[i].id # cs[j].id
Inhabited(cs) == \A i \in DOMAIN cs : cs[i].users # <<>>

LEMMA RoomsAre == \A x : Rooms(x) = RoomsOf(chans, x) /\ Rooms(x)' = RoomsOf(chans', x)
BY DEF Rooms, RoomsOf

LEMMA InRooms ==
  ASSUME NEW cs, NEW x, NEW c
  PROVE  c \in RoomsOf(cs, x) <=> \E i \in DOMAIN cs : cs[i].id = c /\ Contains(cs[i].users, x)
BY DEF RoomsOf

(* With distinct ids the rooms of a user name its channels.                *)
LEMMA RoomIsChannel ==
  ASSUME NEW cs, DistinctIds(cs), NEW i \in DOMAIN cs, NEW x
  PROVE  cs[i].id \in RoomsOf(cs, x) <=> Contains(cs[i].users, x)
BY InRooms DEF DistinctIds

(* A directory that keeps the channels of everybody but f, each in its     *)
(* place or moved, keeps their rooms.                                      *)
Moved(cs, ds, f, at) ==
  /\ at \in [DOMAIN ds -> DOMAIN cs]
  /\ \A k, l \in DOMAIN ds : at[k] = at[l] => k = l
  /\ \A k \in DOMAIN ds : ds[k].id = cs[at[k]].id
  /\ \A k \in DOMAIN ds : \A x : x # f =>
       (Contains(ds[k].users, x) <=> Contains(cs[at[k]].users, x))
  /\ \A i \in DOMAIN cs : \A x : x # f /\ Contains(cs[i].users, x) =>
       \E k \in DOMAIN ds : at[k] = i

LEMMA OthersRooms ==
  ASSUME NEW cs, NEW ds, NEW f, NEW at, Moved(cs, ds, f, at)
  PROVE  /\ DistinctIds(cs) => DistinctIds(ds)
         /\ \A x : x # f => RoomsOf(ds, x) = RoomsOf(cs, x)
<1>1. DistinctIds(cs) => DistinctIds(ds)
  BY DEF Moved, DistinctIds
<1>2. ASSUME NEW x, x # f PROVE RoomsOf(ds, x) = RoomsOf(cs, x)
  <2>1. ASSUME NEW c \in RoomsOf(ds, x) PROVE c \in RoomsOf(cs, x)
    <3>1. PICK k \in DOMAIN ds : ds[k].id = c /\ Contains(ds[k].users, x)
      BY InRooms
    <3>2. at[k] \in DOMAIN cs /\ cs[at[k]].id = c /\ Contains(cs[at[k]].users, x)
      BY <1>2, <3>1 DEF Moved
    <3> QED BY <3>2, InRooms
  <2>2. ASSUME NEW c \in RoomsOf(cs, x) PROVE c \in RoomsOf(ds, x)
    <3>1. PICK i \in DOMAIN cs : cs[i].id = c /\ Contains(cs[i].users, x)
      BY InRooms
    <3>2. PICK k \in DOMAIN ds : at[k] = i
      BY <1>2, <3>1 DEF Moved
    <3>3. ds[k].id = c /\ Contains(ds[k].users, x)
      BY <1>2, <3>1, <3>2 DEF Moved
    <3> QED BY <3>3, InRooms
  <2> QED BY <2>1, <2>2
<1> QED BY <1>1, <1>2

(* CREATE_CHANNEL: one more room, for its creator.                         *)
LEMMA RoomsPushed ==
  ASSUME NEW cs \in Seq(Channel), NEW n \in Channel, NEW f, n.users = <<f>>,
         \A i \in DOMAIN cs : cs[i].id # n.id
  PROVE  /\ DistinctIds(cs) => DistinctIds(Cons(n, cs))
         /\ Inhabited(cs) => Inhabited(Cons(n, cs))
         /\ \A x : x # f => RoomsOf(Cons(n, cs), x) = RoomsOf(cs, x)
         /\ RoomsOf(Cons(n, cs), f) = RoomsOf(cs, f) \cup {n.id}
<1> DEFINE ds == Cons(n, cs)
<1>1. /\ ds \in Seq(Channel) /\ Len(ds) = Len(cs) + 1 /\ ds[1] = n
      /\ \A i \in 1 .. Len(cs) : ds[i + 1] = cs[i]
  BY ConsFacts
<1> HIDE DEF ds
<1>2. DOMAIN ds = 1 .. Len(cs) + 1 /\ DOMAIN cs = 1 .. Len(cs) /\ Len(cs) \in Nat
  BY <1>1
<1>3. \A k \in DOMAIN ds : k # 1 => k - 1 \in DOMAIN cs /\ ds[k] = cs[k - 1]
  <2> SUFFICES ASSUME NEW k \in DOMAIN ds, k # 1
               PROVE  k - 1 \in DOMAIN cs /\ ds[k] = cs[k - 1]
    OBVIOUS
  <2>1. k - 1 \in 1 .. Len(cs) /\ (k - 1) + 1 = k
    BY <1>2
  <2> QED BY <1>1, <1>2, <2>1
<1>4. 1 \in DOMAIN ds /\ \A i \in DOMAIN cs : i + 1 \in DOMAIN ds /\ ds[i + 1] = cs[i]
  BY <1>1, <1>2
<1>5. \A x : Contains(n.users, x) <=> x = f
  BY DEF Contains
<1>6. ASSUME DistinctIds(cs) PROVE DistinctIds(ds)
  <2> SUFFICES ASSUME NEW i \in DOMAIN ds, NEW j \in DOMAIN ds, i # j
               PROVE  ds[i].id # ds[j].id
    BY DEF DistinctIds
  <2>1. CASE i = 1 \/ j = 1
    BY <1>1, <1>3, <2>1
  <2>2. CASE i # 1 /\ j # 1
    <3>1. i - 1 # j - 1
      BY <1>2
    <3> QED BY <1>3, <1>6, <2>2, <3>1 DEF DistinctIds
  <2> QED BY <2>1, <2>2
<1>7. ASSUME Inhabited(cs) PROVE Inhabited(ds)
  <2>1. n.users # <<>>
    OBVIOUS
  <2> QED BY <1>1, <1>3, <1>7, <2>1 DEF Inhabited
<1>8. ASSUME NEW x, NEW c
      PROVE  c \in RoomsOf(ds, x) <=> c \in RoomsOf(cs, x) \/ (x = f /\ c = n.id)
  <2>1. ASSUME c \in RoomsOf(ds, x) PROVE c \in RoomsOf(cs, x) \/ (x = f /\ c = n.id)
    <3>1. PICK k \in DOMAIN ds : ds[k].id = c /\ Contains(ds[k].users, x)
      BY <2>1, InRooms
    <3>2. CASE k = 1
      BY <1>1, <1>5, <3>1, <3>2
    <3>3. CASE k # 1
      BY <1>3, <3>1, <3>3, InRooms
    <3> QED BY <3>2, <3>3
  <2>2. ASSUME c \in RoomsOf(cs, x) PROVE c \in RoomsOf(ds, x)
    <3>1. PICK i \in DOMAIN cs : cs[i].id = c /\ Contains(cs[i].users, x)
      BY <2>2, InRooms
    <3> QED BY <1>4, <3>1, InRooms
  <2>3. ASSUME x = f, c = n.id PROVE c \in RoomsOf(ds, x)
    BY <1>1, <1>4, <1>5, <2>3, InRooms
  <2> QED BY <2>1, <2>2, <2>3
<1>9. ASSUME NEW x, x # f PROVE RoomsOf(ds, x) = RoomsOf(cs, x)
  <2>1. \A c : c \in RoomsOf(ds, x) <=> c \in RoomsOf(cs, x)
    BY ONLY <1>8, <1>9, Zenon
  <2> QED BY ONLY <2>1
<1>10. RoomsOf(ds, f) = RoomsOf(cs, f) \cup {n.id}
  <2>1. \A c : c \in RoomsOf(ds, f) <=> c \in RoomsOf(cs, f) \/ c = n.id
    BY ONLY <1>8, Zenon
  <2> QED BY ONLY <2>1
<1> QED BY <1>6, <1>7, <1>9, <1>10 DEF ds

(* One channel gets another list of users, which differs in f only.        *)
SameButFor(f, users, others) ==
  \A x : x # f => (Contains(users, x) <=> Contains(others, x))

Edited(cs, i, users) == [cs EXCEPT ![i].users = users]

LEMMA RoomsEdited ==
  ASSUME NEW cs \in Seq(Channel), DistinctIds(cs), Inhabited(cs), NEW i \in DOMAIN cs,
         NEW users \in Seq(Nat), users # <<>>, NEW f, SameButFor(f, users, cs[i].users)
  PROVE  LET ds == Edited(cs, i, users)
         IN  /\ DistinctIds(ds) /\ Inhabited(ds)
             /\ \A x : x # f => RoomsOf(ds, x) = RoomsOf(cs, x)
             /\ Contains(users, f) => RoomsOf(ds, f) = RoomsOf(cs, f) \cup {cs[i].id}
             /\ ~ Contains(users, f) => RoomsOf(ds, f) = RoomsOf(cs, f) \ {cs[i].id}
<1> DEFINE ds == Edited(cs, i, users)
<1>1. DOMAIN ds = DOMAIN cs /\ \A k \in DOMAIN cs : k # i => ds[k] = cs[k]
  BY DEF Edited
<1>2. ds[i].id = cs[i].id /\ ds[i].users = users
  <2>1. cs[i] \in Channel
    OBVIOUS
  <2> QED BY <2>1 DEF Channel, Edited
<1> HIDE DEF ds
<1>3. \A k \in DOMAIN ds : ds[k].id = cs[k].id
  BY <1>1, <1>2
<1>4. Inhabited(ds)
  BY <1>1, <1>2 DEF Inhabited
<1>5. DistinctIds(ds) /\ \A x : x # f => RoomsOf(ds, x) = RoomsOf(cs, x)
  <2> DEFINE at == [k \in DOMAIN ds |-> k]
  <2>1. /\ at \in [DOMAIN ds -> DOMAIN cs]
        /\ \A k \in DOMAIN ds : at[k] = k
    BY <1>1
  <2>2. \A k \in DOMAIN ds : \A x : x # f =>
          (Contains(ds[k].users, x) <=> Contains(cs[at[k]].users, x))
    BY <1>1, <1>2, <2>1 DEF SameButFor
  <2> HIDE DEF at
  <2>3. /\ at \in [DOMAIN ds -> DOMAIN cs]
        /\ \A k, l \in DOMAIN ds : at[k] = at[l] => k = l
        /\ \A k \in DOMAIN ds : ds[k].id = cs[at[k]].id
        /\ \A m \in DOMAIN cs : \A x : x # f /\ Contains(cs[m].users, x) =>
             \E k \in DOMAIN ds : at[k] = m
    BY <1>1, <1>3, <2>1
  <2>4. Moved(cs, ds, f, at)
    BY <2>2, <2>3 DEF Moved
  <2> QED BY <2>4, OthersRooms
<1>6. ASSUME NEW c
      PROVE  c \in RoomsOf(ds, f) <=>
               IF c = cs[i].id THEN Contains(users, f) ELSE c \in RoomsOf(cs, f)
  <2>1. CASE c = cs[i].id
    BY <1>1, <1>2, <1>5, <2>1, RoomIsChannel
  <2>2. CASE c # cs[i].id
    <3>1. \A k \in DOMAIN ds : ds[k].id = c => k # i /\ ds[k] = cs[k]
      BY <1>1, <1>2, <2>2
    <3>2. \A k \in DOMAIN cs : cs[k].id = c => k # i /\ ds[k] = cs[k]
      BY <1>1, <2>2
    <3>3. c \in RoomsOf(ds, f) <=> \E k \in DOMAIN ds : ds[k].id = c /\ Contains(ds[k].users, f)
      BY ONLY InRooms, Zenon
    <3>4. c \in RoomsOf(cs, f) <=> \E k \in DOMAIN cs : cs[k].id = c /\ Contains(cs[k].users, f)
      BY ONLY InRooms, Zenon
    <3>5. DOMAIN ds = DOMAIN cs
      BY <1>1
    <3> QED BY ONLY <2>2, <3>1, <3>2, <3>3, <3>4, <3>5
  <2> QED BY <2>1, <2>2
<1>7. Contains(users, f) => RoomsOf(ds, f) = RoomsOf(cs, f) \cup {cs[i].id}
  BY <1>6
<1>8. ~ Contains(users, f) => RoomsOf(ds, f) = RoomsOf(cs, f) \ {cs[i].id}
  BY <1>6
<1> QED BY <1>4, <1>5, <1>7, <1>8 DEF ds

(* A channel that only f was in is deleted.                                *)
LEMMA RoomsDropped ==
  ASSUME NEW cs \in Seq(Channel), DistinctIds(cs), Inhabited(cs), NEW i \in DOMAIN cs,
         NEW f, \A x : x # f => ~ Contains(cs[i].users, x)
  PROVE  LET ds == RemoveAt(cs, i)
         IN  /\ DistinctIds(ds) /\ Inhabited(ds)
             /\ \A x : x # f => RoomsOf(ds, x) = RoomsOf(cs, x)
             /\ RoomsOf(ds, f) = RoomsOf(cs, f) \ {cs[i].id}
<1> DEFINE ds == RemoveAt(cs, i)
<1>1. DOMAIN cs = 1 .. Len(cs) /\ Len(cs) \in Nat /\ i \in 1 .. Len(cs)
  OBVIOUS
<1>2. /\ ds \in Seq(Channel) /\ Len(ds) = Len(cs) - 1
      /\ \A j \in 1 .. Len(cs) - 1 : ds[j] = IF j < i THEN cs[j] ELSE cs[j + 1]
  BY <1>1, RemoveAtFacts
<1> HIDE DEF ds
<1>3. DOMAIN ds = 1 .. Len(cs) - 1
  BY <1>1, <1>2
<1> DEFINE at == [k \in DOMAIN ds |-> IF k < i THEN k ELSE k + 1]
<1>4. /\ at \in [DOMAIN ds -> DOMAIN cs]
      /\ \A k \in DOMAIN ds : at[k] = IF k < i THEN k ELSE k + 1
  BY <1>1, <1>3
<1> HIDE DEF at
<1>5. \A k \in DOMAIN ds : at[k] # i /\ ds[k] = cs[at[k]]
  BY <1>1, <1>2, <1>3, <1>4
<1>6. \A k, l \in DOMAIN ds : at[k] = at[l] => k = l
  BY <1>1, <1>3, <1>4
<1>7. ASSUME NEW m \in DOMAIN cs, m # i PROVE \E k \in DOMAIN ds : at[k] = m
  <2>1. CASE m < i
    <3>1. m \in DOMAIN ds
      BY <1>1, <1>3, <2>1
    <3> QED BY <1>4, <2>1, <3>1
  <2>2. CASE ~ (m < i)
    <3>1. m - 1 \in DOMAIN ds /\ ~ (m - 1 < i) /\ (m - 1) + 1 = m
      BY <1>1, <1>3, <1>7, <2>2
    <3> QED BY <1>4, <3>1
  <2> QED BY <2>1, <2>2
<1>8. DistinctIds(ds) /\ \A x : x # f => RoomsOf(ds, x) = RoomsOf(cs, x)
  <2>1. /\ at \in [DOMAIN ds -> DOMAIN cs]
        /\ \A k, l \in DOMAIN ds : at[k] = at[l] => k = l
        /\ \A k \in DOMAIN ds : ds[k].id = cs[at[k]].id
        /\ \A k \in DOMAIN ds : \A x : x # f =>
             (Contains(ds[k].users, x) <=> Contains(cs[at[k]].users, x))
    BY <1>4, <1>5, <1>6
  <2>2. \A m \in DOMAIN cs : \A x : x # f /\ Contains(cs[m].users, x) =>
          \E k \in DOMAIN ds : at[k] = m
    BY <1>7
  <2>3. Moved(cs, ds, f, at)
    BY <2>1, <2>2 DEF Moved
  <2> QED BY <2>3, OthersRooms
<1>9. Inhabited(ds)
  BY <1>4, <1>5 DEF Inhabited
<1>10. ASSUME NEW c PROVE c \in RoomsOf(ds, f) <=> c \in RoomsOf(cs, f) /\ c # cs[i].id
  <2>1. ASSUME c \in RoomsOf(ds, f) PROVE c \in RoomsOf(cs, f) /\ c # cs[i].id
    <3>1. PICK k \in DOMAIN ds : ds[k].id = c /\ Contains(ds[k].users, f)
      BY <2>1, InRooms
    <3>2. at[k] \in DOMAIN cs /\ at[k] # i /\ cs[at[k]].id = c /\ Contains(cs[at[k]].users, f)
      BY <1>4, <1>5, <3>1
    <3>3. cs[at[k]].id # cs[i].id
      BY <3>2 DEF DistinctIds
    <3> QED BY <3>2, <3>3, InRooms
  <2>2. ASSUME c \in RoomsOf(cs, f), c # cs[i].id PROVE c \in RoomsOf(ds, f)
    <3>1. PICK m \in DOMAIN cs : cs[m].id = c /\ Contains(cs[m].users, f)
      BY <2>2, InRooms
    <3>2. PICK k \in DOMAIN ds : at[k] = m
      BY <1>7, <2>2, <3>1
    <3> QED BY <1>5, <3>1, <3>2, InRooms
  <2> QED BY <2>1, <2>2
<1>11. RoomsOf(ds, f) = RoomsOf(cs, f) \ {cs[i].id}
  BY <1>10
<1> QED BY <1>8, <1>9, <1>11 DEF ds

(* While ids are distinct LOGOUT deletes the channels that it emptied.     *)
LEMMA KeptExactly ==
  ASSUME Registered, DistinctIds(chans), NEW f
  PROVE  Kept(f) = {i \in DOMAIN chans : UsersAfter(i, f) # <<>>}
<1>1. DOMAIN chans = 1 .. Len(chans) /\ Len(chans) \in Nat
  BY ChannelUsers DEF Registered
<1>2. \A i \in DOMAIN chans : chans[i].id # GcId
  BY DEF Registered, ChannelsSound, ChannelSound
<1>3. ASSUME NEW i \in DOMAIN chans
      PROVE  i \in Kept(f) <=> UsersAfter(i, f) # <<>>
  <2> DEFINE same == {j \in 1 .. i : chans[j].id = chans[i].id}
             gone == {j \in Emptied(f) : chans[j].id = chans[i].id}
  <2>1. i \in Kept(f) <=> Cardinality(same) > Cardinality(gone)
    BY DEF Kept
  <2>2. same = {i}
    <3>1. \A j \in 1 .. i : j \in DOMAIN chans
      BY <1>1
    <3>2. i \in 1 .. i
      BY <1>1
    <3> QED BY <3>1, <3>2 DEF DistinctIds
  <2>3. Cardinality(same) = 1
    BY <2>2, FS_Singleton
  <2>4. CASE UsersAfter(i, f) = <<>>
    <3>1. i \in Emptied(f)
      BY <1>2, <2>4 DEF Emptied
    <3>2. gone = {i}
      BY <3>1 DEF DistinctIds, Emptied
    <3>3. Cardinality(gone) = 1
      BY <3>2, FS_Singleton
    <3> HIDE DEF same, gone
    <3> QED BY <2>1, <2>3, <2>4, <3>3
  <2>5. CASE UsersAfter(i, f) # <<>>
    <3>1. i \notin Emptied(f)
      BY <2>5 DEF Emptied
    <3>2. gone = {}
      BY <3>1 DEF DistinctIds, Emptied
    <3>3. Cardinality(gone) = 0
      BY <3>2, FS_EmptySet
    <3> HIDE DEF same, gone
    <3> QED BY <2>1, <2>3, <2>5, <3>3
  <2> QED BY <2>4, <2>5
<1>4. Kept(f) \subseteq DOMAIN chans
  BY DEF Kept
<1> QED BY <1>3, <1>4

LEMMA LogoutRooms ==
  ASSUME Registered, DistinctIds(chans), NEW f, NEW e \in Enumerations(Kept(f)),
         chans' = [k \in DOMAIN e |->
                     [id |-> chans[e[k]].id, users |-> UsersAfter(e[k], f)]]
  PROVE  /\ DistinctIds(chans') /\ Inhabited(chans')
         /\ \A x : x # f => RoomsOf(chans', x) = RoomsOf(chans, x)
<1>1. PICK n \in Nat : e \in [1 .. n -> DOMAIN chans]
  BY KeptFacts DEF Registered
<1>2. DOMAIN e = 1 .. n /\ DOMAIN chans' = DOMAIN e /\ e \in [DOMAIN chans' -> DOMAIN chans]
  BY <1>1
<1>3. \A k \in DOMAIN e : /\ chans'[k].id = chans[e[k]].id
                          /\ chans'[k].users = UsersAfter(e[k], f)
  OBVIOUS
<1>4. Range(e) = {i \in DOMAIN chans : UsersAfter(i, f) # <<>>}
  BY KeptFacts, KeptExactly DEF Registered
<1>5. ASSUME NEW i \in DOMAIN chans, NEW x, x # f
      PROVE  Contains(UsersAfter(i, f), x) <=> Contains(chans[i].users, x)
  <2>1. UsersAfter(i, f) = RemoveFirst(chans[i].users, f) /\ chans[i].users \in Seq(Nat)
    BY ChannelUsers DEF UsersAfter, UserDelete, Registered, ChannelsSound, ChannelSound
  <2> QED BY <1>5, <2>1, RemoveFirstContains
<1>6. Inhabited(chans')
  <2> SUFFICES ASSUME NEW k \in DOMAIN e PROVE UsersAfter(e[k], f) # <<>>
    BY <1>2, <1>3 DEF Inhabited
  <2>1. e[k] \in Range(e)
    BY DEF Range
  <2> QED BY <1>4, <2>1
<1>7. \A k, l \in DOMAIN e : e[k] = e[l] => k = l
  <2> SUFFICES ASSUME NEW k \in DOMAIN e, NEW l \in DOMAIN e, e[k] = e[l] PROVE k = l
    OBVIOUS
  <2>1. \A a, b \in DOMAIN e : a < b => e[a] < e[b]
    BY KeptFacts DEF Registered
  <2>2. e[k] \in Nat /\ e[l] \in Nat
    <3>1. DOMAIN chans \subseteq Nat
      BY ChannelUsers DEF Registered
    <3> QED BY <1>1, <1>2, <3>1
  <2>3. ~ (k < l) /\ ~ (l < k)
    BY <2>1, <2>2
  <2> QED BY <1>2, <2>3
<1>8. ASSUME NEW i \in DOMAIN chans, NEW x, x # f, Contains(chans[i].users, x)
      PROVE  \E k \in DOMAIN e : e[k] = i
  <2>1. Contains(UsersAfter(i, f), x)
    BY <1>5, <1>8
  <2>2. UsersAfter(i, f) # <<>>
    BY <2>1 DEF Contains
  <2>3. i \in Range(e)
    BY <1>4, <2>2
  <2> QED BY <2>3 DEF Range
<1>9. Moved(chans, chans', f, e)
  <2>1. \A k \in DOMAIN e : e[k] \in DOMAIN chans
    BY <1>1, <1>2
  <2> QED BY <1>2, <1>3, <1>5, <1>7, <1>8, <2>1 DEF Moved
<1> QED BY <1>6, <1>9, OthersRooms
-----------------------------------------------------------------------------
(* While no two channels have had the same id: ids are distinct, no        *)
(* channel is empty, and the rooms of a session are those the answers put  *)
(* it in.                                                                  *)
Viewed == \A f \in loggedIn \ orphans : RoomsOf(chans, f) = told[f] \ {GcId}

Clear == DistinctIds(chans) /\ Inhabited(chans) /\ Viewed

ClearInv == ~ clash => Clear

(* What a step of client f does to the rooms.                              *)
OthersOf(f) == \A x : x # f => RoomsOf(chans', x) = RoomsOf(chans, x)

(* A step of f that leaves the sessions alone and tells f where it is.     *)
LEMMA ClearTold ==
  ASSUME TypeOK, Clear, NEW f \in Fds, DistinctIds(chans'), Inhabited(chans'), OthersOf(f),
         loggedIn' = loggedIn, orphans' = orphans, NEW rooms,
         told' = [told EXCEPT ![f] = rooms],
         f \in loggedIn \ orphans => RoomsOf(chans', f) = rooms \ {GcId}
  PROVE  Clear'
<1>1. ASSUME NEW g \in loggedIn \ orphans PROVE RoomsOf(chans', g) = told'[g] \ {GcId}
  <2>1. g \in Fds /\ told \in [Fds -> SUBSET Nat]
    BY DEF TypeOK
  <2>2. CASE g = f
    BY <2>1, <2>2
  <2>3. CASE g # f
    BY <2>1, <2>3 DEF OthersOf, Clear, Viewed
  <2> QED BY <2>2, <2>3
<1> QED BY <1>1 DEF Clear, Viewed

(* The channels are left alone.                                            *)
LEMMA ClearKept ==
  ASSUME Clear, chans' = chans,
         \A g \in loggedIn' \ orphans' : g \in loggedIn \ orphans /\ told'[g] = told[g]
  PROVE  Clear' /\ \A x : RoomsOf(chans', x) = RoomsOf(chans, x)
BY DEF Clear, Viewed

(* A fault leaves everything alone.                                        *)
LEMMA ClearStopped ==
  ASSUME Clear, Stopped
  PROVE  Clear' /\ \A x : RoomsOf(chans', x) = RoomsOf(chans, x)
BY ClearKept DEF Stopped

(* A client that logs in finds itself in no channel.                       *)
LEMMA LoginClear ==
  ASSUME IdsFit, Registered, Clear, NEW fits \in BOOLEAN, NEW gone \in BOOLEAN,
         Login(fits, gone)
  PROVE  Clear' /\ \A x : RoomsOf(chans', x) = RoomsOf(chans, x)
<1> DEFINE f == Min(Fds \ open)
<1>1. f \in Fds /\ f \notin open /\ f # Root /\ f \in Nat
  BY AcceptFacts, Constants DEF Login, Registered, TypeOK
<1>a. Fault(f) \/ Admitted(f, fits, gone)
  BY DEF Login, Admitted
<1> HIDE DEF f
<1>b. CASE Fault(f)
  BY <1>b, FaultStops, ClearStopped
<1> SUFFICES ASSUME Admitted(f, fits, gone)
             PROVE  Clear' /\ \A x : RoomsOf(chans', x) = RoomsOf(chans, x)
  BY <1>a, <1>b
<1>2. /\ loggedIn' \subseteq loggedIn \cup {f}
      /\ told' = [told EXCEPT ![f] = {}]
      /\ UNCHANGED <<chans, orphans>>
  BY DEF Admitted
<1>3. loggedIn \subseteq open /\ open \subseteq Fds /\ told \in [Fds -> SUBSET Nat]
  BY DEF Registered, TypeOK
<1>4. ASSUME f \notin orphans PROVE RoomsOf(chans, f) = {}
  <2>1. ASSUME NEW i \in DOMAIN chans, Contains(chans[i].users, f) PROVE FALSE
    <3>1. i \in DOMAIN dir /\ dir[i] = chans[i] /\ chans[i].users \in Seq(Nat)
      BY DirFacts, ChannelUsers DEF Registered
    <3>2. f \in Range(dir[i].users) \ {Root}
      BY <1>1, <2>1, <3>1, ContainsIsInRange
    <3>3. f \in loggedIn \cup orphans
      BY <3>1, <3>2, ListedIds
    <3> QED BY <1>1, <1>3, <1>4, <3>3
  <2> QED BY <2>1, InRooms
<1>5. ASSUME NEW g \in loggedIn' \ orphans' PROVE RoomsOf(chans', g) = told'[g] \ {GcId}
  <2>1. CASE g = f
    BY <1>1, <1>2, <1>3, <1>4, <2>1
  <2>2. CASE g # f
    <3>1. g \in loggedIn \ orphans /\ g \in Fds /\ told'[g] = told[g]
      BY <1>2, <1>3, <2>2
    <3> QED BY <1>2, <3>1 DEF Clear, Viewed
  <2> QED BY <2>1, <2>2
<1> QED BY <1>2, <1>5 DEF Clear, Viewed

LEMMA CreateClear ==
  ASSUME IdsFit, Registered, Clear, NEW f \in Fds, CreateChannel(f), ~ clash'
  PROVE  Clear' /\ OthersOf(f)
<1>0. TypeOK /\ chans \in Seq(Channel) /\ DOMAIN chans = 1 .. Len(chans) /\ Len(chans) \in Nat
  BY ChannelUsers DEF Registered
<1>1. CASE Fault(f)
  BY <1>1, FaultStops, ClearStopped DEF OthersOf
<1>2. CASE /\ chans' = Cons(NewChannel(f), chans)
           /\ told' = [told EXCEPT ![f] = @ \cup {AnsweredId(DirLength')}]
           /\ clash' = (clash \/ ~ NoChannel(NewChannel(f).id))
           /\ UNCHANGED <<loggedIn, orphans>>
  <2> DEFINE n == NewChannel(f)
  <2>1. /\ DirLength % ChanMod = DirLength /\ DirLength # GcId /\ DirLength \in Nat
    BY <1>0, Casts, Constants DEF CreateChannel, DirLength
  <2>2. n.id = DirLength /\ n.users = <<f>> /\ n \in Channel
    <3>1. <<f>> \in Seq(Nat)
      BY Constants
    <3> QED BY <2>1, <3>1 DEF NewChannel, Channel
  <2>3. \A i \in DOMAIN chans : chans[i].id # n.id
    <3>1. NoChannel(n.id)
      BY <1>2
    <3> QED BY <1>0, <3>1, DirFacts DEF NoChannel
  <2>4. AnsweredId(DirLength') = n.id
    <3>1. Len(chans') = Len(chans) + 1
      BY <1>0, <1>2, <2>2, ConsFacts
    <3>2. DirLength' - 1 = DirLength
      BY <1>0, <3>1, Constants DEF DirLength
    <3> QED BY <2>1, <2>2, <3>2 DEF AnsweredId
  <2> HIDE DEF n
  <2>5. chans' = Cons(n, chans) /\ told' = [told EXCEPT ![f] = told[f] \cup {n.id}]
    BY <1>2, <2>4 DEF n
  <2>6. DistinctIds(chans) /\ Inhabited(chans)
    BY DEF Clear
  <2>7. /\ DistinctIds(chans') /\ Inhabited(chans') /\ OthersOf(f)
        /\ RoomsOf(chans', f) = RoomsOf(chans, f) \cup {n.id}
    <3>1. /\ DistinctIds(Cons(n, chans)) /\ Inhabited(Cons(n, chans))
          /\ \A x : x # f => RoomsOf(Cons(n, chans), x) = RoomsOf(chans, x)
          /\ RoomsOf(Cons(n, chans), f) = RoomsOf(chans, f) \cup {n.id}
      BY ONLY <1>0, <2>2, <2>3, <2>6, RoomsPushed
    <3> QED BY <2>5, <3>1 DEF OthersOf
  <2>8. f \in loggedIn \ orphans =>
          RoomsOf(chans', f) = (told[f] \cup {n.id}) \ {GcId}
    BY <2>1, <2>2, <2>7 DEF Clear, Viewed
  <2> QED BY <1>0, <1>2, <2>5, <2>7, <2>8, ClearTold
<1> QED BY <1>1, <1>2, FaultStops DEF CreateChannel

LEMMA JoinClear ==
  ASSUME Registered, Clear, NEW f \in Fds, NEW c, JoinChannel(f, c)
  PROVE  Clear' /\ OthersOf(f)
<1>0. /\ TypeOK /\ chans \in Seq(Channel) /\ DOMAIN chans = 1 .. Len(chans)
      /\ told \in [Fds -> SUBSET Nat] /\ f \in Nat
      /\ \A i \in DOMAIN chans : chans[i].users \in Seq(Nat)
  BY ChannelUsers, Constants DEF Registered, TypeOK
<1>1. UNCHANGED <<loggedIn, orphans>> /\ DistinctIds(chans) /\ Inhabited(chans)
  BY DEF JoinChannel, Clear
<1>2. CASE UNCHANGED <<chans, told>>
  BY <1>1, <1>2, ClearKept DEF OthersOf
<1>3. ASSUME NEW i \in DOMAIN dir, IsFirst(i, c),
             \/ Member(i, f) /\ UNCHANGED chans
             \/ /\ ~ Member(i, f)
                /\ Contains(gc, f)
                /\ chans' = [chans EXCEPT ![i].users = Cons(f, @)],
             told' = [told EXCEPT ![f] = @ \cup {c}]
      PROVE  Clear' /\ OthersOf(f)
  <2>1. dir[i].id = c
    BY <1>3 DEF IsFirst
  <2>2. \/ i \in DOMAIN chans /\ dir[i] = chans[i]
        \/ dir[i] = [id |-> GcId, users |-> gc]
    BY <1>0, DirFacts
  <2>3. told' = [told EXCEPT ![f] = told[f] \cup {c}]
    BY <1>3
  <2>4. CASE Member(i, f) /\ UNCHANGED chans
    <3>1. f \in loggedIn \ orphans => RoomsOf(chans', f) = (told[f] \cup {c}) \ {GcId}
      <4>1. f \in loggedIn \ orphans => RoomsOf(chans', f) = told[f] \ {GcId}
        BY <2>4 DEF Clear, Viewed
      <4>2. c = GcId \/ c \in RoomsOf(chans, f)
        BY <2>1, <2>2, <2>4, InRooms DEF Member
      <4> QED BY <2>4, <4>1, <4>2
    <3>2. OthersOf(f)
      BY <2>4 DEF OthersOf
    <3> QED BY <1>0, <1>1, <2>3, <2>4, <3>1, <3>2, ClearTold
  <2>5. CASE ~ Member(i, f) /\ Contains(gc, f)
             /\ chans' = [chans EXCEPT ![i].users = Cons(f, @)]
    <3>1. i \in DOMAIN chans /\ chans[i].id = c
      BY <2>1, <2>2, <2>5 DEF Member
    <3> DEFINE old   == chans[i].users
               users == Cons(f, old)
    <3>0. f \in Nat /\ old \in Seq(Nat)
      BY <1>0, <3>1
    <3>2. users \in Seq(Nat) /\ Len(users) = Len(chans[i].users) + 1
      <4>1. old = chans[i].users
        OBVIOUS
      <4> HIDE DEF old
      <4>2. Cons(f, old) \in Seq(Nat) /\ Len(Cons(f, old)) = Len(old) + 1
        BY ONLY <3>0, ConsFacts
      <4> QED BY ONLY <4>1, <4>2
    <3>3. \A x : Contains(users, x) <=> x = f \/ Contains(chans[i].users, x)
      <4>1. old = chans[i].users
        OBVIOUS
      <4> HIDE DEF old
      <4>2. \A x : Contains(Cons(f, old), x) <=> x = f \/ Contains(old, x)
        BY ONLY <3>0, ConsContains
      <4> QED BY ONLY <4>1, <4>2
    <3>4. chans' = Edited(chans, i, users)
      BY <2>5 DEF Edited
    <3>5. users # <<>>
      <4>1. Len(chans[i].users) \in Nat
        BY <1>0, <3>1
      <4> QED BY <3>2, <4>1
    <3> HIDE DEF users
    <3>6. /\ DistinctIds(chans') /\ Inhabited(chans')
          /\ \A x : x # f => RoomsOf(chans', x) = RoomsOf(chans, x)
          /\ RoomsOf(chans', f) = RoomsOf(chans, f) \cup {c}
      <4>1. /\ chans \in Seq(Channel) /\ DistinctIds(chans) /\ Inhabited(chans)
            /\ SameButFor(f, users, chans[i].users)
            /\ Contains(users, f)
        BY <1>0, <1>1, <3>3 DEF SameButFor
      <4>2. LET ds == Edited(chans, i, users)
            IN  /\ DistinctIds(ds) /\ Inhabited(ds)
                /\ \A x : x # f => RoomsOf(ds, x) = RoomsOf(chans, x)
                /\ RoomsOf(ds, f) = RoomsOf(chans, f) \cup {chans[i].id}
        BY ONLY <3>1, <3>2, <3>5, <4>1, RoomsEdited
      <4> QED BY ONLY <3>1, <3>4, <4>2
    <3>7. f \in loggedIn \ orphans => RoomsOf(chans', f) = (told[f] \cup {c}) \ {GcId}
      <4>1. c # GcId
        BY <3>1 DEF Registered, ChannelsSound, ChannelSound
      <4> QED BY <3>6, <4>1 DEF Clear, Viewed
    <3> QED BY <1>0, <1>1, <2>3, <3>6, <3>7, ClearTold DEF OthersOf
  <2> QED BY <1>3, <2>4, <2>5
<1>4. CASE Fault(f)
  BY <1>4, FaultStops, ClearStopped DEF OthersOf
<1> QED BY <1>2, <1>3, <1>4 DEF JoinChannel

LEMMA LeaveClear ==
  ASSUME Registered, Clear, NEW f \in Fds, NEW c, LeaveChannel(f, c)
  PROVE  Clear' /\ OthersOf(f)
<1>0. /\ TypeOK /\ chans \in Seq(Channel) /\ DistinctIds(chans) /\ Inhabited(chans)
  BY ChannelUsers DEF Registered, Clear
<1>1. CASE UNCHANGED <<chans, loggedIn, orphans, told>>
  BY <1>1, ClearKept DEF OthersOf
<1>2. ASSUME NEW i \in DOMAIN chans, c # GcId, IsFirst(i, c), Contains(chans[i].users, f),
             chans' = Shrink(i, UserDelete(chans[i].users, f)),
             told' = [told EXCEPT ![f] = @ \ {c}],
             UNCHANGED <<loggedIn, orphans>>
      PROVE  Clear' /\ OthersOf(f)
  <2> DEFINE users == chans[i].users
             rest == RemoveFirst(users, f)
  <2>1. chans[i].id = c
    BY <1>0, <1>2, DirFacts DEF IsFirst
  <2>2. users \in Seq(Nat) /\ IsInjective(users)
    BY ChannelUsers DEF Registered, ChannelsSound, ChannelSound
  <2>3. /\ rest \in Seq(Nat) /\ ~ Contains(rest, f)
        /\ \A x : x # f => (Contains(rest, x) <=> Contains(users, x))
    <3> HIDE DEF users
    <3> QED BY <2>2, RemoveFirstType, RemoveFirstInjective, RemoveFirstContains
  <2>4. /\ DistinctIds(chans') /\ Inhabited(chans')
        /\ \A x : x # f => RoomsOf(chans', x) = RoomsOf(chans, x)
        /\ RoomsOf(chans', f) = RoomsOf(chans, f) \ {c}
    <3>1. CASE rest = <<>>
      <4>1. chans' = RemoveAt(chans, i)
        BY <1>2, <3>1 DEF Shrink, UserDelete
      <4>2. \A x : x # f => ~ Contains(chans[i].users, x)
        <5>1. \A x : ~ Contains(<<>>, x)
          BY DEF Contains
        <5> QED BY <2>3, <3>1, <5>1
      <4>3. LET ds == RemoveAt(chans, i)
            IN  /\ DistinctIds(ds) /\ Inhabited(ds)
                /\ \A x : x # f => RoomsOf(ds, x) = RoomsOf(chans, x)
                /\ RoomsOf(ds, f) = RoomsOf(chans, f) \ {chans[i].id}
        BY ONLY <1>0, <4>2, i \in DOMAIN chans, RoomsDropped
      <4> QED BY ONLY <2>1, <4>1, <4>3
    <3>2. CASE rest # <<>>
      <4>1. chans' = Edited(chans, i, rest)
        BY <1>2, <3>2 DEF Shrink, UserDelete, Edited
      <4> HIDE DEF rest
      <4>2. LET ds == Edited(chans, i, rest)
            IN  /\ DistinctIds(ds) /\ Inhabited(ds)
                /\ \A x : x # f => RoomsOf(ds, x) = RoomsOf(chans, x)
                /\ RoomsOf(ds, f) = RoomsOf(chans, f) \ {chans[i].id}
        <5>1. /\ chans \in Seq(Channel) /\ DistinctIds(chans) /\ Inhabited(chans)
              /\ i \in DOMAIN chans
          BY <1>0, <1>2
        <5>2. /\ rest \in Seq(Nat) /\ rest # <<>> /\ ~ Contains(rest, f)
              /\ SameButFor(f, rest, chans[i].users)
          BY <2>3, <3>2 DEF SameButFor
        <5> HIDE DEF users
        <5> QED BY ONLY <5>1, <5>2, RoomsEdited
      <4> QED BY ONLY <2>1, <4>1, <4>2
    <3> QED BY <3>1, <3>2
  <2>5. f \in loggedIn \ orphans => RoomsOf(chans', f) = (told[f] \ {c}) \ {GcId}
    BY <2>4 DEF Clear, Viewed
  <2>6. told' = [told EXCEPT ![f] = told[f] \ {c}] /\ OthersOf(f)
    BY <1>2, <2>4 DEF OthersOf
  <2> QED BY <1>0, <1>2, <2>4, <2>5, <2>6, ClearTold
<1> QED BY <1>1, <1>2 DEF LeaveChannel, Reread, Fault, lists, history

LEMMA LogoutClear ==
  ASSUME Registered, Clear, NEW f \in Fds, Logout(f)
  PROVE  Clear' /\ OthersOf(f)
<1>1. CASE Fault(f)
  BY <1>1, FaultStops, ClearStopped DEF OthersOf
<1>2. ASSUME NEW e \in Enumerations(Kept(f)),
             chans' = [k \in DOMAIN e |->
                         [id |-> chans[e[k]].id, users |-> UsersAfter(e[k], f)]],
             Close(f), gc' = UserDelete(gc, f), orphans' = orphans \cap Range(gc')
      PROVE  Clear' /\ OthersOf(f)
  <2>1. DistinctIds(chans') /\ Inhabited(chans') /\ OthersOf(f)
    BY <1>2, LogoutRooms DEF Clear, OthersOf
  <2>2. loggedIn' = loggedIn \ {f} /\ told' = [told EXCEPT ![f] = {}]
    BY <1>2 DEF Close
  <2>3. ASSUME NEW g \in loggedIn' \ orphans' PROVE RoomsOf(chans', g) = told'[g] \ {GcId}
    <3>1. g \in loggedIn /\ g # f /\ g \in Fds /\ told \in [Fds -> SUBSET Nat]
      BY <2>2 DEF Registered, TypeOK
    <3>2. g \in orphans => g \in Range(gc')
      <4>1. gc \in Seq(Nat) /\ RemoveFirst(gc, f) \in Seq(Nat)
        BY ChannelUsers, RemoveFirstType DEF Registered
      <4>2. g \in orphans => Contains(gc, g)
        BY <4>1, ContainsIsInRange DEF Registered, GlobalListExact
      <4>3. Contains(gc, g) => Contains(RemoveFirst(gc, f), g)
        BY <3>1, <4>1, RemoveFirstContains
      <4> QED BY <1>2, <4>1, <4>2, <4>3, ContainsIsInRange DEF UserDelete
    <3>3. g \notin orphans
      BY <1>2, <3>2
    <3> QED BY <2>1, <2>2, <3>1, <3>3 DEF OthersOf, Clear, Viewed
  <2> QED BY <2>1, <2>3 DEF Clear, Viewed
<1> QED BY <1>1, <1>2 DEF Logout

(* Every step: the client the handler ran for is the only one whose rooms  *)
(* change.                                                                 *)
LEMMA ClearStep ==
  ASSUME IdsFit, Registered, ClearInv, [Next]_vars, ~ clash'
  PROVE  Clear' /\ \A x \in Fds : x # sent'.by => RoomsOf(chans', x) = RoomsOf(chans, x)
<1>0. Clear
  <2>1. \A f \in Fds : CreateChannel(f) => ~ clash
    BY DEF CreateChannel, Reread, Fault, history
  <2>2. \A f \in Fds : Logout(f) \/ HangUp(f) \/ Drop(f) => clash' = clash
    BY DEF Logout, HangUp, Drop, Fault, history
  <2>3. \A f \in Fds, c \in ChanIds : JoinChannel(f, c) \/ LeaveChannel(f, c) => clash' = clash
    BY DEF JoinChannel, LeaveChannel, Reread, Fault, history
  <2>4. \A f \in Fds, c \in ChanIds : GetUsers(f, c) \/ Send(f, c) => clash' = clash
    BY DEF GetUsers, Send, Reread, Fault, history
  <2>5. \A fits, gone \in BOOLEAN : Login(fits, gone) => clash' = clash
    BY DEF Login, Fault, history
  <2>6. EndLoop \/ UNCHANGED vars => clash' = clash
    BY DEF EndLoop, vars, history
  <2>7. ~ clash
    BY <2>1, <2>2, <2>3, <2>4, <2>5, <2>6 DEF Next
  <2> QED BY <2>7 DEF ClearInv
<1> DEFINE Goal == Clear' /\ \A x \in Fds : x # sent'.by => RoomsOf(chans', x) = RoomsOf(chans, x)
<1>1. ASSUME NEW fits \in BOOLEAN, NEW gone \in BOOLEAN, Login(fits, gone) PROVE Goal
  BY <1>0, <1>1, LoginClear
<1>2. ASSUME NEW f \in Fds, CreateChannel(f) PROVE Goal
  <2>1. sent'.by = f
    BY <1>2 DEF CreateChannel, Reread, Fault, Nothing, Answer, Packet
  <2> QED BY <1>0, <1>2, <2>1, CreateClear DEF OthersOf
<1>3. ASSUME NEW f \in Fds, NEW c \in ChanIds, JoinChannel(f, c) PROVE Goal
  <2>1. sent'.by = f
    BY <1>3 DEF JoinChannel, Fault, Nothing, Answer, Packet
  <2> QED BY <1>0, <1>3, <2>1, JoinClear DEF OthersOf
<1>4. ASSUME NEW f \in Fds, NEW c \in ChanIds, LeaveChannel(f, c) PROVE Goal
  <2>1. sent'.by = f
    BY <1>4 DEF LeaveChannel, Reread, Fault, Nothing, Answer, Packet
  <2> QED BY <1>0, <1>4, <2>1, LeaveClear DEF OthersOf
<1>5. ASSUME NEW f \in Fds, Logout(f) PROVE Goal
  <2>1. sent'.by = f
    BY <1>5 DEF Logout, Fault, Nothing, Packet
  <2> QED BY <1>0, <1>5, <2>1, LogoutClear DEF OthersOf
<1>6. ASSUME NEW f \in Fds, Drop(f) PROVE Goal
  <2>1. /\ chans' = chans /\ loggedIn' = loggedIn \ {f} /\ orphans \subseteq orphans'
        /\ told' = [told EXCEPT ![f] = {}]
    BY <1>6 DEF Drop, Close, lists
  <2>2. \A g \in loggedIn' \ orphans' : g \in loggedIn \ orphans /\ told'[g] = told[g]
    BY <2>1 DEF Registered, TypeOK
  <2> QED BY <1>0, <2>1, <2>2, ClearKept
<1>7. ASSUME NEW f \in Fds, NEW c \in ChanIds, GetUsers(f, c) \/ Send(f, c) PROVE Goal
  <2>1. UNCHANGED <<chans, loggedIn, orphans, told>>
    BY <1>7 DEF GetUsers, Send, Reread, Fault, lists, history
  <2> QED BY <1>0, <2>1, ClearKept
<1>8. ASSUME NEW f \in Fds, HangUp(f) PROVE Goal
  BY <1>0, <1>8, ClearKept DEF HangUp, lists, history
<1>9. CASE EndLoop \/ UNCHANGED vars
  BY <1>0, <1>9, ClearKept DEF EndLoop, vars, lists, history
<1> QED BY <1>1, <1>2, <1>3, <1>4, <1>5, <1>6, <1>7, <1>8, <1>9 DEF Next

LEMMA ClearInit == Init => ClearInv
BY DEF Init, ClearInv, Clear, DistinctIds, Inhabited, Viewed

(* SEND is delivered by the list of the channel that the ids name.         *)
LEMMA Delivery ==
  ASSUME IdsFit, Registered, ClearInv
  PROVE  DeliveryMatchesAnswers
<1> SUFFICES ASSUME ~ clash, NEW s \in open, NEW i \in DOMAIN dir, NEW f \in loggedIn \ orphans
             PROVE  f \in Recipients(i, s) <=> f # s /\ dir[i].id \in told[f] \cup {GcId}
  BY DEF DeliveryMatchesAnswers
<1>1. TypeOK /\ DistinctIds(chans) /\ RoomsOf(chans, f) = told[f] \ {GcId}
  BY DEF Registered, ClearInv, Clear, Viewed
<1>2. f \in Fds /\ f # Root
  BY <1>1, Constants DEF TypeOK
<1>3. f \in Recipients(i, s) <=> f # s /\ f \in Range(dir[i].users)
  BY <1>2 DEF Recipients
<1>4. CASE i \in DOMAIN chans /\ dir[i] = chans[i]
  <2>1. chans[i].users \in Seq(Nat) /\ chans[i].id # GcId
    BY <1>1, <1>4, ChannelUsers DEF Registered, ChannelsSound, ChannelSound
  <2>2. f \in Range(chans[i].users) <=> chans[i].id \in RoomsOf(chans, f)
    BY <1>1, <1>4, <2>1, RoomIsChannel, ContainsIsInRange
  <2> QED BY <1>1, <1>3, <1>4, <2>1, <2>2
<1>5. CASE dir[i] = [id |-> GcId, users |-> gc]
  <2>1. Contains(gc, f)
    <3>1. UserId(f) = f
      BY <1>1, <1>2, Casts
    <3> QED BY <3>1 DEF Registered, SessionsRegistered
  <2>2. f \in Range(gc)
    BY <1>1, <2>1, ChannelUsers, ContainsIsInRange
  <2> QED BY <1>3, <1>5, <2>2
<1> QED BY <1>1, <1>4, <1>5, DirFacts

(* While no two channels have had the same id, a channel goes with its     *)
(* last member, and what the answers said, the lists and what SEND reaches *)
(* agree, for any number of clients and channels.                          *)
THEOREM View ==
  ASSUME IdsFit
  PROVE  Spec => [](NoEmptyChannel /\ ClientView /\ DeliveryMatchesAnswers)
<1>1. Registered /\ ClearInv /\ [Next]_vars => (Registered /\ ClearInv)'
  BY RegisteredStep, ClearStep DEF ClearInv
<1>2. Registered /\ ClearInv => NoEmptyChannel /\ ClientView /\ DeliveryMatchesAnswers
  <2> SUFFICES ASSUME Registered, ClearInv PROVE NoEmptyChannel /\ ClientView
    BY Delivery
  <2> QED BY RoomsAre DEF ClearInv, Clear, Inhabited, Viewed, NoEmptyChannel, ClientView
<1> QED BY RegisteredInit, ClearInit, <1>1, <1>2, PTL DEF Spec

(* For as long, no request changes the channels of another client.         *)
THEOREM Isolation ==
  ASSUME IdsFit
  PROVE  Spec => OthersKept
<1>1. Registered /\ ClearInv /\ [Next]_vars => (Registered /\ ClearInv)'
  BY RegisteredStep, ClearStep DEF ClearInv
<1>2. Registered /\ ClearInv /\ [Next]_vars =>
        [~ clash' => \A x \in Fds \ {sent'.by} : Rooms(x)' = Rooms(x)]_vars
  BY ClearStep, RoomsAre
<1> QED BY RegisteredInit, ClearInit, <1>1, <1>2, PTL DEF Spec, OthersKept
-----------------------------------------------------------------------------
(* Where channel ids clash.  The channels have the ids that their places   *)
(* in the directory had when they were pushed, as long as none is missing. *)
Dense == \A i \in DOMAIN chans : chans[i].id = DirBase + Len(chans) - i

(* Channels that keep their ids and their places stay dense.               *)
LEMMA SameIdsDense ==
  ASSUME Dense, DOMAIN chans' = DOMAIN chans, Len(chans') = Len(chans),
         \A i \in DOMAIN chans : chans'[i].id = chans[i].id
  PROVE  Dense'
BY DEF Dense

(* A list of users that changes leaves the ids alone.                      *)
LEMMA EditedIds ==
  ASSUME TypeOK, NEW i \in DOMAIN chans, NEW list,
         chans' = [chans EXCEPT ![i].users = list]
  PROVE  /\ DOMAIN chans' = DOMAIN chans /\ Len(chans') = Len(chans)
         /\ \A j \in DOMAIN chans : chans'[j].id = chans[j].id
<1>1. DOMAIN chans = 1 .. Len(chans) /\ Len(chans) \in Nat
  BY DirFacts
<1>2. DOMAIN chans' = DOMAIN chans
  OBVIOUS
<1>3. chans[i] \in Channel
  BY ChannelUsers
<1>4. chans'[i].id = chans[i].id
  BY <1>3 DEF Channel
<1>5. \A j \in DOMAIN chans : j # i => chans'[j] = chans[j]
  OBVIOUS
<1>6. Len(chans') = Len(chans)
  OBVIOUS
<1> QED BY ONLY <1>2, <1>4, <1>5, <1>6

(* An increasing enumeration of all of 1 .. n is in its order.             *)
LEMMA EnumeratedInOrder ==
  ASSUME NEW n \in Nat, NEW e \in [1 .. n -> 1 .. n],
         \A a, b \in 1 .. n : a < b => e[a] < e[b],
         \A y \in 1 .. n : \E a \in 1 .. n : e[a] = y
  PROVE  \A k \in 1 .. n : e[k] = k
<1> DEFINE Wrong == {k \in 1 .. n : e[k] # k}
<1> SUFFICES ASSUME Wrong # {} PROVE FALSE
  OBVIOUS
<1> DEFINE k == Min(Wrong)
<1>1. k \in Wrong /\ \A j \in Wrong : k <= j
  <2>1. Wrong \subseteq Nat
    OBVIOUS
  <2> HIDE DEF Wrong
  <2> QED BY <2>1, NatSetHasMin
<1> HIDE DEF k
<1>2. k \in 1 .. n /\ e[k] # k /\ e[k] \in 1 .. n
  BY <1>1
<1>3. \A j \in 1 .. n : j < k => e[j] = j
  BY <1>1, <1>2
<1>4. CASE e[k] < k
  BY ONLY <1>2, <1>3, <1>4, \A a, b \in 1 .. n : a < b => e[a] < e[b]
<1>5. CASE e[k] > k
  <2>1. PICK a \in 1 .. n : e[a] = k
    BY <1>2
  <2>2. a # k /\ ~ (a < k)
    BY ONLY <1>2, <1>3, <1>5, <2>1
  <2>3. k < a
    BY ONLY <1>2, <2>2, a \in 1 .. n
  <2>4. e[k] < e[a]
    BY ONLY <1>2, <2>3, a \in 1 .. n, \A c, b \in 1 .. n : c < b => e[c] < e[b]
  <2> QED BY ONLY <1>2, <1>5, <2>1, <2>4
<1> QED BY ONLY <1>2, <1>4, <1>5
(* A new channel is pushed with the id that its place calls for, and while *)
(* none is missing no other channel has it.                                *)
LEMMA CreateDense ==
  ASSUME IdsFit, TypeOK, TypeOK', Dense, NEW f \in Fds, CreateChannel(f)
  PROVE  Dense' /\ (clash' => clash)
<1>1. CASE Fault(f)
  BY <1>1 DEF Dense, Fault, lists, history
<1>2. CASE /\ chans' = Cons(NewChannel(f), chans)
           /\ clash' = (clash \/ ~ NoChannel(NewChannel(f).id))
  <2> DEFINE n == NewChannel(f)
             L == Len(chans)
  <2>1. L \in Nat /\ DirBase \in Nat /\ DirLength = DirBase + L
    BY Constants, DirFacts DEF DirLength
  <2>2. DirLength % ChanMod = DirLength /\ DirLength # GcId
    <3>1. Len(chans) < MaxChannels
      BY DEF CreateChannel
    <3> QED BY ONLY IdsFit, TypeOK, <3>1, Casts
  <2>3. n.id = DirBase + L
    BY <2>1, <2>2 DEF NewChannel
  <2>4. n \in Channel
    BY <2>1, <2>2, Constants DEF NewChannel, Channel
  <2>5. /\ DOMAIN chans = 1 .. L /\ chans \in Seq(Channel)
        /\ \A j \in 1 .. L : chans[j].id = DirBase + L - j
    BY DirFacts DEF Dense, TypeOK
  <2> HIDE DEF n, L
  <2>6. Dense'
    <3>1. /\ Cons(n, chans) \in Seq(Channel) /\ Len(Cons(n, chans)) = L + 1
          /\ Cons(n, chans)[1] = n
          /\ \A j \in 1 .. L : Cons(n, chans)[j + 1] = chans[j]
      <4>1. Len(chans) = L
        BY DEF L
      <4>2. /\ Cons(n, chans) \in Seq(Channel) /\ Len(Cons(n, chans)) = Len(chans) + 1
            /\ Cons(n, chans)[1] = n
            /\ \A j \in 1 .. Len(chans) : Cons(n, chans)[j + 1] = chans[j]
        <5>1. chans \in Seq(Channel)
          BY ONLY <2>5
        <5> QED BY ONLY <2>4, <5>1, SMT DEF Cons
      <4> QED BY ONLY <4>1, <4>2
    <3>2. /\ DOMAIN chans' = 1 .. L + 1 /\ Len(chans') = L + 1 /\ chans'[1] = n
          /\ \A j \in 1 .. L : chans'[j + 1] = chans[j]
      BY ONLY <1>2, <2>1, <3>1 DEF n
    <3>3. ASSUME NEW j \in 1 .. L + 1 PROVE chans'[j].id = DirBase + (L + 1) - j
      <4>1. CASE j = 1
        <5>1. chans'[j].id = DirBase + L
          BY ONLY <2>3, <3>2, <4>1
        <5> QED BY ONLY <2>1, <4>1, <5>1
      <4>2. CASE j # 1
        <5>1. j - 1 \in 1 .. L /\ (j - 1) + 1 = j
          BY ONLY <2>1, <4>2, j \in 1 .. L + 1
        <5>2. chans'[j] = chans[j - 1]
          BY <3>2, <5>1
        <5>3. chans[j - 1].id = DirBase + L - (j - 1)
          BY ONLY <2>5, <5>1
        <5>4. DirBase + L - (j - 1) = DirBase + (L + 1) - j
          BY ONLY <2>1, j \in 1 .. L + 1
        <5> QED BY ONLY <5>2, <5>3, <5>4
      <4> QED BY <4>1, <4>2
    <3> QED BY ONLY <3>2, <3>3 DEF Dense
  <2>7. NoChannel(n.id)
    <3> SUFFICES ASSUME NEW j \in DOMAIN dir PROVE dir[j].id # n.id
      BY DEF NoChannel
    <3>1. /\ DOMAIN dir = 1 .. L + 1 /\ \A k \in 1 .. L : dir[k] = chans[k]
          /\ dir[L + 1].id = GcId
      BY DirFacts DEF L
    <3>2. CASE j \in 1 .. L
      <4>1. dir[j].id = DirBase + L - j
        BY ONLY <2>5, <3>1, <3>2
      <4> QED BY ONLY <2>1, <2>3, <3>2, <4>1
    <3>3. CASE j = L + 1
      BY ONLY <2>1, <2>2, <2>3, <3>1, <3>3
    <3> QED BY ONLY <2>1, <3>1, <3>2, <3>3, j \in DOMAIN dir
  <2> QED BY ONLY <1>2, <2>6, <2>7 DEF n
<1> QED BY <1>1, <1>2, FaultStops DEF CreateChannel

(* LOGOUT keeps the ids and the places when it deletes no channel.         *)
LEMMA LogoutDense ==
  ASSUME TypeOK, Dense, NEW f \in Fds, Logout(f)
  PROVE  Dense' \/ Len(chans') < Len(chans)
<1>1. CASE Fault(f)
  BY <1>1 DEF Dense, Fault, lists
<1>2. ASSUME NEW e \in Enumerations(Kept(f)),
             chans' = [k \in DOMAIN e |->
                         [id |-> chans[e[k]].id, users |-> UsersAfter(e[k], f)]]
      PROVE  Dense' \/ Len(chans') < Len(chans)
  <2> DEFINE K == Kept(f)
             n == Cardinality(K)
             L == Len(chans)
  <2>1. L \in Nat /\ DOMAIN chans = 1 .. L
    BY DirFacts
  <2>2. K \subseteq 1 .. L
    BY <2>1 DEF Kept
  <2>3. /\ e \in [1 .. n -> K]
        /\ \A a, b \in DOMAIN e : a < b => e[a] < e[b]
        /\ Range(e) = K
    BY DEF Enumerations
  <2> HIDE DEF K, n, L
  <2>4. IsFiniteSet(1 .. L) /\ Cardinality(1 .. L) = L
    <3>1. 1 \in Int /\ L \in Int
      BY ONLY <2>1
    <3>2. IsFiniteSet(1 .. L) /\ Cardinality(1 .. L) = IF 1 > L THEN 0 ELSE L - 1 + 1
      BY ONLY <3>1, FS_Interval
    <3> QED BY ONLY <2>1, <3>2
  <2>5. IsFiniteSet(K) /\ n <= L /\ (L = n => 1 .. L = K)
    <3>1. K \in SUBSET (1 .. L)
      BY ONLY <2>2
    <3> QED BY ONLY <2>4, <3>1, FS_Subset DEF n
  <2>6. n \in Nat
    BY ONLY <2>5, FS_CardinalityType DEF n
  <2>7. DOMAIN e = 1 .. n /\ DOMAIN chans' = 1 .. n /\ Len(chans') = n
    <3>1. DOMAIN e = 1 .. n
      BY ONLY <2>3
    <3>2. DOMAIN chans' = 1 .. n
      BY ONLY <1>2, <3>1
    <3> QED BY ONLY <1>2, <2>6, <3>1, <3>2
  <2>8. CASE n = L
    <3>1. \A k \in 1 .. L : e[k] = k
      <4>1. e \in [1 .. L -> 1 .. L]
        BY ONLY <2>3, <2>5, <2>8
      <4>2. \A a, b \in 1 .. L : a < b => e[a] < e[b]
        BY ONLY <2>3, <2>7, <2>8
      <4>3. \A y \in 1 .. L : \E a \in 1 .. L : e[a] = y
        BY ONLY <2>3, <2>5, <2>7, <2>8 DEF Range
      <4> QED BY ONLY <2>1, <4>1, <4>2, <4>3, EnumeratedInOrder
    <3>2. \A k \in 1 .. L : chans'[k].id = chans[k].id
      BY ONLY <1>2, <2>7, <2>8, <3>1
    <3> QED BY <2>1, <2>7, <2>8, <3>2, SameIdsDense DEF L
  <2>9. CASE n # L
    <3>1. n < L
      BY ONLY <2>1, <2>5, <2>6, <2>9
    <3>2. Len(chans') < L
      BY ONLY <2>7, <3>1
    <3> QED BY ONLY <3>2 DEF L
  <2> QED BY <2>8, <2>9
<1> QED BY <1>1, <1>2 DEF Logout
LEMMA DenseStep ==
  ASSUME IdsFit, TypeOK, Dense, [Next]_vars
  PROVE  /\ Dense' \/ Len(chans') < Len(chans)
         /\ clash' => clash
<1>0. TypeOK'
  BY TypeStep
<1>1. ASSUME UNCHANGED chans PROVE Dense'
  BY <1>1 DEF Dense
<1>2. ASSUME NEW f \in Fds, CreateChannel(f) PROVE Dense' /\ (clash' => clash)
  BY <1>0, <1>2, CreateDense
<1>3. ASSUME NEW f \in Fds, NEW c \in ChanIds, JoinChannel(f, c)
      PROVE  Dense' /\ (clash' => clash)
  <2>1. clash' = clash
    BY <1>3 DEF JoinChannel, Fault, history
  <2>2. ASSUME NEW i \in DOMAIN dir, chans' = [chans EXCEPT ![i].users = Cons(f, @)]
        PROVE  Dense'
    <3>1. CASE i \in DOMAIN chans
      <4>1. chans' = [chans EXCEPT ![i].users = Cons(f, chans[i].users)]
        BY <2>2, <3>1
      <4>2. /\ DOMAIN chans' = DOMAIN chans /\ Len(chans') = Len(chans)
            /\ \A j \in DOMAIN chans : chans'[j].id = chans[j].id
        BY ONLY TypeOK, <3>1, <4>1, EditedIds
      <4> QED BY ONLY Dense, <4>2, SameIdsDense
    <3>2. CASE i \notin DOMAIN chans
      <4>1. chans \in Seq(Channel)
        BY DEF TypeOK
      <4>2. chans' = chans
        BY <2>2, <3>2, <4>1
      <4> QED BY <1>1, <4>2
    <3> QED BY <3>1, <3>2
  <2> QED BY <1>1, <1>3, <2>1, <2>2, FaultStops DEF JoinChannel, Stopped
<1>4. ASSUME NEW f \in Fds, NEW c \in ChanIds, LeaveChannel(f, c)
      PROVE  (Dense' \/ Len(chans') < Len(chans)) /\ (clash' => clash)
  <2>1. clash' = clash
    BY <1>4 DEF LeaveChannel, Reread, Fault, history
  <2>2. ASSUME NEW i \in DOMAIN chans, NEW rest, chans' = Shrink(i, rest)
        PROVE  Dense' \/ Len(chans') < Len(chans)
    <3>1. CASE chans' = RemoveAt(chans, i)
      <4>1. chans \in Seq(Channel) /\ i \in 1 .. Len(chans) /\ Len(chans) \in Nat
        BY DirFacts DEF TypeOK
      <4>2. Len(RemoveAt(chans, i)) = Len(chans) - 1
        BY ONLY <4>1, RemoveAtFacts
      <4>3. Len(chans') = Len(chans) - 1
        BY ONLY <3>1, <4>2
      <4> QED BY ONLY <4>1, <4>3
    <3>2. CASE chans' = [chans EXCEPT ![i].users = rest]
      <4>1. /\ DOMAIN chans' = DOMAIN chans /\ Len(chans') = Len(chans)
            /\ \A j \in DOMAIN chans : chans'[j].id = chans[j].id
        BY ONLY TypeOK, i \in DOMAIN chans, <3>2, EditedIds
      <4> QED BY ONLY Dense, <4>1, SameIdsDense
    <3> QED BY <2>2, <3>1, <3>2 DEF Shrink
  <2>3. \/ UNCHANGED chans
        \/ \E i \in DOMAIN chans : \E rest : chans' = Shrink(i, rest)
    BY <1>4 DEF LeaveChannel, Reread, Fault, lists
  <2> QED BY <1>1, <2>1, <2>2, <2>3
<1>5. ASSUME NEW f \in Fds, Logout(f)
      PROVE  (Dense' \/ Len(chans') < Len(chans)) /\ (clash' => clash)
  <2>1. clash' = clash
    BY <1>5 DEF Logout, Fault, history
  <2> QED BY <1>5, <2>1, LogoutDense
<1>6. ASSUME NEW f \in Fds, NEW c \in ChanIds, GetUsers(f, c) \/ Send(f, c)
      PROVE  UNCHANGED <<chans, clash>>
  BY <1>6 DEF GetUsers, Send, Reread, Fault, lists, history
<1>7. ASSUME (\E fits, gone \in BOOLEAN : Login(fits, gone)) \/ EndLoop \/ UNCHANGED vars
      PROVE  UNCHANGED <<chans, clash>>
  BY <1>7 DEF Login, Fault, EndLoop, vars, lists, history
<1>8. ASSUME UNCHANGED <<chans, clash>>
      PROVE  (Dense' \/ Len(chans') < Len(chans)) /\ (clash' => clash)
  BY <1>1, <1>8
<1>9. \/ \E f \in Fds : CreateChannel(f) \/ Logout(f)
      \/ \E f \in Fds, c \in ChanIds : JoinChannel(f, c) \/ LeaveChannel(f, c)
      \/ UNCHANGED <<chans, clash>>
  <2>1. \/ (\E fits, gone \in BOOLEAN : Login(fits, gone)) \/ EndLoop \/ UNCHANGED vars
        \/ \E f \in Fds : CreateChannel(f) \/ Logout(f)
        \/ \E f \in Fds, c \in ChanIds : JoinChannel(f, c) \/ LeaveChannel(f, c)
        \/ \E f \in Fds : HangUp(f) \/ Drop(f)
        \/ \E f \in Fds, c \in ChanIds : GetUsers(f, c) \/ Send(f, c)
    BY ONLY [Next]_vars DEF Next
  <2>2. ASSUME NEW f \in Fds, HangUp(f) \/ Drop(f) PROVE UNCHANGED <<chans, clash>>
    BY <2>2 DEF HangUp, Drop, lists, history
  <2> QED BY ONLY <1>6, <1>7, <2>1, <2>2
<1> QED BY ONLY <1>2, <1>3, <1>4, <1>5, <1>8, <1>9

(* As long as no channel has been deleted, ids are unique: what is dense   *)
(* has no id twice, and only a step that deletes a channel leaves a gap.   *)
(* A new channel gets the id of another one only while there is a gap, so  *)
(* the conditions of View and Isolation hold until then.                   *)
UniqueUntilGap ==
  /\ Dense
  /\ [](Dense => UniqueChannelIds)
  /\ [][Dense => Dense' \/ Len(chans') < Len(chans)]_vars
  /\ [][clash' /\ ~ clash => ~ Dense]_vars

(* dir->length is a sound id for a directory that only grows, and deleting *)
(* a channel is the only cause of a clash.                                 *)
THEOREM ClashCause ==
  ASSUME IdsFit
  PROVE  Spec => UniqueUntilGap
<1>1. TypeOK /\ [Next]_vars => TypeOK'
  BY TypeStep
<1>2. TypeOK /\ [Next]_vars =>
        /\ [Dense => Dense' \/ Len(chans') < Len(chans)]_vars
        /\ [clash' /\ ~ clash => ~ Dense]_vars
  BY DenseStep
<1>3. Registered => (Dense => UniqueChannelIds)
  <2> SUFFICES ASSUME Registered, Dense, NEW i \in DOMAIN dir, NEW j \in DOMAIN dir, i # j
               PROVE  dir[i].id # dir[j].id
    BY DEF UniqueChannelIds
  <2>1. TypeOK
    BY DEF Registered
  <2>2. /\ DOMAIN dir = 1 .. Len(chans) + 1
        /\ \A k \in 1 .. Len(chans) : dir[k] = chans[k]
        /\ dir[Len(chans) + 1].id = GcId
        /\ Len(chans) \in Nat /\ DOMAIN chans = 1 .. Len(chans)
    BY <2>1, DirFacts
  <2>3. \A k \in 1 .. Len(chans) : dir[k].id = DirBase + Len(chans) - k /\ dir[k].id # GcId
    BY <2>2 DEF Dense, Registered, ChannelsSound, ChannelSound
  <2>4. DirBase \in Nat
    BY Constants
  <2>5. CASE i = Len(chans) + 1 \/ j = Len(chans) + 1
    BY ONLY <2>2, <2>3, <2>5, i \in DOMAIN dir, j \in DOMAIN dir, i # j
  <2>6. CASE i # Len(chans) + 1 /\ j # Len(chans) + 1
    <3>1. i \in 1 .. Len(chans) /\ j \in 1 .. Len(chans)
      BY ONLY <2>2, <2>6, i \in DOMAIN dir, j \in DOMAIN dir
    <3>2. dir[i].id = DirBase + Len(chans) - i /\ dir[j].id = DirBase + Len(chans) - j
      BY ONLY <2>3, <3>1
    <3> QED BY ONLY <2>2, <2>4, <3>1, <3>2, i # j
  <2> QED BY <2>5, <2>6
<1>4. Registered /\ [Next]_vars => Registered'
  BY RegisteredStep
<1>5. Init => TypeOK /\ Dense
  BY InitType DEF Init, Dense
<1> QED BY RegisteredInit, <1>1, <1>2, <1>3, <1>4, <1>5, PTL DEF Spec, UniqueUntilGap

(* While nobody's LEAVE_CHANNEL or LOGOUT deletes a channel, no two        *)
(* channels ever have the same id, and View and Isolation hold without     *)
(* their condition.                                                        *)
THEOREM GrowingDirectory ==
  ASSUME IdsFit
  PROVE  Spec /\ [][Len(chans') >= Len(chans)]_vars => [](UniqueChannelIds /\ ~ clash)
<1>1. Init => Dense /\ ~ clash
  BY DEF Init, Dense
<1>2. TypeOK /\ Dense /\ ~ clash /\ [Next]_vars /\ [Len(chans') >= Len(chans)]_vars
        => (Dense /\ ~ clash)'
  <2> SUFFICES ASSUME TypeOK, Dense, ~ clash, [Next]_vars, [Len(chans') >= Len(chans)]_vars
               PROVE  (Dense /\ ~ clash)'
    OBVIOUS
  <2>1. (Dense' \/ Len(chans') < Len(chans)) /\ (clash' => clash)
    BY DenseStep
  <2>2. CASE UNCHANGED vars
    BY <2>2 DEF vars, lists, history, Dense
  <2>3. CASE Len(chans') >= Len(chans)
    <3>1. Len(chans) \in Nat /\ Len(chans') \in Nat
      BY TypeStep DEF TypeOK
    <3>2. ~ (Len(chans') < Len(chans))
      BY ONLY <2>3, <3>1
    <3> QED BY <2>1, <3>2
  <2> QED BY <2>2, <2>3
<1> QED BY <1>1, <1>2, Typing, ClashCause, PTL DEF Spec, UniqueUntilGap
=============================================================================
